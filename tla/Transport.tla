------------------------------ MODULE Transport ------------------------------
(***************************************************************************)
(* Delivering one reply after the other to a client, with the injected     *)
(* transport faults: how DEBUG EVIL TRANSPORT settings become a plan for a *)
(* reply (transport.rs, connection_fault.rs), how the plan is carried out  *)
(* on a socket that takes short writes and fails, how the connection ends  *)
(* (connection.rs), and the repro record of it (proxy.rs).                 *)
(*                                                                         *)
(* A byte string is modelled by its length.  Random choices of a plan are  *)
(* nondeterministic.  chunk_ends is modelled as a set: the code keeps it   *)
(* strictly increasing and walks through it in that order.                 *)
(***************************************************************************)
EXTENDS Naturals, Sequences, FiniteSets

CONSTANTS
    MaxLen,          \* bound on the length of a reply
    ExtraLen,        \* length of EXTRA_REPLY (11 in the source)
    MaxExtra,        \* largest number of extra replies accepted (16)
    MaxBoundaries,   \* MAX_BOUNDARIES (64)
    OffsetLists,     \* offset lists a client may ask for as CHUNKS
    MaxOffset,       \* bound on the offsets asked for as TRUNCATE and AT
    StallTicks       \* duration of a stall, in steps of the clock

ASSUME LengthsAssumption ==
    /\ MaxLen \in Nat /\ ExtraLen \in Nat \ {0} /\ MaxExtra \in Nat
    /\ MaxBoundaries \in Nat /\ MaxOffset \in Nat
    /\ StallTicks \in Nat \ {0}
ASSUME OffsetListsAssumption == OffsetLists \subseteq Seq(Nat)

VARIABLES
    tcp,             \* the client is connected over TCP (supports_reset)
    config,          \* EvilConfig.transport
    pc,              \* where the delivery stands
    reply,           \* length of the reply before transport faults
    plan,            \* the DeliveryPlan of the reply
    wire,            \* length of the planned wire bytes
    mutated,         \* the reply carries RESP mutations
    start, end,      \* the chunk being written
    outcome,         \* DeliveryOutcome
    failed,          \* result is an error
    ticks,           \* time left of a stall
    socket,          \* what the client sees: open, shut (half-closed), closed, reset
    recorded         \* a repro record was written for this reply

vars == <<tcp, config, pc, reply, plan, wire, mutated, start, end, outcome, failed,
          ticks, socket, recorded>>

-----------------------------------------------------------------------------
(* Settings. *)

Off == [kind |-> "OFF", at |-> 0]
Random == [kind |-> "RANDOM", at |-> 0]
At(n) == [kind |-> "AT", at |-> n]

Cuts == {Off, Random} \cup {At(n) : n \in 0..MaxOffset}

ChunkSettings == {[kind |-> k, offsets |-> << >>] : k \in {"OFF", "RANDOM"}}
                 \cup {[kind |-> "AT", offsets |-> s] : s \in OffsetLists}

Actions == {"OFF", "CLOSE", "RESET", "STALL"}
Points == {[kind |-> k, at |-> 0] : k \in {"BEFORE", "AFTER", "REPLY", "RANDOM"}}
          \cup {[kind |-> "BYTES", at |-> n] : n \in 0..MaxOffset}

\* Probability 0, 100, and anything between.
Probabilities == {"NEVER", "SOMETIMES", "ALWAYS"}

Configs == [truncate : Cuts, extra : 0..(MaxExtra + 1), chunks : ChunkSettings,
            probability : Probabilities, action : Actions, point : Points]

DefaultConfig ==
    [truncate |-> Off, extra |-> 0,
     chunks |-> [kind |-> "OFF", offsets |-> << >>],
     probability |-> "ALWAYS", action |-> "OFF",
     point |-> [kind |-> "AFTER", at |-> 0]]

StrictlyIncreasing(s) ==
    \A i \in 1..Len(s) : s[i] > 0 /\ \A j \in 1..(i - 1) : s[j] < s[i]

\* TransportConfig::updated, without the tests on the shape of the command.
Accepted(c) ==
    /\ c.extra <= MaxExtra
    /\ Len(c.chunks.offsets) <= MaxBoundaries
    /\ StrictlyIncreasing(c.chunks.offsets)
    /\ c.action = "OFF" \/ c.truncate = Off

\* apply_debug_evil takes FAULT RESET back on a client that is not TCP.
Supported(c) == c.action = "RESET" => tcp

Enabled(c) ==
    c.action # "OFF" \/ c.truncate # Off \/ c.extra # 0 \/ c.chunks.kind # "OFF"

-----------------------------------------------------------------------------
(* Plans. *)

Least(a, b) == IF a <= b THEN a ELSE b

Plain(len) ==
    [extra |-> 0, truncated |-> FALSE, at |-> 0,
     ends |-> IF len = 0 THEN {} ELSE {len}, fault |-> "OFF", after |-> 0]

\* gen_bool for a probability.
Draw(c) ==
    CASE c.probability = "NEVER" -> {FALSE}
      [] c.probability = "SOMETIMES" -> BOOLEAN
      [] c.probability = "ALWAYS" -> {TRUE}

Total(len, extra) == len + extra * ExtraLen

\* The cut-offs a setting allows in a reply of total bytes; none if empty.
CutPoints(c, total) ==
    CASE c.truncate.kind = "OFF" -> {}
      [] c.truncate.kind = "AT" -> {n \in {c.truncate.at} : n < total}
      [] c.truncate.kind = "RANDOM" -> {n \in 0..total : n < total}

\* The sets of chunk boundaries inside a wire string of n bytes.
BoundarySets(c, n) ==
    CASE c.chunks.kind = "OFF" -> {{}}
      [] c.chunks.kind = "AT" ->
             {{c.chunks.offsets[i] : i \in
                   {j \in 1..Len(c.chunks.offsets) : c.chunks.offsets[j] < n}}}
      [] c.chunks.kind = "RANDOM" ->
             IF n > 1 THEN {b \in SUBSET {m \in 1..n : m < n} :
                                b # {} /\ Cardinality(b) <= MaxBoundaries}
             ELSE {{}}

Ends(b, n) == IF n > 0 THEN b \cup {n} ELSE b

CutPlan(c, n, b) ==
    [extra |-> c.extra, truncated |-> TRUE, at |-> n, ends |-> Ends(b, n),
     fault |-> "OFF", after |-> 0]

WholePlan(c, n, b) ==
    [extra |-> c.extra, truncated |-> FALSE, at |-> 0, ends |-> Ends(b, n),
     fault |-> "OFF", after |-> 0]

\* delivery_plan: the plans without a connection fault.
DeliveryPlans(c, len) ==
    LET total == Total(len, c.extra)
        cuts == CutPoints(c, total)
        shaped == IF cuts = {}
                  THEN {WholePlan(c, total, b) : b \in BoundarySets(c, total)}
                  ELSE UNION {{CutPlan(c, n, b) : b \in BoundarySets(c, n)} : n \in cuts}
    IN  (IF TRUE \in Draw(c) THEN shaped ELSE {})
            \cup (IF FALSE \in Draw(c) THEN {Plain(len)} ELSE {})

\* FaultConfig::plan: after how many bytes the connection fails; none if the
\* offset asked for lies beyond the reply.
FaultOffsets(c, n) ==
    CASE c.point.kind \in {"BEFORE", "AFTER"} -> {0}
      [] c.point.kind = "REPLY" -> {n}
      [] c.point.kind = "RANDOM" -> {m \in 0..n : m < n \/ n = 0}
      [] c.point.kind = "BYTES" -> {m \in {c.point.at} : m <= n}

\* Mutant: the chunks behind the fault are kept.
SetFaultKeepingChunks(p, action, after) ==
    [p EXCEPT !.ends = p.ends \cup (IF after > 0 THEN {after} ELSE {}),
              !.fault = action, !.after = after]

\* DeliveryPlan::set_fault.
SetFault(p, action, after) ==
    [p EXCEPT !.ends = {e \in p.ends : e < after}
                           \cup (IF after > 0 THEN {after} ELSE {}),
              !.fault = action, !.after = after]

\* What becomes of a plan when a fault may be added to a wire string of n bytes.
Faulted(c, p, n) ==
    (IF c.action # "OFF" /\ TRUE \in Draw(c)
     THEN {SetFault(p, c.action, a) : a \in FaultOffsets(c, n)} ELSE {})
    \cup
    (IF c.action = "OFF" \/ FALSE \in Draw(c) \/ FaultOffsets(c, n) = {}
     THEN {p} ELSE {})

\* TransportConfig::plan, and before_plan, which needs no reply.
ReplyPlans(c, len) ==
    IF c.point.kind = "BEFORE" THEN DeliveryPlans(c, len)
    ELSE UNION {Faulted(c, p, Total(len, p.extra)) : p \in DeliveryPlans(c, len)}

BeforePlans(c) ==
    IF c.point.kind = "BEFORE" /\ c.action # "OFF" /\ TRUE \in Draw(c)
    THEN {SetFault(Plain(0), c.action, 0)} ELSE {}

MustFailBefore(c) == BeforePlans(c) # {} /\ Draw(c) = {TRUE}

\* DeliveryPlan::wire_bytes, as a length.
WireLen(p, len) ==
    LET total == Total(len, p.extra)
        cut == IF p.truncated THEN Least(p.at, total) ELSE total
    IN  IF p.fault # "OFF" THEN Least(p.after, cut) ELSE cut

IsFault(p) ==
    p.fault # "OFF" \/ p.extra # 0 \/ p.truncated \/ \E e, f \in p.ends : e # f

-----------------------------------------------------------------------------
NewOutcome ==
    [bytes_written |-> 0, completed_chunks |-> 0, shutdown_completed |-> FALSE,
     fault_completed |-> FALSE, stall_end |-> "none", error_stage |-> "none",
     error_kind |-> FALSE]

Init ==
    /\ tcp \in BOOLEAN
    /\ config = DefaultConfig
    /\ pc = "idle"
    /\ reply = 0 /\ plan = Plain(0) /\ wire = 0 /\ mutated = FALSE
    /\ start = 0 /\ end = 0
    /\ outcome = NewOutcome /\ failed = FALSE
    /\ ticks = 0
    /\ socket = "open"
    /\ recorded = FALSE

\* What one option of DEBUG EVIL TRANSPORT asks for.  A command with several
\* options is judged by its result, which the options one by one reach as well.
Updates(c) ==
    {DefaultConfig}
    \cup {[c EXCEPT !.truncate = v] : v \in Cuts}
    \cup {[c EXCEPT !.extra = v] : v \in 0..(MaxExtra + 1)}
    \cup {[c EXCEPT !.chunks = v] : v \in ChunkSettings}
    \cup {[c EXCEPT !.probability = v] : v \in Probabilities}
    \cup {[c EXCEPT !.action = v] : v \in Actions}
    \cup {[c EXCEPT !.point = v] : v \in Points}

\* DEBUG EVIL TRANSPORT: the new settings, or an error and no change.
Configure(c) ==
    /\ pc = "idle"
    /\ Accepted(c) /\ Supported(c)
    /\ config' = c
    /\ UNCHANGED <<tcp, pc, reply, plan, wire, mutated, start, end, outcome,
                   failed, ticks, socket, recorded>>

Begin(p, len, m) ==
    /\ reply' = len
    /\ plan' = p
    /\ wire' = WireLen(p, len)
    /\ mutated' = m
    /\ start' = 0 /\ end' = 0
    /\ outcome' = NewOutcome /\ failed' = FALSE
    /\ recorded' = FALSE
    /\ pc' = "chunk"
    /\ UNCHANGED <<tcp, config, ticks, socket>>

\* A forwarded command is answered with a reply of len bytes.  Transport faults
\* apply to the commands the evil filters select.
Answer(len, m, selected) ==
    /\ pc = "idle"
    /\ IF selected /\ Enabled(config)
       THEN ~MustFailBefore(config) /\ \E p \in ReplyPlans(config, len) : Begin(p, len, m)
       ELSE Begin(Plain(len), len, m)

\* A command whose connection fails before it is forwarded.
FailBefore ==
    /\ pc = "idle"
    /\ \E p \in BeforePlans(config) : Begin(p, 0, FALSE)

-----------------------------------------------------------------------------
(* deliver. *)

Stage(s) == [outcome EXCEPT !.error_stage = s]

\* The next chunk runs from start to the next end.
NextChunk(e) ==
    /\ pc = "chunk"
    /\ e \in plan.ends /\ e > start
    /\ \A f \in plan.ends : f > start => e <= f
    /\ end' = e
    /\ outcome' = Stage("write")
    /\ pc' = "write"
    /\ UNCHANGED <<tcp, config, reply, plan, wire, mutated, start, failed, ticks,
                   socket, recorded>>

\* The socket takes n of the remaining bytes of the chunk.
Write(n) ==
    /\ pc = "write"
    /\ n >= 1 /\ outcome.bytes_written + n <= end
    /\ LET written == [outcome EXCEPT !.bytes_written = @ + n]
           done == written.bytes_written = end
       IN  /\ outcome' = IF done THEN [written EXCEPT !.error_stage = "flush"]
                         ELSE written
           /\ pc' = IF done THEN "flush" ELSE "write"
    /\ UNCHANGED <<tcp, config, reply, plan, wire, mutated, start, end, failed, ticks,
                   socket, recorded>>

\* Mutant: completed chunks are not counted.
FlushUncounted ==
    /\ pc = "flush"
    /\ start' = end
    /\ pc' = "chunk"
    /\ UNCHANGED <<tcp, config, reply, plan, wire, mutated, end, outcome, failed,
                   ticks, socket, recorded>>

Flush ==
    /\ pc = "flush"
    /\ outcome' = [outcome EXCEPT !.completed_chunks = @ + 1]
    /\ start' = end
    /\ pc' = "chunk"
    /\ UNCHANGED <<tcp, config, reply, plan, wire, mutated, end, failed, ticks, socket,
                   recorded>>

ChunksDone == \A e \in plan.ends : e <= start

\* After the last chunk a truncated reply is followed by a shutdown.
StartShutdown ==
    /\ pc = "chunk" /\ ChunksDone
    /\ plan.truncated
    /\ outcome' = Stage("shutdown")
    /\ pc' = "shutdown"
    /\ UNCHANGED <<tcp, config, reply, plan, wire, mutated, start, end, failed, ticks,
                   socket, recorded>>

Shutdown ==
    /\ pc = "shutdown"
    /\ outcome' = [outcome EXCEPT !.shutdown_completed = TRUE, !.error_stage = "none"]
    /\ socket' = "shut"
    /\ pc' = "delivered"
    /\ UNCHANGED <<tcp, config, reply, plan, wire, mutated, start, end, failed, ticks,
                   recorded>>

Complete ==
    /\ pc = "chunk" /\ ChunksDone
    /\ ~plan.truncated
    /\ outcome' = Stage("none")
    /\ pc' = "delivered"
    /\ UNCHANGED <<tcp, config, reply, plan, wire, mutated, start, end, failed, ticks,
                   socket, recorded>>

\* Mutant: the error is swallowed.
DeliveryErrorIgnored ==
    /\ pc \in {"write", "flush", "shutdown"}
    /\ outcome' = Stage("none")
    /\ pc' = "delivered"
    /\ UNCHANGED <<tcp, config, reply, plan, wire, mutated, start, end, failed,
                   ticks, socket, recorded>>

\* A write, flush or shutdown fails, or a write makes no progress.
DeliveryError ==
    /\ pc \in {"write", "flush", "shutdown"}
    /\ outcome' = [outcome EXCEPT !.error_kind = TRUE]
    /\ failed' = TRUE
    /\ pc' = "delivered"
    /\ UNCHANGED <<tcp, config, reply, plan, wire, mutated, start, end, ticks, socket,
                   recorded>>

-----------------------------------------------------------------------------
(* finish_fault. *)

BeginFault ==
    /\ pc = "delivered"
    /\ plan.fault # "OFF" /\ ~failed
    /\ \/ /\ plan.fault = "STALL"
          /\ outcome' = Stage("stall")
          /\ ticks' = StallTicks
          /\ pc' = "stall"
       \/ /\ plan.fault = "CLOSE"
          /\ outcome' = Stage("shutdown")
          /\ ticks' = ticks
          /\ pc' = "fault_shutdown"
       \/ /\ plan.fault = "RESET"
          /\ outcome' = Stage("reset")
          /\ ticks' = ticks
          /\ pc' = "reset"
    /\ UNCHANGED <<tcp, config, reply, plan, wire, mutated, start, end, failed, socket,
                   recorded>>

Tick ==
    /\ pc = "stall"
    /\ ticks > 0
    /\ ticks' = ticks - 1
    /\ UNCHANGED <<tcp, config, pc, reply, plan, wire, mutated, start, end, outcome,
                   failed, socket, recorded>>

\* Mutant: the deadline starts anew with every read.
StallReadRestarts ==
    /\ pc = "stall"
    /\ ticks > 0
    /\ ticks' = StallTicks
    /\ UNCHANGED <<tcp, config, pc, reply, plan, wire, mutated, start, end,
                   outcome, failed, socket, recorded>>

\* While it stalls the task reads and discards what the client sends; the
\* deadline is set once and looked at first.
StallRead ==
    /\ pc = "stall"
    /\ ticks > 0
    /\ UNCHANGED vars

EndStall(reason) ==
    /\ pc = "stall"
    /\ reason = "duration_elapsed" => ticks = 0
    /\ reason = "peer_closed" => ticks > 0
    /\ outcome' = [outcome EXCEPT !.stall_end = reason, !.error_stage = "shutdown"]
    /\ pc' = "fault_shutdown"
    /\ UNCHANGED <<tcp, config, reply, plan, wire, mutated, start, end, failed, ticks,
                   socket, recorded>>

FaultShutdown ==
    /\ pc = "fault_shutdown"
    /\ outcome' = [outcome EXCEPT !.shutdown_completed = TRUE,
                                  !.fault_completed = TRUE, !.error_stage = "none"]
    /\ socket' = "closed"
    /\ pc' = "record"
    /\ UNCHANGED <<tcp, config, reply, plan, wire, mutated, start, end, failed, ticks,
                   recorded>>

\* prepare_reset works on TCP only; the drop of the socket then sends RST.
FaultReset ==
    /\ pc = "reset" /\ tcp
    /\ outcome' = [outcome EXCEPT !.fault_completed = TRUE, !.error_stage = "none"]
    /\ socket' = "reset"
    /\ pc' = "record"
    /\ UNCHANGED <<tcp, config, reply, plan, wire, mutated, start, end, failed, ticks,
                   recorded>>

\* The stall's read, the shutdown or prepare_reset fails; the socket is dropped.
FaultError ==
    /\ \/ pc = "stall" /\ ticks > 0
       \/ pc \in {"fault_shutdown", "reset"}
    /\ outcome' = [outcome EXCEPT !.error_kind = TRUE]
    /\ failed' = TRUE
    /\ socket' = "closed"
    /\ pc' = "record"
    /\ UNCHANGED <<tcp, config, reply, plan, wire, mutated, start, end, ticks, recorded>>

\* Delivery itself failed: the halves are dropped without the fault.
DropHalves ==
    /\ pc = "delivered"
    /\ plan.fault # "OFF" /\ failed
    /\ socket' = "closed"
    /\ pc' = "record"
    /\ UNCHANGED <<tcp, config, reply, plan, wire, mutated, start, end, outcome, failed,
                   ticks, recorded>>

RecordNeeded == mutated \/ IsFault(plan) \/ failed

\* Mutant: the loop goes on after a truncated reply.
EndsWithoutTruncation == plan.fault # "OFF" \/ failed

EndsConnection == plan.fault # "OFF" \/ failed \/ plan.truncated

\* The repro record is written if the reply calls for one; with a connection
\* fault only after the socket is gone.
Record ==
    /\ pc = "record" \/ (pc = "delivered" /\ plan.fault = "OFF")
    /\ recorded' = RecordNeeded
    /\ pc' = "recorded"
    /\ UNCHANGED <<tcp, config, reply, plan, wire, mutated, start, end, outcome,
                   failed, ticks, socket>>

\* The end of the loop body, where its locals go out of scope; leaving the loop
\* drops the socket.
EndOfCommand ==
    /\ pc = "recorded"
    /\ pc' = IF EndsConnection THEN "closed" ELSE "idle"
    /\ socket' = IF EndsConnection /\ socket \in {"open", "shut"}
                 THEN "closed" ELSE socket
    /\ reply' = 0 /\ plan' = Plain(0) /\ wire' = 0 /\ mutated' = FALSE
    /\ start' = 0 /\ end' = 0
    /\ outcome' = NewOutcome /\ failed' = FALSE
    /\ ticks' = 0
    /\ recorded' = FALSE
    /\ UNCHANGED <<tcp, config>>

-----------------------------------------------------------------------------
Deliver ==
    \/ \E e \in plan.ends : NextChunk(e)
    \/ \E n \in 1..wire : Write(n)
    \/ Flush \/ StartShutdown \/ Shutdown \/ Complete \/ DeliveryError

FinishFault ==
    \/ BeginFault \/ Tick \/ StallRead
    \/ \E r \in {"duration_elapsed", "peer_closed"} : EndStall(r)
    \/ FaultShutdown \/ FaultReset \/ FaultError \/ DropHalves

Next ==
    \/ \E c \in Updates(config) : Configure(c)
    \/ \E len \in 1..MaxLen, m, selected \in BOOLEAN : Answer(len, m, selected)
    \/ FailBefore
    \/ Deliver
    \/ FinishFault
    \/ Record \/ EndOfCommand

Spec == Init /\ [][Next]_vars

\* The clock advances and an expired deadline is acted on.
FairSpec == Spec /\ WF_vars(Tick) /\ WF_vars(EndStall("duration_elapsed"))

-----------------------------------------------------------------------------
(* Properties. *)

Plans == [extra : Nat, truncated : BOOLEAN, at : Nat, ends : SUBSET Nat,
          fault : Actions, after : Nat]

Outcomes == [bytes_written : Nat, completed_chunks : Nat,
             shutdown_completed : BOOLEAN, fault_completed : BOOLEAN,
             stall_end : {"none", "duration_elapsed", "peer_closed"},
             error_stage : {"none", "write", "flush", "shutdown", "stall", "reset"},
             error_kind : BOOLEAN]

PCs == {"idle", "chunk", "write", "flush", "shutdown", "delivered", "stall",
        "fault_shutdown", "reset", "record", "recorded", "closed"}

TypeOK ==
    /\ tcp \in BOOLEAN
    /\ config \in Configs
    /\ pc \in PCs
    /\ reply \in Nat /\ plan \in Plans /\ wire \in Nat /\ mutated \in BOOLEAN
    /\ start \in Nat /\ end \in Nat
    /\ outcome \in Outcomes /\ failed \in BOOLEAN
    /\ ticks \in Nat
    /\ socket \in {"open", "shut", "closed", "reset"}
    /\ recorded \in BOOLEAN

Tiles(ends, n) ==
    /\ \A e \in ends : 0 < e /\ e <= n
    /\ n > 0 => n \in ends

\* The chunks of a plan tile the wire bytes: every end lies within them (a
\* slice beyond them would panic) and the last one is their end.
ChunksTileWire == Tiles(plan.ends, wire)

\* deliver counts exactly what the socket took, and stays in the chunk at hand.
WrittenWithinChunk ==
    /\ pc = "chunk" => outcome.bytes_written = start /\ start <= wire
    /\ pc = "write" => /\ start <= outcome.bytes_written
                       /\ outcome.bytes_written < end /\ end \in plan.ends
    /\ pc = "flush" => outcome.bytes_written = end /\ end \in plan.ends
    /\ outcome.bytes_written <= wire

\* A delivery that reports no error has put all planned bytes on the wire.
SuccessIsComplete ==
    pc \in {"shutdown", "stall", "fault_shutdown", "reset"}
    \/ (pc \in {"delivered", "record", "recorded"} /\ ~failed)
        => outcome.bytes_written = wire

\* A client whose connection goes on after a reply got the whole reply, and the
\* extra replies of the plan behind it: no fault leaves a partial reply on a
\* connection that stays open.
SurvivingClientInSync ==
    [][pc = "recorded" /\ pc' = "idle" =>
           /\ outcome.bytes_written = reply + plan.extra * ExtraLen
           /\ socket = "open"]_vars

\* The repro record tells what happened: an error stage exactly when something
\* failed, a completed fault only when its socket is gone and all its bytes
\* were written, all chunks completed unless there was an error.  And it is
\* written after the client has seen the end of the connection, since the
\* append may take any time.
OutcomeTruthful ==
    /\ pc = "record" => socket \in {"closed", "reset"}
    /\ pc = "recorded" =>
        /\ failed = outcome.error_kind
        /\ failed <=> outcome.error_stage # "none"
        /\ outcome.fault_completed <=> (plan.fault # "OFF" /\ ~failed)
        /\ ~failed => outcome.completed_chunks = Cardinality(plan.ends)
        /\ outcome.stall_end # "none" => plan.fault = "STALL"
        /\ socket = "reset" <=> (plan.fault = "RESET" /\ ~failed)

\* A stall ends, even if the client keeps sending.
StallBounded == pc = "stall" ~> pc # "stall"
=============================================================================
