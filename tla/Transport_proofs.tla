--------------------------- MODULE Transport_proofs ---------------------------
(***************************************************************************)
(* Proofs about Transport: for replies and settings of any size the plan's *)
(* chunks tile the wire bytes, delivery stays inside them, and a client    *)
(* whose connection goes on has received the whole reply.                  *)
(***************************************************************************)
EXTENDS Transport, FiniteSetTheorems, TLAPS

-----------------------------------------------------------------------------
(* Plans. *)

\* The length of a reply with its extra replies is a number.
LEMMA TotalNat ==
    ASSUME NEW len \in Nat, NEW extra \in Nat
    PROVE  Total(len, extra) \in Nat /\ Total(len, extra) >= len
<1>1. ExtraLen \in Nat
  BY LengthsAssumption
<1>2. extra * ExtraLen \in Nat
  BY <1>1
<1> QED
  BY <1>2 DEF Total

\* Chunk boundaries lie strictly inside the wire bytes.
LEMMA BoundariesInside ==
    ASSUME NEW c \in Configs, Accepted(c), NEW n \in Nat,
           NEW b \in BoundarySets(c, n), NEW e \in b
    PROVE  e \in Nat /\ 0 < e /\ e < n
<1>1. c.chunks \in ChunkSettings
  BY DEF Configs
<1>2. c.chunks.offsets \in Seq(Nat)
  <2>1. << >> \in Seq(Nat)
    OBVIOUS
  <2>2. \/ c.chunks.offsets = << >>
        \/ c.chunks.offsets \in OffsetLists
    BY <1>1 DEF ChunkSettings
  <2> QED
    BY <2>1, <2>2, OffsetListsAssumption
<1>3. CASE c.chunks.kind = "OFF"
  BY <1>3 DEF BoundarySets
<1>4. CASE c.chunks.kind = "AT"
  <2>1. PICK i \in 1..Len(c.chunks.offsets) :
            e = c.chunks.offsets[i] /\ c.chunks.offsets[i] < n
    BY <1>4 DEF BoundarySets
  <2> QED
    BY <1>2, <2>1 DEF Accepted, StrictlyIncreasing
<1>5. CASE c.chunks.kind = "RANDOM"
  <2>1. b = {} \/ b \subseteq {m \in 1..n : m < n}
    BY <1>5 DEF BoundarySets
  <2> QED
    BY <2>1
<1> QED
  BY <1>1, <1>3, <1>4, <1>5 DEF ChunkSettings

\* Boundaries and the final end tile the wire bytes.
LEMMA EndsTile ==
    ASSUME NEW c \in Configs, Accepted(c), NEW n \in Nat,
           NEW b \in BoundarySets(c, n)
    PROVE  Ends(b, n) \subseteq Nat /\ Tiles(Ends(b, n), n)
  BY BoundariesInside DEF Ends, Tiles

\* The wire bytes of a plan before a connection fault.
Cut(p, len) == IF p.truncated THEN p.at ELSE Total(len, p.extra)

\* A plan of delivery_plan tiles its wire bytes, and cuts only if TRUNCATE is on.
LEMMA DeliveryPlansTile ==
    ASSUME NEW c \in Configs, Accepted(c), NEW len \in Nat,
           NEW p \in DeliveryPlans(c, len)
    PROVE  /\ p \in Plans /\ p.fault = "OFF"
           /\ p.truncated => p.at <= Total(len, p.extra) /\ c.truncate # Off
           /\ Tiles(p.ends, Cut(p, len))
<1> DEFINE total == Total(len, c.extra)
<1>1. c.extra \in Nat /\ total \in Nat /\ c.truncate \in Cuts
  BY TotalNat, LengthsAssumption DEF Configs
<1>2. CASE p = Plain(len)
  <2>1. Total(len, 0) = len
    BY LengthsAssumption DEF Total
  <2> QED
    BY <1>2, <2>1 DEF Plain, Plans, Actions, Tiles, Cut
<1>3. ASSUME NEW b \in BoundarySets(c, total), p = WholePlan(c, total, b)
      PROVE  /\ p \in Plans /\ p.fault = "OFF" /\ ~p.truncated
             /\ Tiles(p.ends, Cut(p, len))
  BY <1>1, <1>3, EndsTile DEF WholePlan, Plans, Actions, Cut
<1>4. ASSUME NEW n \in CutPoints(c, total), NEW b \in BoundarySets(c, n),
             p = CutPlan(c, n, b)
      PROVE  /\ p \in Plans /\ p.fault = "OFF" /\ c.truncate # Off
             /\ p.at <= Total(len, p.extra)
             /\ Tiles(p.ends, Cut(p, len))
  <2>1. c.truncate # Off /\ n \in Nat /\ n < total
    BY <1>1, LengthsAssumption DEF CutPoints, Cuts, Off, Random, At
  <2>2. Ends(b, n) \subseteq Nat /\ Tiles(Ends(b, n), n)
    BY <2>1, EndsTile
  <2> QED
    BY <1>1, <1>4, <2>1, <2>2 DEF CutPlan, Plans, Actions, Cut
<1>5. \/ p = Plain(len)
      \/ \E b \in BoundarySets(c, total) : p = WholePlan(c, total, b)
      \/ \E n \in CutPoints(c, total) : \E b \in BoundarySets(c, n) : p = CutPlan(c, n, b)
  BY DEF DeliveryPlans
<1> QED
  BY <1>2, <1>3, <1>4, <1>5, TotalNat DEF Plain

\* Adding a fault within the wire bytes of an uncut plan keeps it tiled.
LEMMA SetFaultTiles ==
    ASSUME NEW p \in Plans, ~p.truncated, NEW len \in Nat,
           Tiles(p.ends, Total(len, p.extra)),
           NEW action \in Actions \ {"OFF"},
           NEW a \in 0..Total(len, p.extra)
    PROVE  /\ SetFault(p, action, a) \in Plans
           /\ WireLen(SetFault(p, action, a), len) = a
           /\ Tiles(SetFault(p, action, a).ends, a)
<1> DEFINE q == SetFault(p, action, a)
<1>1. Total(len, p.extra) \in Nat
  BY TotalNat DEF Plans
<1>2. /\ q.ends = {e \in p.ends : e < a} \cup (IF a > 0 THEN {a} ELSE {})
      /\ q.fault = action /\ q.after = a /\ q.extra = p.extra
      /\ q.truncated = p.truncated /\ q.at = p.at
  BY DEF SetFault, Plans
<1> DEFINE ends == {e \in p.ends : e < a} \cup (IF a > 0 THEN {a} ELSE {})
<1>3. a \in Nat /\ p.ends \subseteq Nat
  BY <1>1 DEF Plans
<1>4. ends \in SUBSET Nat /\ Tiles(ends, a)
  <2>1. \A e \in ends : e \in Nat /\ 0 < e /\ e <= a
    BY <1>3 DEF Tiles
  <2>2. a > 0 => a \in ends
    OBVIOUS
  <2> QED
    BY <2>1, <2>2 DEF Tiles
<1>5. q \in Plans
  <2>1. q = [p EXCEPT !.ends = ends, !.fault = action, !.after = a]
    BY DEF SetFault
  <2> HIDE DEF ends
  <2> QED
    BY <1>3, <1>4, <2>1 DEF Plans
<1>6. WireLen(q, len) = a
  BY <1>1, <1>2 DEF WireLen, Least
<1> QED
  BY <1>2, <1>4, <1>5, <1>6

\* A well-formed plan for a reply of len bytes.
Good(p, len) ==
    /\ p \in Plans
    /\ WireLen(p, len) \in Nat
    /\ Tiles(p.ends, WireLen(p, len))
    /\ (p.fault = "OFF" /\ ~p.truncated) => WireLen(p, len) = Total(len, p.extra)

\* Plans without a fault are well formed.
LEMMA DeliveryPlansGood ==
    ASSUME NEW c \in Configs, Accepted(c), NEW len \in Nat,
           NEW p \in DeliveryPlans(c, len)
    PROVE  Good(p, len)
<1>1. /\ p \in Plans /\ p.fault = "OFF"
      /\ p.truncated => p.at <= Total(len, p.extra)
      /\ Tiles(p.ends, Cut(p, len))
  BY DeliveryPlansTile
<1>2. Total(len, p.extra) \in Nat /\ p.at \in Nat
  BY <1>1, TotalNat DEF Plans
<1>3. WireLen(p, len) = Cut(p, len)
  BY <1>1, <1>2 DEF WireLen, Cut, Least
<1> QED
  BY <1>1, <1>2, <1>3 DEF Good, Cut

\* The offset of a fault lies within the wire bytes.
LEMMA FaultOffsetsWithin ==
    ASSUME NEW c \in Configs, NEW n \in Nat, NEW a \in FaultOffsets(c, n)
    PROVE  a \in 0..n
<1>1. c.point \in Points
  BY DEF Configs
<1> QED
  BY <1>1, LengthsAssumption DEF FaultOffsets, Points

\* Every plan for a reply is well formed.
LEMMA ReplyPlansGood ==
    ASSUME NEW c \in Configs, Accepted(c), NEW len \in Nat,
           NEW p \in ReplyPlans(c, len)
    PROVE  Good(p, len)
<1>1. CASE c.point.kind = "BEFORE"
  BY <1>1, DeliveryPlansGood DEF ReplyPlans
<1>2. CASE c.point.kind # "BEFORE"
  <2>1. PICK q \in DeliveryPlans(c, len) : p \in Faulted(c, q, Total(len, q.extra))
    BY <1>2 DEF ReplyPlans
  <2>2. /\ q \in Plans /\ Good(q, len)
        /\ q.truncated => c.truncate # Off
        /\ Tiles(q.ends, Cut(q, len))
    BY <2>1, DeliveryPlansTile, DeliveryPlansGood
  <2>3. CASE p = q
    BY <2>2, <2>3
  <2>4. ASSUME c.action # "OFF", NEW a \in FaultOffsets(c, Total(len, q.extra)),
               p = SetFault(q, c.action, a)
        PROVE  Good(p, len)
    <3>1. ~q.truncated
      BY <2>2, <2>4 DEF Accepted
    <3>2. Tiles(q.ends, Total(len, q.extra))
      BY <2>2, <3>1 DEF Cut
    <3>3. a \in 0..Total(len, q.extra) /\ Total(len, q.extra) \in Nat
      BY <2>2, <2>4, TotalNat, FaultOffsetsWithin DEF Plans
    <3>4. c.action \in Actions \ {"OFF"}
      BY <2>4 DEF Configs
    <3>5. p \in Plans /\ WireLen(p, len) = a /\ Tiles(p.ends, a)
      BY <2>2, <2>4, <3>1, <3>2, <3>3, <3>4, SetFaultTiles
    <3>6. p.fault # "OFF"
      BY <2>2, <2>4, <3>4 DEF SetFault, Plans
    <3> QED
      BY <3>3, <3>5, <3>6 DEF Good
  <2>5. \/ p = q
        \/ c.action # "OFF" /\ \E a \in FaultOffsets(c, Total(len, q.extra)) :
                                    p = SetFault(q, c.action, a)
    BY <2>1 DEF Faulted
  <2> QED
    BY <2>3, <2>4, <2>5
<1> QED
  BY <1>1, <1>2

\* So are the plain plan and the plan of a fault before the command.
LEMMA PlainGood ==
    ASSUME NEW len \in Nat
    PROVE  Good(Plain(len), len)
<1>1. Total(len, 0) = len
  BY LengthsAssumption DEF Total
<1> QED
  BY <1>1 DEF Good, Plain, Plans, Actions, WireLen, Tiles

\* A plan made before the command is forwarded is sound for a reply of no bytes.
LEMMA BeforePlansGood ==
    ASSUME NEW c \in Configs, NEW p \in BeforePlans(c)
    PROVE  Good(p, 0)
<1>1. c.action \in Actions \ {"OFF"} /\ p = SetFault(Plain(0), c.action, 0)
  BY DEF BeforePlans, Configs
<1>2. /\ Plain(0) \in Plans /\ ~Plain(0).truncated /\ Plain(0).extra = 0
      /\ Total(0, 0) = 0 /\ Tiles(Plain(0).ends, 0)
  BY LengthsAssumption DEF Plain, Plans, Actions, Tiles, Total
<1>3. p \in Plans /\ WireLen(p, 0) = 0 /\ Tiles(p.ends, 0)
  BY <1>1, <1>2, SetFaultTiles
<1>4. p.fault # "OFF"
  BY <1>1, <1>2 DEF SetFault, Plans
<1> QED
  BY <1>3, <1>4 DEF Good

-----------------------------------------------------------------------------
(* The inductive invariant. *)

PlanInv ==
    /\ Accepted(config)
    /\ Good(plan, reply)
    /\ wire = WireLen(plan, reply)

SocketInv ==
    /\ pc = "idle" => socket = "open"
    /\ pc = "shutdown" => plan.truncated
    /\ pc \in {"stall", "fault_shutdown", "reset", "record"} => plan.fault # "OFF"
    /\ (pc # "closed" /\ plan.fault = "OFF" /\ ~plan.truncated) => socket = "open"

Inv == TypeOK /\ PlanInv /\ WrittenWithinChunk /\ SuccessIsComplete /\ SocketInv

\* The settings are of their type from the start and after every command.
LEMMA DefaultConfigOK == DefaultConfig \in Configs /\ Accepted(DefaultConfig)
<1>1. << >> \in Seq(Nat) /\ Len(<< >>) = 0
  OBVIOUS
<1>2. /\ Off \in Cuts
      /\ [kind |-> "OFF", offsets |-> << >>] \in ChunkSettings
      /\ [kind |-> "AFTER", at |-> 0] \in Points
      /\ 0 \in 0..(MaxExtra + 1)
  BY LengthsAssumption DEF Cuts, ChunkSettings, Points
<1>3. DefaultConfig \in Configs
  BY <1>2 DEF DefaultConfig, Configs, Actions, Probabilities
<1> QED
  BY <1>1, <1>3, LengthsAssumption DEF DefaultConfig, Accepted, StrictlyIncreasing

\* Updated settings are settings.
LEMMA UpdatesTyped ==
    ASSUME NEW c \in Configs
    PROVE  Updates(c) \subseteq Configs
  BY DefaultConfigOK DEF Updates, Configs

\* The locals of a command that is over satisfy the invariant.
LEMMA IdlePlan ==
    /\ Plain(0) \in Plans /\ Good(Plain(0), 0) /\ WireLen(Plain(0), 0) = 0
    /\ NewOutcome \in Outcomes /\ NewOutcome.bytes_written = 0
    /\ Plain(0).fault = "OFF" /\ ~Plain(0).truncated
<1>1. Good(Plain(0), 0)
  BY PlainGood
<1>2. WireLen(Plain(0), 0) = 0
  BY LengthsAssumption DEF WireLen, Plain, Total
<1> QED
  BY <1>1, <1>2 DEF Good, NewOutcome, Outcomes, Plain

\* The initial state satisfies the invariant.
LEMMA InitInv == Init => Inv
<1> SUFFICES ASSUME Init PROVE Inv
  OBVIOUS
<1>1. TypeOK
  BY DefaultConfigOK, IdlePlan DEF Init, TypeOK, PCs
<1>2. PlanInv
  BY DefaultConfigOK, IdlePlan DEF Init, PlanInv
<1>3. WrittenWithinChunk /\ SuccessIsComplete /\ SocketInv
  BY IdlePlan DEF Init, WrittenWithinChunk, SuccessIsComplete, SocketInv
<1> QED
  BY <1>1, <1>2, <1>3 DEF Inv

\* A delivery starts from a well-formed plan.
LEMMA BeginInv ==
    ASSUME Inv, pc = "idle", NEW len \in Nat, NEW p, Good(p, len),
           NEW m \in BOOLEAN, Begin(p, len, m)
    PROVE  Inv'
<1>1. TypeOK'
  BY IdlePlan DEF Inv, TypeOK, Begin, PCs, Good
<1>2. PlanInv'
  BY DEF Inv, PlanInv, Begin
<1>3. WrittenWithinChunk'
  BY IdlePlan, <1>1 DEF Begin, WrittenWithinChunk, TypeOK
<1>4. SuccessIsComplete' /\ SocketInv'
  BY DEF Inv, Begin, SuccessIsComplete, SocketInv
<1> QED
  BY <1>1, <1>2, <1>3, <1>4 DEF Inv

\* Every step of a delivery, of the end of a connection and of the record
\* preserves the invariant.
LEMMA DeliveryInv ==
    ASSUME Inv, Deliver \/ FinishFault \/ Record
    PROVE  Inv'
<1> USE DEF Inv
<1>1. /\ TypeOK /\ PlanInv /\ WrittenWithinChunk /\ SuccessIsComplete /\ SocketInv
      /\ Tiles(plan.ends, wire) /\ plan \in Plans /\ outcome \in Outcomes
  BY DEF PlanInv, Good, TypeOK
<1>2. ASSUME NEW e \in plan.ends, NextChunk(e) PROVE Inv'
  <2>1. TypeOK' /\ PlanInv'
    BY <1>1, <1>2 DEF NextChunk, Stage, TypeOK, PlanInv, Outcomes, PCs, Plans
  <2>2. WrittenWithinChunk' /\ SuccessIsComplete'
    BY <1>1, <1>2 DEF NextChunk, Stage, TypeOK, Outcomes, Plans, Tiles, WrittenWithinChunk, SuccessIsComplete
  <2>3. SocketInv'
    BY <1>1, <1>2 DEF NextChunk, Stage, TypeOK, SocketInv
  <2> QED
    BY <2>1, <2>2, <2>3
<1>3. ASSUME NEW n \in 1..wire, Write(n) PROVE Inv'
  <2>1. TypeOK' /\ PlanInv'
    <3> DEFINE written == [outcome EXCEPT !.bytes_written = @ + n]
    <3>1. wire \in Nat /\ n \in Nat
      BY <1>1 DEF TypeOK
    <3>2. written \in Outcomes
      BY <1>1, <3>1 DEF Outcomes
    <3>3. [written EXCEPT !.error_stage = "flush"] \in Outcomes
      BY <3>2 DEF Outcomes
    <3>4. outcome' \in Outcomes /\ pc' \in PCs
      BY <1>3, <3>2, <3>3 DEF Write, PCs
    <3> QED
      BY <1>1, <1>3, <3>4 DEF Write, TypeOK, PlanInv
  <2>2. WrittenWithinChunk' /\ SuccessIsComplete'
    BY <1>1, <1>3 DEF Write, Stage, TypeOK, Outcomes, Plans, Tiles, WrittenWithinChunk, SuccessIsComplete
  <2>3. SocketInv'
    BY <1>1, <1>3 DEF Write, Stage, TypeOK, SocketInv
  <2> QED
    BY <2>1, <2>2, <2>3
<1>4. ASSUME Flush PROVE Inv'
  <2>1. TypeOK' /\ PlanInv'
    BY <1>1, <1>4, LengthsAssumption DEF Flush, Stage, TypeOK, PlanInv, Outcomes, PCs
  <2>2. WrittenWithinChunk' /\ SuccessIsComplete'
    BY <1>1, <1>4 DEF Flush, Stage, TypeOK, Outcomes, Plans, Tiles, WrittenWithinChunk, SuccessIsComplete
  <2>3. SocketInv'
    BY <1>1, <1>4 DEF Flush, Stage, TypeOK, SocketInv
  <2> QED
    BY <2>1, <2>2, <2>3
<1>5. ASSUME StartShutdown PROVE Inv'
  <2>1. TypeOK' /\ PlanInv'
    BY <1>1, <1>5, LengthsAssumption DEF StartShutdown, Stage, ChunksDone, TypeOK, PlanInv, Outcomes, PCs
  <2>2. WrittenWithinChunk' /\ SuccessIsComplete'
    BY <1>1, <1>5 DEF StartShutdown, Stage, ChunksDone, TypeOK, Outcomes, Plans, Tiles, WrittenWithinChunk, SuccessIsComplete
  <2>3. SocketInv'
    BY <1>1, <1>5 DEF StartShutdown, Stage, ChunksDone, TypeOK, SocketInv
  <2> QED
    BY <2>1, <2>2, <2>3
<1>6. ASSUME Shutdown PROVE Inv'
  <2>1. TypeOK' /\ PlanInv'
    BY <1>1, <1>6, LengthsAssumption DEF Shutdown, Stage, TypeOK, PlanInv, Outcomes, PCs
  <2>2. WrittenWithinChunk' /\ SuccessIsComplete'
    BY <1>1, <1>6 DEF Shutdown, Stage, TypeOK, Outcomes, Plans, Tiles, WrittenWithinChunk, SuccessIsComplete
  <2>3. SocketInv'
    BY <1>1, <1>6 DEF Shutdown, Stage, TypeOK, SocketInv
  <2> QED
    BY <2>1, <2>2, <2>3
<1>7. ASSUME Complete PROVE Inv'
  <2>1. TypeOK' /\ PlanInv'
    BY <1>1, <1>7, LengthsAssumption DEF Complete, Stage, ChunksDone, TypeOK, PlanInv, Outcomes, PCs
  <2>2. WrittenWithinChunk' /\ SuccessIsComplete'
    BY <1>1, <1>7 DEF Complete, Stage, ChunksDone, TypeOK, Outcomes, Plans, Tiles, WrittenWithinChunk, SuccessIsComplete
  <2>3. SocketInv'
    BY <1>1, <1>7 DEF Complete, Stage, ChunksDone, TypeOK, SocketInv
  <2> QED
    BY <2>1, <2>2, <2>3
<1>8. ASSUME DeliveryError PROVE Inv'
  <2>1. TypeOK' /\ PlanInv'
    BY <1>1, <1>8, LengthsAssumption DEF DeliveryError, Stage, TypeOK, PlanInv, Outcomes, PCs
  <2>2. WrittenWithinChunk' /\ SuccessIsComplete'
    BY <1>1, <1>8 DEF DeliveryError, Stage, TypeOK, Outcomes, Plans, Tiles, WrittenWithinChunk, SuccessIsComplete
  <2>3. SocketInv'
    BY <1>1, <1>8 DEF DeliveryError, Stage, TypeOK, SocketInv
  <2> QED
    BY <2>1, <2>2, <2>3
<1>9. ASSUME BeginFault PROVE Inv'
  <2>1. TypeOK' /\ PlanInv'
    BY <1>1, <1>9, LengthsAssumption DEF BeginFault, Stage, TypeOK, PlanInv, Outcomes, PCs
  <2>2. WrittenWithinChunk' /\ SuccessIsComplete'
    BY <1>1, <1>9 DEF BeginFault, Stage, TypeOK, Outcomes, Plans, Tiles, WrittenWithinChunk, SuccessIsComplete
  <2>3. SocketInv'
    BY <1>1, <1>9 DEF BeginFault, Stage, TypeOK, SocketInv
  <2> QED
    BY <2>1, <2>2, <2>3
<1>10. ASSUME Tick PROVE Inv'
  <2>1. TypeOK' /\ PlanInv'
    BY <1>1, <1>10, LengthsAssumption DEF Tick, Stage, TypeOK, PlanInv, Outcomes, PCs
  <2>2. WrittenWithinChunk' /\ SuccessIsComplete'
    BY <1>1, <1>10 DEF Tick, Stage, TypeOK, Outcomes, Plans, Tiles, WrittenWithinChunk, SuccessIsComplete
  <2>3. SocketInv'
    BY <1>1, <1>10 DEF Tick, Stage, TypeOK, SocketInv
  <2> QED
    BY <2>1, <2>2, <2>3
<1>11. ASSUME NEW r \in {"duration_elapsed", "peer_closed"}, EndStall(r) PROVE Inv'
  <2>1. TypeOK' /\ PlanInv'
    BY <1>1, <1>11, LengthsAssumption DEF EndStall, Stage, TypeOK, PlanInv, Outcomes, PCs
  <2>2. WrittenWithinChunk' /\ SuccessIsComplete'
    BY <1>1, <1>11 DEF EndStall, Stage, TypeOK, Outcomes, Plans, Tiles, WrittenWithinChunk, SuccessIsComplete
  <2>3. SocketInv'
    BY <1>1, <1>11 DEF EndStall, Stage, TypeOK, SocketInv
  <2> QED
    BY <2>1, <2>2, <2>3
<1>12. ASSUME FaultShutdown PROVE Inv'
  <2>1. TypeOK' /\ PlanInv'
    BY <1>1, <1>12, LengthsAssumption DEF FaultShutdown, Stage, TypeOK, PlanInv, Outcomes, PCs
  <2>2. WrittenWithinChunk' /\ SuccessIsComplete'
    BY <1>1, <1>12 DEF FaultShutdown, Stage, TypeOK, Outcomes, Plans, Tiles, WrittenWithinChunk, SuccessIsComplete
  <2>3. SocketInv'
    BY <1>1, <1>12 DEF FaultShutdown, Stage, TypeOK, SocketInv
  <2> QED
    BY <2>1, <2>2, <2>3
<1>13. ASSUME FaultReset PROVE Inv'
  <2>1. TypeOK' /\ PlanInv'
    BY <1>1, <1>13, LengthsAssumption DEF FaultReset, Stage, TypeOK, PlanInv, Outcomes, PCs
  <2>2. WrittenWithinChunk' /\ SuccessIsComplete'
    BY <1>1, <1>13 DEF FaultReset, Stage, TypeOK, Outcomes, Plans, Tiles, WrittenWithinChunk, SuccessIsComplete
  <2>3. SocketInv'
    BY <1>1, <1>13 DEF FaultReset, Stage, TypeOK, SocketInv
  <2> QED
    BY <2>1, <2>2, <2>3
<1>14. ASSUME FaultError PROVE Inv'
  <2>1. TypeOK' /\ PlanInv'
    BY <1>1, <1>14, LengthsAssumption DEF FaultError, Stage, TypeOK, PlanInv, Outcomes, PCs
  <2>2. WrittenWithinChunk' /\ SuccessIsComplete'
    BY <1>1, <1>14 DEF FaultError, Stage, TypeOK, Outcomes, Plans, Tiles, WrittenWithinChunk, SuccessIsComplete
  <2>3. SocketInv'
    BY <1>1, <1>14 DEF FaultError, Stage, TypeOK, SocketInv
  <2> QED
    BY <2>1, <2>2, <2>3
<1>15. ASSUME DropHalves PROVE Inv'
  <2>1. TypeOK' /\ PlanInv'
    BY <1>1, <1>15, LengthsAssumption DEF DropHalves, Stage, TypeOK, PlanInv, Outcomes, PCs
  <2>2. WrittenWithinChunk' /\ SuccessIsComplete'
    BY <1>1, <1>15 DEF DropHalves, Stage, TypeOK, Outcomes, Plans, Tiles, WrittenWithinChunk, SuccessIsComplete
  <2>3. SocketInv'
    BY <1>1, <1>15 DEF DropHalves, Stage, TypeOK, SocketInv
  <2> QED
    BY <2>1, <2>2, <2>3
<1>16. ASSUME Record PROVE Inv'
  <2>1. TypeOK' /\ PlanInv'
    <3>1. RecordNeeded \in BOOLEAN
      BY DEF RecordNeeded
    <3> QED
      BY <1>1, <1>16, <3>1 DEF Record, TypeOK, PlanInv, PCs
  <2>2. WrittenWithinChunk' /\ SuccessIsComplete'
    BY <1>1, <1>16 DEF Record, TypeOK, Outcomes, Plans, Tiles, WrittenWithinChunk, SuccessIsComplete
  <2>3. SocketInv'
    BY <1>1, <1>16 DEF Record, TypeOK, SocketInv
  <2> QED
    BY <2>1, <2>2, <2>3
<1>17. CASE StallRead
  BY <1>1, <1>17 DEF StallRead, vars, TypeOK, PlanInv, WrittenWithinChunk, SuccessIsComplete, SocketInv
<1> QED
  BY <1>2, <1>3, <1>4, <1>5, <1>6, <1>7, <1>8, <1>9, <1>10, <1>11, <1>12, <1>13, <1>14, <1>15, <1>16, <1>17 DEF Deliver, FinishFault

\* The end of a command: the locals are gone, and the connection with them
\* unless the reply was delivered without a fault.
LEMMA EndInv ==
    ASSUME Inv, EndOfCommand
    PROVE  Inv'
<1>1. TypeOK'
  BY IdlePlan DEF Inv, TypeOK, EndOfCommand, PCs
<1>2. PlanInv'
  BY IdlePlan DEF Inv, PlanInv, EndOfCommand
<1>3. WrittenWithinChunk'
  BY IdlePlan DEF EndOfCommand, WrittenWithinChunk
<1>4. SuccessIsComplete'
  BY DEF EndOfCommand, SuccessIsComplete
<1>5. SocketInv'
  BY DEF Inv, SocketInv, EndOfCommand, EndsConnection
<1> QED
  BY <1>1, <1>2, <1>3, <1>4, <1>5 DEF Inv

\* Every step preserves the invariant.
LEMMA NextInv == Inv /\ [Next]_vars => Inv'
<1> SUFFICES ASSUME Inv, [Next]_vars PROVE Inv'
  OBVIOUS
<1>1. config \in Configs /\ Accepted(config)
  BY DEF Inv, TypeOK, PlanInv
<1>2. ASSUME NEW c \in Updates(config), Configure(c) PROVE Inv'
  <2>1. c \in Configs
    BY <1>1, UpdatesTyped
  <2> QED
    BY <1>2, <2>1 DEF Inv, Configure, TypeOK, PlanInv, WrittenWithinChunk,
                      SuccessIsComplete, SocketInv
<1>3. ASSUME NEW len \in 1..MaxLen, NEW m \in BOOLEAN, NEW selected \in BOOLEAN,
             Answer(len, m, selected)
      PROVE  Inv'
  <2>1. len \in Nat /\ pc = "idle"
    BY <1>3, LengthsAssumption DEF Answer
  <2>2. PICK p : Begin(p, len, m) /\ (p \in ReplyPlans(config, len) \/ p = Plain(len))
    BY <1>3 DEF Answer
  <2>3. Good(p, len)
    BY <1>1, <2>1, <2>2, ReplyPlansGood, PlainGood
  <2> QED
    BY <2>1, <2>2, <2>3, BeginInv
<1>4. ASSUME FailBefore PROVE Inv'
  BY <1>1, <1>4, BeforePlansGood, BeginInv DEF FailBefore
<1>5. CASE UNCHANGED vars
  BY <1>5 DEF Inv, vars, TypeOK, PlanInv, WrittenWithinChunk, SuccessIsComplete, SocketInv
<1> QED
  BY <1>2, <1>3, <1>4, <1>5, DeliveryInv, EndInv DEF Next

-----------------------------------------------------------------------------
(* Theorems. *)

\* Spec keeps the types.
THEOREM TypeCorrect == Spec => []TypeOK
<1>1. Inv => TypeOK
  BY DEF Inv
<1> QED
  BY <1>1, InitInv, NextInv, PTL DEF Spec

\* The chunks of every plan tile its wire bytes, for all settings the proxy
\* accepts and replies of any length.
THEOREM TilingCorrect == Spec => []ChunksTileWire
<1>1. Inv => ChunksTileWire
  BY DEF Inv, PlanInv, Good, ChunksTileWire
<1> QED
  BY <1>1, InitInv, NextInv, PTL DEF Spec

\* Whatever short writes the socket makes, the bytes counted stay within the
\* chunk at hand.
THEOREM AccountingCorrect == Spec => []WrittenWithinChunk
<1>1. Inv => WrittenWithinChunk
  BY DEF Inv
<1> QED
  BY <1>1, InitInv, NextInv, PTL DEF Spec

\* A delivery without an error has written all planned bytes.
THEOREM CompletionCorrect == Spec => []SuccessIsComplete
<1>1. Inv => SuccessIsComplete
  BY DEF Inv
<1> QED
  BY <1>1, InitInv, NextInv, PTL DEF Spec

\* A connection goes on only after the whole reply was delivered.
THEOREM SurvivorsInSync == Spec => SurvivingClientInSync
<1>1. ASSUME Inv, [Next]_vars, pc = "recorded", pc' = "idle"
      PROVE  /\ outcome.bytes_written = reply + plan.extra * ExtraLen
             /\ socket = "open"
  <2>1. ~EndsConnection
    <3>1. EndOfCommand
      BY <1>1 DEF Next, Configure, Answer, FailBefore, Deliver, NextChunk, Write,
                  Flush, StartShutdown, Shutdown, Complete, DeliveryError,
                  FinishFault, BeginFault, Tick, StallRead, EndStall,
                  FaultShutdown, FaultReset, FaultError, DropHalves, Record, vars
    <3> QED
      BY <1>1, <3>1 DEF EndOfCommand
  <2>2. outcome.bytes_written = wire
    BY <1>1, <2>1 DEF Inv, SuccessIsComplete, EndsConnection
  <2>3. wire = Total(reply, plan.extra)
    BY <1>1, <2>1 DEF Inv, PlanInv, Good, EndsConnection
  <2> QED
    BY <1>1, <2>1, <2>2, <2>3 DEF Inv, SocketInv, EndsConnection, Total
<1> QED
  BY <1>1, InitInv, NextInv, PTL DEF Spec, SurvivingClientInSync

-----------------------------------------------------------------------------
(* The record. *)

\* The chunks already behind the delivery, and the one at hand, which is the
\* next: as many as the record counts.
Behind == {e \in plan.ends : e <= start}

CountInv ==
    /\ pc \in {"idle", "chunk", "write", "flush"}
           => outcome.completed_chunks = Cardinality(Behind)
    /\ pc \in {"write", "flush"} =>
           /\ end \in plan.ends /\ end > start
           /\ \A f \in plan.ends : f > start => end <= f
    /\ (pc \notin {"idle", "chunk", "write", "flush", "closed"} /\ ~failed)
           => outcome.completed_chunks = Cardinality(plan.ends)

\* What the outcome says at each place of deliver and finish_fault.
StageInv ==
    /\ failed = outcome.error_kind
    /\ failed => /\ pc \in {"delivered", "record", "recorded"}
                 /\ outcome.error_stage # "none"
    /\ pc = "write" => outcome.error_stage = "write"
    /\ pc = "flush" => outcome.error_stage = "flush"
    /\ pc \in {"shutdown", "fault_shutdown"} => outcome.error_stage = "shutdown"
    /\ pc = "stall" => outcome.error_stage = "stall"
    /\ pc = "reset" => outcome.error_stage = "reset"
    /\ (pc \in {"delivered", "record", "recorded"} /\ ~failed)
           => outcome.error_stage = "none"

\* Which fault is being carried out, and what it has done to the socket.
FaultInv ==
    /\ pc = "stall" => plan.fault = "STALL"
    /\ pc = "reset" => plan.fault = "RESET"
    /\ pc = "fault_shutdown" => plan.fault \in {"STALL", "CLOSE"}
    /\ pc = "record" => socket \in {"closed", "reset"}
    /\ outcome.stall_end # "none" => plan.fault = "STALL"
    /\ outcome.fault_completed <=>
           (pc \in {"record", "recorded"} /\ plan.fault # "OFF" /\ ~failed)
    /\ pc # "closed" =>
           (socket = "reset" <=>
                (pc \in {"record", "recorded"} /\ plan.fault = "RESET" /\ ~failed))

RecordInv == CountInv /\ StageInv /\ FaultInv

\* The chunks of a plan are finitely many.
LEMMA EndsFinite == ASSUME Inv PROVE IsFiniteSet(plan.ends) /\ plan.ends \subseteq Nat
<1>1. plan \in Plans /\ wire \in Nat /\ Tiles(plan.ends, wire)
  BY DEF Inv, TypeOK, PlanInv, Good
<1>2. plan.ends \subseteq 0..wire /\ plan.ends \subseteq Nat
  BY <1>1 DEF Plans, Tiles
<1>3. IsFiniteSet(0..wire)
  BY <1>1, FS_Interval
<1> QED
  BY <1>2, <1>3, FS_Subset

\* A chunk that is flushed is one more behind the delivery.
LEMMA FlushCounts ==
    ASSUME Inv, CountInv, Flush
    PROVE  outcome'.completed_chunks = Cardinality(Behind')
<1>1. IsFiniteSet(plan.ends) /\ plan.ends \subseteq Nat
  BY EndsFinite
<1>2. /\ outcome \in Outcomes /\ start \in Nat /\ end \in Nat
      /\ pc = "flush" /\ plan' = plan /\ start' = end
      /\ outcome' = [outcome EXCEPT !.completed_chunks = @ + 1]
  BY DEF Inv, TypeOK, Flush
<1>3. /\ end \in plan.ends /\ end > start
      /\ \A f \in plan.ends : f > start => end <= f
      /\ outcome.completed_chunks = Cardinality(Behind)
  BY <1>2 DEF CountInv
<1>4. Behind' = Behind \cup {end}
  BY <1>1, <1>2, <1>3 DEF Behind
<1>5. IsFiniteSet(Behind) /\ end \notin Behind
  BY <1>1, <1>2, <1>3, FS_Subset DEF Behind
<1>6. Cardinality(Behind') = Cardinality(Behind) + 1
  BY <1>4, <1>5, FS_AddElement
<1> QED
  BY <1>2, <1>3, <1>6 DEF Outcomes

\* No chunk is behind a delivery that has not begun.
LEMMA NothingBehind ==
    ASSUME NEW p \in Plans, NEW n \in Nat, Tiles(p.ends, n)
    PROVE  Cardinality({e \in p.ends : e <= 0}) = 0
<1>1. {e \in p.ends : e <= 0} = {}
  BY DEF Plans, Tiles
<1> QED
  BY <1>1, FS_EmptySet

\* All chunks are behind a delivery that has no next one.
LEMMA AllBehind ==
    ASSUME ChunksDone
    PROVE  Behind = plan.ends
  BY DEF ChunksDone, Behind

\* The record's invariant holds initially.
LEMMA InitRecordInv == Init => RecordInv
<1> SUFFICES ASSUME Init PROVE RecordInv
  OBVIOUS
<1>1. Cardinality(Behind) = 0
  <2>1. plan \in Plans /\ wire \in Nat /\ Tiles(plan.ends, wire) /\ start = 0
    BY InitInv DEF Init, Inv, TypeOK, PlanInv, Good
  <2> QED
    BY <2>1, NothingBehind DEF Behind
<1>2. CountInv
  BY <1>1 DEF Init, CountInv, NewOutcome
<1>3. StageInv /\ FaultInv
  BY DEF Init, StageInv, FaultInv, NewOutcome
<1> QED
  BY <1>2, <1>3 DEF RecordInv

\* A delivery that begins has completed nothing.
LEMMA BeginRecordInv ==
    ASSUME Inv, Inv', RecordInv, pc = "idle", NEW p, NEW len, NEW m, Begin(p, len, m)
    PROVE  RecordInv'
<1>1. Cardinality(Behind)' = 0
  <2>1. plan' \in Plans /\ wire' \in Nat /\ Tiles(plan'.ends, wire') /\ start' = 0
    BY DEF Begin, Inv, TypeOK, PlanInv, Good
  <2> QED
    BY <2>1, NothingBehind DEF Behind
<1>2. CountInv'
  BY <1>1 DEF Begin, CountInv, NewOutcome
<1>3. StageInv'
  BY DEF Begin, StageInv, NewOutcome
<1>4. FaultInv'
  BY DEF Begin, RecordInv, FaultInv, NewOutcome
<1> QED
  BY <1>2, <1>3, <1>4 DEF RecordInv

\* Every step keeps the record's invariant, given the delivery's.
LEMMA NextRecordInv ==
    ASSUME Inv, Inv', RecordInv, [Next]_vars
    PROVE  RecordInv'
<1> USE DEF RecordInv
<1>1. TypeOK /\ outcome \in Outcomes /\ pc \in PCs /\ start \in Nat /\ end \in Nat
  BY DEF Inv, TypeOK
<1>2. ASSUME NEW e \in plan.ends, NextChunk(e) PROVE RecordInv'
  <2>1. CountInv'
    BY <1>1, <1>2 DEF NextChunk, Stage, CountInv, Behind, Outcomes
  <2>2. StageInv' /\ FaultInv'
    BY <1>1, <1>2 DEF NextChunk, Stage, StageInv, FaultInv, Outcomes
  <2> QED
    BY <2>1, <2>2
<1>3. ASSUME NEW n \in 1..wire, Write(n) PROVE RecordInv'
  <2>1. CountInv'
    BY <1>1, <1>3 DEF Write, CountInv, Behind, Outcomes
  <2>2. StageInv' /\ FaultInv'
    BY <1>1, <1>3 DEF Write, StageInv, FaultInv, Outcomes
  <2> QED
    BY <2>1, <2>2
<1>4. ASSUME Flush PROVE RecordInv'
  <2>1. CountInv'
    BY <1>1, <1>4, FlushCounts DEF Flush, CountInv
  <2>2. StageInv' /\ FaultInv'
    BY <1>1, <1>4 DEF Flush, StageInv, FaultInv, Outcomes
  <2> QED
    BY <2>1, <2>2
<1>5. ASSUME StartShutdown PROVE RecordInv'
  <2>1. CountInv'
    BY <1>1, <1>5, AllBehind DEF StartShutdown, Stage, CountInv, Outcomes
  <2>2. StageInv' /\ FaultInv'
    BY <1>1, <1>5 DEF StartShutdown, Stage, ChunksDone, StageInv, FaultInv, Outcomes
  <2> QED
    BY <2>1, <2>2
<1>6. ASSUME Shutdown PROVE RecordInv'
  <2>1. CountInv'
    BY <1>1, <1>6 DEF Shutdown, CountInv, Behind, Outcomes
  <2>2. StageInv' /\ FaultInv'
    BY <1>1, <1>6 DEF Shutdown, StageInv, FaultInv, Outcomes
  <2> QED
    BY <2>1, <2>2
<1>7. ASSUME Complete PROVE RecordInv'
  <2>1. CountInv'
    BY <1>1, <1>7, AllBehind DEF Complete, Stage, CountInv, Outcomes
  <2>2. StageInv' /\ FaultInv'
    BY <1>1, <1>7 DEF Complete, Stage, ChunksDone, StageInv, FaultInv, Outcomes
  <2> QED
    BY <2>1, <2>2
<1>8. ASSUME DeliveryError PROVE RecordInv'
  <2>1. CountInv'
    BY <1>1, <1>8 DEF DeliveryError, CountInv, Behind, Outcomes
  <2>2. StageInv' /\ FaultInv'
    BY <1>1, <1>8 DEF DeliveryError, StageInv, FaultInv, Outcomes
  <2> QED
    BY <2>1, <2>2
<1>9. ASSUME BeginFault PROVE RecordInv'
  <2>1. CountInv'
    BY <1>1, <1>9 DEF BeginFault, Stage, CountInv, Behind, Outcomes
  <2>2. StageInv' /\ FaultInv'
    BY <1>1, <1>9 DEF BeginFault, Stage, StageInv, FaultInv, Outcomes
  <2> QED
    BY <2>1, <2>2
<1>10. ASSUME Tick PROVE RecordInv'
  <2>1. CountInv'
    BY <1>1, <1>10 DEF Tick, CountInv, Behind, Outcomes
  <2>2. StageInv' /\ FaultInv'
    BY <1>1, <1>10 DEF Tick, StageInv, FaultInv, Outcomes
  <2> QED
    BY <2>1, <2>2
<1>11. ASSUME StallRead PROVE RecordInv'
  <2>1. CountInv'
    BY <1>1, <1>11 DEF StallRead, vars, CountInv, Behind, Outcomes
  <2>2. StageInv' /\ FaultInv'
    BY <1>1, <1>11 DEF StallRead, vars, StageInv, FaultInv, Outcomes
  <2> QED
    BY <2>1, <2>2
<1>12. ASSUME NEW r \in {"duration_elapsed", "peer_closed"}, EndStall(r) PROVE RecordInv'
  <2>1. CountInv'
    BY <1>1, <1>12 DEF EndStall, CountInv, Behind, Outcomes
  <2>2. StageInv' /\ FaultInv'
    BY <1>1, <1>12 DEF EndStall, StageInv, FaultInv, Outcomes
  <2> QED
    BY <2>1, <2>2
<1>13. ASSUME FaultShutdown PROVE RecordInv'
  <2>1. CountInv'
    BY <1>1, <1>13 DEF FaultShutdown, CountInv, Behind, Outcomes
  <2>2. StageInv' /\ FaultInv'
    BY <1>1, <1>13 DEF FaultShutdown, StageInv, FaultInv, Outcomes
  <2> QED
    BY <2>1, <2>2
<1>14. ASSUME FaultReset PROVE RecordInv'
  <2>1. CountInv'
    BY <1>1, <1>14 DEF FaultReset, CountInv, Behind, Outcomes
  <2>2. StageInv' /\ FaultInv'
    BY <1>1, <1>14 DEF FaultReset, StageInv, FaultInv, Outcomes
  <2> QED
    BY <2>1, <2>2
<1>15. ASSUME FaultError PROVE RecordInv'
  <2>1. CountInv'
    BY <1>1, <1>15 DEF FaultError, CountInv, Behind, Outcomes
  <2>2. StageInv' /\ FaultInv'
    BY <1>1, <1>15 DEF FaultError, StageInv, FaultInv, Outcomes
  <2> QED
    BY <2>1, <2>2
<1>16. ASSUME DropHalves PROVE RecordInv'
  <2>1. CountInv'
    BY <1>1, <1>16 DEF DropHalves, CountInv, Behind, Outcomes
  <2>2. StageInv' /\ FaultInv'
    BY <1>1, <1>16 DEF DropHalves, StageInv, FaultInv, Outcomes
  <2> QED
    BY <2>1, <2>2
<1>17. ASSUME Record PROVE RecordInv'
  <2>1. CountInv'
    BY <1>1, <1>17 DEF Record, CountInv, Behind, Outcomes
  <2>2. StageInv' /\ FaultInv'
    BY <1>1, <1>17 DEF Record, StageInv, FaultInv, Outcomes
  <2> QED
    BY <2>1, <2>2
<1>18. ASSUME EndOfCommand PROVE RecordInv'
  <2>1. CountInv'
    <3>1. plan' \in Plans /\ wire' \in Nat /\ Tiles(plan'.ends, wire') /\ start' = 0
      BY <1>18 DEF EndOfCommand, Inv, TypeOK, PlanInv, Good
    <3>2. Cardinality(Behind)' = 0
      BY <3>1, NothingBehind DEF Behind
    <3> QED
      BY <1>18, <3>2 DEF EndOfCommand, NewOutcome, CountInv
  <2>2. StageInv' /\ FaultInv'
    BY <1>1, <1>18 DEF EndOfCommand, EndsConnection, NewOutcome, StageInv, FaultInv, Outcomes
  <2> QED
    BY <2>1, <2>2
<1>19. ASSUME NEW c, Configure(c) PROVE RecordInv'
  <2>1. CountInv'
    BY <1>1, <1>19 DEF Configure, CountInv, Behind, Outcomes
  <2>2. StageInv' /\ FaultInv'
    BY <1>1, <1>19 DEF Configure, StageInv, FaultInv, Outcomes
  <2> QED
    BY <2>1, <2>2
<1>20. ASSUME NEW len, NEW m, NEW selected, Answer(len, m, selected) PROVE RecordInv'
  BY <1>20, BeginRecordInv DEF Answer
<1>21. ASSUME FailBefore PROVE RecordInv'
  BY <1>21, BeginRecordInv DEF FailBefore
<1>22. CASE UNCHANGED vars
  BY <1>22 DEF vars, CountInv, Behind, StageInv, FaultInv
<1> QED
  BY <1>2, <1>3, <1>4, <1>5, <1>6, <1>7, <1>8, <1>9, <1>10, <1>11, <1>12, <1>13, <1>14, <1>15, <1>16, <1>17, <1>18, <1>19,
     <1>20, <1>21, <1>22 DEF Next, Deliver, FinishFault

\* The record of a command tells what happened to it, for any reply, settings
\* and outcome of the socket operations, and is written once the client has
\* seen the end of the connection.
THEOREM RecordsTruthful == Spec => []OutcomeTruthful
<1>1. Inv /\ RecordInv => OutcomeTruthful
  BY DEF RecordInv, CountInv, StageInv, FaultInv, OutcomeTruthful
<1>2. Inv /\ Inv' /\ RecordInv /\ [Next]_vars => RecordInv'
  BY NextRecordInv
<1> QED
  BY <1>1, <1>2, InitInv, NextInv, InitRecordInv, PTL DEF Spec
=============================================================================
