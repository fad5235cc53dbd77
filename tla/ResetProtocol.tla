---------------------------- MODULE ResetProtocol ----------------------------
(***************************************************************************)
(* How connection tasks share the command counter and the reset epoch      *)
(* (SharedState in src/src/proxy.rs).                                      *)
(*                                                                         *)
(* Every client connection is a task that reads one command at a time.  A  *)
(* forwarded command takes its index from command_ids under the read half  *)
(* of reset_barrier; DEBUG EVIL MODE RESET takes the write half, increments*)
(* reset_epoch and zeroes command_ids.  A task remembers the epoch it was  *)
(* accepted in and closes its client when the epoch has moved on: once     *)
(* right after a command is read and, for a forwarded command, once more   *)
(* under the read guard.                                                   *)
(*                                                                         *)
(* reset_barrier is tokio's RwLock, which is fair: requests are granted in *)
(* the order they were made, so a waiting writer is not overtaken.         *)
(***************************************************************************)
EXTENDS Naturals, Sequences, FiniteSets

CONSTANTS
    Conns,         \* slots for client connections; a closed one is reused
    Listeners,     \* accepting tasks, one per bound endpoint
    MaxResets,     \* bound on the number of resets
    MaxCommands,   \* bound on the commands numbered in one epoch
    NoEpoch        \* a listener that holds no accepted client

ASSUME ConnsAssumption == Conns # {} /\ IsFiniteSet(Conns)
ASSUME BoundsAssumption == MaxResets \in Nat /\ MaxCommands \in Nat
ASSUME NoEpochAssumption == NoEpoch \notin Nat

VARIABLES
    reset_epoch,   \* SharedState.reset_epoch
    command_ids,   \* SharedState.command_ids
    queue,         \* reset_barrier: the tasks waiting for it, first come first
    readers,       \* reset_barrier: the holders of a read guard
    writers,       \* reset_barrier: the holder of the write guard, at most one
    loaded,        \* loaded[l]: the epoch listener l read for the client it accepted
    pc,            \* pc[c]: where the task of connection c stands
    cmd,           \* cmd[c]: the kind of command the task works on
    epoch,         \* epoch[c]: the task's own reset_epoch
    issued         \* history: issued[e + 1] is the indexes drawn by tasks of epoch e

barrier == <<queue, readers, writers>>
vars == <<reset_epoch, command_ids, barrier, loaded, pc, cmd, epoch, issued>>

NoCmd == "none"

\* The commands as far as the barrier tells them apart: forwarded commands,
\* MODE RESET, MONITOR, and every command answered without an index (DEBUG
\* PROTOCOL, DEBUG CHAOS, other DEBUG EVIL, CLUSTER SLOTS / SHARDS / NODES).
Kinds == {"ordinary", "reset", "monitor", "local"}

PCs == {"closed", "read", "check", "lock", "wait", "recheck", "draw",
        "unlock", "serve", "bump", "zero", "unlock_write", "reply", "monitor"}

Stale(c) == epoch[c] # reset_epoch

Init ==
    /\ reset_epoch = 0
    /\ command_ids = 0
    /\ queue = << >> /\ readers = {} /\ writers = {}
    /\ loaded = [l \in Listeners |-> NoEpoch]
    /\ pc = [c \in Conns |-> "closed"]
    /\ cmd = [c \in Conns |-> NoCmd]
    /\ epoch = [c \in Conns |-> 0]
    /\ issued = << << >> >>

Goto(c, label) == pc' = [pc EXCEPT ![c] = label]

\* The end of a command: back to the read loop, or the connection is over.
Finish(c, label) == Goto(c, label) /\ cmd' = [cmd EXCEPT ![c] = NoCmd]

-----------------------------------------------------------------------------
(* Accepting: the epoch is read before the task is spawned. *)

LoadEpoch(l) ==
    /\ loaded[l] = NoEpoch
    /\ \E c \in Conns : pc[c] = "closed"
    /\ loaded' = [loaded EXCEPT ![l] = reset_epoch]
    /\ UNCHANGED <<reset_epoch, command_ids, barrier, pc, cmd, epoch, issued>>

Spawn(l, c) ==
    /\ loaded[l] # NoEpoch
    /\ pc[c] = "closed"
    /\ epoch' = [epoch EXCEPT ![c] = loaded[l]]
    /\ loaded' = [loaded EXCEPT ![l] = NoEpoch]
    /\ Goto(c, "read")
    /\ UNCHANGED <<reset_epoch, command_ids, barrier, cmd, issued>>

-----------------------------------------------------------------------------
(* The read loop. *)

\* Commands that will still raise a bounded counter.
Pending(kind) == {c \in Conns : cmd[c] = kind /\ pc[c] \in
                      {"check", "lock", "wait", "recheck", "draw", "bump"}}

WithinBounds(kind) ==
    /\ kind = "reset" =>
           reset_epoch + Cardinality(Pending("reset")) < MaxResets
    /\ kind = "ordinary" =>
           command_ids + Cardinality(Pending("ordinary")) < MaxCommands

ReadFrame(c, kind) ==
    /\ pc[c] = "read"
    /\ WithinBounds(kind)
    /\ cmd' = [cmd EXCEPT ![c] = kind]
    /\ Goto(c, "check")
    /\ UNCHANGED <<reset_epoch, command_ids, barrier, loaded, epoch, issued>>

\* End of file, a read error or a frame that does not parse.
Disconnect(c) ==
    /\ pc[c] = "read"
    /\ Goto(c, "closed")
    /\ UNCHANGED <<reset_epoch, command_ids, barrier, loaded, cmd, epoch, issued>>

CheckStale(c) ==
    /\ pc[c] = "check"
    /\ Stale(c)
    /\ Finish(c, "closed")
    /\ UNCHANGED <<reset_epoch, command_ids, barrier, loaded, epoch, issued>>

\* The command is dispatched on its kind.
CheckFresh(c) ==
    /\ pc[c] = "check"
    /\ ~Stale(c)
    /\ \/ cmd[c] \in {"ordinary", "reset"} /\ Goto(c, "lock")
       \/ cmd[c] = "monitor" /\ Goto(c, "monitor")
       \/ cmd[c] = "local" /\ Goto(c, "serve")
    /\ UNCHANGED <<reset_epoch, command_ids, barrier, loaded, cmd, epoch, issued>>

-----------------------------------------------------------------------------
(* The reset barrier. *)

Enqueue(c) ==
    /\ pc[c] = "lock"
    /\ queue' = Append(queue, c)
    /\ Goto(c, "wait")
    /\ UNCHANGED <<reset_epoch, command_ids, readers, writers, loaded, cmd,
                   epoch, issued>>

AtHead(c) == queue # << >> /\ Head(queue) = c

GrantRead(c) ==
    /\ pc[c] = "wait" /\ cmd[c] = "ordinary"
    /\ AtHead(c)
    /\ writers = {}
    /\ queue' = Tail(queue)
    /\ readers' = readers \cup {c}
    /\ Goto(c, "recheck")
    /\ UNCHANGED <<reset_epoch, command_ids, writers, loaded, cmd, epoch, issued>>

GrantWrite(c) ==
    /\ pc[c] = "wait" /\ cmd[c] = "reset"
    /\ AtHead(c)
    /\ writers = {} /\ readers = {}
    /\ queue' = Tail(queue)
    /\ writers' = {c}
    /\ Goto(c, "bump")
    /\ UNCHANGED <<reset_epoch, command_ids, readers, loaded, cmd, epoch, issued>>

-----------------------------------------------------------------------------
(* A forwarded command draws its index under the read guard. *)

\* A task made stale while it waited returns, which drops the guard.
RecheckStale(c) ==
    /\ pc[c] = "recheck"
    /\ Stale(c)
    /\ readers' = readers \ {c}
    /\ Finish(c, "closed")
    /\ UNCHANGED <<reset_epoch, command_ids, queue, writers, loaded, epoch, issued>>

\* Mutant: the epoch is not looked at again under the guard.
RecheckSkipped(c) ==
    /\ pc[c] = "recheck"
    /\ Goto(c, "draw")
    /\ UNCHANGED <<reset_epoch, command_ids, barrier, loaded, cmd, epoch, issued>>

RecheckFresh(c) ==
    /\ pc[c] = "recheck"
    /\ ~Stale(c)
    /\ Goto(c, "draw")
    /\ UNCHANGED <<reset_epoch, command_ids, barrier, loaded, cmd, epoch, issued>>

DrawIndex(c) ==
    /\ pc[c] = "draw"
    /\ command_ids' = command_ids + 1
    /\ issued' = [issued EXCEPT ![epoch[c] + 1] = Append(@, command_ids)]
    /\ Goto(c, "unlock")
    /\ UNCHANGED <<reset_epoch, barrier, loaded, cmd, epoch>>

\* Mutant: the guard is never dropped.
DropReadGuardLeaked(c) ==
    /\ pc[c] = "unlock"
    /\ Goto(c, "serve")
    /\ UNCHANGED <<reset_epoch, command_ids, barrier, loaded, cmd, epoch, issued>>

\* The guard goes out of scope before the command is forwarded.
DropReadGuard(c) ==
    /\ pc[c] = "unlock"
    /\ readers' = readers \ {c}
    /\ Goto(c, "serve")
    /\ UNCHANGED <<reset_epoch, command_ids, queue, writers, loaded, cmd,
                   epoch, issued>>

\* The command is answered, from the upstream or locally; an error or an
\* injected connection fault ends the connection instead.
Serve(c) ==
    /\ pc[c] = "serve"
    /\ Finish(c, "read") \/ Finish(c, "closed")
    /\ UNCHANGED <<reset_epoch, command_ids, barrier, loaded, epoch, issued>>

\* MONITOR streams until a write to the client fails.
MonitorEnds(c) ==
    /\ pc[c] = "monitor"
    /\ Finish(c, "closed")
    /\ UNCHANGED <<reset_epoch, command_ids, barrier, loaded, epoch, issued>>

-----------------------------------------------------------------------------
(* DEBUG EVIL MODE RESET under the write guard. *)

BumpEpoch(c) ==
    /\ pc[c] = "bump"
    /\ reset_epoch' = reset_epoch + 1
    /\ epoch' = [epoch EXCEPT ![c] = reset_epoch + 1]
    /\ issued' = Append(issued, << >>)
    /\ Goto(c, "zero")
    /\ UNCHANGED <<command_ids, barrier, loaded, cmd>>

\* Mutant: the counter carries on across the reset.
ZeroForgotten(c) ==
    /\ pc[c] = "zero"
    /\ Goto(c, "unlock_write")
    /\ UNCHANGED <<reset_epoch, command_ids, barrier, loaded, cmd, epoch, issued>>

ZeroIndex(c) ==
    /\ pc[c] = "zero"
    /\ command_ids' = 0
    /\ Goto(c, "unlock_write")
    /\ UNCHANGED <<reset_epoch, barrier, loaded, cmd, epoch, issued>>

DropWriteGuard(c) ==
    /\ pc[c] = "unlock_write"
    /\ writers' = writers \ {c}
    /\ Goto(c, "reply")
    /\ UNCHANGED <<reset_epoch, command_ids, queue, readers, loaded, cmd,
                   epoch, issued>>

ReplyReset(c) ==
    /\ pc[c] = "reply"
    /\ Finish(c, "read") \/ Finish(c, "closed")
    /\ UNCHANGED <<reset_epoch, command_ids, barrier, loaded, epoch, issued>>

-----------------------------------------------------------------------------
\* Steps a task takes on its own, without its client, the upstream or a write
\* to a socket that may block.
Internal(c) ==
    \/ CheckStale(c) \/ CheckFresh(c)
    \/ Enqueue(c) \/ GrantRead(c) \/ GrantWrite(c)
    \/ RecheckStale(c) \/ RecheckFresh(c) \/ DrawIndex(c) \/ DropReadGuard(c)
    \/ BumpEpoch(c) \/ ZeroIndex(c) \/ DropWriteGuard(c)

Next ==
    \/ \E l \in Listeners : LoadEpoch(l) \/ \E c \in Conns : Spawn(l, c)
    \/ \E c \in Conns :
           \/ \E kind \in Kinds : ReadFrame(c, kind)
           \/ Disconnect(c)
           \/ Internal(c)
           \/ Serve(c)
           \/ MonitorEnds(c)
           \/ ReplyReset(c)

Spec == Init /\ [][Next]_vars

\* The runtime keeps polling a task that can go on by itself.  Nothing is
\* assumed of clients, of the upstream or of writes to the client.
FairSpec == Spec /\ \A c \in Conns : WF_vars(Internal(c))

-----------------------------------------------------------------------------
(* Properties. *)

TypeOK ==
    /\ reset_epoch \in Nat
    /\ command_ids \in Nat
    /\ queue \in Seq(Conns)
    /\ readers \subseteq Conns
    /\ writers \subseteq Conns
    /\ loaded \in [Listeners -> Nat \cup {NoEpoch}]
    /\ pc \in [Conns -> PCs]
    /\ cmd \in [Conns -> Kinds \cup {NoCmd}]
    /\ epoch \in [Conns -> Nat]
    /\ issued \in Seq(Seq(Nat))
    /\ Len(issued) = reset_epoch + 1

\* In every epoch the commands are numbered 0, 1, 2, ... with no gap and no
\* number twice, whatever resets and commands of other connections interleave:
\* what makes a replay after MODE RESET see the same indexes.
IndexesContiguous ==
    \A e \in 1..Len(issued) : \A i \in 1..Len(issued[e]) : issued[e][i] = i - 1

\* What the barrier buys: while a reset is between its two counter updates
\* nobody reads, and a task about to draw is current.  When no reset is between
\* them, command_ids is the number of commands numbered in this epoch.  This is
\* the invariant that makes the numbering inductive.
Reading == {"recheck", "draw", "unlock"}
Writing == {"bump", "zero", "unlock_write"}

BarrierProtectsIndex ==
    /\ \A c \in Conns : pc[c] \in Reading => c \in readers
    /\ \A c \in Conns : pc[c] \in Writing => writers = {c}
    /\ writers # {} => readers = {}
    /\ \A c \in Conns : pc[c] = "draw" => ~Stale(c)
    /\ \A c \in Conns : pc[c] = "zero" => issued[reset_epoch + 1] = << >>
    /\ (\A c \in Conns : pc[c] # "zero")
           => command_ids = Len(issued[reset_epoch + 1])
    /\ \A c \in Conns : epoch[c] <= reset_epoch
    /\ \A l \in Listeners : loaded[l] # NoEpoch => loaded[l] <= reset_epoch

\* Once a reset has moved the epoch on, no command is numbered in an older
\* epoch: a connection the reset made stale never draws another index.
ResetFencesIndexes ==
    [][\A e \in 1..Len(issued) : issued'[e] # issued[e] => e = reset_epoch + 1]_vars

\* A command that was read is answered, begins to be served, or finds its
\* connection closed: a task never waits at the barrier for good, even if
\* upstreams and clients of other connections hang.
BarrierNeverBlocks ==
    \A c \in Conns :
        pc[c] = "check" ~> pc[c] \in {"serve", "reply", "monitor", "closed"}

\* The numbering is the one CommandIndex promises.
Index == INSTANCE CommandIndex WITH member <- epoch
ImplementsCommandIndex == Index!Spec

\* README, on DEBUG EVIL MODE RESET: it "invalidates older client
\* connections".  An open connection of an older epoch never becomes current.
InvalidatedForGood ==
    [][\A c \in Conns : pc[c] # "closed" /\ Stale(c) => epoch'[c] = epoch[c]]_vars
=============================================================================
