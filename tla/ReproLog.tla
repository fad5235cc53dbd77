------------------------------ MODULE ReproLog ------------------------------
(***************************************************************************)
(* The repro file (repro.rs) and when a connection appends to it           *)
(* (proxy.rs): connections share one file behind a mutex, an append is one *)
(* line written and flushed under the lock, an error is only logged, and a *)
(* file that is there at the start is appended to.                         *)
(*                                                                         *)
(* A line is Parts pieces that the operating system takes one by one, the  *)
(* last of them the newline.  The mutex is tokio's, which is granted in    *)
(* the order in which it was asked for.                                    *)
(***************************************************************************)
EXTENDS Naturals, Sequences, FiniteSets

CONSTANTS
    Conns,           \* connections that answer commands
    Parts,           \* pieces of a line
    MaxRecords,      \* bound on the records of all runs
    MaxRuns          \* bound on the number of times the proxy is started

ASSUME ReproAssumption ==
    /\ IsFiniteSet(Conns) /\ Parts \in Nat \ {0}
    /\ MaxRecords \in Nat /\ MaxRuns \in Nat \ {0}

VARIABLES
    run,             \* how often the proxy was started
    task,            \* task[c]: where connection c is, and its records so far
    queue,           \* who holds the mutex (first) and who waits for it
    written,         \* pieces the holder has written
    file,            \* the pieces in the file
    appended,        \* records whose append returned Ok
    torn             \* records whose append failed or was cut off

reproVars == <<run, task, queue, written, file, appended, torn>>

\* The ReproRecord of the reply connection c is at.
Record(c) == [run |-> run, conn |-> c, number |-> task[c].records]

Idle == [c \in Conns |-> [pc |-> "REPLY", records |-> 0]]

\* ReproWriter::open: the file may be new or left by an earlier run.
ReproInit ==
    /\ run = 1 /\ task = Idle
    /\ queue = << >> /\ written = 0
    /\ file = << >>
    /\ appended = {} /\ torn = {}

RecordNeeded(mutated, fault, failed) == mutated \/ fault \/ failed

\* A reply was delivered, or its delivery failed, and is to be recorded (any
\* other leaves the file alone); the record waits for the mutex, and the
\* connection reads no command before it is appended.
Deliver(c) ==
    /\ task[c].pc = "REPLY"
    /\ Cardinality(appended) + Cardinality(torn) + Len(queue) < MaxRecords
    /\ \E mutated, fault, failed \in BOOLEAN : RecordNeeded(mutated, fault, failed)
    /\ task' = [task EXCEPT ![c].records = @ + 1, ![c].pc = "APPEND"]
    /\ queue' = Append(queue, c)
    /\ UNCHANGED <<run, written, file, appended, torn>>

\* Mutant: an append that does not take the lock.
HoldsAlways(c) == \E i \in 1..Len(queue) : queue[i] = c

\* ReproWriter::append holds the lock.
Holds(c) == queue # << >> /\ Head(queue) = c

\* The next piece of the line reaches the file.
WritePiece(c) ==
    /\ Holds(c) /\ written < Parts
    /\ file' = Append(file, [record |-> Record(c), part |-> written + 1])
    /\ written' = written + 1
    /\ UNCHANGED <<run, task, queue, appended, torn>>

\* The lock is released, and is the next one's.
Unlock == queue' = Tail(queue) /\ written' = 0

\* The whole line is written and flushed.
AppendDone(c) ==
    /\ Holds(c) /\ written = Parts
    /\ appended' = appended \cup {Record(c)}
    /\ Unlock
    /\ task' = [task EXCEPT ![c].pc = "REPLY"]
    /\ UNCHANGED <<run, file, torn>>

\* Mutant: a failed append keeps the lock.
AppendFailsLocked(c) ==
    /\ Holds(c) /\ written < Parts
    /\ torn' = torn \cup {Record(c)}
    /\ written' = Parts + 1
    /\ task' = [task EXCEPT ![c].pc = "REPLY"]
    /\ UNCHANGED <<run, queue, file, appended>>

\* write_all or flush fails, with a part of the line written or none: the
\* error is logged by write_repro and the connection goes on.
AppendFails(c) ==
    /\ Holds(c) /\ written < Parts
    /\ torn' = torn \cup {Record(c)}
    /\ Unlock
    /\ task' = [task EXCEPT ![c].pc = "REPLY"]
    /\ UNCHANGED <<run, file, appended>>

\* The process ends, by a signal or a crash, and is started again on the
\* same file.
Restart ==
    /\ run < MaxRuns
    /\ run' = run + 1
    /\ torn' = torn \cup {Record(c) : c \in {c \in Conns : Holds(c)}}
    /\ task' = Idle /\ queue' = << >> /\ written' = 0
    /\ UNCHANGED <<file, appended>>

Appending(c) == WritePiece(c) \/ AppendDone(c) \/ AppendFails(c)

ReproNext == Restart \/ \E c \in Conns : Deliver(c) \/ Appending(c)

\* A blocking write returns, with or without an error.
ReproSpec == ReproInit /\ [][ReproNext]_reproVars /\ \A c \in Conns : WF_reproVars(Appending(c))

-----------------------------------------------------------------------------
(* Properties. *)

\* The line of record r starts at position i.
LineAt(r, i) ==
    /\ i + Parts - 1 <= Len(file)
    /\ \A k \in 1..Parts : file[i + k - 1] = [record |-> r, part |-> k]

\* It is a line of its own: what is before it ends with a newline.
OwnLine(i) == i = 1 \/ file[i - 1].part = Parts

\* Every append that returned Ok has its line in the file in one piece, once,
\* however the appends of several connections and of earlier runs met, and it
\* is a line of its own unless an append right before it was cut off: one
\* failure damages at most one line besides its own.
LinesWhole ==
    \A r \in appended :
        \E i \in 1..Len(file) :
            /\ LineAt(r, i) /\ \A j \in 1..Len(file) : LineAt(r, j) => j = i
            /\ OwnLine(i) \/ file[i - 1].record \in torn

\* "Repro-file write failures are logged and do not stop proxying"
\* (README.md:240): a connection that waits for its append goes on, whatever
\* happens to its own write and to those of others.
AppendsSettle == \A c \in Conns : (task[c].pc = "APPEND") ~> (task[c].pc = "REPLY")
=============================================================================
