------------------------------- MODULE Monitor -------------------------------
(***************************************************************************)
(* The MONITOR stream of proxy.rs: commands of all connections are         *)
(* published to a bounded broadcast channel, and every MONITOR connection  *)
(* forwards what it receives to its client.                                *)
(*                                                                         *)
(* The channel is tokio's broadcast channel: it keeps the last Buffer      *)
(* lines, and a receiver that fell further behind is told how many it lost *)
(* and goes on with the oldest line kept.  Lines are told apart by the     *)
(* connection they are about, the place of the command on it, and the      *)
(* epoch it was read in.                                                   *)
(***************************************************************************)
EXTENDS Naturals, Sequences, FiniteSets

CONSTANTS
    Clients,         \* connections that send commands
    Monitors,        \* connections that send MONITOR
    Buffer,          \* MONITOR_BUFFER (1024 in the source)
    SocketBuffer,    \* lines a socket takes before its client reads
    MaxCommands      \* bound on the commands of a client

ASSUME MonitorAssumption ==
    /\ IsFiniteSet(Clients) /\ IsFiniteSet(Monitors)
    /\ {Buffer, SocketBuffer} \subseteq Nat \ {0} /\ MaxCommands \in Nat

VARIABLES
    epoch,           \* state.reset_epoch
    conn,            \* conn[c]: where client connection c is, and its epoch
    published,       \* every line ever sent to the channel
    handled,         \* every command that passed a point of publication
    mon,             \* mon[m]: the task of the monitor connection m
    socket,          \* socket[m]: what is written to the client and not read
    seen,            \* seen[m]: the lines the client of m has read
    gone             \* monitor clients that have closed their connection

monitorVars == <<epoch, conn, published, handled, mon, socket, seen, gone>>

Sent == Len(published)

\* receiver_count: the monitor tasks that hold a receiver.
Subscribed(m) == mon[m].pc \in {"REPLY", "RECV", "WRITE"}

Receivers == {m \in Monitors : Subscribed(m)}

MonitorInit ==
    /\ epoch = 0
    /\ conn = [c \in Clients |-> [pc |-> "READ", epoch |-> 0, sent |-> 0]]
    /\ published = << >> /\ handled = << >>
    /\ mon = [m \in Monitors |-> [pc |-> "NEW", epoch |-> 0, from |-> 0, next |-> 0,
                                  lost |-> {}, okAt |-> 0]]
    /\ socket = [m \in Monitors |-> << >>]
    /\ seen = [m \in Monitors |-> << >>]
    /\ gone = {}

-----------------------------------------------------------------------------
(* Commands. *)

\* publish_monitor_command; without a receiver nothing is sent.
Publish(c) ==
    LET line == [conn |-> c, command |-> conn[c].sent, epoch |-> conn[c].epoch]
    IN  /\ handled' = Append(handled, line)
        /\ published' = IF Receivers = {} THEN published ELSE Append(published, line)

\* A command is read; a stale connection is closed instead.
Read(c) ==
    /\ conn[c].pc = "READ" /\ conn[c].sent < MaxCommands
    /\ conn' = [conn EXCEPT ![c].pc = IF conn[c].epoch = epoch THEN "DISPATCH" ELSE "CLOSED",
                            ![c].sent = @ + 1]
    /\ UNCHANGED <<epoch, published, handled, mon, socket, seen, gone>>

\* DEBUG PROTOCOL, a MONITOR with arguments and a command without words are
\* answered and not published.
Silent(c) ==
    /\ conn[c].pc = "DISPATCH"
    /\ conn' = [conn EXCEPT ![c].pc = "READ"]
    /\ UNCHANGED <<epoch, published, handled, mon, socket, seen, gone>>

\* DEBUG EVIL, DEBUG CHAOS and the CLUSTER queries are published first.
Local(c) ==
    /\ conn[c].pc = "DISPATCH"
    /\ Publish(c)
    /\ conn' = [conn EXCEPT ![c].pc = "READ"]
    /\ UNCHANGED <<epoch, mon, socket, seen, gone>>

\* DEBUG EVIL MODE RESET: published, then every other connection is stale.
ModeReset(c) ==
    /\ conn[c].pc = "DISPATCH"
    /\ Publish(c)
    /\ epoch' = epoch + 1
    /\ conn' = [conn EXCEPT ![c].pc = "READ", ![c].epoch = epoch + 1]
    /\ UNCHANGED <<mon, socket, seen, gone>>

\* Any other command draws its index under the read guard, with the second
\* look at the epoch, and is published after the guard is released.
Number(c) ==
    /\ conn[c].pc = "DISPATCH"
    /\ conn' = [conn EXCEPT ![c].pc = IF conn[c].epoch = epoch THEN "PUBLISH" ELSE "CLOSED"]
    /\ UNCHANGED <<epoch, published, handled, mon, socket, seen, gone>>

Ordinary(c) ==
    /\ conn[c].pc = "PUBLISH"
    /\ Publish(c)
    /\ conn' = [conn EXCEPT ![c].pc = "READ"]
    /\ UNCHANGED <<epoch, mon, socket, seen, gone>>

-----------------------------------------------------------------------------
(* Monitors. *)

\* MONITOR is read on a connection of the present epoch; it subscribes before
\* the reply is written.
Subscribe(m) ==
    /\ mon[m].pc = "NEW"
    /\ mon' = [mon EXCEPT ![m].pc = "REPLY", ![m].epoch = epoch,
                          ![m].from = Sent, ![m].next = Sent]
    /\ UNCHANGED <<epoch, conn, published, handled, socket, seen, gone>>

HasRoom(m) == Len(socket[m]) < SocketBuffer

\* Mutant: an error of the write is passed over.
WriteFailsIgnored(m) ==
    /\ mon[m].pc \in {"REPLY", "WRITE"} /\ m \in gone
    /\ mon' = [mon EXCEPT ![m].pc = "RECV"]
    /\ UNCHANGED <<epoch, conn, published, handled, socket, seen, gone>>

\* A write to a client that left fails, if the socket does not take it first.
WriteFails(m) ==
    /\ mon[m].pc \in {"REPLY", "WRITE"} /\ m \in gone
    /\ mon' = [mon EXCEPT ![m].pc = "ENDED"]
    /\ UNCHANGED <<epoch, conn, published, handled, socket, seen, gone>>

\* The OK of stream_monitor, line 0 here, and then the line received last.
Write(m) ==
    /\ mon[m].pc \in {"REPLY", "WRITE"} /\ HasRoom(m)
    /\ socket' = [socket EXCEPT ![m] =
                    Append(@, IF mon[m].pc = "REPLY" THEN 0 ELSE mon[m].next)]
    /\ mon' = [mon EXCEPT ![m].pc = "RECV"]
    /\ UNCHANGED <<epoch, conn, published, handled, seen, gone>>

\* The oldest line the channel keeps is the one after this.
Dropped == IF Sent > Buffer THEN Sent - Buffer ELSE 0

\* recv returns the next line of the receiver.
Recv(m) ==
    /\ mon[m].pc = "RECV" /\ Dropped <= mon[m].next /\ mon[m].next < Sent
    /\ mon' = [mon EXCEPT ![m].pc = "WRITE", ![m].next = @ + 1]
    /\ UNCHANGED <<epoch, conn, published, handled, socket, seen, gone>>

\* Mutant: a receiver that lagged goes on with the newest line.
LaggedToEnd(m) ==
    /\ mon[m].pc = "RECV" /\ mon[m].next < Dropped
    /\ mon' = [mon EXCEPT ![m].next = Sent, ![m].lost = @ \cup (mon[m].next + 1)..Sent]
    /\ UNCHANGED <<epoch, conn, published, handled, socket, seen, gone>>

\* recv returns Lagged: a warning in the log, and the client is told nothing.
Lagged(m) ==
    /\ mon[m].pc = "RECV" /\ mon[m].next < Dropped
    /\ mon' = [mon EXCEPT ![m].next = Dropped,
                          ![m].lost = @ \cup (mon[m].next + 1)..Dropped]
    /\ UNCHANGED <<epoch, conn, published, handled, socket, seen, gone>>

ClientReads(m) ==
    /\ m \notin gone /\ socket[m] # << >>
    /\ socket' = [socket EXCEPT ![m] = Tail(@)]
    /\ seen' = [seen EXCEPT ![m] = Append(@, Head(socket[m]))]
    /\ mon' = [mon EXCEPT ![m].okAt = IF Head(socket[m]) = 0 THEN Len(handled) ELSE @]
    /\ UNCHANGED <<epoch, conn, published, handled, gone>>

ClientLeaves(m) ==
    /\ m \notin gone /\ Subscribed(m)
    /\ gone' = gone \cup {m}
    /\ UNCHANGED <<epoch, conn, published, handled, mon, socket, seen>>

Command(c) == Read(c) \/ Silent(c) \/ Local(c) \/ ModeReset(c) \/ Number(c) \/ Ordinary(c)

\* The steps of a monitor's task.
Task(m) == WriteFails(m) \/ Write(m) \/ Recv(m) \/ Lagged(m)

MonitorNext ==
    \/ \E c \in Clients : Command(c)
    \/ \E m \in Monitors : Subscribe(m) \/ Task(m) \/ ClientReads(m) \/ ClientLeaves(m)

\* The runtime runs a task that can go on; clients read what they are sent.
MonitorSpec ==
    /\ MonitorInit /\ [][MonitorNext]_monitorVars
    /\ \A m \in Monitors : WF_monitorVars(Task(m)) /\ WF_monitorVars(ClientReads(m))

-----------------------------------------------------------------------------
(* Properties. *)

\* What was written to the client of m, in order: 0 is the OK, any other
\* number the place of a line in the channel.
Stream(m) == seen[m] \o socket[m]

\* The lines m has taken from the channel and written.
Forwarded(m) == {Stream(m)[i] : i \in 1..Len(Stream(m))} \ {0}
InHand(m) == IF mon[m].pc = "WRITE" THEN {mon[m].next} ELSE {}

\* The OK comes first, and lines follow in the order of the channel, none
\* twice and none from before the subscription, however the writes of
\* stream_monitor and the commands of others interleave.
InOrder ==
    \A m \in Monitors :
        /\ Stream(m) # << >> => Stream(m)[1] = 0
        /\ \A i, j \in 1..Len(Stream(m)) : i < j => Stream(m)[i] < Stream(m)[j]
        /\ \A p \in Forwarded(m) : mon[m].from < p /\ p <= mon[m].next

\* A line is lost only to the bound of the channel (MONITOR_BUFFER): what a
\* receiver has passed was forwarded, is being written, or was lost when the
\* channel had gone on by Buffer lines.  A monitor that never falls that far
\* behind sees every line.
LossOnlyByLag ==
    \A m \in Monitors :
        /\ mon[m].pc # "ENDED" =>
             (mon[m].from + 1)..mon[m].next = Forwarded(m) \cup InHand(m) \cup mon[m].lost
        /\ mon[m].lost \cap (Forwarded(m) \cup InHand(m)) = {}
        /\ \A p \in mon[m].lost : p + Buffer <= Sent

\* README.md:146-148: MONITOR "returns OK and then streams": every command that
\* passes a point of publication after the client has read the OK is in the
\* channel, after the place the monitor started from.
NothingMissedAfterOk ==
    \A m \in Monitors :
        (Subscribed(m) /\ seen[m] # << >>) =>
            \A k \in (mon[m].okAt + 1)..Len(handled) :
                \E p \in (mon[m].from + 1)..Sent : published[p] = handled[k]

\* What MONITOR promises its client of the lines.
MonitorStream == InOrder /\ LossOnlyByLag /\ NothingMissedAfterOk

\* A line published is forwarded or given up at last, as long as the client
\* stays and reads: a receiver never gets stuck behind the channel.
LinesDrain ==
    \A m \in Monitors : \A n \in 1..(MaxCommands * Cardinality(Clients)) :
        (Subscribed(m) /\ Sent >= n) ~> (mon[m].next >= n \/ m \in gone)

\* The task of a client that left has no other way to notice it than a write
\* that fails: with more lines to write than the socket takes it ends, and
\* its receiver with it.
DepartedDropped ==
    \A m \in Monitors :
        (Subscribed(m) /\ m \in gone /\ Sent - mon[m].next > SocketBuffer)
            ~> (mon[m].pc = "ENDED")

\* stream_monitor gets neither stuck behind the channel nor kept alive by a
\* client that left.
StreamDrains == LinesDrain /\ DepartedDropped
=============================================================================
