--------------------------- MODULE Services_proofs ---------------------------
(***************************************************************************)
(* What a connection uses beside its upstream: the MONITOR stream, the     *)
(* repro file, the fingerprints and the process itself.  Each part proves  *)
(* the invariant of its module, for any number of connections and without  *)
(* the bounds of a run.                                                    *)
(*                                                                         *)
(* MonitorStream of Monitor, for any size of the channel and of the        *)
(* sockets.  The properties are about the lines written; the invariant     *)
(* adds the line the task has in hand, which is why a line cannot be       *)
(* written twice: as long as it is in hand everything written or lost is   *)
(* before it.                                                              *)
(*                                                                         *)
(* LinesWhole of ReproLog, for any number of runs on the same file and of  *)
(* pieces in which the operating system takes a line.  What the holder of  *)
(* the lock has written is the end of the file and of no other line        *)
(* (EndInv), everything before is of records that are over (Over), so the  *)
(* next piece is a new one, and where the holder began is after a newline  *)
(* or after a line that was cut off.                                       *)
(*                                                                         *)
(* FingerprintsMatchLog of Fingerprints, for any number of requests and    *)
(* any sizes of replies and writes.  What a fingerprint has to cover is a  *)
(* set of places of the log, so that one more piece is one more place (or  *)
(* none) and no induction over the log is needed (SelectsConcat).  What an *)
(* answer looked at lies before the request it answers, so nothing that    *)
(* happens later changes it (EarlierSame).                                 *)
(*                                                                         *)
(* SocketFileRemoved of Lifecycle, for any number of starts.               *)
(***************************************************************************)
EXTENDS Monitor, ReproLog, Fingerprints, FiniteSetTheorems, SequenceTheorems,
        WellFoundedInduction, TLAPS

-----------------------------------------------------------------------------
(* The MONITOR stream. *)

Lines == [conn : Clients, command : Nat, epoch : Nat]

ConnRecords ==
    [pc : {"READ", "DISPATCH", "PUBLISH", "CLOSED"}, epoch : Nat, sent : Nat]

MonRecords ==
    [pc : {"NEW", "REPLY", "RECV", "WRITE", "ENDED"}, epoch : Nat, from : Nat,
     next : Nat, lost : SUBSET Nat, okAt : Nat]

MonitorTypeOK ==
    /\ epoch \in Nat
    /\ conn \in [Clients -> ConnRecords]
    /\ published \in Seq(Lines) /\ handled \in Seq(Lines)
    /\ mon \in [Monitors -> MonRecords]
    /\ socket \in [Monitors -> Seq(Nat)]
    /\ seen \in [Monitors -> Seq(Nat)]
    /\ gone \subseteq Monitors

\* The lines of a stream, the OK apart.
LinesOf(s) == {s[i] : i \in 1..Len(s)} \ {0}

\* The stream s is the OK and lines in the order of the channel.
Ordered(s) ==
    /\ s # << >> => s[1] = 0
    /\ \A i, j \in 1..Len(s) : i < j => s[i] < s[j]

\* The task with the record r, which has written the lines f, is at its place
\* in a channel of n lines.
Placed(r, f, n) ==
    /\ r.from <= r.next /\ r.next <= n
    /\ \A p \in f \cup r.lost : r.from < p /\ p <= r.next /\ (r.pc = "WRITE" => p < r.next)
    /\ r.pc = "WRITE" => r.from < r.next
    /\ f \cap r.lost = {}
    /\ \A p \in r.lost : p + Buffer <= n
    /\ r.pc # "ENDED" =>
         \A p \in Nat : (r.from < p /\ p <= r.next) =>
             p \in f \cup r.lost \/ (r.pc = "WRITE" /\ p = r.next)

\* The stream begins when the reply is written.
Begun(r, s) ==
    /\ r.pc \in {"NEW", "REPLY"} => s = << >> /\ r.lost = {} /\ r.from = r.next
    /\ r.pc \in {"RECV", "WRITE"} => s # << >>

\* What was handled since the client of m read the OK is in the channel.
Complete(m) ==
    (Subscribed(m) /\ seen[m] # << >>) =>
        \A k \in (mon[m].okAt + 1)..Len(handled) :
            \E p \in (mon[m].from + 1)..Sent : published[p] = handled[k]

MonInv(m) ==
    /\ Ordered(Stream(m)) /\ Begun(mon[m], Stream(m))
    /\ Placed(mon[m], LinesOf(Stream(m)), Sent)
    /\ Complete(m)

MonitorIInv == MonitorTypeOK /\ \A m \in Monitors : MonInv(m)

-----------------------------------------------------------------------------
(* Streams. *)

\* Writing adds to the end of what is on its way.
LEMMA WriteAppends ==
    ASSUME NEW s \in Seq(Nat), NEW t \in Seq(Nat), NEW x \in Nat
    PROVE  s \o Append(t, x) = Append(s \o t, x)
OBVIOUS

\* Reading moves the first line over and leaves the stream as it is.
LEMMA ReadingKeeps ==
    ASSUME NEW s \in Seq(Nat), NEW t \in Seq(Nat), t # << >>
    PROVE  Append(s, Head(t)) \o Tail(t) = s \o t
BY SMTT(40)

\* A larger line at the end keeps a stream in order.
LEMMA AppendOrdered ==
    ASSUME NEW s \in Seq(Nat), NEW x \in Nat, Ordered(s),
           s = << >> => x = 0, \A i \in 1..Len(s) : s[i] < x
    PROVE  /\ Ordered(Append(s, x)) /\ Append(s, x) # << >>
           /\ LinesOf(Append(s, x)) = LinesOf(s) \cup ({x} \ {0})
<1>1. /\ Len(Append(s, x)) = Len(s) + 1 /\ Append(s, x)[Len(s) + 1] = x
      /\ \A i \in 1..Len(s) : Append(s, x)[i] = s[i]
  OBVIOUS
<1>2. Len(s) \in Nat /\ \A i \in 1..Len(s) : s[i] \in Nat
  OBVIOUS
<1>3. LinesOf(Append(s, x)) = LinesOf(s) \cup ({x} \ {0})
  BY <1>1, <1>2 DEF LinesOf
<1>4. Append(s, x) # << >>
  BY <1>1, <1>2
<1>5. Append(s, x)[1] = 0
  BY <1>1, <1>2 DEF Ordered
<1>6. \A i, j \in 1..Len(s) + 1 : i < j => Append(s, x)[i] < Append(s, x)[j]
  BY <1>1, <1>2 DEF Ordered
<1> QED
  BY <1>1, <1>3, <1>4, <1>5, <1>6 DEF Ordered

\* The invariant holds before anybody subscribes.
LEMMA MonitorInitIInv == MonitorInit => MonitorIInv
<1> SUFFICES ASSUME MonitorInit PROVE MonitorIInv
  OBVIOUS
<1>1. MonitorTypeOK
  BY DEF MonitorInit, MonitorTypeOK, ConnRecords, MonRecords
<1>2. ASSUME NEW m \in Monitors PROVE MonInv(m)
  <2>1. /\ seen[m] = << >> /\ socket[m] = << >> /\ Sent = 0
        /\ mon[m] = [pc |-> "NEW", epoch |-> 0, from |-> 0, next |-> 0,
                     lost |-> {}, okAt |-> 0]
    BY <1>2 DEF MonitorInit, Sent
  <2>2. Stream(m) = << >>
    BY <2>1 DEF Stream
  <2>3. LinesOf(<< >>) = {} /\ Ordered(<< >>)
    BY DEF LinesOf, Ordered
  <2> QED
    BY <2>1, <2>2, <2>3 DEF MonInv, Begun, Placed, Complete, Subscribed
<1> QED
  BY <1>1, <1>2 DEF MonitorIInv

-----------------------------------------------------------------------------
(* Steps of the clients that send commands. *)

\* A line published is a new last one, and is published for a subscriber.
LEMMA PublishAdds ==
    ASSUME MonitorTypeOK, NEW c \in Clients, Publish(c)
    PROVE  \E line \in Lines :
               /\ handled' = Append(handled, line)
               /\ published' = Append(published, line) \/ published' = published
               /\ Receivers # {} => published' = Append(published, line)
<1> DEFINE line == [conn |-> c, command |-> conn[c].sent, epoch |-> conn[c].epoch]
<1>1. conn[c] \in ConnRecords
  BY DEF MonitorTypeOK
<1>2. line \in Lines
  BY <1>1 DEF Lines, ConnRecords
<1>3. handled' = Append(handled, line)
      /\ published' = IF Receivers = {} THEN published ELSE Append(published, line)
  BY DEF Publish
<1> QED
  BY <1>2, <1>3

\* A command leaves the monitors alone; all it may do to them is publish.
LEMMA CommandStep ==
    ASSUME MonitorTypeOK, NEW c \in Clients, Command(c)
    PROVE  /\ UNCHANGED <<mon, socket, seen, gone>> /\ epoch' \in Nat
           /\ conn' \in [Clients -> ConnRecords]
           /\ \/ UNCHANGED <<published, handled>>
              \/ \E line \in Lines :
                   /\ handled' = Append(handled, line)
                   /\ published' = Append(published, line) \/ published' = published
                   /\ Receivers # {} => published' = Append(published, line)
<1>0. conn \in [Clients -> ConnRecords] /\ conn[c] \in ConnRecords /\ epoch \in Nat
  BY DEF MonitorTypeOK
<1>1. CASE Read(c)
  BY <1>0, <1>1 DEF Read, ConnRecords
<1>2. CASE Silent(c)
  BY <1>0, <1>2 DEF Silent, ConnRecords
<1>3. CASE Local(c)
  BY <1>0, <1>3, PublishAdds DEF Local, ConnRecords
<1>4. CASE ModeReset(c)
  <2>1. /\ Publish(c) /\ epoch' = epoch + 1 /\ UNCHANGED <<mon, socket, seen, gone>>
        /\ conn' = [conn EXCEPT ![c].pc = "READ", ![c].epoch = epoch + 1]
    BY <1>4 DEF ModeReset
  <2>2. conn' \in [Clients -> ConnRecords]
    <3>0. PICK n \in Nat : n = epoch + 1
      BY <1>0
    <3>1. [conn[c] EXCEPT !.pc = "READ", !.epoch = n] \in ConnRecords
      BY <1>0 DEF ConnRecords
    <3>2. conn' = [conn EXCEPT ![c] = [conn[c] EXCEPT !.pc = "READ", !.epoch = n]]
      BY <1>0, <2>1, <3>0
    <3> QED
      BY <1>0, <3>1, <3>2
  <2> QED
    BY <1>0, <2>1, <2>2, PublishAdds
<1>5. CASE Number(c)
  BY <1>0, <1>5 DEF Number, ConnRecords
<1>6. CASE Ordinary(c)
  BY <1>0, <1>6, PublishAdds DEF Ordinary, ConnRecords
<1> QED
  BY <1>1, <1>2, <1>3, <1>4, <1>5, <1>6 DEF Command

\* The place of a task does not suffer from lines published.
LEMMA PlacedLater ==
    ASSUME NEW r \in MonRecords, NEW f, f \subseteq Nat, NEW n \in Nat, NEW k \in Nat,
           n <= k, Placed(r, f, n)
    PROVE  Placed(r, f, k)
<1>1. Buffer \in Nat
  BY MonitorAssumption
<1> QED
  BY <1>1 DEF Placed, MonRecords

\* A command published to the channel keeps every subscriber in its window.
LEMMA CommandIInv ==
    ASSUME MonitorIInv, NEW c \in Clients, Command(c)
    PROVE  MonitorIInv'
<1>0. MonitorTypeOK
  BY DEF MonitorIInv
<1>1. /\ UNCHANGED <<mon, socket, seen, gone>> /\ epoch' \in Nat
      /\ conn' \in [Clients -> ConnRecords]
  BY <1>0, CommandStep
<1>2. CASE UNCHANGED <<published, handled>>
  BY <1>0, <1>1, <1>2 DEF MonitorIInv, MonitorTypeOK, MonInv, Complete, Stream, Sent, Subscribed
<1>3. CASE ~UNCHANGED <<published, handled>>
  <2>1. PICK line \in Lines :
           /\ handled' = Append(handled, line)
           /\ published' = Append(published, line) \/ published' = published
           /\ Receivers # {} => published' = Append(published, line)
    BY <1>0, <1>3, CommandStep
  <2>2. published \in Seq(Lines) /\ handled \in Seq(Lines)
    BY <1>0 DEF MonitorTypeOK
  <2>3. MonitorTypeOK'
    <3>1. published' \in Seq(Lines) /\ handled' \in Seq(Lines)
      BY <2>1, <2>2
    <3> QED
      BY <1>0, <1>1, <3>1 DEF MonitorTypeOK
  <2>4. /\ Sent \in Nat /\ Sent' \in Nat /\ Sent <= Sent'
        /\ \A p \in 1..Sent : published'[p] = published[p]
    BY <2>1, <2>2 DEF Sent
  <2>5. /\ Len(handled) \in Nat /\ Len(handled') = Len(handled) + 1
        /\ handled'[Len(handled) + 1] = line
        /\ \A k \in 1..Len(handled) : handled'[k] = handled[k]
    BY <2>1, <2>2
  <2>6. ASSUME NEW m \in Monitors PROVE MonInv(m)'
    <3>1. MonInv(m) /\ Stream(m)' = Stream(m) /\ mon'[m] = mon[m]
      BY <1>1, <2>6 DEF MonitorIInv, Stream
    <3>2. mon[m] \in MonRecords /\ seen[m] \in Seq(Nat) /\ socket[m] \in Seq(Nat)
      BY <1>0, <2>6 DEF MonitorTypeOK
    <3>3. LinesOf(Stream(m)) \subseteq Nat
      <4>1. Stream(m) \in Seq(Nat)
        BY <3>2 DEF Stream
      <4> QED
        BY <4>1 DEF LinesOf
    <3>4. Placed(mon[m], LinesOf(Stream(m)), Sent')
      BY <2>4, <3>1, <3>2, <3>3, PlacedLater DEF MonInv
    <3>5. Complete(m)'
      <4> SUFFICES ASSUME Subscribed(m), seen[m] # << >>,
                          NEW k \in (mon[m].okAt + 1)..Len(handled')
                   PROVE  \E p \in (mon[m].from + 1)..Sent' : published'[p] = handled'[k]
        BY <1>1, <3>1 DEF Complete, Subscribed
      <4>1. mon[m].okAt \in Nat /\ mon[m].from \in Nat /\ mon[m].next \in Nat
        BY <3>2 DEF MonRecords
      <4>2. CASE k \in (mon[m].okAt + 1)..Len(handled)
        <5>1. PICK p \in (mon[m].from + 1)..Sent : published[p] = handled[k]
          BY <3>1, <4>2 DEF MonInv, Complete
        <5>2. p \in 1..Sent /\ p \in (mon[m].from + 1)..Sent' /\ k \in 1..Len(handled)
          BY <2>4, <2>5, <4>1, <4>2, SMTT(40)
        <5>3. published'[p] = handled'[k]
          BY <2>4, <2>5, <5>1, <5>2
        <5> QED
          BY <5>2, <5>3
      <4>3. CASE k = Len(handled) + 1
        <5>1. published' = Append(published, line)
          BY <2>1, <2>6 DEF Receivers
        <5>2. Sent' = Sent + 1 /\ published'[Sent + 1] = line
          BY <2>2, <5>1 DEF Sent
        <5>3. mon[m].from <= Sent
          BY <2>4, <3>1, <4>1 DEF MonInv, Placed
        <5>4. Sent + 1 \in (mon[m].from + 1)..Sent'
          BY <2>4, <4>1, <5>2, <5>3
        <5>5. published'[Sent + 1] = handled'[k]
          BY <2>5, <4>3, <5>2
        <5> QED
          BY <5>4, <5>5
      <4> QED
        BY <2>5, <4>1, <4>2, <4>3
    <3> QED
      BY <3>1, <3>4, <3>5 DEF MonInv
  <2> QED
    BY <2>3, <2>6 DEF MonitorIInv
<1> QED
  BY <1>2, <1>3

-----------------------------------------------------------------------------
(* Steps of a monitor. *)

\* What another monitor does is nothing to monitor d.
LEMMA OthersKept ==
    ASSUME NEW d \in Monitors, MonInv(d), UNCHANGED <<published, handled>>,
           mon'[d] = mon[d], socket'[d] = socket[d], seen'[d] = seen[d]
    PROVE  MonInv(d)'
BY DEF MonInv, Stream, Complete, Subscribed, Sent

\* A step of the task of monitor m that keeps the parts of its invariant.
MonKept(m) ==
    /\ UNCHANGED <<published, handled>> /\ MonitorTypeOK'
    /\ \A d \in Monitors \ {m} :
           mon'[d] = mon[d] /\ socket'[d] = socket[d] /\ seen'[d] = seen[d]
    /\ MonInv(m)'

\* A step that leaves the channel and the stream of m alone.
LEMMA MonKeptIInv ==
    ASSUME MonitorIInv, NEW m \in Monitors, MonKept(m)
    PROVE  MonitorIInv'
BY OthersKept DEF MonitorIInv, MonKept

\* The types of the parts of one monitor.
LEMMA MonParts ==
    ASSUME MonitorIInv, NEW m \in Monitors
    PROVE  /\ MonitorTypeOK /\ MonInv(m) /\ mon[m] \in MonRecords
           /\ seen[m] \in Seq(Nat) /\ socket[m] \in Seq(Nat)
           /\ Stream(m) \in Seq(Nat) /\ LinesOf(Stream(m)) \subseteq Nat
           /\ Sent \in Nat
<1>1. /\ MonitorTypeOK /\ MonInv(m) /\ mon[m] \in MonRecords
      /\ seen[m] \in Seq(Nat) /\ socket[m] \in Seq(Nat) /\ Sent \in Nat
  BY DEF MonitorIInv, MonitorTypeOK, Sent
<1>2. Stream(m) \in Seq(Nat)
  BY <1>1 DEF Stream
<1> QED
  BY <1>1, <1>2 DEF LinesOf

\* MONITOR: the receiver starts at the end of the channel.
LEMMA SubscribeIInv ==
    ASSUME MonitorIInv, NEW m \in Monitors, Subscribe(m)
    PROVE  MonitorIInv'
<1>1. /\ mon[m].pc = "NEW" /\ UNCHANGED <<epoch, conn, published, handled, socket, seen, gone>>
      /\ mon' = [mon EXCEPT ![m].pc = "REPLY", ![m].epoch = epoch,
                            ![m].from = Sent, ![m].next = Sent]
  BY DEF Subscribe
<1>2. /\ MonitorTypeOK /\ MonInv(m) /\ mon[m] \in MonRecords /\ Sent \in Nat /\ epoch \in Nat
  BY MonParts DEF MonitorTypeOK
<1>3. mon'[m] = [mon[m] EXCEPT !.pc = "REPLY", !.epoch = epoch, !.from = Sent, !.next = Sent]
      /\ \A d \in Monitors \ {m} : mon'[d] = mon[d]
  BY <1>1, <1>2 DEF MonitorTypeOK
<1>4. mon'[m] \in MonRecords
  BY <1>2, <1>3 DEF MonRecords
<1>5. MonitorTypeOK'
  BY <1>1, <1>2, <1>3, <1>4 DEF MonitorTypeOK
<1>6. /\ mon'[m].pc = "REPLY" /\ mon'[m].from = Sent /\ mon'[m].next = Sent
      /\ mon'[m].lost = mon[m].lost
  BY <1>2, <1>3 DEF MonRecords
<1>7. Stream(m) = << >> /\ mon[m].lost = {} /\ seen[m] = << >>
  <2>1. Stream(m) = << >> /\ mon[m].lost = {}
    BY <1>1, <1>2 DEF MonInv, Begun
  <2> QED
    BY <2>1, MonParts DEF Stream
<1>8. MonInv(m)'
  <2>1. Stream(m)' = << >> /\ seen'[m] = << >> /\ Sent' = Sent
    BY <1>1, <1>7 DEF Stream, Sent
  <2>2. LinesOf(<< >>) = {} /\ Ordered(<< >>)
    BY DEF LinesOf, Ordered
  <2>3. Placed(mon'[m], {}, Sent)
    BY <1>2, <1>6, <1>7 DEF Placed
  <2> QED
    BY <1>6, <1>7, <2>1, <2>2, <2>3 DEF MonInv, Begun, Complete
<1> QED
  BY <1>1, <1>3, <1>5, <1>8, MonKeptIInv DEF MonKept

\* A write that fails ends the stream.
LEMMA WriteFailsIInv ==
    ASSUME MonitorIInv, NEW m \in Monitors, WriteFails(m)
    PROVE  MonitorIInv'
<1>1. /\ UNCHANGED <<epoch, conn, published, handled, socket, seen, gone>>
      /\ mon' = [mon EXCEPT ![m].pc = "ENDED"] /\ mon[m].pc # "ENDED"
  BY DEF WriteFails
<1>2. MonitorTypeOK /\ MonInv(m) /\ mon[m] \in MonRecords
  BY MonParts
<1>3. mon'[m] = [mon[m] EXCEPT !.pc = "ENDED"] /\ \A d \in Monitors \ {m} : mon'[d] = mon[d]
  BY <1>1, <1>2 DEF MonitorTypeOK
<1>4. mon'[m] \in MonRecords
  BY <1>2, <1>3 DEF MonRecords
<1>5. MonitorTypeOK'
  BY <1>1, <1>2, <1>3, <1>4 DEF MonitorTypeOK
<1>6. /\ mon'[m].pc = "ENDED" /\ mon'[m].from = mon[m].from
      /\ mon'[m].next = mon[m].next /\ mon'[m].lost = mon[m].lost
  BY <1>2, <1>3 DEF MonRecords
<1>7. MonInv(m)'
  <2>1. Stream(m)' = Stream(m) /\ Sent' = Sent
    BY <1>1 DEF Stream, Sent
  <2>2. Placed(mon'[m], LinesOf(Stream(m)), Sent)
    BY <1>2, <1>6 DEF MonInv, Placed
  <2>3. Complete(m)'
    BY <1>6 DEF Complete, Subscribed
  <2> QED
    BY <1>2, <1>6, <2>1, <2>2, <2>3 DEF MonInv, Begun
<1> QED
  BY <1>1, <1>3, <1>5, <1>7, MonKeptIInv DEF MonKept

\* The OK or a line is written to the client.
LEMMA WriteIInv ==
    ASSUME MonitorIInv, NEW m \in Monitors, Write(m)
    PROVE  MonitorIInv'
<1> DEFINE x == IF mon[m].pc = "REPLY" THEN 0 ELSE mon[m].next
<1>1. /\ UNCHANGED <<epoch, conn, published, handled, seen, gone>>
      /\ mon' = [mon EXCEPT ![m].pc = "RECV"] /\ mon[m].pc \in {"REPLY", "WRITE"}
      /\ socket' = [socket EXCEPT ![m] = Append(@, x)]
  BY DEF Write
<1>2. /\ MonitorTypeOK /\ MonInv(m) /\ mon[m] \in MonRecords /\ Sent \in Nat
      /\ seen[m] \in Seq(Nat) /\ socket[m] \in Seq(Nat)
      /\ Stream(m) \in Seq(Nat) /\ LinesOf(Stream(m)) \subseteq Nat
  BY MonParts
<1>3. /\ mon'[m] = [mon[m] EXCEPT !.pc = "RECV"] /\ socket'[m] = Append(socket[m], x)
      /\ \A d \in Monitors \ {m} : mon'[d] = mon[d] /\ socket'[d] = socket[d]
  BY <1>1, <1>2 DEF MonitorTypeOK
<1>4. mon'[m] \in MonRecords /\ x \in Nat
  BY <1>2, <1>3 DEF MonRecords
<1>5. MonitorTypeOK'
  <2>1. socket'[m] \in Seq(Nat)
    BY <1>2, <1>3, <1>4
  <2> QED
    BY <1>1, <1>2, <1>3, <1>4, <2>1 DEF MonitorTypeOK
<1>6. /\ mon'[m].pc = "RECV" /\ mon'[m].from = mon[m].from
      /\ mon'[m].next = mon[m].next /\ mon'[m].lost = mon[m].lost
      /\ mon'[m].okAt = mon[m].okAt
  BY <1>2, <1>3 DEF MonRecords
<1>7. mon[m].from \in Nat /\ mon[m].next \in Nat /\ mon[m].lost \subseteq Nat
  BY <1>2 DEF MonRecords
<1>8. Stream(m)' = Append(Stream(m), x) /\ Sent' = Sent
  <2> HIDE DEF x
  <2>1. seen[m] \o Append(socket[m], x) = Append(seen[m] \o socket[m], x)
    BY <1>2, <1>4, WriteAppends
  <2> QED
    BY <1>1, <1>3, <2>1 DEF Stream, Sent
<1>9. \A i \in 1..Len(Stream(m)) : Stream(m)[i] < x
  <2>1. CASE mon[m].pc = "REPLY"
    BY <1>2, <2>1 DEF MonInv, Begun
  <2>2. CASE mon[m].pc = "WRITE"
    <3>1. \A i \in 1..Len(Stream(m)) :
             Stream(m)[i] \in Nat /\ (Stream(m)[i] = 0 \/ Stream(m)[i] \in LinesOf(Stream(m)))
      BY <1>2 DEF LinesOf
    <3>2. \A p \in LinesOf(Stream(m)) : p < mon[m].next
      BY <1>2, <2>2 DEF MonInv, Placed
    <3>3. 0 < mon[m].next
      BY <1>2, <1>7, <2>2 DEF MonInv, Placed
    <3> QED
      BY <2>2, <3>1, <3>2, <3>3
  <2> QED
    BY <1>1, <2>1, <2>2
<1>10. Stream(m) = << >> => x = 0
  BY <1>1, <1>2 DEF MonInv, Begun
<1>11. /\ Ordered(Append(Stream(m), x)) /\ Append(Stream(m), x) # << >>
       /\ LinesOf(Append(Stream(m), x)) = LinesOf(Stream(m)) \cup ({x} \ {0})
  BY <1>2, <1>4, <1>9, <1>10, AppendOrdered DEF MonInv
<1>12. Placed(mon'[m], LinesOf(Stream(m)) \cup ({x} \ {0}), Sent)
  <2>1. Placed(mon[m], LinesOf(Stream(m)), Sent)
    BY <1>2 DEF MonInv
  <2>2. CASE mon[m].pc = "REPLY"
    <3>1. LinesOf(Stream(m)) \cup ({x} \ {0}) = LinesOf(Stream(m))
      BY <2>2
    <3> QED
      BY <1>6, <1>7, <2>1, <2>2, <3>1 DEF Placed
  <2>3. CASE mon[m].pc = "WRITE"
    <3>1. x = mon[m].next /\ x > 0
      BY <1>7, <2>1, <2>3 DEF Placed
    <3> HIDE DEF x
    <3>2. {x} \ {0} = {x}
      BY <3>1
    <3> QED
      BY <1>2, <1>6, <1>7, <2>1, <2>3, <3>1, <3>2 DEF Placed
  <2> QED
    BY <1>1, <2>2, <2>3
<1>13. Complete(m)'
  <2>1. mon[m].pc = "REPLY" => seen[m] = << >>
    BY <1>2 DEF MonInv, Begun, Stream
  <2> QED
    BY <1>1, <1>2, <1>6, <1>8, <2>1 DEF MonInv, Complete, Subscribed
<1>14. MonInv(m)'
  <2> HIDE DEF x
  <2> QED
    BY <1>6, <1>8, <1>11, <1>12, <1>13 DEF MonInv, Begun
<1> QED
  BY <1>1, <1>3, <1>5, <1>14, MonKeptIInv DEF MonKept

\* recv and Lagged move the place of the task and nothing else.
LEMMA TaskMoves ==
    ASSUME MonitorIInv, NEW m \in Monitors, NEW r \in MonRecords,
           UNCHANGED <<epoch, conn, published, handled, socket, seen, gone>>,
           mon' = [mon EXCEPT ![m] = r], mon[m].pc = "RECV", r.pc \in {"RECV", "WRITE"},
           r.from = mon[m].from, r.okAt = mon[m].okAt,
           Placed(r, LinesOf(Stream(m)), Sent)
    PROVE  MonitorIInv'
<1>1. MonitorTypeOK /\ MonInv(m)
  BY MonParts
<1>2. mon'[m] = r /\ \A d \in Monitors \ {m} : mon'[d] = mon[d]
  BY <1>1 DEF MonitorTypeOK
<1>3. MonitorTypeOK'
  BY <1>1 DEF MonitorTypeOK
<1>4. MonInv(m)'
  <2>1. Stream(m)' = Stream(m) /\ Sent' = Sent
    BY DEF Stream, Sent
  <2>2. Complete(m)'
    BY <1>1, <1>2, <2>1 DEF MonInv, Complete, Subscribed
  <2> QED
    BY <1>1, <1>2, <2>1, <2>2 DEF MonInv, Begun
<1> QED
  BY <1>2, <1>3, <1>4, MonKeptIInv DEF MonKept

\* The next line is received from the channel.
LEMMA RecvIInv ==
    ASSUME MonitorIInv, NEW m \in Monitors, Recv(m)
    PROVE  MonitorIInv'
<1> DEFINE r == [mon[m] EXCEPT !.pc = "WRITE", !.next = @ + 1]
<1>1. /\ UNCHANGED <<epoch, conn, published, handled, socket, seen, gone>>
      /\ mon[m].pc = "RECV" /\ mon[m].next < Sent
  BY DEF Recv
<1>2. /\ MonInv(m) /\ mon[m] \in MonRecords /\ Sent \in Nat
      /\ LinesOf(Stream(m)) \subseteq Nat
  BY MonParts
<1>3. mon' = [mon EXCEPT ![m] = r]
  BY <1>2 DEF Recv, MonRecords, MonitorIInv, MonitorTypeOK
<1>4. /\ r \in MonRecords /\ r.pc = "WRITE" /\ r.next = mon[m].next + 1
      /\ r.from = mon[m].from /\ r.okAt = mon[m].okAt /\ r.lost = mon[m].lost
  <2>1. PICK n \in Nat : n = mon[m].next + 1
    BY <1>2 DEF MonRecords
  <2>2. r = [mon[m] EXCEPT !.pc = "WRITE", !.next = n]
    BY <2>1
  <2> HIDE DEF r
  <2> QED
    BY <1>2, <2>1, <2>2 DEF MonRecords
<1>5. mon[m].from \in Nat /\ mon[m].next \in Nat /\ mon[m].lost \subseteq Nat
  BY <1>2 DEF MonRecords
<1>6. Placed(r, LinesOf(Stream(m)), Sent)
  <2> HIDE DEF r
  <2>1. Placed(mon[m], LinesOf(Stream(m)), Sent)
    BY <1>2 DEF MonInv
  <2> QED
    BY <1>1, <1>2, <1>4, <1>5, <2>1 DEF Placed
<1> HIDE DEF r
<1> QED
  BY <1>1, <1>3, <1>4, <1>6, TaskMoves

\* A receiver that fell behind skips to the oldest line kept.
LEMMA LaggedIInv ==
    ASSUME MonitorIInv, NEW m \in Monitors, Lagged(m)
    PROVE  MonitorIInv'
<1> DEFINE new == (mon[m].next + 1)..Dropped
           r == [mon[m] EXCEPT !.next = Dropped, !.lost = @ \cup new]
<1>1. /\ UNCHANGED <<epoch, conn, published, handled, socket, seen, gone>>
      /\ mon[m].pc = "RECV" /\ mon[m].next < Dropped
  BY DEF Lagged
<1>2. /\ MonInv(m) /\ mon[m] \in MonRecords /\ Sent \in Nat
      /\ LinesOf(Stream(m)) \subseteq Nat
  BY MonParts
<1>3. mon' = [mon EXCEPT ![m] = r]
  BY <1>2 DEF Lagged, MonRecords, MonitorIInv, MonitorTypeOK
<1>4. mon[m].from \in Nat /\ mon[m].next \in Nat /\ mon[m].lost \subseteq Nat
  BY <1>2 DEF MonRecords
<1>5. Buffer \in Nat /\ Dropped \in Nat /\ Dropped + Buffer <= Sent
  BY <1>1, <1>2, <1>4, MonitorAssumption DEF Dropped
<1>6. /\ r \in MonRecords /\ r.pc = "RECV" /\ r.next = Dropped
      /\ r.from = mon[m].from /\ r.okAt = mon[m].okAt /\ r.lost = mon[m].lost \cup new
  <2>0. mon[m].lost \cup new \in SUBSET Nat
    BY <1>4, <1>5
  <2>1. PICK l \in SUBSET Nat : l = mon[m].lost \cup new
    <3> HIDE DEF new
    <3> QED
      BY <2>0
  <2>2. r = [mon[m] EXCEPT !.next = Dropped, !.lost = l]
    BY <2>1
  <2> HIDE DEF r, new
  <2> QED
    BY <1>1, <1>2, <1>5, <2>1, <2>2 DEF MonRecords
<1>7. Placed(r, LinesOf(Stream(m)), Sent)
  <2> HIDE DEF r
  <2>1. Placed(mon[m], LinesOf(Stream(m)), Sent)
    BY <1>2 DEF MonInv
  <2> QED
    BY <1>1, <1>2, <1>4, <1>5, <1>6, <2>1 DEF Placed
<1> HIDE DEF r
<1> QED
  BY <1>1, <1>3, <1>6, <1>7, TaskMoves

\* The client takes what was written to it.
LEMMA ClientReadsIInv ==
    ASSUME MonitorIInv, NEW m \in Monitors, ClientReads(m)
    PROVE  MonitorIInv'
<1> DEFINE ok == IF Head(socket[m]) = 0 THEN Len(handled) ELSE mon[m].okAt
<1>1. /\ UNCHANGED <<epoch, conn, published, handled, gone>> /\ socket[m] # << >>
      /\ socket' = [socket EXCEPT ![m] = Tail(@)]
      /\ seen' = [seen EXCEPT ![m] = Append(@, Head(socket[m]))]
      /\ mon' = [mon EXCEPT ![m].okAt = ok]
  BY DEF ClientReads
<1>2. /\ MonitorTypeOK /\ MonInv(m) /\ mon[m] \in MonRecords /\ Sent \in Nat
      /\ seen[m] \in Seq(Nat) /\ socket[m] \in Seq(Nat) /\ handled \in Seq(Lines)
  BY MonParts DEF MonitorTypeOK
<1>3. /\ mon'[m] = [mon[m] EXCEPT !.okAt = ok] /\ socket'[m] = Tail(socket[m])
      /\ seen'[m] = Append(seen[m], Head(socket[m]))
      /\ \A d \in Monitors \ {m} :
             mon'[d] = mon[d] /\ socket'[d] = socket[d] /\ seen'[d] = seen[d]
  BY <1>1, <1>2 DEF MonitorTypeOK
<1>4. ok \in Nat
  BY <1>2 DEF MonRecords
<1>5. /\ mon'[m] \in MonRecords /\ mon'[m].pc = mon[m].pc /\ mon'[m].from = mon[m].from
      /\ mon'[m].next = mon[m].next /\ mon'[m].lost = mon[m].lost /\ mon'[m].okAt = ok
  <2> HIDE DEF ok
  <2> QED
    BY <1>2, <1>3, <1>4 DEF MonRecords
<1>6. socket'[m] \in Seq(Nat) /\ seen'[m] \in Seq(Nat)
  BY <1>1, <1>2, <1>3
<1>7. MonitorTypeOK'
  <2>1. mon' \in [Monitors -> MonRecords]
    BY <1>1, <1>2, <1>3, <1>5 DEF MonitorTypeOK
  <2>2. socket' \in [Monitors -> Seq(Nat)] /\ seen' \in [Monitors -> Seq(Nat)]
    BY <1>1, <1>2, <1>3, <1>6 DEF MonitorTypeOK
  <2> QED
    BY <1>1, <1>2, <2>1, <2>2 DEF MonitorTypeOK
<1>8. Stream(m)' = Stream(m) /\ Sent' = Sent
  BY <1>1, <1>2, <1>3, ReadingKeeps, ZenonT(60) DEF Stream, Sent
<1>9. Complete(m)'
  <2>1. CASE Head(socket[m]) = 0
    <3>1. (mon'[m].okAt + 1)..Len(handled') = {}
      BY <1>1, <1>2, <1>5, <2>1
    <3> QED
      BY <3>1 DEF Complete
  <2>2. CASE Head(socket[m]) # 0
    <3>1. seen[m] # << >>
      <4> SUFFICES ASSUME seen[m] = << >> PROVE FALSE
        OBVIOUS
      <4>1. Stream(m) = socket[m]
        BY <1>2 DEF Stream
      <4>2. Stream(m)[1] = 0
        BY <1>1, <1>2, <4>1 DEF MonInv, Ordered
      <4> QED
        BY <1>1, <1>2, <2>2, <4>1, <4>2
    <3>2. mon'[m].okAt = mon[m].okAt
      BY <1>5, <2>2
    <3> QED
      BY <1>1, <1>2, <1>5, <1>8, <3>1, <3>2 DEF MonInv, Complete, Subscribed
  <2> QED
    BY <2>1, <2>2
<1>10. MonInv(m)'
  <2> HIDE DEF ok
  <2>1. Placed(mon'[m], LinesOf(Stream(m)), Sent)
    BY <1>2, <1>5 DEF MonInv, Placed
  <2> QED
    BY <1>2, <1>5, <1>8, <1>9, <2>1 DEF MonInv, Begun
<1> QED
  BY <1>1, <1>3, <1>7, <1>10, MonKeptIInv DEF MonKept

\* Every step keeps the invariant.
LEMMA MonitorNextIInv ==
    ASSUME MonitorIInv, [MonitorNext]_monitorVars
    PROVE  MonitorIInv'
<1>1. CASE \E c \in Clients : Command(c)
  BY <1>1, CommandIInv
<1>2. ASSUME NEW m \in Monitors,
             Subscribe(m) \/ Task(m) \/ ClientReads(m) \/ ClientLeaves(m)
      PROVE  MonitorIInv'
  <2>1. CASE Subscribe(m)
    BY <1>2, <2>1, SubscribeIInv
  <2>2. CASE WriteFails(m)
    BY <1>2, <2>2, WriteFailsIInv
  <2>3. CASE Write(m)
    BY <1>2, <2>3, WriteIInv
  <2>4. CASE Recv(m)
    BY <1>2, <2>4, RecvIInv
  <2>5. CASE Lagged(m)
    BY <1>2, <2>5, LaggedIInv
  <2>6. CASE ClientReads(m)
    BY <1>2, <2>6, ClientReadsIInv
  <2>7. CASE ClientLeaves(m)
    BY <1>2, <2>7
       DEF MonitorIInv, MonitorTypeOK, ClientLeaves, MonInv, Stream, Complete, Subscribed, Sent
  <2> QED
    BY <1>2, <2>1, <2>2, <2>3, <2>4, <2>5, <2>6, <2>7 DEF Task
<1>3. CASE UNCHANGED monitorVars
  <2>1. UNCHANGED <<epoch, conn, published, handled, mon, socket, seen, gone>> /\ MonitorTypeOK
    BY <1>3 DEF MonitorIInv, monitorVars
  <2>2. MonitorTypeOK'
    BY <2>1 DEF MonitorTypeOK
  <2>3. ASSUME NEW m \in Monitors PROVE MonInv(m)'
    BY <2>1, <2>3, OthersKept DEF MonitorIInv
  <2> QED
    BY <2>2, <2>3 DEF MonitorIInv
<1> QED
  BY <1>1, <1>2, <1>3 DEF MonitorNext

\* The lines written are those of the stream.
LEMMA IInvMonitorStream == MonitorIInv => MonitorStream
<1> SUFFICES ASSUME MonitorIInv PROVE MonitorStream
  OBVIOUS
<1>1. ASSUME NEW m \in Monitors
      PROVE  /\ Stream(m) # << >> => Stream(m)[1] = 0
             /\ \A i, j \in 1..Len(Stream(m)) : i < j => Stream(m)[i] < Stream(m)[j]
             /\ \A p \in Forwarded(m) : mon[m].from < p /\ p <= mon[m].next
  BY <1>1 DEF MonitorIInv, MonInv, Ordered, Placed, Forwarded, LinesOf
<1>2. ASSUME NEW m \in Monitors
      PROVE  /\ mon[m].pc # "ENDED" =>
                  (mon[m].from + 1)..mon[m].next = Forwarded(m) \cup InHand(m) \cup mon[m].lost
             /\ mon[m].lost \cap (Forwarded(m) \cup InHand(m)) = {}
             /\ \A p \in mon[m].lost : p + Buffer <= Sent
  <2>1. /\ mon[m].from \in Nat /\ mon[m].next \in Nat /\ mon[m].lost \subseteq Nat
        /\ Forwarded(m) = LinesOf(Stream(m)) /\ Forwarded(m) \subseteq Nat
    BY <1>2, MonParts DEF MonRecords, Forwarded, LinesOf
  <2>2. Placed(mon[m], Forwarded(m), Sent)
    BY <1>2, <2>1 DEF MonitorIInv, MonInv
  <2>3. mon[m].lost \cap (Forwarded(m) \cup InHand(m)) = {}
    BY <2>1, <2>2 DEF Placed, InHand
  <2>4. ASSUME mon[m].pc # "ENDED"
        PROVE  (mon[m].from + 1)..mon[m].next = Forwarded(m) \cup InHand(m) \cup mon[m].lost
    BY <2>1, <2>2, <2>4 DEF Placed, InHand
  <2> QED
    BY <2>2, <2>3, <2>4 DEF Placed
<1>3. NothingMissedAfterOk
  BY DEF MonitorIInv, MonInv, Complete, NothingMissedAfterOk
<1> QED
  BY <1>1, <1>2, <1>3 DEF MonitorStream, InOrder, LossOnlyByLag

\* A MONITOR client is given the OK and then the lines of the channel in order
\* and none twice; it misses a line only when the channel had gone on by
\* Buffer lines (MONITOR_BUFFER), and a command that is published after the
\* client has read the OK is in the channel behind its starting place.
THEOREM StreamsCorrect == MonitorSpec => []MonitorStream
<1>1. MonitorInit => MonitorIInv
  BY MonitorInitIInv
<1>2. MonitorIInv /\ [MonitorNext]_monitorVars => MonitorIInv'
  BY MonitorNextIInv
<1> QED
  BY <1>1, <1>2, IInvMonitorStream, PTL DEF MonitorSpec

-----------------------------------------------------------------------------
(* The repro file. *)

Records == [run : Nat, conn : Conns, number : Nat]
LinePieces == [record : Records, part : 1..Parts]
Tasks == [pc : {"REPLY", "APPEND"}, records : Nat]

ReproTypeOK ==
    /\ run \in Nat
    /\ task \in [Conns -> Tasks]
    /\ queue \in Seq(Conns)
    /\ written \in 0..Parts
    /\ file \in Seq(LinePieces)
    /\ appended \subseteq Records /\ torn \subseteq Records

\* The connections in the queue are the ones that wait for their append.
QueueInv ==
    /\ queue = << >> => written = 0
    /\ \A i \in 1..Len(queue) : task[queue[i]].pc = "APPEND"
    /\ \A i, j \in 1..Len(queue) : queue[i] = queue[j] => i = j

\* The append of record r has ended, or the process it was to be made by.
Over(r) ==
    \/ r.run < run
    \/ /\ r.run = run
       /\ \/ r.number < task[r.conn].records
          \/ r.number = task[r.conn].records /\ task[r.conn].pc = "REPLY"

\* Where the holder of the lock began to write, or the next one will.
Start == Len(file) - written

\* The holder's pieces are the end of the file.
EndInv ==
    /\ written <= Len(file)
    /\ \A k \in 1..written : file[Start + k] = [record |-> Record(Head(queue)), part |-> k]
    /\ \A i \in 1..Start : Over(file[i].record)

\* The first n pieces of f end with a newline or with a line cut off.
Boundary(f, t, n) == n = 0 \/ f[n].part = Parts \/ f[n].record \in t

\* No piece is in f twice.
Distinct(f) == \A i, j \in 1..Len(f) : f[i] = f[j] => i = j

\* The line of r starts at i in f.
LineIn(f, r, i) ==
    /\ i + Parts - 1 <= Len(f)
    /\ \A k \in 1..Parts : f[i + k - 1] = [record |-> r, part |-> k]

Kept(f, t, r) == \E i \in 1..Len(f) : LineIn(f, r, i) /\ Boundary(f, t, i - 1)

ReproIInv ==
    /\ ReproTypeOK /\ QueueInv /\ EndInv
    /\ Boundary(file, torn, Start) /\ Distinct(file)
    /\ \A r \in appended : Kept(file, torn, r)

-----------------------------------------------------------------------------
(* Files that grow. *)

\* What was kept stays when pieces and cut-off records are added.
LEMMA KeptGrows ==
    ASSUME NEW f \in Seq(LinePieces), NEW g \in Seq(LinePieces), NEW t, NEW u,
           Len(f) <= Len(g), \A i \in 1..Len(f) : g[i] = f[i], t \subseteq u,
           NEW r, Kept(f, t, r)
    PROVE  Kept(g, u, r)
<1>0. Parts \in Nat /\ Parts > 0 /\ Len(f) \in Nat /\ Len(g) \in Nat
  BY ReproAssumption
<1>1. PICK i \in 1..Len(f) : LineIn(f, r, i) /\ Boundary(f, t, i - 1)
  BY DEF Kept
<1>2. LineIn(g, r, i)
  <2>1. i + Parts - 1 <= Len(f) /\ i + Parts - 1 <= Len(g)
    BY <1>0, <1>1 DEF LineIn
  <2>2. ASSUME NEW k \in 1..Parts PROVE g[i + k - 1] = f[i + k - 1]
    <3>1. i + k - 1 \in 1..Len(f)
      BY <1>0, <1>1, <2>1
    <3> QED
      BY <3>1
  <2> QED
    BY <1>1, <2>1, <2>2 DEF LineIn
<1>3. Boundary(g, u, i - 1)
  <2>1. i - 1 = 0 \/ i - 1 \in 1..Len(f)
    BY <1>0, <1>1
  <2> QED
    BY <1>1, <2>1 DEF Boundary
<1>4. i \in 1..Len(g)
  BY <1>0, <1>1
<1> QED
  BY <1>2, <1>3, <1>4 DEF Kept

\* The invariant holds of an empty file.
LEMMA ReproInitIInv ==
    ASSUME ReproInit
    PROVE  ReproIInv
<1>1. Parts \in Nat /\ Parts > 0
  BY ReproAssumption
<1>2. ReproTypeOK
  BY <1>1 DEF ReproInit, ReproTypeOK, Idle, Tasks
<1>3. QueueInv /\ EndInv /\ Boundary(file, torn, Start) /\ Distinct(file)
  BY DEF ReproInit, QueueInv, EndInv, Start, Boundary, Distinct
<1> QED
  BY <1>2, <1>3 DEF ReproIInv, ReproInit

\* The invariant says what the property says.
LEMMA IInvLinesWhole ==
    ASSUME ReproIInv
    PROVE  LinesWhole
<1> SUFFICES ASSUME NEW r \in appended
             PROVE  \E i \in 1..Len(file) :
                       /\ LineAt(r, i) /\ \A j \in 1..Len(file) : LineAt(r, j) => j = i
                       /\ OwnLine(i) \/ file[i - 1].record \in torn
  BY DEF LinesWhole
<1>0. Parts \in Nat /\ Parts > 0 /\ Len(file) \in Nat
  BY ReproAssumption DEF ReproIInv, ReproTypeOK
<1>1. PICK i \in 1..Len(file) : LineIn(file, r, i) /\ Boundary(file, torn, i - 1)
  BY DEF ReproIInv, Kept
<1>2. LineAt(r, i)
  BY <1>1 DEF LineAt, LineIn
<1>3. ASSUME NEW j \in 1..Len(file), LineAt(r, j) PROVE j = i
  <2>1. 1 \in 1..Parts /\ i + 1 - 1 = i /\ j + 1 - 1 = j
    BY <1>0
  <2>2. file[i] = [record |-> r, part |-> 1] /\ file[j] = [record |-> r, part |-> 1]
    BY <1>2, <1>3, <2>1 DEF LineAt
  <2> QED
    BY <2>2 DEF ReproIInv, Distinct
<1>4. OwnLine(i) \/ file[i - 1].record \in torn
  BY <1>0, <1>1 DEF OwnLine, Boundary
<1> QED
  BY <1>2, <1>3, <1>4

-----------------------------------------------------------------------------
(* The steps. *)

\* What the parts of the state are, and that the holder is the first waiting.
LEMMA Parts0 ==
    ASSUME ReproIInv
    PROVE  /\ Parts \in Nat /\ Parts > 0 /\ run \in Nat /\ written \in Nat /\ written <= Parts
           /\ file \in Seq(LinePieces) /\ queue \in Seq(Conns) /\ task \in [Conns -> Tasks]
           /\ Len(file) \in Nat /\ Len(queue) \in Nat /\ Start \in Nat /\ Start <= Len(file)
           /\ Start + written = Len(file)
           /\ \A i \in 1..Len(file) : file[i] \in LinePieces /\ file[i].record \in Records
<1>1. Parts \in Nat /\ Parts > 0
  BY ReproAssumption
<1>2. /\ run \in Nat /\ written \in Nat /\ written <= Parts
      /\ file \in Seq(LinePieces) /\ queue \in Seq(Conns) /\ task \in [Conns -> Tasks]
  BY <1>1 DEF ReproIInv, ReproTypeOK
<1>3. Len(file) \in Nat /\ Len(queue) \in Nat
  BY <1>2
<1>4. Start \in Nat /\ Start <= Len(file) /\ Start + written = Len(file)
  BY <1>2, <1>3 DEF ReproIInv, EndInv, Start
<1>5. \A i \in 1..Len(file) : file[i] \in LinePieces
  BY <1>2
<1>6. \A i \in 1..Len(file) : file[i].record \in Records
  BY <1>5 DEF LinePieces
<1> QED
  BY <1>1, <1>2, <1>3, <1>4, <1>5, <1>6

\* The holder's connection, and its record, which is not over.
LEMMA HolderParts ==
    ASSUME ReproIInv, NEW c \in Conns, Holds(c)
    PROVE  /\ queue # << >> /\ c = Head(queue) /\ c = queue[1] /\ Len(queue) > 0
           /\ task[c].pc = "APPEND" /\ task[c] \in Tasks
           /\ Record(c) \in Records /\ ~Over(Record(c))
           /\ Tail(queue) \in Seq(Conns)
           /\ \A k \in 1..Len(Tail(queue)) :
                  Tail(queue)[k] = queue[k + 1] /\ k + 1 \in 1..Len(queue) /\ queue[k + 1] # c
<1>0. queue \in Seq(Conns) /\ task[c] \in Tasks /\ run \in Nat
  BY Parts0
<1>1. queue # << >> /\ c = Head(queue) /\ c = queue[1] /\ Len(queue) > 0
  BY <1>0 DEF Holds
<1>2. 1 \in 1..Len(queue)
  BY <1>0, <1>1
<1>3. task[c].pc = "APPEND"
  BY <1>1, <1>2 DEF ReproIInv, QueueInv
<1>4. Record(c) \in Records /\ ~Over(Record(c))
  BY <1>0, <1>3 DEF Record, Records, Tasks, Over
<1>5. /\ Tail(queue) \in Seq(Conns) /\ Len(Tail(queue)) = Len(queue) - 1
      /\ \A k \in 1..Len(Tail(queue)) : Tail(queue)[k] = queue[k + 1]
  BY <1>0, <1>1
<1>6. ASSUME NEW k \in 1..Len(Tail(queue))
      PROVE  k + 1 \in 1..Len(queue) /\ queue[k + 1] # c
  <2>1. k + 1 \in 1..Len(queue) /\ k + 1 # 1
    BY <1>0, <1>5
  <2> QED
    BY <1>1, <1>2, <2>1 DEF ReproIInv, QueueInv
<1> QED
  BY <1>0, <1>1, <1>3, <1>4, <1>5, <1>6

\* A piece of a record is written under the lock.
LEMMA WritePieceIInv ==
    ASSUME ReproIInv, NEW c \in Conns, WritePiece(c)
    PROVE  ReproIInv'
<1> DEFINE piece == [record |-> Record(c), part |-> written + 1]
           g == Append(file, piece)
<1>1. /\ Holds(c) /\ written < Parts /\ file' = g /\ written' = written + 1
      /\ UNCHANGED <<run, task, queue, appended, torn>>
  BY DEF WritePiece
<1>2. /\ Parts \in Nat /\ Parts > 0 /\ written \in Nat /\ file \in Seq(LinePieces)
      /\ Len(file) \in Nat /\ Start \in Nat /\ Start <= Len(file)
      /\ Start + written = Len(file)
  BY Parts0
<1>3. queue # << >> /\ c = Head(queue) /\ Record(c) \in Records /\ ~Over(Record(c))
  BY <1>1, HolderParts
<1>4. piece \in LinePieces
  BY <1>1, <1>2, <1>3 DEF LinePieces
<1>5. /\ g \in Seq(LinePieces) /\ Len(g) = Len(file) + 1 /\ g[Len(file) + 1] = piece
      /\ \A i \in 1..Len(file) : g[i] = file[i]
  <2> HIDE DEF piece
  <2> QED
    BY <1>2, <1>4
<1>6. Start' = Start
  BY <1>1, <1>2, <1>5 DEF Start
<1> HIDE DEF g
<1>7. ReproTypeOK'
  BY <1>1, <1>2, <1>5 DEF ReproIInv, ReproTypeOK
<1>8. QueueInv'
  BY <1>1, <1>3 DEF ReproIInv, QueueInv
<1>9. EndInv'
  <2>1. ASSUME NEW i \in 1..Start' PROVE Over(file[i].record)'
    <3>1. file'[i] = file[i] /\ Over(file[i].record)
      BY <1>1, <1>2, <1>5, <1>6, <2>1 DEF ReproIInv, EndInv
    <3> QED
      BY <1>1, <3>1 DEF Over
  <2>2. ASSUME NEW k \in 1..(written + 1)
        PROVE  g[Start + k] = [record |-> Record(c), part |-> k]
    <3>1. CASE k \in 1..written
      <4>1. file[Start + k] = [record |-> Record(c), part |-> k]
        BY <1>3, <3>1 DEF ReproIInv, EndInv
      <4>2. Start + k \in 1..Len(file)
        BY <1>2, <3>1
      <4> QED
        BY <1>5, <4>1, <4>2
    <3>2. CASE k = written + 1
      BY <1>2, <1>5, <3>2
    <3> QED
      BY <1>2, <3>1, <3>2
  <2>3. Record(c)' = Record(c) /\ Head(queue') = c
    BY <1>1, <1>3 DEF Record
  <2>4. \A k \in 1..written' : file'[Start' + k] = [record |-> Record(Head(queue)), part |-> k]'
    BY <1>1, <1>3, <1>6, <2>2, <2>3
  <2>5. written' <= Len(file')
    BY <1>1, <1>2, <1>5
  <2> QED
    BY <2>1, <2>4, <2>5 DEF EndInv
<1>10. Boundary(file, torn, Start)'
  <2>1. Start = 0 \/ Start \in 1..Len(file)
    BY <1>2
  <2> QED
    BY <1>1, <1>5, <1>6, <2>1 DEF ReproIInv, Boundary
<1>11. Distinct(g)
  <2>1. ASSUME NEW i \in 1..Len(file) PROVE file[i] # piece
    <3>1. CASE i \in 1..Start
      <4>1. Over(file[i].record)
        BY <3>1 DEF ReproIInv, EndInv
      <4> QED
        BY <1>3, <4>1
    <3>2. CASE ~(i \in 1..Start)
      <4>1. i - Start \in 1..written /\ Start + (i - Start) = i
        BY <1>2, <3>2
      <4>2. file[Start + (i - Start)]
              = [record |-> Record(Head(queue)), part |-> i - Start]
        BY <4>1 DEF ReproIInv, EndInv
      <4>3. file[i].part = i - Start
        BY <4>1, <4>2
      <4> QED
        BY <1>2, <4>1, <4>3
    <3> QED
      BY <3>1, <3>2
  <2> HIDE DEF piece
  <2> QED
    BY <1>2, <1>5, <2>1 DEF ReproIInv, Distinct
<1>12. ASSUME NEW r \in appended PROVE Kept(g, torn, r)
  <2>1. Kept(file, torn, r)
    BY DEF ReproIInv
  <2>2. Len(file) <= Len(g)
    BY <1>2, <1>5
  <2> QED
    BY <1>2, <1>5, <2>1, <2>2, KeptGrows
<1> QED
  BY <1>1, <1>7, <1>8, <1>9, <1>10, <1>11, <1>12 DEF ReproIInv

\* Nothing is over that was not, or its record is the holder's.
LEMMA AllOver ==
    ASSUME ReproIInv, NEW i \in 1..Len(file)
    PROVE  Over(file[i].record) \/ (queue # << >> /\ file[i].record = Record(Head(queue)))
<1>1. /\ written \in Nat /\ Len(file) \in Nat /\ Start \in Nat /\ Start + written = Len(file)
  BY Parts0
<1>2. CASE i \in 1..Start
  BY <1>2 DEF ReproIInv, EndInv
<1>3. CASE ~(i \in 1..Start)
  <2>1. i - Start \in 1..written /\ Start + (i - Start) = i
    BY <1>1, <1>3
  <2>2. file[Start + (i - Start)] = [record |-> Record(Head(queue)), part |-> i - Start]
    BY <2>1 DEF ReproIInv, EndInv
  <2>3. queue # << >>
    BY <1>1, <2>1 DEF ReproIInv, QueueInv
  <2> QED
    BY <2>1, <2>2, <2>3
<1> QED
  BY <1>2, <1>3

\* A step that writes nothing and ends what was being written.
LEMMA Ending ==
    ASSUME ReproIInv, ReproTypeOK', QueueInv',
           file' = file, written' = 0, torn \subseteq torn',
           \A i \in 1..Len(file) : Over(file[i].record)',
           Boundary(file, torn', Len(file)),
           \A r \in appended' \ appended : Kept(file, torn', r)
    PROVE  ReproIInv'
<1>1. Len(file) \in Nat /\ Start' = Len(file)
  BY Parts0 DEF Start
<1>2. EndInv'
  BY <1>1 DEF EndInv
<1>3. Boundary(file, torn, Start)'
  BY <1>1 DEF Boundary
<1>4. Distinct(file)'
  BY DEF ReproIInv, Distinct
<1>5. ASSUME NEW r \in appended' PROVE Kept(file, torn', r)
  <2>1. CASE r \in appended
    <3>1. Kept(file, torn, r)
      BY <2>1 DEF ReproIInv
    <3> QED
      BY <1>1, <3>1, KeptGrows, Parts0
  <2> QED
    BY <1>5, <2>1
<1> QED
  BY <1>2, <1>3, <1>4, <1>5 DEF ReproIInv

\* The queue without its first.
LEMMA Unlocked ==
    ASSUME ReproIInv, NEW c \in Conns, Holds(c), Unlock,
           task' = [task EXCEPT ![c].pc = "REPLY"], run' = run, file' = file
    PROVE  /\ queue' \in Seq(Conns) /\ task' \in [Conns -> Tasks] /\ QueueInv'
           /\ \A i \in 1..Len(file) : Over(file[i].record)'
<1>1. /\ queue # << >> /\ c = Head(queue) /\ Len(queue) > 0
      /\ Tail(queue) \in Seq(Conns) /\ task[c] \in Tasks
      /\ \A k \in 1..Len(Tail(queue)) :
             Tail(queue)[k] = queue[k + 1] /\ k + 1 \in 1..Len(queue) /\ queue[k + 1] # c
  BY HolderParts
<1>2. /\ queue \in Seq(Conns) /\ task \in [Conns -> Tasks] /\ run \in Nat
      /\ \A i \in 1..Len(file) : file[i].record \in Records
  BY Parts0
<1>3. task' \in [Conns -> Tasks] /\ task'[c].pc = "REPLY"
      /\ \A d \in Conns : task'[d].records = task[d].records
                          /\ (d # c => task'[d] = task[d])
  BY <1>1, <1>2 DEF Tasks
<1>4. QueueInv'
  <2>1. queue' = Tail(queue) /\ written' = 0
    BY DEF Unlock
  <2>2. ASSUME NEW k \in 1..Len(Tail(queue)) PROVE task'[Tail(queue)[k]].pc = "APPEND"
    <3>1. queue[k + 1] \in Conns /\ task[queue[k + 1]].pc = "APPEND"
      BY <1>1, <1>2 DEF ReproIInv, QueueInv
    <3> QED
      BY <1>1, <1>3, <3>1
  <2>3. ASSUME NEW k \in 1..Len(Tail(queue)), NEW l \in 1..Len(Tail(queue)),
               Tail(queue)[k] = Tail(queue)[l]
        PROVE  k = l
    <3>1. queue[k + 1] = queue[l + 1] /\ k + 1 \in 1..Len(queue) /\ l + 1 \in 1..Len(queue)
      BY <1>1, <2>3
    <3>2. k + 1 = l + 1
      BY <3>1 DEF ReproIInv, QueueInv
    <3> QED
      BY <1>1, <3>2
  <2> QED
    BY <2>1, <2>2, <2>3 DEF QueueInv
<1>5. ASSUME NEW i \in 1..Len(file) PROVE Over(file[i].record)'
  <2>1. Over(file[i].record) \/ file[i].record = Record(c)
    BY <1>1, AllOver
  <2>2. file[i].record.conn \in Conns
    BY <1>2 DEF Records
  <2>3. CASE Over(file[i].record)
    BY <1>3, <2>2, <2>3 DEF Over
  <2>4. CASE file[i].record = Record(c)
    BY <1>3, <2>4 DEF Over, Record
  <2> QED
    BY <2>1, <2>3, <2>4
<1> QED
  BY <1>1, <1>3, <1>4, <1>5 DEF Unlock

\* The record is complete and the lock released.
LEMMA AppendDoneIInv ==
    ASSUME ReproIInv, NEW c \in Conns, AppendDone(c)
    PROVE  ReproIInv'
<1>1. /\ Holds(c) /\ written = Parts /\ appended' = appended \cup {Record(c)}
      /\ Unlock /\ task' = [task EXCEPT ![c].pc = "REPLY"] /\ UNCHANGED <<run, file, torn>>
  BY DEF AppendDone
<1>2. /\ queue' \in Seq(Conns) /\ task' \in [Conns -> Tasks] /\ QueueInv'
      /\ \A i \in 1..Len(file) : Over(file[i].record)'
  BY <1>1, Unlocked
<1>3. c = Head(queue) /\ Record(c) \in Records
  BY <1>1, HolderParts
<1>4. /\ Parts \in Nat /\ Parts > 0 /\ written \in Nat
      /\ Len(file) \in Nat /\ Start \in Nat /\ Start + written = Len(file)
  BY Parts0
<1>5. ReproTypeOK'
  BY <1>1, <1>2, <1>3, <1>4 DEF ReproIInv, ReproTypeOK, Unlock
<1>6. \A k \in 1..Parts : file[Start + k] = [record |-> Record(c), part |-> k]
  BY <1>1, <1>3 DEF ReproIInv, EndInv
<1>7. Boundary(file, torn, Len(file))
  <2>1. file[Start + Parts] = [record |-> Record(c), part |-> Parts]
    BY <1>4, <1>6
  <2> QED
    BY <1>1, <1>4, <2>1 DEF Boundary
<1>8. Kept(file, torn, Record(c))
  <2>1. Start + 1 \in 1..Len(file) /\ (Start + 1) - 1 = Start
        /\ (Start + 1) + Parts - 1 <= Len(file)
    BY <1>1, <1>4
  <2>2. ASSUME NEW k \in 1..Parts
        PROVE  file[(Start + 1) + k - 1] = [record |-> Record(c), part |-> k]
    <3>1. (Start + 1) + k - 1 = Start + k
      BY <1>4
    <3> QED
      BY <1>6, <3>1
  <2>3. Boundary(file, torn, Start)
    BY DEF ReproIInv
  <2> QED
    BY <2>1, <2>2, <2>3 DEF Kept, LineIn
<1>9. \A r \in appended' \ appended : Kept(file, torn', r)
  BY <1>1, <1>8
<1> QED
  BY <1>1, <1>2, <1>5, <1>7, <1>9, Ending DEF Unlock

\* The end of the file when the holder's record is cut off.
LEMMA CutOff ==
    ASSUME ReproIInv, NEW t, torn \subseteq t,
           queue # << >> => Record(Head(queue)) \in t
    PROVE  Boundary(file, t, Len(file))
<1>1. /\ written \in Nat /\ Len(file) \in Nat /\ Start \in Nat /\ Start + written = Len(file)
  BY Parts0
<1>2. CASE written = 0
  <2>1. Start = Len(file) /\ Boundary(file, torn, Start)
    BY <1>1, <1>2 DEF ReproIInv
  <2> QED
    BY <2>1 DEF Boundary
<1>3. CASE written # 0
  <2>1. written \in 1..written
    BY <1>1, <1>3
  <2>2. file[Start + written] = [record |-> Record(Head(queue)), part |-> written]
    BY <2>1 DEF ReproIInv, EndInv
  <2>3. queue # << >>
    BY <1>3 DEF ReproIInv, QueueInv
  <2> QED
    BY <1>1, <2>2, <2>3 DEF Boundary
<1> QED
  BY <1>2, <1>3

\* The write fails and the lock is released with the record cut short.
LEMMA AppendFailsIInv ==
    ASSUME ReproIInv, NEW c \in Conns, AppendFails(c)
    PROVE  ReproIInv'
<1>1. /\ Holds(c) /\ torn' = torn \cup {Record(c)}
      /\ Unlock /\ task' = [task EXCEPT ![c].pc = "REPLY"] /\ UNCHANGED <<run, file, appended>>
  BY DEF AppendFails
<1>2. /\ queue' \in Seq(Conns) /\ task' \in [Conns -> Tasks] /\ QueueInv'
      /\ \A i \in 1..Len(file) : Over(file[i].record)'
  BY <1>1, Unlocked
<1>3. c = Head(queue) /\ Record(c) \in Records
  BY <1>1, HolderParts
<1>4. Parts \in Nat
  BY Parts0
<1>5. ReproTypeOK'
  BY <1>1, <1>2, <1>3, <1>4 DEF ReproIInv, ReproTypeOK, Unlock
<1>6. Boundary(file, torn', Len(file))
  BY <1>1, <1>3, CutOff
<1> QED
  BY <1>1, <1>2, <1>5, <1>6, Ending DEF Unlock

\* The process ends, in the middle of a line perhaps, and is started again on the
\* same file.
LEMMA RestartIInv ==
    ASSUME ReproIInv, Restart
    PROVE  ReproIInv'
<1> DEFINE cut == {Record(c) : c \in {c \in Conns : Holds(c)}}
<1>1. /\ run' = run + 1 /\ torn' = torn \cup cut /\ task' = Idle /\ queue' = << >>
      /\ written' = 0 /\ UNCHANGED <<file, appended>>
  BY DEF Restart
<1>2. /\ Parts \in Nat /\ run \in Nat /\ task \in [Conns -> Tasks] /\ queue \in Seq(Conns)
      /\ \A i \in 1..Len(file) : file[i].record \in Records
  BY Parts0
<1>3. cut \subseteq Records
  BY HolderParts
<1>4. task' \in [Conns -> Tasks]
  BY <1>1 DEF Idle, Tasks
<1>5. ReproTypeOK'
  <2> HIDE DEF cut
  <2> QED
    BY <1>1, <1>2, <1>3, <1>4 DEF ReproIInv, ReproTypeOK
<1>6. QueueInv'
  BY <1>1 DEF QueueInv
<1>7. ASSUME NEW i \in 1..Len(file) PROVE Over(file[i].record)'
  <2>1. file[i].record.run <= run /\ file[i].record.run \in Nat
    BY <1>2, AllOver DEF Over, Record, Records
  <2> QED
    BY <1>1, <1>2, <2>1 DEF Over
<1>8. queue # << >> => Record(Head(queue)) \in cut
  <2>1. queue # << >> => Head(queue) \in Conns
    BY <1>2
  <2> QED
    BY <2>1 DEF Holds
<1>9. Boundary(file, torn', Len(file))
  <2> HIDE DEF cut
  <2> QED
    BY <1>1, <1>8, CutOff
<1> HIDE DEF cut
<1> QED
  BY <1>1, <1>5, <1>6, <1>7, <1>9, Ending

\* A reply is delivered and its record queued.
LEMMA DeliverIInv ==
    ASSUME ReproIInv, NEW c \in Conns, Deliver(c)
    PROVE  ReproIInv'
<1>1. /\ task[c].pc = "REPLY" /\ queue' = Append(queue, c)
      /\ task' = [task EXCEPT ![c].records = @ + 1, ![c].pc = "APPEND"]
      /\ UNCHANGED <<run, written, file, appended, torn>>
  BY DEF Deliver
<1>2. /\ queue \in Seq(Conns) /\ Len(queue) \in Nat /\ task \in [Conns -> Tasks]
      /\ run \in Nat /\ written \in Nat /\ Len(file) \in Nat /\ Start \in Nat
      /\ Start + written = Len(file)
      /\ \A i \in 1..Len(file) : file[i].record \in Records
  BY Parts0
<1>3. /\ queue' \in Seq(Conns) /\ Len(queue') = Len(queue) + 1
      /\ queue'[Len(queue) + 1] = c /\ \A i \in 1..Len(queue) : queue'[i] = queue[i]
      /\ queue # << >> => Head(queue') = Head(queue)
  BY <1>1, <1>2
<1>4. /\ task' \in [Conns -> Tasks] /\ task'[c].pc = "APPEND"
      /\ task'[c].records = task[c].records + 1 /\ task[c].records \in Nat
      /\ \A d \in Conns \ {c} : task'[d] = task[d]
  <2>0. PICK n \in Nat : n = task[c].records + 1
    BY <1>2 DEF Tasks
  <2>1. task' = [task EXCEPT ![c] = [task[c] EXCEPT !.records = n, !.pc = "APPEND"]]
    BY <1>1, <1>2, <2>0
  <2>2. task[c] \in Tasks /\ task[c].records \in Nat
    BY <1>2 DEF Tasks
  <2>3. [task[c] EXCEPT !.records = n, !.pc = "APPEND"] \in Tasks
    BY <2>2 DEF Tasks
  <2>4. task' \in [Conns -> Tasks]
    BY <1>2, <2>1, <2>3
  <2>5. task'[c] = [task[c] EXCEPT !.records = n, !.pc = "APPEND"]
        /\ \A d \in Conns \ {c} : task'[d] = task[d]
    BY <1>2, <2>1
  <2> QED
    BY <2>0, <2>2, <2>4, <2>5 DEF Tasks
<1>5. ReproTypeOK'
  BY <1>1, <1>3, <1>4 DEF ReproIInv, ReproTypeOK
<1>6. \A i \in 1..Len(queue) : task[queue[i]].pc = "APPEND" /\ queue[i] \in Conns /\ queue[i] # c
  BY <1>1, <1>2 DEF ReproIInv, QueueInv
<1>7. QueueInv'
  <2>1. \A i \in 1..Len(queue') : task'[queue'[i]].pc = "APPEND"
    <3> SUFFICES ASSUME NEW i \in 1..Len(queue') PROVE task'[queue'[i]].pc = "APPEND"
      OBVIOUS
    <3>1. i \in 1..Len(queue) \/ i = Len(queue) + 1
      BY <1>2, <1>3
    <3> QED
      BY <1>3, <1>4, <1>6, <3>1
  <2>2. ASSUME NEW i \in 1..Len(queue'), NEW j \in 1..Len(queue'), queue'[i] = queue'[j]
        PROVE  i = j
    <3>1. /\ i \in 1..Len(queue) \/ i = Len(queue) + 1
          /\ j \in 1..Len(queue) \/ j = Len(queue) + 1
      BY <1>2, <1>3
    <3>2. \A k, l \in 1..Len(queue) : queue[k] = queue[l] => k = l
      BY DEF ReproIInv, QueueInv
    <3> QED
      BY <1>3, <1>6, <2>2, <3>1, <3>2
  <2>3. queue' # << >>
    BY <1>2, <1>3
  <2> QED
    BY <2>1, <2>2, <2>3 DEF QueueInv
<1>8. Start' = Start
  BY <1>1 DEF Start
<1>9. EndInv'
  <2>1. ASSUME NEW i \in 1..Start PROVE Over(file[i].record)'
    <3>1. Over(file[i].record) /\ file[i].record \in Records
      BY <1>2, <2>1 DEF ReproIInv, EndInv
    <3>2. file[i].record.conn \in Conns /\ file[i].record.number \in Nat
      BY <3>1 DEF Records
    <3>3. CASE file[i].record.conn = c
      BY <1>1, <1>4, <3>1, <3>2, <3>3 DEF Over
    <3>4. CASE file[i].record.conn # c
      BY <1>1, <1>4, <3>1, <3>2, <3>4 DEF Over
    <3> QED
      BY <3>3, <3>4
  <2>2. ASSUME NEW k \in 1..written
        PROVE  (file[Start + k] = [record |-> Record(Head(queue)), part |-> k])'
    <3>1. file[Start + k] = [record |-> Record(Head(queue)), part |-> k] /\ queue # << >>
      BY <1>2 DEF ReproIInv, EndInv, QueueInv
    <3>2. Head(queue) = queue[1] /\ 1 \in 1..Len(queue)
      BY <1>2, <3>1
    <3>3. Head(queue') = Head(queue) /\ task'[Head(queue)] = task[Head(queue)]
      BY <1>3, <1>4, <1>6, <3>1, <3>2
    <3> QED
      BY <1>1, <1>8, <3>1, <3>3 DEF Record
  <2> QED
    BY <1>1, <1>8, <2>1, <2>2 DEF ReproIInv, EndInv
<1>10. (Boundary(file, torn, Start) /\ Distinct(file))'
  BY <1>1, <1>8 DEF ReproIInv, Boundary, Distinct
<1> QED
  BY <1>1, <1>5, <1>7, <1>9, <1>10 DEF ReproIInv

\* Every step keeps the invariant.
LEMMA ReproNextIInv ==
    ASSUME ReproIInv, [ReproNext]_reproVars
    PROVE  ReproIInv'
<1>1. CASE UNCHANGED reproVars
  <2>1. UNCHANGED <<run, task, queue, written, file, appended, torn>>
    BY <1>1 DEF reproVars
  <2>2. (ReproTypeOK /\ QueueInv)'
    BY <2>1 DEF ReproIInv, ReproTypeOK, QueueInv
  <2>3. EndInv'
    BY <2>1 DEF ReproIInv, EndInv, Start, Over, Record
  <2>4. (Boundary(file, torn, Start) /\ Distinct(file))'
    BY <2>1 DEF ReproIInv, Boundary, Start, Distinct
  <2> QED
    BY <2>1, <2>2, <2>3, <2>4 DEF ReproIInv
<1> QED
  BY <1>1, RestartIInv, DeliverIInv, WritePieceIInv, AppendDoneIInv, AppendFailsIInv
     DEF ReproNext, Appending

\* Every record whose append returned Ok is in the repro file in one piece and
\* once, and is a line of its own unless the append right before it was cut
\* off by an error or with the process.
THEOREM RecordsWhole == ReproSpec => []LinesWhole
<1>1. ReproInit => ReproIInv
  BY ReproInitIInv
<1>2. ReproIInv /\ [ReproNext]_reproVars => ReproIInv'
  BY ReproNextIInv
<1>3. ReproIInv => LinesWhole
  BY IInvLinesWhole
<1> QED
  BY <1>1, <1>2, <1>3, PTL DEF ReproSpec

-----------------------------------------------------------------------------
(* The fingerprints. *)

(* Selections. *)

\* A place is counted among those selected.
LEMMA PlaceCounted ==
    ASSUME NEW n \in Nat, NEW S \in SUBSET (1..n), NEW i \in S
    PROVE  /\ IsFiniteSet(S) /\ Cardinality(S) \in Nat
           /\ Cardinality({j \in S : j <= i}) \in 1..Cardinality(S)
<1> DEFINE B == {j \in S : j <= i}
<1>1. IsFiniteSet(1..n)
  BY FS_Interval
<1>2. IsFiniteSet(S) /\ Cardinality(S) \in Nat
  BY <1>1, FS_Subset, FS_CardinalityType
<1>3. IsFiniteSet(B) /\ Cardinality(B) \in Nat /\ Cardinality(B) <= Cardinality(S)
  <2>1. B \subseteq S
    OBVIOUS
  <2> HIDE DEF B
  <2> QED
    BY <1>2, <2>1, FS_Subset, FS_CardinalityType
<1>4. Cardinality(B) # 0
  <2>1. i \in B
    OBVIOUS
  <2> HIDE DEF B
  <2> QED
    BY <1>3, <2>1, FS_EmptySet
<1> HIDE DEF B
<1>5. Cardinality(B) \in 1..Cardinality(S)
  BY <1>2, <1>3, <1>4
<1> QED
  BY <1>2, <1>5 DEF B

\* What is behind the places does not matter.
LEMMA SelectsLonger ==
    ASSUME NEW U, NEW s \in Seq(U), NEW u \in Seq(U), NEW S \in SUBSET (1..Len(s)),
           NEW t, Selects(t, s, S)
    PROVE  Selects(t, s \o u, S)
<1>1. \A i \in S : (s \o u)[i] = s[i]
  OBVIOUS
<1> QED
  BY <1>1 DEF Selects

\* What is selected grows with what is selected from.
LEMMA SelectsConcat ==
    ASSUME NEW T, NEW t \in Seq(T), NEW U, NEW s \in Seq(U),
           NEW u \in Seq(T \cap U), NEW S \in SUBSET (1..Len(s)), Selects(t, s, S)
    PROVE  Selects(t \o u, s \o u, S \cup (Len(s) + 1)..(Len(s) + Len(u)))
<1> DEFINE n == Len(s)
           m == Len(u)
           N == (n + 1)..(n + m)
           W == S \cup N
<1>1. /\ n \in Nat /\ m \in Nat /\ u \in Seq(T) /\ u \in Seq(U)
      /\ Len(t) = Cardinality(S) /\ Len(t) \in Nat
  BY DEF Selects
<1>2. IsFiniteSet(S) /\ Cardinality(S) \in Nat
  <2>1. IsFiniteSet(1..n)
    BY <1>1, FS_Interval
  <2>2. S \in SUBSET (1..n)
    OBVIOUS
  <2> HIDE DEF n
  <2> QED
    BY <2>1, <2>2, FS_Subset, FS_CardinalityType
<1>3. ASSUME NEW k \in 0..m
      PROVE  Cardinality(S \cup (n + 1)..(n + k)) = Cardinality(S) + k
  <2> DEFINE A == (n + 1)..(n + k)
  <2>1. IsFiniteSet(A) /\ Cardinality(A) = k
    <3>1. n + 1 \in Int /\ n + k \in Int
      BY <1>1
    <3>2. IsFiniteSet(A) /\ Cardinality(A) = IF n + 1 > n + k THEN 0 ELSE (n + k) - (n + 1) + 1
      BY <3>1, FS_Interval
    <3> QED
      BY <1>1, <3>2
  <2>2. S \cap A = {}
    BY <1>1
  <2> HIDE DEF A
  <2>3. Cardinality(S \cup A) = Cardinality(S) + Cardinality(A) - Cardinality(S \cap A)
    BY <1>2, <2>1, FS_Union
  <2>4. Cardinality({}) = 0
    BY FS_EmptySet
  <2>5. Cardinality(S \cup A) = Cardinality(S) + k
    <3>1. Cardinality(S \cap A) = 0
      BY <2>2, <2>4
    <3>2. PICK a, b, c, d : /\ a = Cardinality(S) /\ b = Cardinality(A)
                            /\ c = Cardinality(S \cap A) /\ d = Cardinality(S \cup A)
      OBVIOUS
    <3>3. a \in Nat /\ b = k /\ c = 0 /\ d = a + b - c
      BY <1>2, <2>1, <2>3, <3>1, <3>2
    <3>4. d = a + k
      BY <3>3
    <3> QED
      BY <3>2, <3>4
  <2> QED
    BY <2>5 DEF A
<1>4. Len(t \o u) = Cardinality(W)
  <2>1. m \in 0..m
    BY <1>1
  <2>2. Cardinality(W) = Cardinality(S) + m
    BY <1>3, <2>1
  <2>3. Len(t \o u) = Len(t) + m
    BY <1>1
  <2> QED
    BY <1>1, <2>2, <2>3
<1>5. ASSUME NEW i \in S
      PROVE  (t \o u)[Cardinality({j \in W : j <= i})] = (s \o u)[i]
  <2>1. {j \in W : j <= i} = {j \in S : j <= i}
    BY <1>1
  <2>2. Cardinality({j \in S : j <= i}) \in 1..Len(t)
    BY <1>1, PlaceCounted
  <2>3. t[Cardinality({j \in S : j <= i})] = s[i]
    BY DEF Selects
  <2> HIDE DEF W
  <2>4. PICK c : c = Cardinality({j \in S : j <= i})
    OBVIOUS
  <2>5. (t \o u)[c] = t[c]
    BY <1>1, <2>2, <2>4
  <2>6. (s \o u)[i] = s[i]
    BY <1>1
  <2> QED
    BY <2>1, <2>3, <2>4, <2>5, <2>6
<1>6. ASSUME NEW i \in N
      PROVE  (t \o u)[Cardinality({j \in W : j <= i})] = (s \o u)[i]
  <2>1. PICK k \in 1..m : i = n + k
    <3>1. i - n \in 1..m /\ i = n + (i - n)
      BY <1>1
    <3> QED
      BY <3>1, Zenon
  <2>2. {j \in W : j <= i} = S \cup (n + 1)..(n + k)
    <3>1. ASSUME NEW j \in S
          PROVE  j <= i
      BY <1>1, <2>1
    <3>2. ASSUME NEW j
          PROVE  j \in N /\ j <= i <=> j \in (n + 1)..(n + k)
      BY <1>1, <2>1
    <3> HIDE DEF N
    <3> QED
      BY <3>1, <3>2
  <2>3. Cardinality(S \cup (n + 1)..(n + k)) = Len(t) + k
    BY <1>1, <1>3, <2>1
  <2>4. (t \o u)[Len(t) + k] = u[k] /\ (s \o u)[n + k] = u[k]
    BY <1>1, <2>1
  <2> QED
    BY <2>1, <2>2, <2>3, <2>4
<1> QED
  BY <1>4, <1>5, <1>6 DEF Selects

\* One more place and what is there.
LEMMA SelectsOne ==
    ASSUME NEW T, NEW t \in Seq(T), NEW U, NEW s \in Seq(U),
           NEW x \in T \cap U, NEW S \in SUBSET (1..Len(s)), Selects(t, s, S)
    PROVE  Selects(Append(t, x), Append(s, x), S \cup {Len(s) + 1})
<1>1. <<x>> \in Seq(T \cap U) /\ Len(<<x>>) = 1
  OBVIOUS
<1>2. Selects(t \o <<x>>, s \o <<x>>, S \cup (Len(s) + 1)..(Len(s) + 1))
  BY <1>1, SelectsConcat
<1>3. /\ t \o <<x>> = Append(t, x) /\ s \o <<x>> = Append(s, x)
      /\ (Len(s) + 1)..(Len(s) + 1) = {Len(s) + 1}
  OBVIOUS
<1> QED
  BY <1>2, <1>3

-----------------------------------------------------------------------------
(* What the log of a client says, of the requests s and the pieces r. *)

Reply == [request : Nat, piece : Nat]

ResetsIn(s, r, n) ==
    {k \in 1..(n - 1) : /\ s[k].kind = "RESET"
                        /\ \E i \in 1..Len(r) : r[i].request = k /\ r[i].piece = ReplyPieces}
Last(S) == IF S = {} THEN 0 ELSE CHOOSE k \in S : \A j \in S : j <= k
LastIn(s, r, n) == Last(ResetsIn(s, r, n))
InAt(s, r, n) ==
    {k \in 1..(n - 1) : k > LastIn(s, r, n) /\ s[k].kind \notin {"PROTOCOL", "CHAOS"}}
OutAt(s, r, n) ==
    {i \in 1..Len(r) : /\ r[i].request > LastIn(s, r, n) /\ r[i].request < n
                       /\ s[r[i].request].kind \notin {"PROTOCOL", "CHAOS"}}
LeftOut == {"PROTOCOL", "CHAOS", "RESET"}
AcceptedAt(s, r, n) ==
    {i \in 1..Len(r) : /\ r[i].request > LastIn(s, r, n)
                       /\ s[r[i].request].kind \notin LeftOut}

\* The places S of r, and those of u behind it.
WithNew(S, r, u) == S \cup (Len(r) + 1)..(Len(r) + Len(u))

\* Later requests leave the earlier ones as they are.
Grown(s, z) == Len(s) <= Len(z) /\ \A k \in 1..Len(s) : z[k] = s[k]

\* A set of naturals has a least element.
LEMMA LeastNatural ==
    ASSUME NEW S \in SUBSET Nat, S # {}
    PROVE  \E n \in S : \A m \in S : n <= m
<1>1. PICK n \in S : \A m \in S : <<m, n>> \notin OpToRel(<, Nat)
  BY NatLessThanWellFounded, WFMin, Zenon
<1>2. \A m \in S : ~(m < n)
  BY <1>1, Zenon DEF OpToRel
<1> QED
  BY <1>2, SMT

\* The last of a set of request numbers is one of them, and none is later.
LEMMA LastOfSet ==
    ASSUME NEW n \in Nat, NEW S \in SUBSET (1..n)
    PROVE  /\ Last(S) \in 0..n
           /\ \A j \in S : j <= Last(S)
           /\ Last(S) # 0 => Last(S) \in S
<1>1. CASE S = {}
  BY <1>1 DEF Last
<1>2. CASE S # {}
  <2> DEFINE U == {b \in Nat : \A j \in S : j <= b}
  <2>1. n \in U
    OBVIOUS
  <2>2. PICK b \in U : \A c \in U : b <= c
    BY <2>1, LeastNatural
  <2>3. b \in S
    <3> SUFFICES ASSUME b \notin S PROVE FALSE
      OBVIOUS
    <3>1. PICK j \in S : TRUE
      BY <1>2
    <3>2. j \in 1..n /\ j <= b /\ b \in Nat
      BY <2>2
    <3>3. b - 1 \in Nat
      BY <3>2
    <3>4. \A x \in S : x <= b - 1
      BY <2>2
    <3>5. b - 1 \in U
      BY <3>3, <3>4
    <3> QED
      BY <2>2, <3>2, <3>5
  <2>4. \E k \in S : \A j \in S : j <= k
    BY <2>2, <2>3
  <2>5. Last(S) = CHOOSE k \in S : \A j \in S : j <= k
    BY <1>2 DEF Last
  <2>6. Last(S) \in S /\ \A j \in S : j <= Last(S)
    BY <2>4, <2>5, Zenon
  <2>7. PICK k \in S : k = Last(S)
    BY <2>6
  <2>8. k \in 0..n
    OBVIOUS
  <2> QED
    BY <2>6, <2>7, <2>8, Zenon
<1> QED
  BY <1>1, <1>2

\* The last reset before a request is one the client has seen.
LEMMA LastInBefore ==
    ASSUME NEW s, NEW r, NEW n \in Nat \ {0}
    PROVE  /\ LastIn(s, r, n) \in 0..(n - 1)
           /\ \A j \in ResetsIn(s, r, n) : j <= LastIn(s, r, n)
           /\ LastIn(s, r, n) # 0 => LastIn(s, r, n) \in ResetsIn(s, r, n)
<1>1. n - 1 \in Nat /\ ResetsIn(s, r, n) \in SUBSET (1..(n - 1))
  BY DEF ResetsIn
<1> QED
  BY <1>1, LastOfSet DEF LastIn

\* What the log says of a request does not change with the replies to it.
LEMMA EarlierSame ==
    ASSUME NEW s \in Seq(Requests), NEW z \in Seq(Requests), Grown(s, z),
           NEW r \in Seq(Reply), NEW u \in Seq(Reply), NEW m \in 0..Len(s),
           \A i \in 1..Len(r) : r[i].request \in 1..m,
           \A i \in 1..Len(u) : u[i].request = m,
           NEW n \in 1..m
    PROVE  /\ LastIn(z, r \o u, n) = LastIn(s, r, n)
           /\ InAt(z, r \o u, n) = InAt(s, r, n)
           /\ OutAt(z, r \o u, n) = OutAt(s, r, n)
           /\ OutAt(s, r, n) \in SUBSET (1..Len(r))
<1>1. /\ Len(r) \in Nat /\ Len(u) \in Nat /\ Len(s) \in Nat
      /\ Len(r \o u) = Len(r) + Len(u)
      /\ \A i \in 1..Len(r) : (r \o u)[i] = r[i]
      /\ \A i \in 1..Len(r \o u) : i \notin 1..Len(r) => (r \o u)[i].request = m
  <2>1. Len(r) \in Nat /\ Len(u) \in Nat /\ Len(s) \in Nat /\ Len(r \o u) = Len(r) + Len(u)
    OBVIOUS
  <2>2. \A i \in 1..Len(r) : (r \o u)[i] = r[i]
    OBVIOUS
  <2>3. ASSUME NEW i \in 1..Len(r \o u), i \notin 1..Len(r)
        PROVE  (r \o u)[i].request = m
    <3>1. i - Len(r) \in 1..Len(u) /\ (r \o u)[i] = u[i - Len(r)]
      BY <2>1, <2>3
    <3> QED
      BY <3>1
  <2> QED
    BY <2>1, <2>2, <2>3
<1>2. PICK q : q = r \o u
  OBVIOUS
<1>3. \A k \in 1..(n - 1) : z[k] = s[k] /\ k # m
  BY <1>1 DEF Grown
<1>4. ASSUME NEW k \in 1..(n - 1)
      PROVE  (\E i \in 1..Len(q) : q[i].request = k /\ q[i].piece = ReplyPieces)
             <=> (\E i \in 1..Len(r) : r[i].request = k /\ r[i].piece = ReplyPieces)
  BY <1>1, <1>2, <1>3
<1>5. ResetsIn(z, q, n) = ResetsIn(s, r, n)
  BY <1>3, <1>4, ZenonT(60) DEF ResetsIn
<1>6. LastIn(z, q, n) = LastIn(s, r, n)
  BY <1>5 DEF LastIn
<1>7. InAt(z, q, n) = InAt(s, r, n)
  BY <1>3, <1>6 DEF InAt
<1>8. OutAt(z, q, n) = OutAt(s, r, n)
  <2>1. ASSUME NEW i \in 1..Len(r), r[i].request < n
        PROVE  z[r[i].request] = s[r[i].request]
    <3>1. r[i].request \in 1..m
      OBVIOUS
    <3>2. \A k \in 1..m : k < n => k \in 1..(n - 1)
      OBVIOUS
    <3> QED
      BY <1>3, <2>1, <3>1, <3>2
  <2>2. \A i \in 1..Len(q) : i \notin 1..Len(r) => ~(q[i].request < n)
    BY <1>1, <1>2
  <2>3. \A i \in 1..Len(r) : q[i] = r[i] /\ i \in 1..Len(q)
    BY <1>1, <1>2
  <2> QED
    BY <1>6, <2>1, <2>2, <2>3 DEF OutAt
<1> QED
  BY <1>2, <1>6, <1>7, <1>8 DEF OutAt

\* Nor does it, unless the reply to MODE RESET ends, of the request in hand.
LEMMA CurrentSame ==
    ASSUME NEW s \in Seq(Requests), NEW z \in Seq(Requests), Grown(s, z),
           NEW r \in Seq(Reply), NEW u \in Seq(Reply), NEW m \in 0..Len(s),
           \A i \in 1..Len(r) : r[i].request \in 1..m,
           \A i \in 1..Len(u) : u[i].request = m,
           \A i \in 1..Len(u) : s[m].kind = "RESET" => u[i].piece # ReplyPieces
    PROVE  /\ LastIn(z, r \o u, m + 1) = LastIn(s, r, m + 1)
           /\ InAt(z, r \o u, m + 1) = InAt(s, r, m + 1)
<1>1. /\ Len(r) \in Nat /\ Len(u) \in Nat /\ Len(s) \in Nat /\ m \in Nat
      /\ Len(r \o u) = Len(r) + Len(u)
  OBVIOUS
<1>2. PICK q : q = r \o u
  OBVIOUS
<1>3. \A k \in 1..((m + 1) - 1) : z[k] = s[k] /\ k \in 1..m
  <2>1. \A k \in 1..((m + 1) - 1) : k \in 1..m /\ k \in 1..Len(s)
    BY <1>1
  <2> QED
    BY <2>1 DEF Grown
<1>4. \A i \in 1..Len(r) : q[i] = r[i] /\ i \in 1..Len(q)
  BY <1>1, <1>2
<1>5. ASSUME NEW i \in 1..Len(q), i \notin 1..Len(r)
      PROVE  q[i].request = m /\ (s[m].kind = "RESET" => q[i].piece # ReplyPieces)
  <2>1. i - Len(r) \in 1..Len(u) /\ q[i] = u[i - Len(r)]
    BY <1>1, <1>2, <1>5
  <2> QED
    BY <2>1
<1>6. ASSUME NEW k \in 1..((m + 1) - 1), s[k].kind = "RESET"
      PROVE  (\E i \in 1..Len(q) : q[i].request = k /\ q[i].piece = ReplyPieces)
             <=> (\E i \in 1..Len(r) : r[i].request = k /\ r[i].piece = ReplyPieces)
  BY <1>4, <1>5, <1>6
<1>7. ResetsIn(z, q, m + 1) = ResetsIn(s, r, m + 1)
  <2>1. ASSUME NEW k \in 1..((m + 1) - 1)
        PROVE  k \in ResetsIn(z, q, m + 1) <=> k \in ResetsIn(s, r, m + 1)
    <3>1. z[k] = s[k]
      BY <1>3
    <3> QED
      BY <1>6, <3>1, ZenonT(60) DEF ResetsIn
  <2>2. /\ ResetsIn(z, q, m + 1) \subseteq 1..((m + 1) - 1)
        /\ ResetsIn(s, r, m + 1) \subseteq 1..((m + 1) - 1)
    BY DEF ResetsIn
  <2> QED
    BY <2>1, <2>2, Zenon
<1>8. LastIn(z, q, m + 1) = LastIn(s, r, m + 1)
  BY <1>7 DEF LastIn
<1>9. InAt(z, q, m + 1) = InAt(s, r, m + 1)
  BY <1>3, <1>8 DEF InAt
<1> QED
  BY <1>2, <1>8, <1>9

\* The pieces accepted of a reply that is left out of the fingerprint.
LEMMA AcceptedSame ==
    ASSUME NEW s \in Seq(Requests), NEW z \in Seq(Requests), Grown(s, z),
           NEW r \in Seq(Reply), NEW u \in Seq(Reply), NEW m \in 0..Len(s),
           \A i \in 1..Len(r) : r[i].request \in 1..m,
           \A i \in 1..Len(u) : u[i].request = m /\ m # 0,
           LastIn(z, r \o u, m + 1) = LastIn(s, r, m + 1),
           \A i \in 1..Len(u) : s[m].kind \in LeftOut
    PROVE  AcceptedAt(z, r \o u, m + 1) = AcceptedAt(s, r, m + 1)
<1>1. /\ Len(r) \in Nat /\ Len(u) \in Nat /\ Len(s) \in Nat /\ m \in Nat
      /\ Len(r \o u) = Len(r) + Len(u)
  OBVIOUS
<1>2. PICK q : q = r \o u
  OBVIOUS
<1>3. \A k \in 1..m : z[k] = s[k]
  BY <1>1 DEF Grown
<1>4. \A i \in 1..Len(r) : q[i] = r[i] /\ i \in 1..Len(q)
  BY <1>1, <1>2
<1>5. ASSUME NEW i \in 1..Len(q), i \notin 1..Len(r)
      PROVE  z[q[i].request].kind \in LeftOut
  <2>1. i - Len(r) \in 1..Len(u) /\ q[i] = u[i - Len(r)]
    BY <1>1, <1>2, <1>5
  <2>2. q[i].request = m /\ m \in 1..m
    BY <1>1, <2>1
  <2> QED
    BY <1>3, <2>1, <2>2
<1>6. LastIn(z, q, m + 1) = LastIn(s, r, m + 1)
  BY <1>2
<1>7. AcceptedAt(z, q, m + 1) = AcceptedAt(s, r, m + 1)
  BY <1>3, <1>4, <1>5, <1>6, ZenonT(60) DEF AcceptedAt
<1> QED
  BY <1>2, <1>7

\* The pieces accepted of a reply that is counted.
LEMMA AcceptedMore ==
    ASSUME NEW s \in Seq(Requests), NEW r \in Seq(Reply), NEW u \in Seq(Reply),
           NEW m \in 1..Len(s),
           \A i \in 1..Len(r) : r[i].request \in 1..m,
           \A i \in 1..Len(u) : u[i].request = m,
           s[m].kind \notin LeftOut
    PROVE  /\ LastIn(s, r \o u, m + 1) = LastIn(s, r, m + 1)
           /\ InAt(s, r \o u, m + 1) = InAt(s, r, m + 1)
           /\ AcceptedAt(s, r, m + 1) \in SUBSET (1..Len(r))
           /\ AcceptedAt(s, r \o u, m + 1)
                = WithNew(AcceptedAt(s, r, m + 1), r, u)
<1>1. /\ Len(r) \in Nat /\ Len(u) \in Nat /\ Len(s) \in Nat /\ m \in Nat \ {0}
      /\ Len(r \o u) = Len(r) + Len(u) /\ s[m].kind # "RESET" /\ m \in 0..Len(s)
  BY DEF LeftOut
<1>2. PICK q : q = r \o u
  OBVIOUS
<1>3. Grown(s, s)
  BY <1>1 DEF Grown
<1>4. LastIn(s, q, m + 1) = LastIn(s, r, m + 1) /\ InAt(s, q, m + 1) = InAt(s, r, m + 1)
  <2>1. \A i \in 1..Len(u) : s[m].kind = "RESET" => u[i].piece # ReplyPieces
    BY <1>1
  <2>2. /\ LastIn(s, r \o u, m + 1) = LastIn(s, r, m + 1)
        /\ InAt(s, r \o u, m + 1) = InAt(s, r, m + 1)
    BY <1>1, <1>3, <2>1, CurrentSame, ZenonT(60)
  <2> QED
    BY <1>2, <2>2
<1>5. m > LastIn(s, r, m + 1)
  <2>1. /\ LastIn(s, r, m + 1) \in 0..((m + 1) - 1)
        /\ LastIn(s, r, m + 1) # 0 => LastIn(s, r, m + 1) \in ResetsIn(s, r, m + 1)
    BY <1>1, LastInBefore
  <2>2. m \notin ResetsIn(s, r, m + 1)
    BY <1>1 DEF ResetsIn
  <2> QED
    BY <1>1, <2>1, <2>2
<1>6. \A i \in 1..Len(r) : q[i] = r[i] /\ i \in 1..Len(q)
  BY <1>1, <1>2
<1>7. \A i \in 1..Len(q) : i \in 1..Len(r) \/ i \in (Len(r) + 1)..(Len(r) + Len(u))
  BY <1>1, <1>2
<1>8. ASSUME NEW i \in (Len(r) + 1)..(Len(r) + Len(u))
      PROVE  i \in 1..Len(q) /\ q[i].request = m
  <2>1. i \in 1..Len(q) /\ i - Len(r) \in 1..Len(u) /\ q[i] = u[i - Len(r)]
    BY <1>1, <1>2
  <2> QED
    BY <2>1
<1>9. AcceptedAt(s, q, m + 1)
        = WithNew(AcceptedAt(s, r, m + 1), r, u)
  BY <1>4, <1>5, <1>6, <1>7, <1>8 DEF AcceptedAt, WithNew
<1>10. AcceptedAt(s, r, m + 1) \in SUBSET (1..Len(r))
  BY DEF AcceptedAt
<1> QED
  BY <1>2, <1>4, <1>9, <1>10

\* A request nothing has been answered to yet is not a reset the client saw.
LEMMA NextRequest ==
    ASSUME NEW s \in Seq(Requests), NEW r \in Seq(Reply), NEW m \in 0..Len(s),
           m < Len(s), \A i \in 1..Len(r) : r[i].request \in 1..m
    PROVE  /\ LastIn(s, r, m + 2) = LastIn(s, r, m + 1)
           /\ AcceptedAt(s, r, m + 2) = AcceptedAt(s, r, m + 1)
           /\ InAt(s, r, m + 2) = IF s[m + 1].kind \in {"PROTOCOL", "CHAOS"}
                                  THEN InAt(s, r, m + 1) ELSE InAt(s, r, m + 1) \cup {m + 1}
           /\ InAt(s, r, m + 1) \in SUBSET (1..m)
<1>1. m \in Nat /\ (m + 2) - 1 = m + 1 /\ (m + 1) - 1 = m
  OBVIOUS
<1>2. \A k : k \in 1..(m + 1) <=> k \in 1..m \/ k = m + 1
  BY <1>1
<1>3. \A i \in 1..Len(r) : r[i].request # m + 1
  BY <1>1
<1>4. ResetsIn(s, r, m + 2) = ResetsIn(s, r, m + 1)
  BY <1>1, <1>2, <1>3 DEF ResetsIn
<1>5. LastIn(s, r, m + 2) = LastIn(s, r, m + 1)
  BY <1>4 DEF LastIn
<1>6. m + 1 > LastIn(s, r, m + 1)
  BY <1>1, LastInBefore
<1>7. AcceptedAt(s, r, m + 2) = AcceptedAt(s, r, m + 1)
  BY <1>5 DEF AcceptedAt
<1>8. CASE s[m + 1].kind \in {"PROTOCOL", "CHAOS"}
  <2>1. InAt(s, r, m + 2) = InAt(s, r, m + 1)
    BY <1>1, <1>2, <1>5, <1>8 DEF InAt
  <2> QED
    BY <1>1, <1>5, <1>7, <1>8, <2>1 DEF InAt
<1>9. CASE s[m + 1].kind \notin {"PROTOCOL", "CHAOS"}
  <2>1. InAt(s, r, m + 2) = InAt(s, r, m + 1) \cup {m + 1}
    BY <1>1, <1>2, <1>5, <1>6, <1>9 DEF InAt
  <2> QED
    BY <1>1, <1>5, <1>7, <1>9, <2>1 DEF InAt
<1> QED
  BY <1>8, <1>9

-----------------------------------------------------------------------------
(* The inductive invariant. *)

Numbers(n) == [k \in 1..n |-> k]

FingerprintTypeOK ==
    /\ sent \in Seq(Requests) /\ taken \in 0..Len(sent)
    /\ pc \in {"READ", "WRITE", "STREAM", "CLOSED"} /\ left \in Nat
    /\ received \in Seq(Reply) /\ input \in Seq(Nat) /\ output \in Seq(Reply)
    /\ stale \in BOOLEAN

\* The reply in hand.
ReplyInv ==
    /\ \A i \in 1..Len(received) : received[i].request \in 1..taken
    /\ pc \in {"WRITE", "STREAM"} => taken # 0
    /\ pc = "WRITE" => left \in 1..ReplyPieces
    /\ pc = "STREAM" => sent[taken].kind = "MONITOR"

\* Every MODE RESET whose reply is written is one the client has seen.
ResetInv ==
    \A k \in 1..taken :
        \/ sent[k].kind # "RESET"
        \/ k <= LastIn(sent, received, taken + 1)
        \/ k = taken /\ pc \in {"WRITE", "CLOSED"}

\* The two fingerprints cover the log so far.
InputInv == Selects(input, Numbers(taken), InAt(sent, received, taken + 1))
OutputInv == Selects(output, received, AcceptedAt(sent, received, taken + 1))

AnswerInv(a) ==
    /\ a.at \in 1..taken
    /\ IF a.direction = "IN"
       THEN Selects(a.value, Numbers(a.at - 1), InAt(sent, received, a.at))
       ELSE Selects(a.value, received, OutAt(sent, received, a.at))
AnswersInv == \A a \in answers : AnswerInv(a)

FingerprintInv ==
    FingerprintTypeOK /\ ReplyInv /\ ResetInv /\ InputInv /\ OutputInv /\ AnswersInv

\* The answers so far stay true of the log, whatever comes after them.
LEMMA OldAnswers ==
    ASSUME FingerprintTypeOK, ReplyInv, AnswersInv,
           sent' \in Seq(Requests), Grown(sent, sent'),
           NEW u \in Seq(Reply), \A i \in 1..Len(u) : u[i].request = taken,
           received' = received \o u, taken' \in Nat, taken <= taken',
           NEW a \in answers
    PROVE  AnswerInv(a)'
<1>1. /\ a.at \in 1..taken
      /\ IF a.direction = "IN"
         THEN Selects(a.value, Numbers(a.at - 1), InAt(sent, received, a.at))
         ELSE Selects(a.value, received, OutAt(sent, received, a.at))
  BY DEF AnswersInv, AnswerInv
<1>2. a.at \in 1..taken'
  BY <1>1 DEF FingerprintTypeOK
<1>3. /\ InAt(sent', received', a.at) = InAt(sent, received, a.at)
      /\ OutAt(sent', received', a.at) = OutAt(sent, received, a.at)
      /\ OutAt(sent, received, a.at) \in SUBSET (1..Len(received))
  <2>1. /\ sent \in Seq(Requests) /\ received \in Seq(Reply) /\ taken \in 0..Len(sent)
        /\ \A i \in 1..Len(received) : received[i].request \in 1..taken
    BY DEF FingerprintTypeOK, ReplyInv
  <2>2. /\ InAt(sent', received \o u, a.at) = InAt(sent, received, a.at)
        /\ OutAt(sent', received \o u, a.at) = OutAt(sent, received, a.at)
        /\ OutAt(sent, received, a.at) \in SUBSET (1..Len(received))
    BY <1>1, <2>1, EarlierSame, ZenonT(60)
  <2> QED
    BY <2>2
<1>4. CASE a.direction = "IN"
  BY <1>1, <1>2, <1>3, <1>4, Zenon DEF AnswerInv
<1>5. CASE a.direction # "IN"
  <2>1. Selects(a.value, received', OutAt(sent', received', a.at))
    BY <1>1, <1>3, <1>5, SelectsLonger DEF FingerprintTypeOK
  <2> QED
    BY <1>2, <1>5, <2>1, Zenon DEF AnswerInv
<1> QED
  BY <1>4, <1>5

\* No request has been sent and nothing has been hashed.
LEMMA FingerprintInitInv == FingerprintInit => FingerprintInv
<1> SUFFICES ASSUME FingerprintInit PROVE FingerprintInv
  OBVIOUS
<1>1. FingerprintTypeOK /\ ReplyInv /\ ResetInv /\ AnswersInv
  <2>1. FingerprintTypeOK
    <3>1. << >> \in Seq(Requests) /\ << >> \in Seq(Reply) /\ << >> \in Seq(Nat) /\ Len(<< >>) = 0
      OBVIOUS
    <3>2. 0 \in 0..0 /\ 0 \in Nat
      OBVIOUS
    <3> QED
      BY <3>1, <3>2 DEF FingerprintInit, FingerprintTypeOK
  <2>2. ReplyInv
    BY DEF FingerprintInit, ReplyInv
  <2>3. ResetInv
    BY DEF FingerprintInit, ResetInv
  <2>4. AnswersInv
    BY DEF FingerprintInit, AnswersInv
  <2> QED
    BY <2>1, <2>2, <2>3, <2>4
<1>2. InAt(sent, received, taken + 1) = {} /\ AcceptedAt(sent, received, taken + 1) = {}
  BY DEF FingerprintInit, InAt, AcceptedAt
<1>3. Cardinality({}) = 0
  BY FS_EmptySet
<1>4. Len(input) = 0 /\ Len(output) = 0
  BY DEF FingerprintInit
<1>5. InputInv
  BY <1>2, <1>3, <1>4 DEF InputInv, Selects
<1>6. OutputInv
  BY <1>2, <1>3, <1>4 DEF OutputInv, Selects
<1> QED
  BY <1>1, <1>5, <1>6 DEF FingerprintInv

\* A step that writes nothing and reads nothing, the client's included.
LEMMA IdleStep ==
    ASSUME FingerprintInv, sent' \in Seq(Requests), Grown(sent, sent'),
           UNCHANGED <<taken, received, input, output, answers>>,
           pc' \in {pc, "CLOSED"}, left' = left, stale' \in BOOLEAN
    PROVE  FingerprintInv'
<1> USE DEF FingerprintInv
<1>1. FingerprintTypeOK'
  <2>1. taken' \in 0..Len(sent')
    BY DEF FingerprintTypeOK, Grown
  <2> QED
    BY <2>1 DEF FingerprintTypeOK
<1>2. \A k \in 1..taken : sent'[k] = sent[k]
  BY DEF FingerprintTypeOK, Grown
<1>3. ReplyInv'
  BY <1>2 DEF ReplyInv, FingerprintTypeOK
<1>4. PICK e \in Seq(Reply) : /\ received' = received \o e
                              /\ \A i \in 1..Len(e) : FALSE
  <2>1. << >> \in Seq(Reply) /\ received' = received \o << >> /\ Len(<< >>) = 0 /\ 1..0 = {}
    BY DEF FingerprintTypeOK
  <2> QED
    BY <2>1
<1>10. /\ sent \in Seq(Requests) /\ received \in Seq(Reply) /\ taken \in 0..Len(sent)
      /\ \A i \in 1..Len(received) : received[i].request \in 1..taken
  BY DEF FingerprintTypeOK, ReplyInv
<1>5. /\ LastIn(sent', received', taken + 1) = LastIn(sent, received, taken + 1)
      /\ InAt(sent', received', taken + 1) = InAt(sent, received, taken + 1)
  <2>1. /\ LastIn(sent', received \o e, taken + 1) = LastIn(sent, received, taken + 1)
        /\ InAt(sent', received \o e, taken + 1) = InAt(sent, received, taken + 1)
    BY <1>4, <1>10, CurrentSame, ZenonT(60)
  <2> QED
    BY <1>4, <2>1
<1>6. AcceptedAt(sent', received', taken + 1) = AcceptedAt(sent, received, taken + 1)
  <2>1. LastIn(sent', received \o e, taken + 1) = LastIn(sent, received, taken + 1)
    BY <1>4, <1>5
  <2>2. AcceptedAt(sent', received \o e, taken + 1) = AcceptedAt(sent, received, taken + 1)
    BY <1>4, <1>10, <2>1, AcceptedSame, ZenonT(60)
  <2> QED
    BY <1>4, <2>2
<1>7. ResetInv'
  BY <1>2, <1>5 DEF ResetInv
<1>8. InputInv' /\ OutputInv'
  BY <1>5, <1>6 DEF InputInv, OutputInv
<1>9. AnswersInv'
  <2>1. taken' \in Nat /\ taken <= taken'
    BY DEF FingerprintTypeOK
  <2>2. \A a \in answers : AnswerInv(a)'
    BY <1>4, <2>1, OldAnswers
  <2> QED
    BY <2>2 DEF AnswersInv
<1> QED
  BY <1>1, <1>3, <1>7, <1>8, <1>9

\* Pieces the socket accepts, hashed if the reply is counted, that do not end
\* the reply to MODE RESET.
LEMMA WriteStep ==
    ASSUME FingerprintInv, taken # 0, NEW u \in Seq(Reply),
           \A i \in 1..Len(u) : u[i].request = taken,
           \A i \in 1..Len(u) : sent[taken].kind = "RESET" => u[i].piece # ReplyPieces,
           received' = received \o u,
           output' = IF sent[taken].kind \in LeftOut THEN output ELSE output \o u,
           UNCHANGED <<sent, taken, input, answers, stale>>,
           pc' \in {"READ", "WRITE", "STREAM"}, left' \in Nat,
           pc' = "WRITE" => left' \in 1..ReplyPieces,
           pc' = "STREAM" => sent[taken].kind = "MONITOR",
           sent[taken].kind = "RESET" => pc' = "WRITE",
           pc \in {"WRITE", "STREAM"}
    PROVE  FingerprintInv'
<1> USE DEF FingerprintInv
<1>1. /\ sent \in Seq(Requests) /\ received \in Seq(Reply) /\ taken \in 0..Len(sent)
      /\ taken \in 1..Len(sent) /\ taken \in Nat /\ Len(received) \in Nat /\ Len(u) \in Nat
      /\ \A i \in 1..Len(received) : received[i].request \in 1..taken
  BY DEF FingerprintTypeOK, ReplyInv
<1>2. Grown(sent, sent)
  BY <1>1 DEF Grown
<1>3. FingerprintTypeOK'
  <2>1. received \o u \in Seq(Reply) /\ output \o u \in Seq(Reply)
    BY DEF FingerprintTypeOK
  <2> QED
    BY <2>1 DEF FingerprintTypeOK
<1>4. ReplyInv'
  <2>1. ASSUME NEW i \in 1..Len(received \o u)
        PROVE  (received \o u)[i].request \in 1..taken
    <3>1. CASE i \in 1..Len(received)
      BY <1>1, <3>1
    <3>2. CASE i \notin 1..Len(received)
      <4>1. i - Len(received) \in 1..Len(u) /\ (received \o u)[i] = u[i - Len(received)]
        BY <1>1, <3>2
      <4> QED
        BY <1>1, <4>1, SMTT(40)
    <3> QED
      BY <3>1, <3>2
  <2> QED
    BY <2>1 DEF ReplyInv
<1>5. /\ LastIn(sent, received \o u, taken + 1) = LastIn(sent, received, taken + 1)
      /\ InAt(sent, received \o u, taken + 1) = InAt(sent, received, taken + 1)
  BY <1>1, <1>2, CurrentSame, Zenon
<1>6. ResetInv'
  BY <1>1, <1>5 DEF ResetInv
<1>7. InputInv'
  BY <1>5 DEF InputInv
<1>8. OutputInv'
  <2>1. CASE sent[taken].kind \in LeftOut
    <3>1. AcceptedAt(sent, received \o u, taken + 1) = AcceptedAt(sent, received, taken + 1)
      BY <1>1, <1>2, <1>5, <2>1, AcceptedSame, Zenon
    <3>2. AcceptedAt(sent, received, taken + 1) \in SUBSET (1..Len(received))
      BY DEF AcceptedAt
    <3>3. Selects(output, received \o u, AcceptedAt(sent, received, taken + 1))
      BY <1>1, <3>2, SelectsLonger, Zenon DEF OutputInv
    <3> QED
      BY <2>1, <3>1, <3>3 DEF OutputInv
  <2>2. CASE sent[taken].kind \notin LeftOut
    <3>1. /\ AcceptedAt(sent, received, taken + 1) \in SUBSET (1..Len(received))
          /\ AcceptedAt(sent, received \o u, taken + 1)
              = WithNew(AcceptedAt(sent, received, taken + 1), received, u)
      BY <1>1, <2>2, AcceptedMore, ZenonT(60)
    <3>2. output \in Seq(Reply) /\ u \in Seq(Reply \cap Reply)
      BY DEF FingerprintTypeOK
    <3>3. Selects(output \o u, received \o u, AcceptedAt(sent, received, taken + 1)
                    \cup (Len(received) + 1)..(Len(received) + Len(u)))
      <4>1. Selects(output, received, AcceptedAt(sent, received, taken + 1))
        BY DEF OutputInv
      <4>2. AcceptedAt(sent, received, taken + 1) \in SUBSET (1..Len(received))
        BY <3>1
      <4> QED
        BY <1>1, <3>2, <4>1, <4>2, SelectsConcat
    <3> QED
      BY <2>2, <3>1, <3>3 DEF OutputInv, WithNew
  <2> QED
    BY <2>1, <2>2
<1>9. AnswersInv'
  <2>1. taken' \in Nat /\ taken <= taken' /\ sent' \in Seq(Requests) /\ Grown(sent, sent')
    BY <1>1, <1>2
  <2>2. \A a \in answers : AnswerInv(a)'
    BY <2>1, OldAnswers
  <2> QED
    BY <2>2 DEF AnswersInv
<1> QED
  BY <1>3, <1>4, <1>6, <1>7, <1>8, <1>9

\* The next pieces of a reply are of the request in hand and come in order.
LEMMA PiecesOf ==
    ASSUME FingerprintInv, pc = "WRITE", NEW n \in 1..left
    PROVE  /\ Pieces(n) \in Seq(Reply) /\ Len(Pieces(n)) = n /\ taken # 0
           /\ \A i \in 1..n : /\ Pieces(n)[i].request = taken
                              /\ Pieces(n)[i].piece = ReplyPieces - left + i
<1>1. /\ taken \in Nat /\ taken # 0 /\ left \in 1..ReplyPieces /\ ReplyPieces \in Nat
  BY FingerprintAssumption DEF FingerprintInv, FingerprintTypeOK, ReplyInv
<1>2. \A i \in 1..n : ReplyPieces - left + i \in Nat
  BY <1>1
<1>3. \A i \in 1..n : Piece(ReplyPieces - left + i) \in Reply
  BY <1>1, <1>2 DEF Piece, Reply
<1>4. n \in Nat
  BY <1>1
<1>5. Pieces(n) \in Seq(Reply) /\ Len(Pieces(n)) = n
  BY <1>3, <1>4 DEF Pieces
<1> QED
  BY <1>1, <1>5 DEF Pieces, Piece

\* A short write.
LEMMA WriteSomeInv ==
    ASSUME FingerprintInv, NEW n \in 1..ReplyPieces, WriteSome(n)
    PROVE  FingerprintInv'
<1>1. left \in 1..ReplyPieces /\ ReplyPieces \in Nat /\ n \in 1..left
  BY FingerprintAssumption DEF FingerprintInv, ReplyInv, WriteSome
<1>2. /\ Pieces(n) \in Seq(Reply) /\ Len(Pieces(n)) = n /\ taken # 0
      /\ \A i \in 1..n : /\ Pieces(n)[i].request = taken
                         /\ Pieces(n)[i].piece = ReplyPieces - left + i
  BY <1>1, PiecesOf DEF WriteSome
<1>3. \A i \in 1..n : ReplyPieces - left + i # ReplyPieces
  BY <1>1 DEF WriteSome
<1>4. left' \in 1..ReplyPieces /\ left' \in Nat
  BY <1>1 DEF WriteSome
<1>5. PICK u \in Seq(Reply) : u = Pieces(n)
  BY <1>2
<1>6. /\ \A i \in 1..Len(u) : u[i].request = taken
      /\ \A i \in 1..Len(u) : sent[taken].kind = "RESET" => u[i].piece # ReplyPieces
  BY <1>2, <1>3, <1>5
<1>7. /\ received' = received \o u
      /\ output' = IF sent[taken].kind \in LeftOut THEN output ELSE output \o u
      /\ UNCHANGED <<sent, taken, input, answers, stale>>
      /\ pc = "WRITE" /\ pc' = "WRITE"
  BY <1>5 DEF WriteSome, Uncounted, Bypasses, Current, LeftOut, Hashed
<1> QED
  BY <1>2, <1>4, <1>6, <1>7, WriteStep

\* The end of a reply.
LEMMA WriteRestInv ==
    ASSUME FingerprintInv, WriteRest
    PROVE  FingerprintInv'
<1>1. /\ left \in 1..ReplyPieces /\ ReplyPieces \in Nat /\ left \in 1..left
  BY FingerprintAssumption DEF FingerprintInv, ReplyInv, WriteRest
<1>2. /\ Pieces(left) \in Seq(Reply) /\ Len(Pieces(left)) = left /\ taken # 0
      /\ \A i \in 1..left : /\ Pieces(left)[i].request = taken
                            /\ Pieces(left)[i].piece = ReplyPieces - left + i
  BY <1>1, PiecesOf DEF WriteRest
<1>3. PICK u \in Seq(Reply) : u = Pieces(left)
  BY <1>2
<1>4. /\ received' = received \o u /\ left' = 0
      /\ UNCHANGED <<sent, taken, answers, stale>>
      /\ pc = "WRITE" /\ pc' = IF sent[taken].kind = "MONITOR" /\ sent[taken].args = << >>
                               THEN "STREAM" ELSE "READ"
  BY <1>3 DEF WriteRest, Current
<1>5. \A i \in 1..Len(u) : u[i].request = taken
  BY <1>2, <1>3
<1>6. CASE sent[taken].kind # "RESET"
  <2>1. /\ output' = IF sent[taken].kind \in LeftOut THEN output ELSE output \o u
        /\ input' = input
    BY <1>3, <1>6 DEF WriteRest, Finish, Uncounted, Bypasses, Current, LeftOut, Hashed
  <2>2. left' \in Nat /\ pc' \in {"READ", "WRITE", "STREAM"} /\ pc' # "WRITE"
        /\ (pc' = "STREAM" => sent[taken].kind = "MONITOR")
    BY <1>4
  <2> QED
    BY <1>2, <1>4, <1>5, <1>6, <2>1, <2>2, WriteStep
<1>7. CASE sent[taken].kind = "RESET"
  <2> USE DEF FingerprintInv
  <2>1. input' = << >> /\ output' = << >> /\ pc' = "READ"
    BY <1>4, <1>7 DEF WriteRest, Finish, Current
  <2>2. /\ sent \in Seq(Requests) /\ received \in Seq(Reply) /\ taken \in 1..Len(sent)
        /\ taken \in Nat /\ Len(received) \in Nat /\ Len(u) = left
        /\ \A i \in 1..Len(received) : received[i].request \in 1..taken
    BY <1>2, <1>3 DEF FingerprintTypeOK, ReplyInv
  <2>3. PICK q \in Seq(Reply) : q = received \o u
    <3>1. received \o u \in Seq(Reply)
      BY <2>2
    <3> QED
      BY <3>1, Zenon
  <2>4. \A i \in 1..Len(q) : q[i].request \in 1..taken
    <3>1. ASSUME NEW i \in 1..Len(q)
          PROVE  q[i].request \in 1..taken
      <4>1. CASE i \in 1..Len(received)
        BY <2>2, <2>3, <4>1
      <4>2. CASE i \notin 1..Len(received)
        <5>1. i - Len(received) \in 1..Len(u) /\ q[i] = u[i - Len(received)]
          BY <1>1, <2>2, <2>3, <4>2
        <5> QED
          BY <1>5, <2>2, <5>1
      <4> QED
        BY <4>1, <4>2
    <3> QED
      BY <3>1
  <2>5. FingerprintTypeOK'
    <3>1. << >> \in Seq(Reply) /\ << >> \in Seq(Nat)
      OBVIOUS
    <3> QED
      BY <1>4, <2>1, <2>3, <3>1 DEF FingerprintTypeOK
  <2>6. ReplyInv'
    BY <1>4, <2>1, <2>3, <2>4 DEF ReplyInv
  <2>7. taken \in ResetsIn(sent, q, taken + 1)
    <3>1. /\ Len(received) + left \in 1..Len(q)
          /\ q[Len(received) + left] = u[left]
      BY <1>1, <2>2, <2>3
    <3>2. u[left].request = taken /\ u[left].piece = ReplyPieces
      BY <1>1, <1>2, <1>3
    <3>3. taken \in 1..((taken + 1) - 1)
      BY <2>2
    <3> QED
      BY <1>7, <3>1, <3>2, <3>3 DEF ResetsIn
  <2>8. LastIn(sent, q, taken + 1) = taken
    <3>1. /\ taken + 1 \in Nat \ {0} /\ (taken + 1) - 1 = taken
      BY <2>2
    <3>2. LastIn(sent, q, taken + 1) \in 0..taken /\ taken <= LastIn(sent, q, taken + 1)
      BY <2>7, <3>1, LastInBefore
    <3> QED
      BY <2>2, <3>2
  <2>9. ResetInv'
    BY <1>4, <2>2, <2>3, <2>8 DEF ResetInv
  <2>10. InAt(sent, q, taken + 1) = {} /\ AcceptedAt(sent, q, taken + 1) = {}
    BY <2>2, <2>4, <2>8 DEF InAt, AcceptedAt
  <2>11. Cardinality({}) = 0 /\ Len(<< >>) = 0
    BY FS_EmptySet
  <2>12. InputInv' /\ OutputInv'
    BY <1>4, <2>1, <2>3, <2>10, <2>11 DEF InputInv, OutputInv, Selects
  <2>13. AnswersInv'
    <3>1. Grown(sent, sent')
      BY <1>4, <2>2 DEF Grown
    <3>2. taken' \in Nat /\ taken <= taken' /\ sent' \in Seq(Requests)
      BY <1>4, <2>2
    <3>3. \A a \in answers : AnswerInv(a)'
      BY <1>4, <1>5, <3>1, <3>2, OldAnswers
    <3> QED
      BY <1>4, <3>3 DEF AnswersInv
  <2> QED
    BY <2>5, <2>6, <2>9, <2>12, <2>13
<1> QED
  BY <1>6, <1>7

\* A line of the stream.
LEMMA StreamLineInv ==
    ASSUME FingerprintInv, StreamLine
    PROVE  FingerprintInv'
<1>1. /\ sent[taken].kind = "MONITOR" /\ taken # 0 /\ taken \in Nat /\ left \in Nat
      /\ received \in Seq(Reply) /\ output \in Seq(Reply) /\ pc = "STREAM"
  BY DEF StreamLine, FingerprintInv, FingerprintTypeOK, ReplyInv
<1>2. PICK line : line = Piece(ReplyPieces + left + 1)
  OBVIOUS
<1>3. line \in Reply /\ line.request = taken
  <2>1. ReplyPieces + left + 1 \in Nat
    BY <1>1, FingerprintAssumption
  <2> QED
    BY <1>1, <1>2, <2>1 DEF Piece, Reply
<1>4. PICK u \in Seq(Reply) : u = <<line>>
  <2>1. <<line>> \in Seq(Reply)
    BY <1>3
  <2> QED
    BY <2>1, Zenon
<1>5. /\ received' = received \o u /\ output' = output \o u
      /\ UNCHANGED <<sent, taken, pc, input, answers, stale>> /\ left' \in Nat
  <2>1. received' = Append(received, line) /\ output' = Append(output, line)
    BY <1>2 DEF StreamLine
  <2>2. Append(received, line) = received \o u /\ Append(output, line) = output \o u
    BY <1>1, <1>3, <1>4
  <2>3. left' \in Nat
    BY <1>1 DEF StreamLine
  <2>4. UNCHANGED <<sent, taken, pc, input, answers, stale>>
    BY DEF StreamLine
  <2> QED
    BY <2>1, <2>2, <2>3, <2>4, Zenon
<1>6. \A i \in 1..Len(u) : u[i].request = taken
  BY <1>3, <1>4
<1>7. sent[taken].kind \notin LeftOut /\ sent[taken].kind # "RESET"
  BY <1>1 DEF LeftOut
<1> QED
  BY <1>1, <1>5, <1>6, <1>7, WriteStep

\* A request is read, hashed unless it bypasses the fingerprints, and perhaps
\* answered with a fingerprint.
LEMMA ReadRequestInv ==
    ASSUME FingerprintInv, ReadRequest
    PROVE  FingerprintInv'
<1> USE DEF FingerprintInv
<1>1. /\ sent \in Seq(Requests) /\ received \in Seq(Reply) /\ taken \in 0..Len(sent)
      /\ input \in Seq(Nat) /\ taken < Len(sent) /\ taken \in Nat /\ Len(received) \in Nat
      /\ \A i \in 1..Len(received) : received[i].request \in 1..taken
      /\ taken + 1 \in 1..Len(sent) /\ Len(sent) \in Nat
  BY DEF ReadRequest, FingerprintTypeOK, ReplyInv
<1>2. /\ UNCHANGED <<sent, received, output, stale>> /\ taken' = taken + 1
      /\ pc = "READ" /\ pc' = "WRITE" /\ left' = ReplyPieces
      /\ answers' = answers \cup Reports(sent[taken + 1])
  BY DEF ReadRequest
<1>3. /\ LastIn(sent, received, taken + 2) = LastIn(sent, received, taken + 1)
      /\ AcceptedAt(sent, received, taken + 2) = AcceptedAt(sent, received, taken + 1)
      /\ InAt(sent, received, taken + 2) =
            IF sent[taken + 1].kind \in {"PROTOCOL", "CHAOS"}
            THEN InAt(sent, received, taken + 1) ELSE InAt(sent, received, taken + 1) \cup {taken + 1}
      /\ InAt(sent, received, taken + 1) \in SUBSET (1..taken)
  BY <1>1, NextRequest
<1>4. taken' + 1 = taken + 2
  BY <1>1, <1>2
<1>5. FingerprintTypeOK'
  <2>1. Append(input, taken + 1) \in Seq(Nat)
    BY <1>1
  <2>2. input' \in Seq(Nat)
    BY <1>1, <2>1 DEF ReadRequest
  <2>3. left' \in Nat /\ taken' \in 0..Len(sent')
    BY <1>1, <1>2, FingerprintAssumption
  <2> QED
    BY <1>2, <2>2, <2>3 DEF FingerprintTypeOK
<1>6. ReplyInv'
  <2>1. \A i \in 1..Len(received) : received[i].request \in 1..(taken + 1)
    BY <1>1
  <2>2. ReplyPieces \in 1..ReplyPieces /\ taken + 1 # 0
    BY <1>1, FingerprintAssumption
  <2> QED
    BY <1>2, <2>1, <2>2 DEF ReplyInv
<1>7. ResetInv'
  <2>1. ASSUME NEW k \in 1..(taken + 1), k # taken + 1
        PROVE  k \in 1..taken /\ k # taken + 1
    BY <1>1, <2>1
  <2>2. \A k \in 1..taken : sent[k].kind # "RESET" \/ k <= LastIn(sent, received, taken + 1)
    BY <1>2 DEF ResetInv
  <2> QED
    BY <1>2, <1>3, <1>4, <2>1, <2>2 DEF ResetInv
<1>8. InputInv'
  <2>1. Selects(input, Numbers(taken), InAt(sent, received, taken + 1))
    BY DEF InputInv
  <2>2. /\ Numbers(taken) \in Seq(Nat) /\ Len(Numbers(taken)) = taken
        /\ Numbers(taken + 1) = Append(Numbers(taken), taken + 1)
    <3>1. Numbers(taken) \in Seq(Nat) /\ Len(Numbers(taken)) = taken
      BY <1>1 DEF Numbers
    <3>2. Numbers(taken + 1) \in Seq(Nat) /\ Len(Numbers(taken + 1)) = taken + 1
      BY <1>1 DEF Numbers
    <3>3. /\ Append(Numbers(taken), taken + 1) \in Seq(Nat)
          /\ Len(Append(Numbers(taken), taken + 1)) = taken + 1
      BY <1>1, <3>1
    <3>4. ASSUME NEW i \in 1..(taken + 1)
          PROVE  Numbers(taken + 1)[i] = Append(Numbers(taken), taken + 1)[i]
      <4>1. CASE i = taken + 1
        BY <1>1, <3>1, <4>1 DEF Numbers
      <4>2. CASE i # taken + 1
        <5>1. i \in 1..taken
          BY <1>1, <4>2
        <5>2. Append(Numbers(taken), taken + 1)[i] = Numbers(taken)[i]
          BY <1>1, <3>1, <5>1
        <5> QED
          BY <5>1, <5>2 DEF Numbers
      <4> QED
        BY <4>1, <4>2
    <3> QED
      BY <3>1, <3>2, <3>3, <3>4, SeqEqual
  <2>3. PICK w \in Seq(Nat) : w = Numbers(taken)
    BY <2>2
  <2>4. CASE sent[taken + 1].kind \in {"PROTOCOL", "CHAOS"}
    <3>1. input' = input
      BY <2>4 DEF ReadRequest, Bypasses
    <3>2. <<taken + 1>> \in Seq(Nat) /\ Append(w, taken + 1) = w \o <<taken + 1>>
      <4>1. PICK x \in Nat : x = taken + 1
        BY <1>1
      <4>2. <<x>> \in Seq(Nat) /\ Append(w, x) = w \o <<x>>
        OBVIOUS
      <4> QED
        BY <4>1, <4>2
    <3>3. InAt(sent, received, taken + 1) \in SUBSET (1..Len(w))
      BY <1>3, <2>2, <2>3
    <3>4. Selects(input, w \o <<taken + 1>>, InAt(sent, received, taken + 1))
      BY <2>1, <2>3, <3>2, <3>3, SelectsLonger
    <3>5. Selects(input, Numbers(taken + 1), InAt(sent, received, taken + 2))
      BY <1>3, <2>2, <2>3, <2>4, <3>2, <3>4
    <3> QED
      BY <1>2, <1>4, <3>1, <3>5, Zenon DEF InputInv
  <2>5. CASE sent[taken + 1].kind \notin {"PROTOCOL", "CHAOS"}
    <3>1. input' = Append(input, taken + 1)
      BY <2>5 DEF ReadRequest, Bypasses
    <3>2. /\ InAt(sent, received, taken + 1) \in SUBSET (1..Len(w)) /\ Len(w) = taken
          /\ taken + 1 \in Nat \cap Nat
      BY <1>1, <1>3, <2>2, <2>3
    <3>3. Selects(Append(input, taken + 1), Append(w, taken + 1),
                  InAt(sent, received, taken + 1) \cup {Len(w) + 1})
      BY <1>1, <2>1, <2>3, <3>2, SelectsOne
    <3>4. Selects(Append(input, taken + 1), Numbers(taken + 1), InAt(sent, received, taken + 2))
      BY <1>3, <2>2, <2>3, <2>5, <3>2, <3>3
    <3> QED
      BY <1>2, <1>4, <3>1, <3>4 DEF InputInv
  <2> QED
    BY <2>4, <2>5
<1>9. OutputInv'
  BY <1>2, <1>3, <1>4 DEF OutputInv
<1>10. AcceptedAt(sent, received, taken + 1) = OutAt(sent, received, taken + 1)
  <2>1. \A k \in 1..taken : sent[k].kind # "RESET" \/ k <= LastIn(sent, received, taken + 1)
    BY <1>2 DEF ResetInv
  <2>2. LastIn(sent, received, taken + 1) \in Nat
    BY <1>1, LastInBefore
  <2>3. \A i \in 1..Len(received) :
           received[i].request \in 1..taken /\ received[i].request < taken + 1
    BY <1>1
  <2>4. \A k \in 1..taken : k > LastIn(sent, received, taken + 1) => sent[k].kind # "RESET"
    BY <1>1, <2>1, <2>2
  <2> QED
    BY <2>3, <2>4 DEF AcceptedAt, OutAt, LeftOut
<1>11. AnswersInv'
  <2>1. ASSUME NEW a \in answers
        PROVE  AnswerInv(a)'
    <3>1. << >> \in Seq(Reply) /\ received' = received \o << >>
          /\ \A i \in 1..Len(<< >>) : FALSE
      BY <1>1, <1>2
    <3>2. PICK u \in Seq(Reply) : received' = received \o u /\ \A i \in 1..Len(u) : FALSE
      BY <3>1
    <3>3. sent' \in Seq(Requests) /\ Grown(sent, sent') /\ taken' \in Nat /\ taken <= taken'
      BY <1>1, <1>2 DEF Grown
    <3> QED
      BY <3>2, <3>3, OldAnswers
  <2>2. ASSUME NEW a \in Reports(sent[taken + 1])
        PROVE  AnswerInv(a)'
    <3>1. /\ a.at = taken + 1 /\ a.direction \in {"IN", "OUT"}
          /\ a.value = IF a.direction = "IN" THEN input ELSE output
      BY DEF Reports, ParseDebugProtocol, Get
    <3>2. a.at \in 1..taken' /\ a.at - 1 = taken
      BY <1>1, <1>2, <3>1
    <3>3. CASE a.direction = "IN"
      BY <1>2, <3>1, <3>2, <3>3 DEF AnswerInv, InputInv
    <3>4. CASE a.direction # "IN"
      BY <1>2, <1>10, <3>1, <3>2, <3>4 DEF AnswerInv, OutputInv
    <3> QED
      BY <3>3, <3>4
  <2> QED
    BY <1>2, <2>1, <2>2 DEF AnswersInv
<1> QED
  BY <1>5, <1>6, <1>7, <1>8, <1>9, <1>11

\* Every step keeps the invariant.
LEMMA FingerprintNextInv ==
    ASSUME FingerprintInv, [FingerprintNext]_fingerprintVars
    PROVE  FingerprintInv'
<1>1. Grown(sent, sent) /\ sent \in Seq(Requests) /\ stale \in BOOLEAN
  BY DEF FingerprintInv, FingerprintTypeOK, Grown
<1>2. ASSUME NEW r \in Requests, Send(r)
      PROVE  FingerprintInv'
  <2>1. sent' = Append(sent, r) /\ sent' \in Seq(Requests)
    BY <1>1, <1>2 DEF Send
  <2>2. Grown(sent, sent')
    BY <1>1, <2>1 DEF Grown
  <2> QED
    BY <1>1, <1>2, <2>1, <2>2, IdleStep DEF Send
<1>3. CASE OtherReset
  BY <1>1, <1>3, IdleStep DEF OtherReset
<1>4. CASE ReadRequest
  BY <1>4, ReadRequestInv
<1>5. CASE CloseStale
  BY <1>1, <1>5, IdleStep DEF CloseStale
<1>6. ASSUME NEW n \in 1..ReplyPieces, WriteSome(n)
      PROVE  FingerprintInv'
  BY <1>6, WriteSomeInv
<1>7. CASE WriteRest
  BY <1>7, WriteRestInv
<1>8. CASE StreamLine
  BY <1>8, StreamLineInv
<1>9. CASE ReplyFails
  BY <1>1, <1>9, IdleStep DEF ReplyFails
<1>10. CASE UNCHANGED fingerprintVars
  BY <1>1, <1>10, IdleStep DEF fingerprintVars
<1> QED
  BY <1>2, <1>3, <1>4, <1>5, <1>6, <1>7, <1>8, <1>9, <1>10 DEF FingerprintNext

\* The invariant says what the log of a client says.
LEMMA FingerprintInvMatches == FingerprintInv => FingerprintsMatchLog
<1> SUFFICES ASSUME FingerprintInv PROVE FingerprintsMatchLog
  OBVIOUS
<1>1. \A n : LastReset(n) = LastIn(sent, received, n)
  BY DEF LastReset, LastIn, Last, ResetsIn
<1>2. \A n : InPlaces(n) = InAt(sent, received, n)
  BY <1>1 DEF InPlaces, InAt, CountedRequest
<1>3. \A n : OutPlaces(n) = OutAt(sent, received, n)
  BY <1>1 DEF OutPlaces, OutAt, CountedRequest
<1>4. ReportedFromLog
  BY <1>2, <1>3 DEF ReportedFromLog, FingerprintInv, AnswersInv, AnswerInv, Numbers
<1>5. OutputIsAccepted
  BY <1>1 DEF OutputIsAccepted, FingerprintInv, OutputInv, AcceptedAt, LeftOut
<1> QED
  BY <1>4, <1>5 DEF FingerprintsMatchLog

\* However requests are pipelined, whatever the sizes of the writes, and
\* whenever they fail: a fingerprint reported by DEBUG PROTOCOL or DEBUG CHAOS
\* is the one the client computes from its own log since the last MODE RESET,
\* and the output fingerprint covers what the socket accepted.
THEOREM FingerprintsCorrect == FingerprintSpec => []FingerprintsMatchLog
<1>1. FingerprintInit => FingerprintInv
  BY FingerprintInitInv
<1>2. FingerprintInv /\ [FingerprintNext]_fingerprintVars => FingerprintInv'
  BY FingerprintNextInv
<1>3. FingerprintInv => FingerprintsMatchLog
  BY FingerprintInvMatches
<1> QED
  BY <1>1, <1>2, <1>3, PTL DEF FingerprintSpec

-----------------------------------------------------------------------------
(* The process. *)

CONSTANTS Listeners, Unix, MaxStarts
VARIABLES proc, starts, bound, failed, clients, told, killed, files

Process == INSTANCE Lifecycle

\* A process that has ended listens nowhere, a listener fails once it is bound,
\* and a TCP listener has no file.
ProcessInv ==
    /\ proc \in {"BINDING", "SERVING", "STOPPED", "KILLED"}
    /\ bound \in 0..Listeners /\ failed \subseteq 1..bound /\ killed \in BOOLEAN
    /\ files \in {"NONE", "LIVE", "STALE"}
    /\ ~Process!Running => bound = 0
    /\ ~Unix => files = "NONE"
    /\ Process!SocketFileRemoved

\* Every way in which run returns removes the file the process made.
LEMMA ReturnsInv ==
    ASSUME Process!LifecycleAssumption, ProcessInv, Process!Running, Process!Returns
    PROVE  ProcessInv'
BY DEF ProcessInv, Process!LifecycleAssumption, Process!Returns, Process!Ends, Process!Drop,
       Process!SocketFileRemoved, Process!Running

\* A step of the process.
LEMMA ProcessStep ==
    ASSUME Process!LifecycleAssumption, ProcessInv, [Process!Next]_(Process!vars)
    PROVE  ProcessInv'
<1> USE DEF ProcessInv, Process!LifecycleAssumption, Process!SocketFileRemoved, Process!Running
<1>1. CASE Process!Bind
  BY <1>1 DEF Process!Bind
<1>2. CASE Process!BindFails
  BY <1>2, ReturnsInv DEF Process!BindFails
<1>3. CASE Process!StartServing
  BY <1>3 DEF Process!StartServing
<1>4. CASE Process!JoinNext
  BY <1>4, ReturnsInv DEF Process!JoinNext
<1>5. CASE Process!CtrlC
  BY <1>5, ReturnsInv DEF Process!CtrlC
<1>6. CASE Process!Kill
  BY <1>6 DEF Process!Kill, Process!Ends
<1>7. CASE Process!Start
  BY <1>7 DEF Process!Start
<1>8. CASE \E c \in Clients : Process!AskSlots(c) \/ \E i \in 1..Listeners : Process!Accept(c, i)
  <2>1. UNCHANGED <<proc, bound, failed, killed, files>>
    BY <1>8 DEF Process!AskSlots, Process!Accept
  <2> QED
    BY <2>1
<1>9. CASE \E i \in 1..Listeners : Process!AcceptFails(i)
  BY <1>9 DEF Process!AcceptFails, Process!Accepting, Process!Drop
<1>10. CASE UNCHANGED Process!vars
  BY <1>10 DEF Process!vars
<1> QED
  BY <1>1, <1>2, <1>3, <1>4, <1>5, <1>6, <1>7, <1>8, <1>9, <1>10 DEF Process!Next

\* Ctrl-C, a failed bind or a failed listener: when run has returned its socket
\* file is gone, and only a killed process leaves one behind.
THEOREM SocketFiles ==
    ASSUME Process!LifecycleAssumption
    PROVE  Process!Spec => []Process!SocketFileRemoved
<1>1. Process!Init => ProcessInv
  <2> SUFFICES ASSUME Process!Init PROVE ProcessInv
    OBVIOUS
  <2>1. proc = "BINDING" /\ bound = 0 /\ failed = {} /\ killed = FALSE /\ files = "NONE"
    BY DEF Process!Init
  <2>2. 0 \in 0..Listeners /\ Listeners # 0
    BY DEF Process!LifecycleAssumption
  <2>3. Process!Running /\ Process!SocketFileRemoved
    BY <2>1, <2>2 DEF Process!Running, Process!SocketFileRemoved
  <2> QED
    BY <2>1, <2>2, <2>3 DEF ProcessInv
<1>2. ProcessInv /\ [Process!Next]_(Process!vars) => ProcessInv'
  BY ProcessStep
<1>3. ProcessInv => Process!SocketFileRemoved
  BY DEF ProcessInv
<1> QED
  BY <1>1, <1>2, <1>3, PTL DEF Process!Spec
=============================================================================
