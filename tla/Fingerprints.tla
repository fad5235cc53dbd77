---------------------------- MODULE Fingerprints ----------------------------
(***************************************************************************)
(* What the protocol fingerprints of a connection cover                    *)
(* (protocol_fingerprint.rs, and the order of hashing, writing and         *)
(* resetting in proxy.rs): one connection whose client may send several    *)
(* requests before it reads a reply, replies written in short writes that  *)
(* may fail, and resets by this and by another connection.                 *)
(*                                                                         *)
(* A fingerprint is the sequence of the pieces it was fed: the hashes are  *)
(* functions of it.  A request is one piece, a reply ReplyPieces of them.  *)
(***************************************************************************)
EXTENDS Naturals, Sequences, FiniteSets

CONSTANTS
    Requests,        \* the requests a client sends: a kind and words
    ReplyPieces,     \* pieces of a reply, the unit of a short write
    MaxRequests,     \* bound on the requests sent
    MaxLines         \* bound on the lines of a MONITOR stream

Kinds == {"PROTOCOL", "CHAOS", "EVIL", "RESET", "MONITOR", "OTHER"}

ASSUME FingerprintAssumption ==
    /\ Requests \subseteq [kind : Kinds, args : Seq(STRING)]
    /\ ReplyPieces \in Nat \ {0} /\ MaxRequests \in Nat /\ MaxLines \in Nat

VARIABLES
    sent,            \* the requests of the client
    taken,           \* how many of them the proxy has read
    pc,              \* READ, WRITE a reply, STREAM, or CLOSED
    left,            \* pieces of the reply still to be written
    received,        \* the pieces the client's socket has accepted
    input, output,   \* what the two fingerprints were fed
    answers,         \* the fingerprints reported so far
    stale            \* another connection sent MODE RESET

fingerprintVars == <<sent, taken, pc, left, received, input, output, answers, stale>>

FingerprintInit ==
    /\ sent = << >> /\ taken = 0 /\ pc = "READ" /\ left = 0
    /\ received = << >> /\ input = << >> /\ output = << >>
    /\ answers = {} /\ stale = FALSE

\* The request being handled.
Current == sent[taken]

\* parse_debug_protocol: the direction and the hash, if nothing is wrong.
ParseDebugProtocol(a) ==
    {d \in {"IN", "OUT"} : Len(a) = 2 /\ a[1] = d /\ a[2] \in {"BLAKE3", "TLSH"}}

\* ProtocolFingerprints::get.
Get(direction) == IF direction = "IN" THEN input ELSE output

\* What the reply to a request reports: DEBUG PROTOCOL the direction it asks
\* for, DEBUG CHAOS the output, and a rejected one nothing.
Reports(r) ==
    IF r.kind = "PROTOCOL" THEN {[at |-> taken + 1, direction |-> d, value |-> Get(d)] :
                                    d \in ParseDebugProtocol(r.args)}
    ELSE IF r.kind = "CHAOS" /\ r.args = << >>
    THEN {[at |-> taken + 1, direction |-> "OUT", value |-> Get("OUT")]}
    ELSE {}

\* Mutant: DEBUG CHAOS is hashed like DEBUG EVIL.
BypassesProtocol(kind) == kind = "PROTOCOL"

\* DEBUG PROTOCOL and DEBUG CHAOS are handled before the input is hashed.
Bypasses(kind) == kind \in {"PROTOCOL", "CHAOS"}

Send(r) ==
    /\ Len(sent) < MaxRequests
    /\ sent' = Append(sent, r)
    /\ UNCHANGED <<taken, pc, left, received, input, output, answers, stale>>

OtherReset ==
    /\ ~stale /\ stale' = TRUE
    /\ UNCHANGED <<sent, taken, pc, left, received, input, output, answers>>

\* A request is read and dispatched; a stale connection is closed before
\* anything is hashed.
ReadRequest ==
    /\ pc = "READ" /\ taken < Len(sent) /\ ~stale
    /\ LET r == sent[taken + 1]
       IN  /\ taken' = taken + 1
           /\ input' = IF Bypasses(r.kind) THEN input ELSE Append(input, taken + 1)
           /\ answers' = answers \cup Reports(r)
    /\ pc' = "WRITE" /\ left' = ReplyPieces
    /\ UNCHANGED <<sent, received, output, stale>>

CloseStale ==
    /\ pc = "READ" /\ taken < Len(sent) /\ stale
    /\ pc' = "CLOSED"
    /\ UNCHANGED <<sent, taken, left, received, input, output, answers, stale>>

Piece(k) == [request |-> taken, piece |-> k]

\* The next n pieces of the reply.
Pieces(n) == [k \in 1..n |-> Piece(ReplyPieces - left + k)]

\* write_counted hashes what the writer accepted.
Hashed(n) == Pieces(n)

\* Replies written with write_all instead.
Uncounted == Bypasses(Current.kind) \/ Current.kind = "RESET"

\* The last write of a reply: ProtocolFingerprints::reset follows the reply
\* to MODE RESET, and any other reply was counted or left out.
Finish ==
    IF Current.kind = "RESET" THEN input' = << >> /\ output' = << >>
    ELSE /\ input' = input
         /\ output' = IF Uncounted THEN output ELSE output \o Hashed(left)

\* A short write.
WriteSome(n) ==
    /\ pc = "WRITE" /\ n < left
    /\ received' = received \o Pieces(n)
    /\ output' = IF Uncounted THEN output ELSE output \o Hashed(n)
    /\ left' = left - n
    /\ UNCHANGED <<sent, taken, pc, input, answers, stale>>

\* The rest of the reply; MONITOR goes on with its stream.
WriteRest ==
    /\ pc = "WRITE"
    /\ received' = received \o Pieces(left)
    /\ Finish
    /\ left' = 0
    /\ pc' = IF Current.kind = "MONITOR" /\ Current.args = << >> THEN "STREAM" ELSE "READ"
    /\ UNCHANGED <<sent, taken, answers, stale>>

\* A line of stream_monitor, as one piece after those of the OK.
StreamLine ==
    /\ pc = "STREAM" /\ left < MaxLines
    /\ LET line == Piece(ReplyPieces + left + 1)
       IN  received' = Append(received, line) /\ output' = Append(output, line)
    /\ left' = left + 1
    /\ UNCHANGED <<sent, taken, pc, input, answers, stale>>

\* The write fails, or a truncated delivery ends here.
ReplyFails ==
    /\ pc \in {"WRITE", "STREAM"}
    /\ pc' = "CLOSED"
    /\ UNCHANGED <<sent, taken, left, received, input, output, answers, stale>>

FingerprintNext ==
    \/ \E r \in Requests : Send(r)
    \/ OtherReset \/ ReadRequest \/ CloseStale
    \/ \E n \in 1..ReplyPieces : WriteSome(n)
    \/ WriteRest \/ StreamLine \/ ReplyFails

FingerprintSpec == FingerprintInit /\ [][FingerprintNext]_fingerprintVars

-----------------------------------------------------------------------------
(* Properties. *)

\* The last MODE RESET before request n whose reply the client has in full.
LastReset(n) ==
    LET resets == {k \in 1..(n - 1) : /\ sent[k].kind = "RESET"
                                     /\ \E i \in 1..Len(received) :
                                          /\ received[i].request = k
                                          /\ received[i].piece = ReplyPieces}
    IN  IF resets = {} THEN 0 ELSE CHOOSE k \in resets : \A j \in resets : j <= k

\* What README.md:352-353, :992-993 and :946 leave out of the fingerprints.
CountedRequest(k) == sent[k].kind \notin {"PROTOCOL", "CHAOS"}

\* t is what the sequence s has at the places S, in order: a place that has
\* k - 1 others of S before it is the k-th.
Selects(t, s, S) ==
    /\ Len(t) = Cardinality(S)
    /\ \A i \in S : t[Cardinality({j \in S : j <= i})] = s[i]

\* Where a client that logs its conversation expects the fingerprints to look
\* up to request n: at its requests and at the pieces of the replies, since
\* the last reset, without those of the commands that are left out.
InPlaces(n) == {k \in 1..(n - 1) : k > LastReset(n) /\ CountedRequest(k)}
OutPlaces(n) ==
    {i \in 1..Len(received) :
        LET k == received[i].request
        IN  k > LastReset(n) /\ k < n /\ CountedRequest(k)}

\* Every fingerprint reported, by DEBUG PROTOCOL or DEBUG CHAOS, is the one
\* the client computes from its own log of the conversation before the
\* request, also when it had sent further requests by then, and whatever the
\* sizes of the writes.
ReportedFromLog ==
    \A a \in answers :
        IF a.direction = "IN"
        THEN Selects(a.value, [k \in 1..(a.at - 1) |-> k], InPlaces(a.at))
        ELSE Selects(a.value, received, OutPlaces(a.at))

\* At every moment, in the middle of a reply and after a write that failed,
\* the output fingerprint covers the bytes the writer accepted and no more
\* (README.md:995-997), except for the reply to MODE RESET.
OutputIsAccepted ==
    Selects(output, received,
            {i \in 1..Len(received) :
                LET k == received[i].request
                IN  /\ k > LastReset(taken + 1)
                    /\ sent[k].kind \notin {"PROTOCOL", "CHAOS", "RESET"}})

\* The fingerprints reported are the ones a client computes from its own log,
\* over pipelining, resets and left-out commands, and at every moment the
\* output fingerprint covers what the socket accepted and no more.
FingerprintsMatchLog == ReportedFromLog /\ OutputIsAccepted
=============================================================================
