--------------------------- MODULE UpstreamSession ---------------------------
(***************************************************************************)
(* The upstream half of one client connection: the session that is opened, *)
(* lost and replaced (upstream_connection.rs), the identification sent on  *)
(* it (upstream_identity.rs), and the list of commands of an open MULTI    *)
(* (transaction.rs), which names the members of the EXEC reply.            *)
(*                                                                         *)
(* The upstream server is external.  It answers the commands of a session  *)
(* in order; the session may break between any two steps, and a command    *)
(* written before that may or may not be processed, even much later.       *)
(***************************************************************************)
EXTENDS Naturals, Sequences

CONSTANTS
    DataCommands,    \* names of ordinary commands
    ClusterMode,     \* cluster topology was discovered (local_slots is Some)
    MaxCommands      \* bound on the commands the client sends

ASSUME ClusterModeAssumption == ClusterMode \in BOOLEAN
ASSUME MaxCommandsAssumption == MaxCommands \in Nat

VARIABLES
    pc,          \* where the connection task stands
    current,     \* the command in hand; its id is 0 when there is none
    held,        \* the reply read for it, while the exchange goes on
    up,          \* session.is_some()
    pending,     \* identity fields the server has not accepted yet
    todo,        \* identity fields written whose reply is still to be read
    tx,          \* TransactionCommands.queued: open, and the names in it
    answers,     \* history: what the client got, one entry per command
    to_server,   \* bytes written on the session, not yet read by the server
    to_proxy,    \* replies on their way back
    multi,       \* the server's transaction on this session
    orphans,     \* commands left in the buffers of dropped sessions
    processed    \* history: processed[k], how often the server handled command k

proxy == <<pc, current, held, up, pending, todo, tx, answers>>
server == <<to_server, to_proxy, multi, orphans, processed>>
vars == <<proxy, server>>

Fields == <<"SETNAME", "LIB-NAME", "LIB-VER">>
FieldSet == {"SETNAME", "LIB-NAME", "LIB-VER"}

SpecialNames == {"MULTI", "EXEC", "DISCARD", "AUTH", "HELLO", "HELLO SETNAME",
                 "CLUSTER SHARDS"}
Names == DataCommands \cup SpecialNames

\* A name stands for commands the code treats alike, so an ordinary one is
\* neither one of the others nor the identification the proxy sends.
ASSUME DataCommandsAssumption ==
    DataCommands \cap (SpecialNames \cup FieldSet \cup {"none"}) = {}

Ids == 1..MaxCommands
NoCommand == [id |-> 0, name |-> "none"]
NoReply == [id |-> 0, kind |-> "none", names |-> << >>]
Reply(id, kind, names) == [id |-> id, kind |-> kind, names |-> names]

Closed == [open |-> FALSE, names |-> << >>]
Opened(names) == [open |-> TRUE, names |-> names]

\* The server's transaction state of a session.
NoMulti == [open |-> FALSE, names |-> << >>, dirty |-> FALSE]
NewMulti == [open |-> TRUE, names |-> << >>, dirty |-> FALSE]

Init ==
    /\ pc = "connect"
    /\ current = NoCommand /\ held = NoReply
    /\ up = FALSE /\ pending = FieldSet /\ todo = << >>
    /\ tx = Closed
    /\ answers = << >>
    /\ to_server = << >> /\ to_proxy = << >>
    /\ multi = NoMulti
    /\ orphans = {}
    /\ processed = [k \in Ids |-> 0]

-----------------------------------------------------------------------------
(* The server (external). *)

\* What the server may answer to a command, and its transaction afterwards.
\* A queueable command inside MULTI is queued or rejected, and a rejection
\* makes EXEC fail.  EXEC may also find a watched key changed (null reply), or
\* be redirected in a cluster, which discards the transaction.
Queued(m, n) == [m EXCEPT !.names = Append(@, n)]
Rejected(m) == [m EXCEPT !.dirty = TRUE]
Outcome(kind, names, after) == [kind |-> kind, names |-> names, after |-> after]

OutcomesInside(n, m) ==
    CASE n = "MULTI" -> {Outcome("ERR", << >>, m)}
      [] n = "DISCARD" -> {Outcome("OK", << >>, NoMulti)}
      [] n = "EXEC" ->
             IF m.dirty THEN {Outcome("EXECABORT", << >>, NoMulti)}
             ELSE {Outcome("ARRAY", m.names, NoMulti),
                   Outcome("NULL", << >>, NoMulti),
                   Outcome("ERR", << >>, NoMulti)}
      [] OTHER -> {Outcome("QUEUED", << >>, Queued(m, n)),
                   Outcome("ERR", << >>, Rejected(m))}

OutcomesOutside(n, m) ==
    CASE n = "MULTI" -> {Outcome("OK", << >>, NewMulti)}
      [] n \in {"EXEC", "DISCARD"} -> {Outcome("ERR", << >>, m)}
      [] n \in FieldSet \cup {"AUTH"} ->
             {Outcome("OK", << >>, m), Outcome("ERR", << >>, m)}
      [] n \in {"HELLO", "HELLO SETNAME"} ->
             {Outcome("MAP", << >>, m), Outcome("ERR", << >>, m)}
      [] OTHER -> {Outcome("VALUE", << >>, m), Outcome("ERR", << >>, m)}

Outcomes(n, m) == IF m.open THEN OutcomesInside(n, m) ELSE OutcomesOutside(n, m)

ServerAnswers ==
    /\ to_server # << >>
    /\ LET msg == Head(to_server) IN
       \E o \in Outcomes(msg.name, multi) :
           /\ to_proxy' = Append(to_proxy, Reply(msg.id, o.kind, o.names))
           /\ multi' = o.after
           /\ processed' = [k \in Ids |-> IF k = msg.id THEN processed[k] + 1
                                          ELSE processed[k]]
    /\ to_server' = Tail(to_server)
    /\ UNCHANGED <<proxy, orphans>>

\* The server gets to a command of a session the proxy has given up.
OrphanProcessed(k) ==
    /\ k \in orphans
    /\ orphans' = orphans \ {k}
    /\ processed' = [processed EXCEPT ![k] = @ + 1]
    /\ UNCHANGED <<proxy, to_server, to_proxy, multi>>

-----------------------------------------------------------------------------
(* Opening a session and identifying on it. *)

\* Session::connect up to the identification: everything of the session is new.
Connect ==
    /\ pc = "connect"
    /\ up' = TRUE
    /\ pending' = FieldSet
    /\ to_server' = << >> /\ to_proxy' = << >>
    /\ multi' = NoMulti
    /\ pc' = "identify"
    /\ UNCHANGED <<current, held, todo, tx, answers, orphans, processed>>

IfPending(f) == IF f \in pending THEN <<f>> ELSE << >>

PendingFields ==
    IfPending("SETNAME") \o IfPending("LIB-NAME") \o IfPending("LIB-VER")

\* Mutant: a reply is awaited for every field, not only for those written.
WriteIdentityExpectAll ==
    /\ pc = "identify"
    /\ to_server' = to_server \o
           [i \in 1..Len(PendingFields) |-> [id |-> 0, name |-> PendingFields[i]]]
    /\ todo' = Fields
    /\ pc' = "identity_replies"
    /\ UNCHANGED <<current, held, up, pending, tx, answers, to_proxy, multi,
                   orphans, processed>>

\* apply: the pending fields are written together ...
WriteIdentity ==
    /\ pc = "identify"
    /\ to_server' = to_server \o
           [i \in 1..Len(PendingFields) |-> [id |-> 0, name |-> PendingFields[i]]]
    /\ todo' = PendingFields
    /\ pc' = "identity_replies"
    /\ UNCHANGED <<current, held, up, pending, tx, answers, to_proxy, multi,
                   orphans, processed>>

\* ... and one reply is read for each.  A rejected field stays pending; any
\* other reply than OK or an error fails the session (SessionFails).
ReadIdentity ==
    /\ pc = "identity_replies"
    /\ todo # << >>
    /\ to_proxy # << >>
    /\ \/ Head(to_proxy).kind = "OK" /\ pending' = pending \ {Head(todo)}
       \/ Head(to_proxy).kind = "ERR" /\ pending' = pending
    /\ todo' = Tail(todo)
    /\ to_proxy' = Tail(to_proxy)
    /\ UNCHANGED <<pc, current, held, up, tx, answers, to_server, multi,
                   orphans, processed>>

\* Identification is complete: of a first connection, of a reconnection made
\* for the command in hand, or after that command's reply was held back.
Identified ==
    /\ pc = "identity_replies"
    /\ todo = << >>
    /\ pc' = CASE current = NoCommand -> "idle"
               [] current # NoCommand /\ held = NoReply -> "send"
               [] current # NoCommand /\ held # NoReply -> "return"
    /\ UNCHANGED <<current, held, up, pending, todo, tx, answers, server>>

-----------------------------------------------------------------------------
(* One command of the client. *)

NextId == Len(answers) + 1

\* UpstreamConnection::exchange is called: a lost session is replaced first.
NewCommand(n) ==
    /\ pc = "idle"
    /\ NextId <= MaxCommands
    /\ current' = [id |-> NextId, name |-> n]
    /\ pc' = IF up THEN "send" ELSE "connect"
    /\ UNCHANGED <<held, up, pending, todo, tx, answers, server>>

SendCommand ==
    /\ pc = "send"
    /\ to_server' = Append(to_server, current)
    /\ pc' = "await"
    /\ UNCHANGED <<current, held, up, pending, todo, tx, answers, to_proxy,
                   multi, orphans, processed>>

\* retry_after: identification is tried again once the client authenticated.
\* HELLO with SETNAME settles the name.
Settled(name, kind) == IF name = "HELLO SETNAME" /\ kind \in {"MAP", "ARRAY"}
                       THEN {"SETNAME"} ELSE {}

\* Mutant: a queued AUTH or HELLO counts as accepted.
RetryAfterQueued(name, kind) ==
    /\ name \in {"AUTH", "HELLO", "HELLO SETNAME"} /\ kind # "ERR"
    /\ pending \ Settled(name, kind) # {}

RetryAfter(name, kind) ==
    /\ \/ name = "AUTH" /\ kind = "OK"
       \/ name \in {"HELLO", "HELLO SETNAME"} /\ kind \in {"MAP", "ARRAY"}
    /\ pending \ Settled(name, kind) # {}

ReadReply ==
    /\ pc = "await"
    /\ to_proxy # << >>
    /\ held' = Head(to_proxy)
    /\ to_proxy' = Tail(to_proxy)
    /\ pending' = pending \ Settled(current.name, Head(to_proxy).kind)
    /\ pc' = IF RetryAfter(current.name, Head(to_proxy).kind)
             THEN "identify" ELSE "return"
    /\ UNCHANGED <<current, up, todo, tx, answers, to_server, multi, orphans,
                   processed>>

\* Mutant: MULTI starts a list whatever the answer to it is.
ObserveAnyMulti(name, kind) ==
    CASE name = "MULTI" -> Opened(<< >>)
      [] name = "DISCARD" /\ kind = "OK" -> Closed
      [] name = "EXEC" /\ kind \in {"ARRAY", "NULL", "EXECABORT"} -> Closed
      [] kind = "QUEUED" /\ tx.open -> Opened(Append(tx.names, name))
      [] OTHER -> tx

\* TransactionCommands::observe.
Observe(name, kind) ==
    CASE name = "MULTI" /\ kind = "OK" -> Opened(<< >>)
      [] name = "DISCARD" /\ kind = "OK" -> Closed
      [] name = "EXEC" /\ kind \in {"ARRAY", "NULL", "EXECABORT"} -> Closed
      [] kind = "QUEUED" /\ tx.open -> Opened(Append(tx.names, name))
      [] OTHER -> tx

\* In cluster mode CLUSTER SHARDS and NODES take a path of their own, which
\* does not look at the transaction.
Bypass(name) == ClusterMode /\ name = "CLUSTER SHARDS"

\* The exchange is over; the client's command loop goes on or, when writing to
\* the client fails, ends.
Return(label) ==
    /\ pc = "return"
    /\ tx' = IF Bypass(current.name) THEN tx ELSE Observe(current.name, held.kind)
    /\ answers' = Append(answers, held)
    /\ current' = NoCommand /\ held' = NoReply
    /\ pc' = label
    /\ UNCHANGED <<up, pending, todo, server>>

-----------------------------------------------------------------------------
(* Losing the session. *)

Unavailable == Reply(current.id, "UNAVAILABLE", << >>)

\* Mutant: a command whose session broke is sent again on a new one.
SessionFailsRetry ==
    /\ pc \in {"connect", "identify", "identity_replies", "send", "await"}
    /\ up' = FALSE
    /\ todo' = << >> /\ held' = NoReply
    /\ orphans' = orphans \cup
           {k \in Ids : \E i \in 1..Len(to_server) : to_server[i].id = k}
    /\ to_server' = << >> /\ to_proxy' = << >>
    /\ multi' = NoMulti
    /\ pc' = IF current = NoCommand THEN "idle" ELSE "connect"
    /\ UNCHANGED <<current, tx, answers, pending, processed>>

\* Mutant: the failed session is used for the next command.
SessionFailsKept ==
    /\ pc \in {"connect", "identify", "identity_replies", "send", "await"}
    /\ todo' = << >> /\ held' = NoReply /\ current' = NoCommand
    /\ \/ current = NoCommand /\ UNCHANGED <<tx, answers>>
       \/ /\ current # NoCommand
          /\ tx' = Closed
          /\ answers' = Append(answers, Unavailable)
    /\ pc' = "idle"
    /\ UNCHANGED <<up, pending, server>>

\* A step of connecting, identifying, writing or reading fails.  The session is
\* dropped with whatever is in its buffers.  A command in hand is answered with
\* UNAVAILABLE_REPLY and the transaction forgotten; it is never sent again.
SessionFails ==
    /\ pc \in {"connect", "identify", "identity_replies", "send", "await"}
    /\ up' = FALSE
    /\ todo' = << >> /\ held' = NoReply /\ current' = NoCommand
    /\ \/ current = NoCommand /\ UNCHANGED <<tx, answers>>
       \/ /\ current # NoCommand
          /\ tx' = Closed
          /\ answers' = Append(answers, Unavailable)
    /\ orphans' = orphans \cup
           {k \in Ids : \E i \in 1..Len(to_server) : to_server[i].id = k}
    /\ to_server' = << >> /\ to_proxy' = << >>
    /\ multi' = NoMulti
    /\ pc' = "idle"
    /\ UNCHANGED <<pending, processed>>

\* The client is gone; the session is dropped with the connection task.
ClientGone ==
    /\ pc = "idle"
    /\ pc' = "closed"
    /\ UNCHANGED <<current, held, up, pending, todo, tx, answers, server>>

-----------------------------------------------------------------------------
Exchange ==
    \/ Connect \/ WriteIdentity \/ ReadIdentity \/ Identified
    \/ SendCommand \/ ReadReply \/ Return("idle")

Next ==
    \/ ServerAnswers
    \/ \E k \in Ids : OrphanProcessed(k)
    \/ Exchange
    \/ Return("closed")
    \/ \E n \in Names : NewCommand(n)
    \/ SessionFails
    \/ ClientGone

Spec == Init /\ [][Next]_vars

\* The task is polled when it can go on, and the upstream answers what it got
\* unless the session breaks.  (The code has no timeout: with an upstream that
\* neither answers nor breaks the session, the command waits for ever.)
FairSpec == Spec /\ WF_vars(Exchange) /\ WF_vars(ServerAnswers)

-----------------------------------------------------------------------------
(* Properties. *)

Messages == [id : 0..MaxCommands, name : Names \cup FieldSet \cup {"none"}]
Kinds == {"OK", "ERR", "EXECABORT", "ARRAY", "NULL", "QUEUED", "MAP", "VALUE",
          "UNAVAILABLE", "none"}
NameLists == Seq(Names \cup FieldSet)
Replies == [id : 0..MaxCommands, kind : Kinds, names : NameLists]

TypeOK ==
    /\ pc \in {"connect", "identify", "identity_replies", "idle", "send",
               "await", "return", "closed"}
    /\ current \in Messages
    /\ held \in Replies
    /\ up \in BOOLEAN
    /\ pending \subseteq FieldSet
    /\ todo \in Seq(FieldSet)
    /\ tx \in [open : BOOLEAN, names : NameLists]
    /\ answers \in Seq(Replies)
    /\ to_server \in Seq(Messages)
    /\ to_proxy \in Seq(Replies)
    /\ multi \in [open : BOOLEAN, names : NameLists, dirty : BOOLEAN]
    /\ orphans \subseteq Ids
    /\ processed \in [Ids -> Nat]

\* upstream_connection.rs: "Never retry a command: a missing reply does not
\* imply it did not execute."  The upstream processes no command twice, also
\* when its session broke and the command turns up later from its buffers.
AtMostOnce == \A k \in Ids : processed[k] <= 1

\* The client is given, for each command, the upstream's reply to that very
\* command, or is told that the outcome is unknown.  Replies to identification,
\* and replies left over from a lost session, never shift the pairing.
RepliesPaired ==
    \A k \in 1..Len(answers) :
        /\ answers[k].id = k
        /\ answers[k].kind # "UNAVAILABLE" => processed[k] = 1

\* Identification never becomes part of the client's transaction.
IdentityOutsideTransactions ==
    \A i \in 1..Len(multi.names) : multi.names[i] \notin FieldSet

\* README, on canonicalization: the names used for an EXEC reply are those of
\* the commands the upstream accepted, in order.
ExecNamesMatch ==
    (pc = "return" /\ current.name = "EXEC" /\ held.kind = "ARRAY")
        => tx = Opened(held.names)

\* kept is what is left of names without the bypassed ones: an increasing map
\* takes the positions of kept onto those of the other names.
Filtered(names, kept) ==
    \E at \in [1..Len(kept) -> 1..Len(names)] :
        /\ \A i, j \in 1..Len(kept) : i < j => at[i] < at[j]
        /\ \A i \in 1..Len(kept) : kept[i] = names[at[i]]
        /\ \A k \in 1..Len(names) :
               ~Bypass(names[k]) <=> \E i \in 1..Len(kept) : at[i] = k

\* What holds of them in cluster mode too: the names are those of the accepted
\* commands without the ones that take the bypass, in order, over rejected
\* commands, aborted transactions and lost sessions.
ExecNamesKnown ==
    (pc = "return" /\ current.name = "EXEC" /\ held.kind = "ARRAY")
        => tx.open /\ Filtered(held.names, tx.names)

\* Every command the client sends is answered: the task never waits for a
\* reply it is not owed.
CommandsAnswered == \A k \in Ids : (current.id = k) ~> (Len(answers) >= k)
=============================================================================
