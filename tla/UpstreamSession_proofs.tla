------------------------ MODULE UpstreamSession_proofs ------------------------
(***************************************************************************)
(* Proofs about UpstreamSession: for any set of commands and any number of *)
(* them no command is processed twice, replies stay paired with commands   *)
(* over lost sessions and identification, identification stays out of the  *)
(* client's transaction, and the names kept for an EXEC reply are those of *)
(* its members.                                                            *)
(***************************************************************************)
EXTENDS UpstreamSession, TLAPS

-----------------------------------------------------------------------------
(* The inductive invariant. *)

\* What is in the buffers of the session at each place of the task: nothing,
\* the identification written last, or the command in hand.
BuffersEmpty == to_server = << >> /\ to_proxy = << >>
Unanswered == to_server = <<current>> /\ to_proxy = << >>
Replied ==
    /\ to_server = << >> /\ Len(to_proxy) = 1
    /\ to_proxy[1].id = current.id /\ to_proxy[1].kind # "UNAVAILABLE"

ChannelInv ==
    /\ pc \in {"connect", "identify", "send", "idle", "return", "closed"}
           => BuffersEmpty
    /\ pc = "await" => Unanswered \/ Replied
    /\ pc = "identity_replies" =>
           /\ Len(to_server) + Len(to_proxy) = Len(todo)
           /\ \A i \in 1..Len(to_server) :
                  to_server[i].id = 0 /\ to_server[i].name \in FieldSet

\* The command in hand is the one after those answered, and the reply held is
\* its reply.
CommandInv ==
    /\ \/ current = NoCommand
       \/ current.id = NextId /\ current.name \in Names
    /\ \/ held = NoReply
       \/ /\ current # NoCommand /\ held.id = current.id
          /\ held.kind # "UNAVAILABLE"
    /\ pc \in {"idle", "closed"} => current = NoCommand
    /\ pc \in {"send", "await", "return"} => current # NoCommand
    /\ pc \in {"connect", "send", "await"} => held = NoReply
    /\ pc = "return" => held # NoReply
    /\ NextId <= MaxCommands + 1

\* The upstream has handled the command in hand, and the reply to it.
Handled == held # NoReply \/ (pc = "await" /\ to_proxy # << >>)
Answer == IF held # NoReply THEN held ELSE to_proxy[1]

\* How often each command was processed, and which ones still may be.
ProcessedInv ==
    /\ \A k \in Ids :
           /\ processed[k] <= 1
           /\ k > NextId => processed[k] = 0
           /\ k = NextId => processed[k] = IF Handled THEN 1 ELSE 0
    /\ \A k \in orphans : k < NextId /\ processed[k] = 0

\* A session outside a transaction is as new; it is outside while it is
\* identified, and after a reply that has identification tried again.
MultiInv ==
    /\ ~multi.open => multi = NoMulti
    /\ ~up => multi = NoMulti
    /\ pc \in {"identify", "identity_replies", "send", "await"} => up
    /\ pc \in {"connect", "identify", "identity_replies"} => multi = NoMulti
    /\ IdentityOutsideTransactions
    /\ (pc = "await" /\ to_proxy # << >> /\ RetryAfter(current.name, to_proxy[1].kind))
           => multi = NoMulti

\* The list of names follows the server's transaction: it does so once the
\* reply in hand is observed, and until then it has the members of an EXEC.
Listed(names, kept) ==
    Filtered(names, kept) /\ (~ClusterMode => kept = names)
Follows(t, m) == m.open => t.open /\ Listed(m.names, t.names)
Observed(name, kind) == IF Bypass(name) THEN tx ELSE Observe(name, kind)

TransactionInv ==
    /\ ~Handled => Follows(tx, multi)
    /\ Handled =>
           /\ Follows(Observed(current.name, Answer.kind), multi)
           /\ (current.name = "EXEC" /\ Answer.kind = "ARRAY")
                  => tx.open /\ Listed(Answer.names, tx.names)

IInv ==
    /\ TypeOK
    /\ ChannelInv
    /\ CommandInv
    /\ ProcessedInv
    /\ RepliesPaired
    /\ MultiInv
    /\ TransactionInv

-----------------------------------------------------------------------------
(* The list of names. *)

Multis == [open : BOOLEAN, names : NameLists, dirty : BOOLEAN]

\* An empty transaction has an empty list of names.
LEMMA FilteredEmpty == Filtered(<< >>, << >>)
<1> DEFINE at == [i \in 1..0 |-> 0]
<1>1. 1..Len(<< >>) = {}
  OBVIOUS
<1>2. at \in [1..Len(<< >>) -> 1..Len(<< >>)]
  OBVIOUS
<1> QED
  BY <1>1, <1>2, Zenon DEF Filtered

\* A command that takes the bypass joins the transaction and not the list.
LEMMA FilteredBypass ==
    ASSUME NEW names \in NameLists, NEW kept \in NameLists, NEW n,
           n \in Names \cup FieldSet, Filtered(names, kept), Bypass(n)
    PROVE  Filtered(Append(names, n), kept)
<1>1. PICK at \in [1..Len(kept) -> 1..Len(names)] :
        /\ \A i, j \in 1..Len(kept) : i < j => at[i] < at[j]
        /\ \A i \in 1..Len(kept) : kept[i] = names[at[i]]
        /\ \A k \in 1..Len(names) :
               ~Bypass(names[k]) <=> \E i \in 1..Len(kept) : at[i] = k
  BY DEF Filtered
<1> DEFINE longer == Append(names, n)
<1>2. /\ Len(longer) = Len(names) + 1 /\ Len(names) \in Nat
      /\ longer[Len(names) + 1] = n
      /\ \A k \in 1..Len(names) : longer[k] = names[k]
  BY DEF NameLists
<1>3. at \in [1..Len(kept) -> 1..Len(longer)]
  BY <1>2
<1>4. \A i \in 1..Len(kept) : kept[i] = longer[at[i]]
  BY <1>1, <1>2
<1>5. \A k \in 1..Len(longer) :
          ~Bypass(longer[k]) <=> \E i \in 1..Len(kept) : at[i] = k
  <2> SUFFICES ASSUME NEW k \in 1..Len(longer)
               PROVE  ~Bypass(longer[k]) <=> \E i \in 1..Len(kept) : at[i] = k
    OBVIOUS
  <2>1. CASE k \in 1..Len(names)
    BY <1>1, <1>2, <2>1 DEF Bypass
  <2>2. CASE k = Len(names) + 1
    <3>1. Bypass(longer[k])
      BY <1>2, <2>2
    <3>2. \A i \in 1..Len(kept) : at[i] # k
      BY <1>2, <2>2
    <3> QED
      BY <3>1, <3>2
  <2> QED
    BY <1>2, <2>1, <2>2
<1> HIDE DEF longer
<1> QED
  BY <1>1, <1>3, <1>4, <1>5 DEF Filtered, longer

\* Any other command joins both.
LEMMA FilteredAppend ==
    ASSUME NEW names \in NameLists, NEW kept \in NameLists, NEW n,
           n \in Names \cup FieldSet, Filtered(names, kept), ~Bypass(n)
    PROVE  Filtered(Append(names, n), Append(kept, n))
<1>1. PICK at \in [1..Len(kept) -> 1..Len(names)] :
        /\ \A i, j \in 1..Len(kept) : i < j => at[i] < at[j]
        /\ \A i \in 1..Len(kept) : kept[i] = names[at[i]]
        /\ \A k \in 1..Len(names) :
               ~Bypass(names[k]) <=> \E i \in 1..Len(kept) : at[i] = k
  BY DEF Filtered
<1> DEFINE longer == Append(names, n)
           more == Append(kept, n)
           last == Len(kept) + 1
           to == [i \in 1..last |-> IF i = last THEN Len(names) + 1 ELSE at[i]]
<1>2. /\ Len(longer) = Len(names) + 1 /\ Len(names) \in Nat
      /\ longer[Len(names) + 1] = n
      /\ \A k \in 1..Len(names) : longer[k] = names[k]
  BY DEF NameLists
<1>3. /\ Len(more) = last /\ Len(kept) \in Nat
      /\ more[last] = n
      /\ \A k \in 1..Len(kept) : more[k] = kept[k]
  BY DEF NameLists
<1>4. /\ to \in [1..Len(more) -> 1..Len(longer)]
      /\ to[last] = Len(names) + 1
      /\ \A i \in 1..Len(kept) : to[i] = at[i]
  BY <1>2, <1>3
<1> HIDE DEF longer, more, to
<1>5. ASSUME NEW i \in 1..Len(more), NEW j \in 1..Len(more), i < j
      PROVE  to[i] < to[j]
  <2>1. i \in 1..Len(kept)
    BY <1>3, <1>5
  <2>2. CASE j = last
    BY <1>2, <1>4, <2>1, <2>2
  <2>3. CASE j \in 1..Len(kept)
    BY <1>1, <1>4, <1>5, <2>1, <2>3
  <2> QED
    BY <1>3, <2>2, <2>3
<1>6. ASSUME NEW i \in 1..Len(more)
      PROVE  more[i] = longer[to[i]]
  <2>1. CASE i = last
    BY <1>2, <1>3, <1>4, <2>1
  <2>2. CASE i \in 1..Len(kept)
    <3>1. at[i] \in 1..Len(names)
      BY <2>2
    <3> QED
      BY <1>1, <1>2, <1>3, <1>4, <2>2, <3>1
  <2> QED
    BY <1>3, <2>1, <2>2
<1>7. ASSUME NEW k \in 1..Len(longer)
      PROVE  ~Bypass(longer[k]) <=> \E i \in 1..Len(more) : to[i] = k
  <2>1. CASE k \in 1..Len(names)
    <3>1. \A i \in 1..Len(more) : to[i] = k => i \in 1..Len(kept)
      BY <1>2, <1>3, <1>4, <2>1
    <3>2. (\E i \in 1..Len(more) : to[i] = k) <=> \E i \in 1..Len(kept) : at[i] = k
      BY <1>3, <1>4, <3>1
    <3> QED
      BY <1>1, <1>2, <2>1, <3>2 DEF Bypass
  <2>2. CASE k = Len(names) + 1
    <3>1. ~Bypass(longer[k])
      BY <1>2, <2>2
    <3>2. last \in 1..Len(more) /\ to[last] = k
      BY <1>3, <1>4, <2>2
    <3> QED
      BY <3>1, <3>2
  <2> QED
    BY <1>2, <2>1, <2>2
<1> QED
  BY <1>4, <1>5, <1>6, <1>7 DEF Filtered, longer, more

\* So it is with the list of a proxy without a bypass, which leaves out nothing.
LEMMA ListedEmpty == Listed(<< >>, << >>)
  BY FilteredEmpty DEF Listed

\* A further command keeps the list in step.
LEMMA ListedAppend ==
    ASSUME NEW names \in NameLists, NEW kept \in NameLists,
           NEW n \in Names \cup FieldSet, Listed(names, kept)
    PROVE  /\ Bypass(n) => Listed(Append(names, n), kept)
           /\ ~Bypass(n) => Listed(Append(names, n), Append(kept, n))
<1>1. CASE Bypass(n)
  BY <1>1, FilteredBypass DEF Listed, Bypass
<1>2. CASE ~Bypass(n)
  BY <1>2, FilteredAppend DEF Listed
<1> QED
  BY <1>1, <1>2

-----------------------------------------------------------------------------
(* The server's answers. *)

\* What an answer consists of.
LEMMA OutcomeFields ==
    ASSUME NEW kind, NEW names, NEW after
    PROVE  /\ Outcome(kind, names, after).kind = kind
           /\ Outcome(kind, names, after).names = names
           /\ Outcome(kind, names, after).after = after
  BY DEF Outcome

\* What a command that is queued or rejected does to the transaction.
LEMMA MultiFields ==
    ASSUME NEW m \in Multis, NEW n
    PROVE  /\ Queued(m, n).open = m.open
           /\ Queued(m, n).names = Append(m.names, n)
           /\ Rejected(m).open = m.open
           /\ Rejected(m).names = m.names
  BY DEF Multis, Queued, Rejected

\* The answers inside a transaction, kind by kind.
LEMMA AnswersInside ==
    ASSUME NEW n, NEW m, NEW o \in OutcomesInside(n, m)
    PROVE  \/ /\ n = "MULTI"
              /\ o.kind = "ERR" /\ o.names = << >> /\ o.after = m
           \/ /\ n = "DISCARD"
              /\ o.kind = "OK" /\ o.names = << >> /\ o.after = NoMulti
           \/ /\ n = "EXEC" /\ o.after = NoMulti
              /\ \/ o.kind \in {"EXECABORT", "NULL", "ERR"} /\ o.names = << >>
                 \/ o.kind = "ARRAY" /\ o.names = m.names
           \/ /\ n \notin {"MULTI", "DISCARD", "EXEC"} /\ o.names = << >>
              /\ \/ /\ o.kind = "QUEUED"
                    /\ o.after = Queued(m, n)
                 \/ o.kind = "ERR" /\ o.after = Rejected(m)
<1>1. CASE n = "MULTI"
  BY <1>1 DEF OutcomesInside, Outcome
<1>2. CASE n = "DISCARD"
  BY <1>2 DEF OutcomesInside, Outcome
<1>3. CASE n = "EXEC"
  BY <1>3 DEF OutcomesInside, Outcome
<1>4. CASE n \notin {"MULTI", "DISCARD", "EXEC"}
  <2>1. OutcomesInside(n, m) =
            {Outcome("QUEUED", << >>, Queued(m, n)),
             Outcome("ERR", << >>, Rejected(m))}
    BY <1>4 DEF OutcomesInside
  <2> QED
    BY <1>4, <2>1, OutcomeFields
<1> QED
  BY <1>1, <1>2, <1>3, <1>4

\* The answers outside a transaction: only MULTI opens one.
LEMMA AnswersOutside ==
    ASSUME NEW n, NEW m, NEW o \in OutcomesOutside(n, m)
    PROVE  /\ o.names = << >>
           /\ \/ n = "MULTI" /\ o.kind = "OK" /\ o.after = NewMulti
              \/ /\ n # "MULTI" /\ o.after = m
                 /\ o.kind \in {"OK", "ERR", "MAP", "VALUE"}
<1>1. CASE n = "MULTI"
  <2>1. OutcomesOutside(n, m) = {Outcome("OK", << >>, NewMulti)}
    BY <1>1 DEF OutcomesOutside, FieldSet
  <2> QED
    BY <1>1, <2>1, OutcomeFields
<1>2. CASE n # "MULTI"
  <2>1. CASE n \in {"EXEC", "DISCARD"}
    <3>1. OutcomesOutside(n, m) = {Outcome("ERR", << >>, m)}
      BY <2>1 DEF OutcomesOutside, FieldSet
    <3> QED
      BY <1>2, <3>1, OutcomeFields
  <2>2. CASE n \in FieldSet \cup {"AUTH"}
    <3>1. OutcomesOutside(n, m) = {Outcome("OK", << >>, m), Outcome("ERR", << >>, m)}
      BY <2>2 DEF OutcomesOutside, FieldSet
    <3> QED
      BY <1>2, <3>1, OutcomeFields
  <2>3. CASE n \in {"HELLO", "HELLO SETNAME"}
    <3>1. OutcomesOutside(n, m) = {Outcome("MAP", << >>, m), Outcome("ERR", << >>, m)}
      BY <2>3 DEF OutcomesOutside, FieldSet
    <3> QED
      BY <1>2, <3>1, OutcomeFields
  <2>4. CASE n \notin FieldSet \cup {"EXEC", "DISCARD", "AUTH", "HELLO",
                                "HELLO SETNAME"}
    <3>1. OutcomesOutside(n, m) = {Outcome("VALUE", << >>, m), Outcome("ERR", << >>, m)}
      BY <1>2, <2>4 DEF OutcomesOutside, FieldSet
    <3> QED
      BY <1>2, <3>1, OutcomeFields
  <2> QED
    BY <2>1, <2>2, <2>3, <2>4
<1> QED
  BY <1>1, <1>2

\* Every answer is a reply of a known kind and leaves a proper transaction.
LEMMA OutcomeTyped ==
    ASSUME NEW n \in Names \cup FieldSet, NEW m \in Multis,
           NEW o \in Outcomes(n, m)
    PROVE  /\ o.kind \in Kinds \ {"UNAVAILABLE", "none"}
           /\ o.names \in NameLists
           /\ o.after \in Multis
<1>1. /\ << >> \in NameLists /\ m.names \in NameLists
      /\ Append(m.names, n) \in NameLists
  BY DEF Multis, NameLists
<1>2. NoMulti \in Multis /\ NewMulti \in Multis
  BY <1>1 DEF Multis, NoMulti, NewMulti
<1>3. /\ Queued(m, n) \in Multis
      /\ Rejected(m) \in Multis
  BY <1>1 DEF Multis, Queued, Rejected
<1>4. CASE m.open
  <2>1. o \in OutcomesInside(n, m)
    BY <1>4 DEF Outcomes
  <2> QED
    BY <1>1, <1>2, <1>3, <2>1, AnswersInside DEF Kinds
<1>5. CASE ~m.open
  <2>1. o \in OutcomesOutside(n, m)
    BY <1>5 DEF Outcomes
  <2> QED
    BY <1>1, <1>2, <2>1, AnswersOutside DEF Kinds
<1> QED
  BY <1>4, <1>5

\* Outside a transaction the server keeps nothing of an earlier one; only
\* MULTI opens one, and AUTH and HELLO are accepted only outside.
LEMMA OutcomeMulti ==
    ASSUME NEW n \in Names \cup FieldSet, NEW m \in Multis,
           ~m.open => m = NoMulti,
           NEW o \in Outcomes(n, m)
    PROVE  /\ ~o.after.open => o.after = NoMulti
           /\ n \in FieldSet /\ m = NoMulti => o.after = NoMulti
           /\ RetryAfter(n, o.kind) => o.after = NoMulti
<1>1. CASE m.open
  <2>1. o \in OutcomesInside(n, m)
    BY <1>1 DEF Outcomes
  <2>2. ~o.after.open => o.after = NoMulti
    BY <1>1, <2>1, AnswersInside, MultiFields
  <2>3. ~RetryAfter(n, o.kind)
    <3>1. o.kind \in {"OK", "MAP", "ARRAY"} => n \in {"DISCARD", "EXEC"}
      BY <2>1, AnswersInside
    <3> QED
      BY <3>1 DEF RetryAfter
  <2>4. m # NoMulti
    BY <1>1 DEF NoMulti
  <2> QED
    BY <2>2, <2>3, <2>4
<1>2. CASE ~m.open
  <2>1. o \in OutcomesOutside(n, m)
    BY <1>2 DEF Outcomes
  <2>2. CASE n = "MULTI"
    <3>1. o.kind = "OK" /\ o.after = NewMulti
      BY <2>1, <2>2, AnswersOutside
    <3> QED
      BY <2>2, <3>1 DEF NewMulti, FieldSet, RetryAfter
  <2>3. CASE n # "MULTI"
    BY <1>2, <2>1, <2>3, AnswersOutside
  <2> QED
    BY <2>2, <2>3
<1> QED
  BY <1>1, <1>2

\* A transaction without identification gets none from a client's command.
LEMMA OutcomeNames ==
    ASSUME NEW n \in Names, NEW m \in Multis, NEW o \in Outcomes(n, m),
           \A i \in 1..Len(m.names) : m.names[i] \notin FieldSet
    PROVE  \A i \in 1..Len(o.after.names) : o.after.names[i] \notin FieldSet
<1>1. n \notin FieldSet
  BY DataCommandsAssumption DEF Names, SpecialNames, FieldSet
<1>2. o.after.names \in {<< >>, m.names, Append(m.names, n)}
  <2>1. CASE o \in OutcomesInside(n, m)
    <3>1. NoMulti.names = << >>
      BY DEF NoMulti
    <3> QED
      BY <2>1, <3>1, AnswersInside, MultiFields
  <2>2. CASE o \in OutcomesOutside(n, m)
    BY <2>2, AnswersOutside DEF NewMulti
  <2> QED
    BY <2>1, <2>2 DEF Outcomes
<1>3. \A i \in 1..Len(Append(m.names, n)) : Append(m.names, n)[i] \notin FieldSet
  BY <1>1 DEF Multis, NameLists
<1>4. \A i \in 1..Len(<< >>) : FALSE
  OBVIOUS
<1>5. CASE o.after.names = << >>
  BY <1>4, <1>5
<1>6. CASE o.after.names = m.names
  BY <1>6
<1>7. CASE o.after.names = Append(m.names, n)
  BY <1>3, <1>7
<1> QED
  BY <1>2, <1>5, <1>6, <1>7

\* Observing the answer takes the list along with the server's transaction.
LEMMA OutcomeFollows ==
    ASSUME NEW n \in Names, NEW m \in Multis, NEW o \in Outcomes(n, m),
           tx \in [open : BOOLEAN, names : NameLists],
           Follows(tx, m)
    PROVE  /\ Follows(Observed(n, o.kind), o.after)
           /\ (n = "EXEC" /\ o.kind = "ARRAY")
                  => tx.open /\ Listed(o.names, tx.names)
<1>1. m.names \in NameLists /\ tx.names \in NameLists
  BY DEF Multis
<1>2. (n = "EXEC" /\ o.kind = "ARRAY") => tx.open /\ Listed(o.names, tx.names)
  <2> SUFFICES ASSUME n = "EXEC", o.kind = "ARRAY"
               PROVE  tx.open /\ Listed(o.names, tx.names)
    OBVIOUS
  <2>1. CASE o \in OutcomesInside(n, m) /\ m.open
    <3>1. o.names = m.names
      BY <2>1, AnswersInside
    <3> QED
      BY <2>1, <3>1 DEF Follows
  <2>2. CASE o \in OutcomesOutside(n, m)
    BY <2>2, AnswersOutside
  <2> QED
    BY <2>1, <2>2 DEF Outcomes
<1>3. CASE ~m.open
  <2>1. o \in OutcomesOutside(n, m)
    BY <1>3 DEF Outcomes
  <2>2. CASE n = "MULTI"
    <3>1. o.kind = "OK" /\ o.after = NewMulti
      BY <2>1, <2>2, AnswersOutside
    <3>2. Observed(n, "OK") = Opened(<< >>)
      BY <2>2 DEF Observed, Observe, Bypass
    <3> QED
      BY <1>2, <3>1, <3>2, ListedEmpty DEF Follows, Opened, NewMulti
  <2>3. CASE n # "MULTI"
    <3>1. o.after = m
      BY <2>1, <2>3, AnswersOutside
    <3> QED
      BY <1>2, <1>3, <3>1 DEF Follows
  <2> QED
    BY <2>2, <2>3
<1>4. CASE m.open
  <2>1. o \in OutcomesInside(n, m)
    BY <1>4 DEF Outcomes
  <2>2. tx.open /\ Listed(m.names, tx.names)
    BY <1>4 DEF Follows
  <2>3. CASE n \in {"EXEC", "DISCARD"}
    <3>1. o.after = NoMulti
      BY <2>1, <2>3, AnswersInside
    <3> QED
      BY <1>2, <3>1 DEF Follows, NoMulti
  <2>4. CASE n = "MULTI"
    <3>1. o.kind = "ERR" /\ o.after = m
      BY <2>1, <2>4, AnswersInside
    <3>2. Observed(n, "ERR") = tx
      BY <2>4 DEF Observed, Observe, Bypass
    <3> QED
      BY <1>2, <3>1, <3>2
  <2>5. CASE n \notin {"MULTI", "EXEC", "DISCARD"}
    <3>1. CASE o.kind = "ERR" /\ o.after = Rejected(m)
      <4>1. Observed(n, "ERR") = tx
        BY <2>5 DEF Observed, Observe
      <4> QED
        BY <1>2, <2>2, <3>1, <4>1, MultiFields DEF Follows
    <3>2. CASE /\ o.kind = "QUEUED"
               /\ o.after = Queued(m, n)
      <4>1. CASE Bypass(n)
        <5>1. Observed(n, "QUEUED") = tx
          BY <4>1 DEF Observed
        <5>2. Listed(Append(m.names, n), tx.names)
          BY <1>1, <2>2, <4>1, ListedAppend
        <5>3. o.after.names = Append(m.names, n)
          BY <3>2, MultiFields
        <5> QED
          BY <1>2, <2>2, <3>2, <5>1, <5>2, <5>3 DEF Follows
      <4>2. CASE ~Bypass(n)
        <5>1. Observed(n, "QUEUED") = Opened(Append(tx.names, n))
          BY <2>2, <2>5, <4>2 DEF Observed, Observe
        <5>2. Listed(Append(m.names, n), Append(tx.names, n))
          BY <1>1, <2>2, <4>2, ListedAppend
        <5>3. o.after.names = Append(m.names, n)
          BY <3>2, MultiFields
        <5>4. /\ Opened(Append(tx.names, n)).open
              /\ Opened(Append(tx.names, n)).names = Append(tx.names, n)
          BY DEF Opened
        <5> QED
          BY <1>2, <3>2, <5>1, <5>2, <5>3, <5>4 DEF Follows
      <4> QED
        BY <4>1, <4>2
    <3> QED
      BY <2>1, <2>5, <3>1, <3>2, AnswersInside
  <2> QED
    BY <2>3, <2>4, <2>5
<1> QED
  BY <1>3, <1>4

-----------------------------------------------------------------------------
(* The invariant is inductive. *)

\* The values the variables start with have their types.
LEMMA EmptyTyped ==
    /\ << >> \in NameLists /\ << >> \in Seq(Messages) /\ << >> \in Seq(Replies)
    /\ << >> \in Seq(FieldSet)
    /\ NoCommand \in Messages /\ NoReply \in Replies
    /\ NoMulti \in Multis /\ Closed \in [open : BOOLEAN, names : NameLists]
<1>1. << >> \in NameLists /\ 0 \in 0..MaxCommands
  BY MaxCommandsAssumption DEF NameLists
<1>2. NoCommand \in Messages
  BY <1>1 DEF NoCommand, Messages
<1>3. NoReply \in Replies
  BY <1>1 DEF NoReply, Replies, Kinds
<1>4. NoMulti \in Multis
  BY <1>1 DEF NoMulti, Multis
<1>5. Closed \in [open : BOOLEAN, names : NameLists]
  BY <1>1 DEF Closed
<1> QED
  BY <1>1, <1>2, <1>3, <1>4, <1>5

\* The number of the command in hand is one the client may send.
LEMMA NumberInHand ==
    ASSUME IInv
    PROVE  /\ NextId \in Nat /\ NextId >= 1
           /\ current # NoCommand =>
                  /\ current.id = NextId /\ NextId \in Ids
                  /\ current.name \in Names
<1>1. answers \in Seq(Replies) /\ current \in Messages
  BY DEF IInv, TypeOK
<1>2. NextId \in Nat /\ NextId >= 1
  BY <1>1 DEF NextId
<1>3. current.id \in 0..MaxCommands
  BY <1>1 DEF Messages
<1> QED
  BY <1>2, <1>3, MaxCommandsAssumption DEF IInv, CommandInv, Ids

\* The identification to be written is a list of fields.
LEMMA PendingFieldsTyped == PendingFields \in Seq(FieldSet)
<1>1. ASSUME NEW f \in FieldSet
      PROVE  IfPending(f) \in Seq(FieldSet)
  BY DEF IfPending
<1>2. "SETNAME" \in FieldSet /\ "LIB-NAME" \in FieldSet /\ "LIB-VER" \in FieldSet
  BY DEF FieldSet
<1> QED
  BY <1>1, <1>2 DEF PendingFields

\* The initial states satisfy the invariant.
LEMMA InitInv == ASSUME Init PROVE IInv
<1> USE DEF Init
<1>1. TypeOK
  BY EmptyTyped DEF TypeOK, Multis
<1>2. ChannelInv
  BY DEF ChannelInv, BuffersEmpty
<1>3. CommandInv
  BY MaxCommandsAssumption DEF CommandInv, NextId
<1>4. ProcessedInv
  BY DEF ProcessedInv, Handled
<1>5. RepliesPaired
  BY DEF RepliesPaired
<1>6. MultiInv
  BY DEF MultiInv, IdentityOutsideTransactions, NoMulti
<1>7. TransactionInv
  BY DEF TransactionInv, Handled, Follows, NoMulti
<1> QED
  BY <1>1, <1>2, <1>3, <1>4, <1>5, <1>6, <1>7 DEF IInv

\* Opening a session keeps the invariant.
LEMMA ConnectInv == ASSUME IInv, Connect PROVE  IInv'
<1> USE DEF Connect, IInv, proxy, server
<1>1. TypeOK'
  BY EmptyTyped DEF TypeOK, Multis
<1>2. ChannelInv'
  BY DEF TypeOK, ChannelInv, CommandInv, BuffersEmpty, Unanswered, Replied
<1>3. CommandInv'
  BY DEF TypeOK, ChannelInv, CommandInv, NextId
<1>4. ProcessedInv'
  BY DEF TypeOK, ProcessedInv, ChannelInv, CommandInv, NextId, Handled, BuffersEmpty
<1>5. RepliesPaired'
  BY DEF TypeOK, RepliesPaired
<1>6. MultiInv'
  BY DEF TypeOK, MultiInv, ChannelInv, BuffersEmpty, IdentityOutsideTransactions,
     RetryAfter
<1>7. TransactionInv'
  BY DEF TypeOK, TransactionInv, ChannelInv, CommandInv, BuffersEmpty, Handled,
     Answer, Follows, Observed, Observe, NoMulti
<1> QED
  BY <1>1, <1>2, <1>3, <1>4, <1>5, <1>6, <1>7

\* Identification is written into empty buffers.
LEMMA WriteIdentityInv == ASSUME IInv, WriteIdentity PROVE  IInv'
<1> USE DEF WriteIdentity, IInv, proxy, server
<1> DEFINE written == [i \in 1..Len(PendingFields) |->
                           [id |-> 0, name |-> PendingFields[i]]]
<1>a. PendingFields \in Seq(FieldSet)
  BY PendingFieldsTyped
<1>b. to_server = << >> /\ to_proxy = << >>
  BY DEF ChannelInv, BuffersEmpty
<1>c. Len(PendingFields) \in Nat
      /\ \A i \in 1..Len(PendingFields) : PendingFields[i] \in FieldSet
  BY <1>a
<1>d. /\ written \in Seq(Messages) /\ Len(written) = Len(PendingFields)
      /\ \A i \in 1..Len(written) : written[i].id = 0 /\ written[i].name \in FieldSet
  BY <1>c, MaxCommandsAssumption DEF Messages
<1>e. to_server' = written
  <2>1. << >> \o written = written
    BY <1>d
  <2> QED
    BY <1>b, <2>1
<1> HIDE DEF written
<1>1. TypeOK'
  BY <1>a, <1>d, <1>e DEF TypeOK
<1>2. ChannelInv'
  BY <1>a, <1>b, <1>c, <1>d, <1>e DEF ChannelInv
<1>3. CommandInv'
  BY DEF TypeOK, ChannelInv, CommandInv, NextId
<1>4. ProcessedInv'
  BY DEF TypeOK, ProcessedInv, ChannelInv, CommandInv, NextId, Handled, BuffersEmpty
<1>5. RepliesPaired'
  BY DEF TypeOK, RepliesPaired
<1>6. MultiInv'
  BY DEF TypeOK, MultiInv, ChannelInv, BuffersEmpty, IdentityOutsideTransactions,
     RetryAfter
<1>7. TransactionInv'
  BY DEF TypeOK, TransactionInv, ChannelInv, CommandInv, BuffersEmpty, Handled,
     Answer, Follows, Observed, Observe, NoMulti
<1> QED
  BY <1>1, <1>2, <1>3, <1>4, <1>5, <1>6, <1>7

\* A reply to identification is read with the field it answers.
LEMMA ReadIdentityInv == ASSUME IInv, ReadIdentity PROVE  IInv'
<1> USE DEF ReadIdentity, IInv, proxy, server
<1>1. TypeOK'
  BY DEF TypeOK, Messages, Replies
<1>2. ChannelInv'
  BY DEF TypeOK, ChannelInv, CommandInv, BuffersEmpty, Unanswered, Replied
<1>3. CommandInv'
  BY DEF TypeOK, ChannelInv, CommandInv, NextId
<1>4. ProcessedInv'
  BY DEF TypeOK, ProcessedInv, ChannelInv, CommandInv, NextId, Handled, BuffersEmpty
<1>5. RepliesPaired'
  BY DEF TypeOK, RepliesPaired
<1>6. MultiInv'
  BY DEF TypeOK, MultiInv, ChannelInv, BuffersEmpty, IdentityOutsideTransactions,
     RetryAfter
<1>7. TransactionInv'
  BY DEF TypeOK, TransactionInv, ChannelInv, CommandInv, BuffersEmpty, Handled,
     Answer, Follows, Observed, Observe, NoMulti
<1> QED
  BY <1>1, <1>2, <1>3, <1>4, <1>5, <1>6, <1>7

\* Identification is over when no reply is owed.
LEMMA IdentifiedInv == ASSUME IInv, Identified PROVE  IInv'
<1> USE DEF Identified, IInv, proxy, server
<1>1. TypeOK'
  BY DEF TypeOK, Messages, Replies
<1>2. ChannelInv'
  BY DEF TypeOK, ChannelInv, CommandInv, BuffersEmpty, Unanswered, Replied
<1>3. CommandInv'
  BY DEF TypeOK, ChannelInv, CommandInv, NextId
<1>4. ProcessedInv'
  BY DEF TypeOK, ProcessedInv, ChannelInv, CommandInv, NextId, Handled, BuffersEmpty
<1>5. RepliesPaired'
  BY DEF TypeOK, RepliesPaired
<1>6. MultiInv'
  BY DEF TypeOK, MultiInv, ChannelInv, BuffersEmpty, IdentityOutsideTransactions,
     RetryAfter
<1>7. TransactionInv'
  BY DEF TypeOK, TransactionInv, ChannelInv, CommandInv, BuffersEmpty, Handled,
     Answer, Follows, Observed, Observe, NoMulti
<1> QED
  BY <1>1, <1>2, <1>3, <1>4, <1>5, <1>6, <1>7

\* The command is written into empty buffers.
LEMMA SendCommandInv == ASSUME IInv, SendCommand PROVE  IInv'
<1> USE DEF SendCommand, IInv, proxy, server
<1>1. TypeOK'
  BY DEF TypeOK, Messages, Replies
<1>2. ChannelInv'
  BY DEF TypeOK, ChannelInv, CommandInv, BuffersEmpty, Unanswered, Replied
<1>3. CommandInv'
  BY DEF TypeOK, ChannelInv, CommandInv, NextId
<1>4. ProcessedInv'
  BY DEF TypeOK, ProcessedInv, ChannelInv, CommandInv, NextId, Handled, BuffersEmpty
<1>5. RepliesPaired'
  BY DEF TypeOK, RepliesPaired
<1>6. MultiInv'
  BY DEF TypeOK, MultiInv, ChannelInv, BuffersEmpty, IdentityOutsideTransactions,
     RetryAfter
<1>7. TransactionInv'
  BY DEF TypeOK, TransactionInv, ChannelInv, CommandInv, BuffersEmpty, Handled,
     Answer, Follows, Observed, Observe, NoMulti
<1> QED
  BY <1>1, <1>2, <1>3, <1>4, <1>5, <1>6, <1>7

\* The reply that is read is the one to the command in hand.
LEMMA ReadReplyInv == ASSUME IInv, ReadReply PROVE  IInv'
<1> USE DEF ReadReply, IInv, proxy, server
<1>a. Replied
  BY DEF ChannelInv, Unanswered
<1>b. /\ Head(to_proxy) = to_proxy[1] /\ Tail(to_proxy) = << >>
      /\ to_proxy[1] \in Replies /\ to_proxy \in Seq(Replies)
  BY <1>a DEF TypeOK, Replied
<1>c. current # NoCommand /\ held = NoReply
  BY DEF CommandInv
<1>d. current.id = NextId /\ NextId \in Nat /\ NextId >= 1
  BY <1>c, NumberInHand
<1>e. held' = to_proxy[1] /\ held'.id = current.id /\ held' # NoReply
      /\ held'.kind # "UNAVAILABLE"
  BY <1>a, <1>b, <1>d DEF Replied, NoReply
<1>f. Handled /\ Handled' /\ Answer = to_proxy[1] /\ Answer' = to_proxy[1]
  BY <1>c, <1>e DEF Handled, Answer
<1>g. pc' \in {"identify", "return"}
  OBVIOUS
<1>1. TypeOK'
  BY <1>b, <1>e, <1>g, EmptyTyped DEF TypeOK
<1>2. ChannelInv'
  BY <1>a, <1>b, <1>g DEF ChannelInv, BuffersEmpty, Replied
<1>3. CommandInv'
  BY <1>c, <1>e, <1>g DEF CommandInv, NextId
<1>4. ProcessedInv'
  BY <1>f DEF ProcessedInv, NextId
<1>5. RepliesPaired'
  BY DEF TypeOK, RepliesPaired
<1>6. MultiInv'
  <2>1. pc' = "identify" => multi = NoMulti
    BY <1>b DEF MultiInv
  <2> QED
    BY <1>g, <2>1 DEF MultiInv, IdentityOutsideTransactions
<1>7. TransactionInv'
  BY <1>f DEF TransactionInv, Follows, Observed, Observe, Bypass
<1> QED
  BY <1>1, <1>2, <1>3, <1>4, <1>5, <1>6, <1>7

\* A client that leaves disturbs nothing.
LEMMA ClientGoneInv == ASSUME IInv, ClientGone PROVE  IInv'
<1> USE DEF ClientGone, IInv, proxy, server
<1>1. TypeOK'
  BY DEF TypeOK, Messages, Replies
<1>2. ChannelInv'
  BY DEF TypeOK, ChannelInv, CommandInv, BuffersEmpty, Unanswered, Replied
<1>3. CommandInv'
  BY DEF TypeOK, ChannelInv, CommandInv, NextId
<1>4. ProcessedInv'
  BY DEF TypeOK, ProcessedInv, ChannelInv, CommandInv, NextId, Handled, BuffersEmpty
<1>5. RepliesPaired'
  BY DEF TypeOK, RepliesPaired
<1>6. MultiInv'
  BY DEF TypeOK, MultiInv, ChannelInv, BuffersEmpty, IdentityOutsideTransactions,
     RetryAfter
<1>7. TransactionInv'
  BY DEF TypeOK, TransactionInv, ChannelInv, CommandInv, BuffersEmpty, Handled,
     Answer, Follows, Observed, Observe, NoMulti
<1> QED
  BY <1>1, <1>2, <1>3, <1>4, <1>5, <1>6, <1>7

\* The next command gets the next number.
LEMMA NewCommandInv == ASSUME NEW n \in Names, IInv, NewCommand(n) PROVE  IInv'
<1> USE DEF NewCommand, IInv, proxy, server
<1>a. NextId \in Nat /\ NextId >= 1
  BY NumberInHand
<1>b. /\ current' \in Messages /\ current' # NoCommand
      /\ current'.id = NextId /\ current'.name \in Names
  BY <1>a, MaxCommandsAssumption DEF Messages, NoCommand
<1>c. current = NoCommand /\ held = NoReply
  BY <1>a DEF CommandInv
<1>d. ~Handled /\ ~Handled'
  BY <1>c DEF Handled
<1>1. TypeOK'
  BY <1>b DEF TypeOK
<1>2. ChannelInv'
  BY DEF TypeOK, ChannelInv, CommandInv, BuffersEmpty, Unanswered, Replied
<1>3. CommandInv'
  BY <1>a, <1>b, <1>c DEF CommandInv, NextId
<1>4. ProcessedInv'
  BY <1>d DEF ProcessedInv, NextId
<1>5. RepliesPaired'
  BY DEF TypeOK, RepliesPaired
<1>6. MultiInv'
  BY DEF TypeOK, MultiInv, ChannelInv, BuffersEmpty, IdentityOutsideTransactions,
     RetryAfter
<1>7. TransactionInv'
  BY <1>d DEF TransactionInv
<1> QED
  BY <1>1, <1>2, <1>3, <1>4, <1>5, <1>6, <1>7

\* The client gets the reply to its command, and the list follows.
LEMMA ReturnInv == ASSUME NEW label \in {"idle", "closed"}, IInv, Return(label) PROVE  IInv'
<1> USE DEF Return, IInv, proxy, server
<1>a. current # NoCommand /\ held # NoReply
  BY DEF CommandInv
<1>b. current.id = NextId /\ NextId \in Ids /\ NextId \in Nat /\ current.name \in Names
  BY <1>a, NumberInHand
<1>c. held.id = NextId /\ held.kind # "UNAVAILABLE" /\ held \in Replies
  BY <1>a, <1>b DEF CommandInv, TypeOK
<1>d. Handled /\ ~Handled' /\ Answer = held
  BY <1>a DEF Handled, Answer
<1>e. /\ answers' \in Seq(Replies) /\ Len(answers') = NextId
      /\ answers'[NextId] = held
      /\ \A k \in 1..Len(answers) : answers'[k] = answers[k]
      /\ Len(answers) = NextId - 1 /\ NextId' = NextId + 1
  BY <1>c DEF TypeOK, NextId
<1>f. tx' = Observed(current.name, held.kind)
  BY DEF Observed
<1>g. tx' \in [open : BOOLEAN, names : NameLists]
  <2>1. /\ tx.names \in NameLists
        /\ Append(tx.names, current.name) \in NameLists
    BY <1>b DEF TypeOK, NameLists
  <2>2. /\ Opened(<< >>) \in [open : BOOLEAN, names : NameLists]
        /\ Opened(Append(tx.names, current.name)) \in [open : BOOLEAN, names : NameLists]
    BY <2>1, EmptyTyped DEF Opened
  <2> QED
    BY <2>2, EmptyTyped, <1>f DEF TypeOK, Observed, Observe
<1>1. TypeOK'
  BY <1>e, <1>g, EmptyTyped DEF TypeOK
<1>2. ChannelInv'
  BY DEF TypeOK, ChannelInv, CommandInv, BuffersEmpty, Unanswered, Replied
<1>3. CommandInv'
  BY <1>b, <1>e, MaxCommandsAssumption DEF CommandInv, Ids
<1>4. ProcessedInv'
  BY <1>b, <1>d, <1>e DEF ProcessedInv, Ids, TypeOK
<1>5. RepliesPaired'
  <2>1. processed[NextId] = 1
    BY <1>b, <1>d DEF ProcessedInv
  <2> QED
    BY <1>b, <1>c, <1>e, <2>1 DEF RepliesPaired
<1>6. MultiInv'
  BY DEF TypeOK, MultiInv, ChannelInv, BuffersEmpty, IdentityOutsideTransactions,
     RetryAfter
<1>7. TransactionInv'
  BY <1>d, <1>f DEF TransactionInv, Follows
<1> QED
  BY <1>1, <1>2, <1>3, <1>4, <1>5, <1>6, <1>7

\* A command whose session broke is answered without being sent again.
LEMMA SessionFailsInv == ASSUME IInv, SessionFails PROVE  IInv'
<1> USE DEF SessionFails, IInv, proxy, server
<1> DEFINE lost == {k \in Ids : \E i \in 1..Len(to_server) : to_server[i].id = k}
<1>a. NextId \in Nat /\ NextId >= 1 /\ answers \in Seq(Replies)
  BY NumberInHand DEF TypeOK
<1>b. /\ ~Handled' /\ held' = NoReply /\ current' = NoCommand /\ multi' = NoMulti
      /\ orphans' = orphans \cup lost
  BY DEF Handled
<1>c. ASSUME NEW k \in lost
      PROVE  pc = "await" /\ Unanswered /\ k = NextId /\ current # NoCommand /\ ~Handled
  <2>1. PICK i \in 1..Len(to_server) : to_server[i].id = k
    OBVIOUS
  <2>2. k # 0 /\ to_server # << >>
    BY <2>1 DEF Ids
  <2>3. pc = "await" /\ Unanswered
    BY <2>1, <2>2 DEF ChannelInv, BuffersEmpty, Replied
  <2>4. current # NoCommand /\ held = NoReply
    BY <2>3 DEF CommandInv
  <2>5. to_server[i] = current
    BY <2>1, <2>3 DEF Unanswered
  <2> QED
    BY <2>1, <2>3, <2>4, <2>5, NumberInHand DEF Handled, Unanswered
<1> HIDE DEF lost
<1>d. ASSUME current = NoCommand
      PROVE  TypeOK' /\ CommandInv' /\ ProcessedInv' /\ RepliesPaired'
  <2>1. answers' = answers /\ NextId' = NextId /\ lost = {}
    BY <1>c, <1>d DEF NextId
  <2>2. ~Handled
    BY <1>d DEF Handled, CommandInv
  <2>3. TypeOK' /\ RepliesPaired'
    BY <1>b, <1>d, <2>1, EmptyTyped DEF TypeOK, Multis, RepliesPaired
  <2>4. CommandInv'
    BY <1>b, <2>1 DEF CommandInv
  <2>5. ProcessedInv'
    BY <1>b, <2>1, <2>2 DEF ProcessedInv
  <2> QED
    BY <2>3, <2>4, <2>5
<1>e. ASSUME current # NoCommand
      PROVE  TypeOK' /\ CommandInv' /\ ProcessedInv' /\ RepliesPaired'
  <2>1. current.id = NextId /\ NextId \in Ids
    BY <1>e, NumberInHand
  <2>2. Unavailable \in Replies /\ Unavailable.id = NextId
        /\ Unavailable.kind = "UNAVAILABLE"
    BY <2>1, EmptyTyped, MaxCommandsAssumption
       DEF Unavailable, Reply, Replies, Kinds, Ids
  <2>3. /\ answers' \in Seq(Replies) /\ Len(answers') = NextId
        /\ answers'[NextId].id = NextId
        /\ answers'[NextId].kind = "UNAVAILABLE"
        /\ \A k \in 1..Len(answers) : answers'[k] = answers[k]
        /\ Len(answers) = NextId - 1 /\ NextId' = NextId + 1
    BY <1>a, <1>e, <2>2 DEF NextId
  <2>4. TypeOK'
    BY <1>b, <1>c, <1>e, <2>1, <2>3, EmptyTyped DEF TypeOK, Multis
  <2>5. RepliesPaired'
    BY <1>a, <2>3 DEF RepliesPaired
  <2>6. CommandInv'
    BY <1>b, <2>1, <2>3, MaxCommandsAssumption DEF CommandInv, Ids
  <2>7. ProcessedInv'
    <3>1. \A k \in lost : k = NextId /\ processed[k] = 0
      BY <1>c, <2>1 DEF ProcessedInv
    <3>2. \A k \in orphans' : k < NextId' /\ processed[k] = 0
      <4>1. \A k \in orphans : k \in Nat /\ k < NextId /\ processed[k] = 0
        BY DEF ProcessedInv, TypeOK, Ids
      <4> QED
        BY <1>a, <1>b, <2>3, <3>1, <4>1
    <3>3. \A k \in Ids : k > NextId => processed[k] = 0
      BY DEF ProcessedInv
    <3>4. ASSUME NEW k \in Ids
          PROVE  /\ processed'[k] <= 1
                 /\ k > NextId' => processed'[k] = 0
                 /\ k = NextId' => processed'[k] = IF Handled' THEN 1 ELSE 0
      BY <1>a, <1>b, <2>3, <3>3 DEF ProcessedInv, Ids
    <3> QED
      BY <3>2, <3>4 DEF ProcessedInv
  <2> QED
    BY <2>4, <2>5, <2>6, <2>7
<1>1. TypeOK'
  BY <1>d, <1>e
<1>2. ChannelInv'
  BY DEF ChannelInv, BuffersEmpty
<1>3. CommandInv'
  BY <1>d, <1>e
<1>4. ProcessedInv'
  BY <1>d, <1>e
<1>5. RepliesPaired'
  BY <1>d, <1>e
<1>6. MultiInv'
  BY DEF MultiInv, IdentityOutsideTransactions, NoMulti
<1>7. TransactionInv'
  BY <1>b DEF TransactionInv, Follows, NoMulti
<1> QED
  BY <1>1, <1>2, <1>3, <1>4, <1>5, <1>6, <1>7

\* A command of a dropped session is processed late, and then no more.
LEMMA OrphanProcessedInv == ASSUME NEW k \in Ids, IInv, OrphanProcessed(k) PROVE  IInv'
<1> USE DEF OrphanProcessed, IInv, proxy, server
<1>a. NextId \in Nat /\ NextId' = NextId
  BY NumberInHand DEF NextId
<1>b. k < NextId /\ processed[k] = 0 /\ processed' \in [Ids -> Nat]
      /\ processed'[k] = 1 /\ \A j \in Ids \ {k} : processed'[j] = processed[j]
  BY DEF ProcessedInv, TypeOK
<1>c. Handled' <=> Handled
  BY DEF Handled
<1>1. TypeOK'
  BY <1>b DEF TypeOK
<1>2. ChannelInv'
  BY DEF TypeOK, ChannelInv, CommandInv, BuffersEmpty, Unanswered, Replied
<1>3. CommandInv'
  BY DEF TypeOK, ChannelInv, CommandInv, NextId
<1>4. ProcessedInv'
  <2>1. \A j \in orphans' : j # k /\ j < NextId' /\ processed'[j] = 0
    BY <1>a, <1>b DEF ProcessedInv, TypeOK
  <2>2. ASSUME NEW j \in Ids
        PROVE  /\ processed'[j] <= 1
               /\ j > NextId' => processed'[j] = 0
               /\ j = NextId' => processed'[j] = IF Handled' THEN 1 ELSE 0
    <3>1. CASE j = k
      BY <1>a, <1>b, <3>1 DEF Ids
    <3>2. CASE j # k
      BY <1>a, <1>b, <1>c, <3>2 DEF ProcessedInv
    <3> QED
      BY <3>1, <3>2
  <2> QED
    BY <2>1, <2>2 DEF ProcessedInv
<1>5. RepliesPaired'
  BY <1>b DEF RepliesPaired, TypeOK, Ids
<1>6. MultiInv'
  BY DEF TypeOK, MultiInv, ChannelInv, BuffersEmpty, IdentityOutsideTransactions,
     RetryAfter
<1>7. TransactionInv'
  BY DEF TypeOK, TransactionInv, ChannelInv, CommandInv, BuffersEmpty, Handled,
     Answer, Follows, Observed, Observe, NoMulti
<1> QED
  BY <1>1, <1>2, <1>3, <1>4, <1>5, <1>6, <1>7

\* The answer to the command in hand: it is handled once, and the list can
\* follow what it did to the transaction.
LEMMA CommandAnsweredInv ==
    ASSUME IInv, ServerAnswers, pc = "await" PROVE  IInv'
<1> USE DEF ServerAnswers, IInv, proxy, server
<1>1. Unanswered /\ current # NoCommand /\ held = NoReply /\ ~Handled
  BY DEF ChannelInv, Replied, CommandInv, Handled, Unanswered
<1>2. /\ current.id = NextId /\ NextId \in Ids /\ current.name \in Names
      /\ NextId \in Nat /\ NextId' = NextId
  BY <1>1, NumberInHand DEF NextId
<1>3. Head(to_server) = current /\ Tail(to_server) = << >>
  BY <1>1 DEF Unanswered
<1>4. PICK o \in Outcomes(current.name, multi) :
          /\ to_proxy' = Append(to_proxy, Reply(current.id, o.kind, o.names))
          /\ multi' = o.after
          /\ processed' = [k \in Ids |-> IF k = current.id THEN processed[k] + 1
                                         ELSE processed[k]]
  BY <1>3
<1> DEFINE reply == Reply(NextId, o.kind, o.names)
<1>5. multi \in Multis /\ current.name \in Names \cup FieldSet
  BY <1>2 DEF TypeOK, Multis
<1>6. /\ o.kind \in Kinds \ {"UNAVAILABLE", "none"} /\ o.names \in NameLists
      /\ o.after \in Multis
  BY <1>5, OutcomeTyped
<1>7. reply \in Replies /\ reply.id = NextId /\ reply.kind = o.kind
      /\ reply.names = o.names
  BY <1>2, <1>6, MaxCommandsAssumption DEF Reply, Replies, Ids
<1> HIDE DEF reply
<1>8. to_server' = << >> /\ to_proxy' = <<reply>>
  <2>1. Append(<< >>, reply) = <<reply>>
    OBVIOUS
  <2> QED
    BY <1>1, <1>2, <1>3, <1>4, <2>1 DEF Unanswered, reply
<1>9. /\ to_proxy' \in Seq(Replies) /\ Len(to_proxy') = 1 /\ to_proxy'[1] = reply
      /\ to_proxy' # << >>
  <2>1. <<reply>> \in Seq(Replies) /\ Len(<<reply>>) = 1 /\ <<reply>>[1] = reply
    BY <1>7
  <2> QED
    BY <1>8, <2>1
<1>10. Handled' /\ Answer' = reply
  BY <1>1, <1>9 DEF Handled, Answer
<1>11. /\ processed' \in [Ids -> Nat] /\ processed[NextId] = 0
       /\ processed'[NextId] = 1
       /\ \A k \in Ids \ {NextId} : processed'[k] = processed[k]
  BY <1>1, <1>2, <1>4 DEF ProcessedInv, TypeOK
<1>12. TypeOK'
  BY <1>4, <1>6, <1>8, <1>9, <1>11, EmptyTyped DEF TypeOK, Multis
<1>13. ChannelInv'
  BY <1>2, <1>6, <1>7, <1>8, <1>9 DEF ChannelInv, Replied
<1>14. CommandInv'
  BY DEF CommandInv, NextId
<1>15. ProcessedInv'
  <2>1. \A k \in orphans' : k < NextId' /\ processed'[k] = 0
    BY <1>2, <1>11 DEF ProcessedInv, TypeOK, Ids
  <2> QED
    BY <1>2, <1>10, <1>11, <2>1 DEF ProcessedInv, Ids
<1>16. RepliesPaired'
  <2>1. \A k \in 1..Len(answers) : k \in Ids \ {NextId}
    BY <1>2, MaxCommandsAssumption DEF NextId, Ids, TypeOK
  <2> QED
    BY <1>11, <2>1 DEF RepliesPaired
<1>17. MultiInv'
  <2>1. ~multi.open => multi = NoMulti
    BY DEF MultiInv
  <2>2. /\ ~o.after.open => o.after = NoMulti
        /\ RetryAfter(current.name, o.kind) => o.after = NoMulti
    BY <1>5, <2>1, OutcomeMulti
  <2>3. IdentityOutsideTransactions'
    BY <1>2, <1>4, <1>5, OutcomeNames DEF MultiInv, IdentityOutsideTransactions
  <2>4. up
    BY DEF MultiInv
  <2> QED
    BY <1>4, <1>7, <1>9, <2>2, <2>3, <2>4 DEF MultiInv, RetryAfter
<1>18. TransactionInv'
  <2>1. tx \in [open : BOOLEAN, names : NameLists] /\ Follows(tx, multi)
    BY <1>1 DEF TypeOK, TransactionInv
  <2>2. /\ Follows(Observed(current.name, o.kind), o.after)
        /\ (current.name = "EXEC" /\ o.kind = "ARRAY")
               => tx.open /\ Listed(o.names, tx.names)
    BY <1>2, <1>5, <2>1, OutcomeFollows
  <2> QED
    BY <1>4, <1>7, <1>10, <2>2
       DEF TransactionInv, Follows, Observed, Observe, Bypass
<1> QED
  BY <1>12, <1>13, <1>14, <1>15, <1>16, <1>17, <1>18

\* The answer to identification: the client's commands and its transaction
\* are not touched.
LEMMA IdentityAnsweredInv ==
    ASSUME IInv, ServerAnswers, pc = "identity_replies" PROVE  IInv'
<1> USE DEF ServerAnswers, IInv, proxy, server
<1> DEFINE msg == Head(to_server)
<1>1. /\ to_server \in Seq(Messages) /\ to_server # << >>
      /\ to_proxy \in Seq(Replies)
      /\ msg.id = 0 /\ msg.name \in FieldSet
  BY DEF TypeOK, ChannelInv
<1>2. PICK o \in Outcomes(msg.name, multi) :
          /\ to_proxy' = Append(to_proxy, Reply(msg.id, o.kind, o.names))
          /\ multi' = o.after
          /\ processed' = [k \in Ids |-> IF k = msg.id THEN processed[k] + 1
                                         ELSE processed[k]]
  OBVIOUS
<1> HIDE DEF msg
<1>3. multi = NoMulti /\ multi \in Multis
  BY EmptyTyped DEF MultiInv
<1>4. o.kind \in Kinds /\ o.names \in NameLists /\ o.after = NoMulti
  <2>1. ~multi.open => multi = NoMulti
    BY <1>3
  <2> QED
    BY <1>1, <1>3, <2>1, OutcomeTyped, OutcomeMulti
<1>5. Reply(msg.id, o.kind, o.names) \in Replies
  BY <1>1, <1>4, MaxCommandsAssumption DEF Reply, Replies
<1>6. processed' = processed
  BY <1>1, <1>2 DEF Ids, TypeOK
<1>7. multi' = multi /\ NextId' = NextId
  BY <1>2, <1>3, <1>4 DEF NextId
<1>8. /\ to_proxy' \in Seq(Replies) /\ Len(to_proxy') = Len(to_proxy) + 1
      /\ Len(to_proxy) \in Nat
  BY <1>1, <1>2, <1>5
<1>9. /\ to_server' \in Seq(Messages) /\ Len(to_server') = Len(to_server) - 1
      /\ Len(to_server) \in Nat /\ Len(to_server) > 0
      /\ \A i \in 1..Len(to_server') : to_server'[i] = to_server[i + 1]
  BY <1>1
<1>10. TypeOK'
  BY <1>6, <1>7, <1>8, <1>9 DEF TypeOK
<1>11. ChannelInv'
  <2>1. Len(to_server') + Len(to_proxy') = Len(todo')
    BY <1>8, <1>9 DEF ChannelInv
  <2>2. \A i \in 1..Len(to_server') :
            to_server'[i].id = 0 /\ to_server'[i].name \in FieldSet
    <3>1. \A i \in 1..Len(to_server') : i + 1 \in 1..Len(to_server)
      BY <1>9
    <3> QED
      BY <1>9, <3>1 DEF ChannelInv
  <2> QED
    BY <2>1, <2>2 DEF ChannelInv
<1>12. (Handled' <=> Handled) /\ (Handled => Answer' = Answer)
  BY DEF Handled, Answer
<1>13. CommandInv' /\ ProcessedInv' /\ RepliesPaired'
  BY <1>6, <1>7, <1>12 DEF CommandInv, ProcessedInv, RepliesPaired
<1>14. MultiInv'
  BY <1>7 DEF MultiInv, IdentityOutsideTransactions
<1>15. TransactionInv'
  BY <1>7, <1>12 DEF TransactionInv, Follows, Observed, Observe, Bypass
<1> QED
  BY <1>10, <1>11, <1>13, <1>14, <1>15

\* Any answer of the server.
LEMMA ServerAnswersInv == ASSUME IInv, ServerAnswers PROVE  IInv'
<1>1. pc \in {"await", "identity_replies"}
  BY DEF ServerAnswers, IInv, TypeOK, ChannelInv, BuffersEmpty
<1> QED
  BY <1>1, CommandAnsweredInv, IdentityAnsweredInv

-----------------------------------------------------------------------------
(* The theorems. *)

\* Every step keeps the invariant.
LEMMA NextInv == ASSUME IInv, [Next]_vars PROVE  IInv'
<1>1. CASE ServerAnswers
  BY <1>1, ServerAnswersInv
<1>2. ASSUME NEW k \in Ids, OrphanProcessed(k) PROVE IInv'
  BY <1>2, OrphanProcessedInv
<1>3. CASE Exchange
  BY <1>3, ConnectInv, WriteIdentityInv, ReadIdentityInv, IdentifiedInv,
     SendCommandInv, ReadReplyInv, ReturnInv DEF Exchange
<1>4. CASE Return("closed")
  BY <1>4, ReturnInv
<1>5. ASSUME NEW n \in Names, NewCommand(n) PROVE IInv'
  BY <1>5, NewCommandInv
<1>6. CASE SessionFails
  BY <1>6, SessionFailsInv
<1>7. CASE ClientGone
  BY <1>7, ClientGoneInv
<1>8. CASE UNCHANGED vars
  <2> USE <1>8 DEF vars, proxy, server, IInv
  <2>1. TypeOK' /\ ChannelInv'
    BY DEF TypeOK, ChannelInv, BuffersEmpty, Unanswered, Replied
  <2>2. CommandInv' /\ ProcessedInv' /\ RepliesPaired'
    BY DEF CommandInv, NextId, ProcessedInv, Handled, RepliesPaired
  <2>3. MultiInv'
    BY DEF MultiInv, IdentityOutsideTransactions, RetryAfter
  <2>4. TransactionInv'
    BY DEF TransactionInv, Handled, Answer, Follows, Observed, Observe, Bypass
  <2> QED
    BY <2>1, <2>2, <2>3, <2>4
<1> QED
  BY <1>1, <1>2, <1>3, <1>4, <1>5, <1>6, <1>7, <1>8 DEF Next

\* The invariant holds of every reachable state.
THEOREM UpstreamInvariant == Spec => []IInv
<1>1. Init => IInv
  BY InitInv
<1>2. IInv /\ [Next]_vars => IInv'
  BY NextInv
<1> QED
  BY <1>1, <1>2, PTL DEF Spec

\* No variable of the connection task leaves its type, however often the
\* session is lost and replaced.
THEOREM UpstreamTyped == Spec => []TypeOK
<1>1. IInv => TypeOK
  BY DEF IInv
<1> QED
  BY <1>1, UpstreamInvariant, PTL

\* upstream_connection.rs never sends a command again: the upstream processes
\* none twice, also when it turns up late from a dropped session.
THEOREM CommandsProcessedAtMostOnce == Spec => []AtMostOnce
<1>1. IInv => AtMostOnce
  BY DEF IInv, ProcessedInv, AtMostOnce
<1> QED
  BY <1>1, UpstreamInvariant, PTL

\* The reply that exchange returns for a command is the upstream's reply to it
\* or UNAVAILABLE_REPLY, over identification and lost sessions.
THEOREM RepliesStayPaired == Spec => []RepliesPaired
<1>1. IInv => RepliesPaired
  BY DEF IInv
<1> QED
  BY <1>1, UpstreamInvariant, PTL

\* UpstreamIdentity::apply is never run inside the client's transaction.
THEOREM IdentityStaysOutside == Spec => []IdentityOutsideTransactions
<1>1. IInv => IdentityOutsideTransactions
  BY DEF IInv, MultiInv
<1> QED
  BY <1>1, UpstreamInvariant, PTL

\* When an EXEC reply is canonicalized, TransactionCommands has the names of
\* its members, without those that took the cluster bypass.
THEOREM ExecNamesFollow == Spec => []ExecNamesKnown
<1>1. IInv => ExecNamesKnown
  <2> SUFFICES ASSUME IInv, pc = "return", current.name = "EXEC",
                      held.kind = "ARRAY"
               PROVE  tx.open /\ Filtered(held.names, tx.names)
    BY DEF ExecNamesKnown
  <2>1. held # NoReply
    BY DEF IInv, CommandInv
  <2>2. Handled /\ Answer = held
    BY <2>1 DEF Handled, Answer
  <2> QED
    BY <2>2 DEF IInv, TransactionInv, Listed
<1> QED
  BY <1>1, UpstreamInvariant, PTL

\* Without a bypass the list is the transaction: what README.md says of the
\* names of an EXEC reply holds of every proxy outside cluster mode.
THEOREM ExecNamesMatchStandalone ==
    ASSUME ~ClusterMode PROVE  Spec => []ExecNamesMatch
<1>1. IInv => ExecNamesMatch
  <2> SUFFICES ASSUME IInv, pc = "return", current.name = "EXEC",
                      held.kind = "ARRAY"
               PROVE  tx = Opened(held.names)
    BY DEF ExecNamesMatch
  <2>1. held # NoReply
    BY DEF IInv, CommandInv
  <2>2. Handled /\ Answer = held
    BY <2>1 DEF Handled, Answer
  <2>3. tx.open /\ tx.names = held.names
    BY <2>2 DEF IInv, TransactionInv, Listed
  <2>4. tx \in [open : BOOLEAN, names : NameLists]
    BY DEF IInv, TypeOK
  <2> QED
    BY <2>3, <2>4 DEF Opened
<1> QED
  BY <1>1, UpstreamInvariant, PTL
=============================================================================
