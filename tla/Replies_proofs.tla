---------------------------- MODULE Replies_proofs ----------------------------
(* The limits of what is read from a peer and of what is generated, for any  *)
(* values of the limits.                                                     *)
(*                                                                           *)
(* The reader: WithinLimits is inductive once a loop has a level to go on    *)
(* with, because what a header asks for fits into the bytes that are left    *)
(* (AsksWithin) and the depth is checked before a level is opened.           *)
(*                                                                           *)
(* The generator: "every frame of a tree" is said by the paths from its      *)
(* root. The invariant bounds the levels below each open aggregate by its    *)
(* place on the stack; a closed aggregate is one level higher than its       *)
(* children (ClosedKept), and one more child keeps what holds of the others  *)
(* (AddedKept). Members of a set stay different because more replacements    *)
(* are tried than there are members (DistinctIsNew).                         *)
EXTENDS RespReader, Generator, FiniteSetTheorems, SequenceTheorems,
        WellFoundedInduction, TLAPS

-----------------------------------------------------------------------------
(* Sequences. *)

\* A sequence without its last element.
LEMMA FrontProperties ==
  ASSUME NEW S, NEW s \in Seq(S), s # <<>>
  PROVE  /\ Front(s) \in Seq(S) /\ Len(Front(s)) = Len(s) - 1
         /\ \A i \in 1..(Len(s) - 1) : Front(s)[i] = s[i]
         /\ Len(s) \in Nat \ {0}
<1>1. Len(s) \in Nat \ {0} /\ \A i \in 1..(Len(s) - 1) : s[i] \in S
  BY EmptySeq
<1>2. PICK n : n = Len(s) - 1
  OBVIOUS
<1>3. n \in Nat /\ \A i \in 1..n : s[i] \in S
  BY <1>1, <1>2
<1>4. /\ SubSeq(s, 1, n) \in Seq(S)
      /\ Len(SubSeq(s, 1, n)) = IF 1 <= n THEN n - 1 + 1 ELSE 0
      /\ \A i \in 1..(n - 1 + 1) : SubSeq(s, 1, n)[i] = s[1 + i - 1]
  <2>1. 1 \in Int /\ n \in Int
    BY <1>3
  <2> QED
    BY <1>3, <2>1, SubSeqProperties
<1>5. /\ SubSeq(s, 1, n) \in Seq(S)
      /\ Len(SubSeq(s, 1, n)) = n
      /\ \A i \in 1..n : SubSeq(s, 1, n)[i] = s[i]
  BY <1>3, <1>4
<1> QED
  BY <1>1, <1>2, <1>5 DEF Front

-----------------------------------------------------------------------------
(* The reader. *)

\* A loop of the reader has a level to go on with.
ReadInv ==
  /\ raw \in Seq(0..255) /\ pending \in Seq(Nat)
  /\ WithinLimits
  /\ outcome = "reading" => pending # <<>>

\* Before the first byte nothing is owed but the frame itself.
LEMMA ReadInitInv ==
  ASSUME LimitsAssumption, ReadInit
  PROVE  ReadInv
<1>1. /\ raw = <<>> /\ pending = <<1>> /\ <<>> \in Seq(0..255) /\ <<1>> \in Seq(Nat)
      /\ Len(<<>>) = 0 /\ Len(<<1>>) = 1 /\ <<1>>[1] = 1 /\ DOMAIN <<1>> = {1} /\ <<1>> # <<>>
  BY DEF ReadInit
<1>2. MaxFrameBytes \in Nat /\ MaxFrameDepth \in Nat
  BY DEF LimitsAssumption
<1>3. WithinLimits
  BY <1>1, <1>2 DEF WithinLimits
<1> QED
  BY <1>1, <1>3 DEF ReadInv

\* What a header asks for fits into the bytes that are left.
LEMMA AsksWithin ==
  ASSUME LimitsAssumption, NEW type, NEW line \in Seq(0..255), raw \in Seq(0..255),
         Len(raw) + Len(line) + 3 <= MaxFrameBytes,
         NEW ask \in AsksFor(type, line)
  PROVE  /\ ask.body \in Nat /\ ask.children \in Nat
         /\ Len(raw) + Len(line) + 3 + ask.body <= MaxFrameBytes
         /\ 3 * ask.children <= MaxFrameBytes
<1> DEFINE left == MaxFrameBytes - Len(raw) - Len(line) - 3
           per == IF type \in PairLists THEN 2 ELSE 1
           lens == LengthIn(line, NullForm(type) # type)
<1>1. MaxFrameBytes \in Nat /\ Len(raw) \in Nat /\ Len(line) \in Nat /\ left \in Nat
  BY DEF LimitsAssumption
<1>2. \A n \in lens : n \in Nat \/ n = -1
  BY DEF LengthIn
<1>3. left <= MaxFrameBytes /\ Len(raw) + Len(line) + 3 + left = MaxFrameBytes
  BY <1>1
<1> HIDE DEF left, lens
<1>4. CASE type \in Blobs
  <2> DEFINE Fits == {n \in lens : n = -1 \/ n + 2 <= left}
             Ask(n) == [children |-> 0, body |-> IF n = -1 THEN 0 ELSE n + 2]
  <2>0. ask \in {Ask(n) : n \in Fits}
    <3>1. AsksFor(type, line) = {Ask(n) : n \in Fits}
      <4>1. type \notin Aggregates
        BY <1>4 DEF Blobs, Aggregates, Lists, PairLists
      <4> QED
        BY <1>4, <4>1, Zenon DEF AsksFor, left, lens
    <3> QED
      BY <3>1
  <2>1. PICK n \in lens : (n = -1 \/ n + 2 <= left) /\ ask = Ask(n)
    BY <2>0
  <2>2. ask.children = 0 /\ ask.body \in Nat /\ ask.body <= left
    BY <1>1, <1>2, <2>1
  <2> QED
    BY <1>1, <1>3, <2>2
<1>5. CASE type \notin Blobs /\ type \in Aggregates
  <2>1. PICK n \in lens :
           /\ n = -1 \/ per * n <= left \div 3
           /\ ask = [children |-> IF n = -1 THEN 0 ELSE per * n, body |-> 0]
    BY <1>5 DEF AsksFor, left, lens
  <2>2. PICK c : c = left \div 3
    OBVIOUS
  <2>3. c \in Nat /\ 3 * c <= left
    BY <1>1, <2>2
  <2>4. ask.children \in Nat /\ ask.children <= c /\ ask.body = 0
    BY <1>2, <2>1, <2>2, <2>3
  <2> QED
    BY <1>1, <1>3, <2>3, <2>4
<1>6. CASE type \notin Blobs /\ type \notin Aggregates
  <2>1. ask = [children |-> 0, body |-> 0]
    BY <1>6 DEF AsksFor
  <2> QED
    BY <1>1, <1>3, <2>1
<1> QED
  BY <1>4, <1>5, <1>6

\* A level that has no unread children is left.
LEMMA PopLevelInv ==
  ASSUME LimitsAssumption, ReadInv, PopLevel
  PROVE  ReadInv'
<1>1. PICK p : p = pending
  OBVIOUS
<1>2. /\ p \in Seq(Nat) /\ p # <<>> /\ raw \in Seq(0..255) /\ raw' = raw
      /\ pending' = Front(p) /\ outcome' = IF Len(p) = 1 THEN "done" ELSE "reading"
      /\ MaxFrameBytes \in Nat /\ MaxFrameDepth \in Nat
  BY <1>1 DEF ReadInv, PopLevel, LimitsAssumption
<1>3. /\ Front(p) \in Seq(Nat) /\ Len(Front(p)) = Len(p) - 1
      /\ \A i \in 1..(Len(p) - 1) : Front(p)[i] = p[i]
  BY <1>2, FrontProperties
<1>4. Len(p) \in Nat \ {0} /\ DOMAIN p = 1..Len(p) /\ Len(raw) \in Nat
      /\ DOMAIN Front(p) = 1..(Len(p) - 1)
  BY <1>2, <1>3
<1>5. /\ Len(raw) <= MaxFrameBytes
      /\ Len(p) <= MaxFrameDepth + 1
      /\ 3 * (Len(p) - 1) <= Len(raw)
      /\ \A i \in DOMAIN p :
           p[i] \in Nat /\ IF i = 1 THEN p[i] <= 1 ELSE 3 * p[i] <= MaxFrameBytes
  BY <1>1 DEF ReadInv, WithinLimits
<1>6. \A i \in DOMAIN Front(p) :
        /\ Front(p)[i] \in Nat
        /\ IF i = 1 THEN Front(p)[i] <= 1 ELSE 3 * Front(p)[i] <= MaxFrameBytes
  BY <1>3, <1>4, <1>5, SMTT(40)
<1>7. WithinLimits'
  BY <1>2, <1>3, <1>4, <1>5, <1>6 DEF WithinLimits
<1>8. outcome' = "reading" => pending' # <<>>
  BY <1>2, <1>3, <1>4
<1> QED
  BY <1>2, <1>3, <1>7, <1>8 DEF ReadInv

\* Returning an error changes neither the bytes nor the counters.
LEMMA FailInv ==
  ASSUME ReadInv, NEW reason, reason # "reading", Fail(reason)
  PROVE  ReadInv'
BY DEF ReadInv, Fail, WithinLimits

\* The counters after a header: one child of the innermost level is being
\* read, and a level is opened for what the header announces.
LEMMA CountersAfterHeader ==
  ASSUME LimitsAssumption, ReadInv, NEW n \in Nat, 3 * n <= MaxFrameBytes,
         outcome = "reading", Last(pending) > 0, ~TooDeep,
         NEW q, q = IF n = 0 THEN Taken ELSE Append(Taken, n)
  PROVE  /\ q \in Seq(Nat) /\ q # <<>>
         /\ Len(q) <= MaxFrameDepth + 1 /\ Len(q) <= Len(pending) + 1
         /\ \A i \in DOMAIN q :
              q[i] \in Nat /\ IF i = 1 THEN q[i] <= 1 ELSE 3 * q[i] <= MaxFrameBytes
<1>1. PICK p : p = pending
  OBVIOUS
<1>2. /\ p \in Seq(Nat) /\ p # <<>> /\ Len(p) <= MaxFrameDepth
      /\ MaxFrameBytes \in Nat /\ MaxFrameDepth \in Nat
      /\ \A i \in DOMAIN p :
           p[i] \in Nat /\ IF i = 1 THEN p[i] <= 1 ELSE 3 * p[i] <= MaxFrameBytes
  BY <1>1 DEF ReadInv, WithinLimits, LimitsAssumption, TooDeep
<1>3. Len(p) \in Nat \ {0} /\ DOMAIN p = 1..Len(p)
  BY <1>2
<1>4. p[Len(p)] > 0 /\ p[Len(p)] \in Nat
  BY <1>1, <1>2, <1>3 DEF Last
<1>5. PICK t : t = [p EXCEPT ![Len(p)] = p[Len(p)] - 1]
  OBVIOUS
<1>6. Taken = t
  BY <1>1, <1>5 DEF Taken
<1>7. t \in Seq(Nat) /\ Len(t) = Len(p)
      /\ \A i \in 1..Len(p) : t[i] \in Nat /\ t[i] <= p[i]
  <2>1. \A i \in 1..Len(p) : t[i] = IF i = Len(p) THEN p[Len(p)] - 1 ELSE p[i]
    BY <1>3, <1>5
  <2>4. p[Len(p)] - 1 \in Nat /\ p[Len(p)] - 1 <= p[Len(p)] /\ \A i \in 1..Len(p) : p[i] \in Nat
    BY <1>2, <1>3, <1>4
  <2>2. \A i \in 1..Len(p) : t[i] \in Nat /\ t[i] <= p[i]
    BY <2>1, <2>4
  <2>3. t \in Seq(Nat) /\ Len(t) = Len(p)
    BY <1>2, <1>3, <1>4, <1>5
  <2> QED
    BY <2>2, <2>3
<1>8. \A i \in 1..Len(t) :
        t[i] \in Nat /\ IF i = 1 THEN t[i] <= 1 ELSE 3 * t[i] <= MaxFrameBytes
  <2> SUFFICES ASSUME NEW i \in 1..Len(t)
               PROVE  t[i] \in Nat /\ IF i = 1 THEN t[i] <= 1 ELSE 3 * t[i] <= MaxFrameBytes
    OBVIOUS
  <2>1. /\ t[i] \in Nat /\ t[i] <= p[i] /\ p[i] \in Nat
        /\ IF i = 1 THEN p[i] <= 1 ELSE 3 * p[i] <= MaxFrameBytes
    BY <1>2, <1>3, <1>7
  <2> QED
    BY <1>2, <2>1, SMTT(40)
<1>9. CASE n = 0
  BY <1>1, <1>2, <1>3, <1>6, <1>7, <1>8, <1>9
<1>10. CASE n # 0
  <2>1. q = Append(t, n)
    BY <1>6, <1>10
  <2>2. q \in Seq(Nat) /\ Len(q) = Len(t) + 1 /\ DOMAIN q = 1..(Len(t) + 1)
        /\ q # <<>> /\ q[Len(t) + 1] = n /\ \A i \in 1..Len(t) : q[i] = t[i]
    <3>1. /\ q \in Seq(Nat) /\ q # <<>> /\ Len(q) = Len(t) + 1
          /\ \A i \in 1..Len(t) : q[i] = t[i]
          /\ q[Len(t) + 1] = n
      <4>1. t \in Seq(Nat) /\ n \in Nat
        BY <1>7
      <4>2. /\ Append(t, n) \in Seq(Nat) /\ Append(t, n) # <<>>
            /\ Len(Append(t, n)) = Len(t) + 1
            /\ \A i \in 1..Len(t) : Append(t, n)[i] = t[i]
            /\ Append(t, n)[Len(t) + 1] = n
        BY <4>1, AppendProperties
      <4> QED
        BY <2>1, <4>2, Zenon
    <3>2. DOMAIN q = 1..Len(q)
      BY <3>1, LenProperties
    <3> QED
      BY <3>1, <3>2
  <2>3. \A i \in DOMAIN q :
          q[i] \in Nat /\ IF i = 1 THEN q[i] <= 1 ELSE 3 * q[i] <= MaxFrameBytes
    <3> TAKE i \in DOMAIN q
    <3>1. CASE i = Len(t) + 1
      BY <1>3, <1>7, <2>2, <3>1, SMTT(40)
    <3>2. CASE i # Len(t) + 1
      <4>1. i \in 1..Len(t) /\ q[i] = t[i]
        BY <1>3, <1>7, <2>2, <3>2, SMTT(40)
      <4> QED
        BY <1>8, <4>1
    <3> QED
      BY <3>1, <3>2
  <2> QED
    BY <1>1, <1>2, <1>3, <1>7, <2>2, <2>3, SMTT(40)
<1> QED
  BY <1>9, <1>10

\* A pass over a header, and over the body of a blob.
LEMMA ReadHeaderInv ==
  ASSUME LimitsAssumption, StreamAssumption, ReadInv,
         NEW start \in Starts, NEW text \in Lines, ReadHeader(start, text)
  PROVE  ReadInv'
<1> DEFINE line == Front(text)
           type == TypeOfPrefix(start)
<1>1. outcome = "reading" /\ Last(pending) > 0 /\ ~TooDeep
  BY DEF ReadHeader
<1>2. CASE Fail("eof") \/ Fail("invalid")
  BY <1>2, FailInv
<1>3. CASE /\ Len(raw) + Len(text) + 2 <= MaxFrameBytes
           /\ text # <<>> /\ Last(text) = CR
           /\ \E ask \in AsksFor(type, line) : \E body \in [1..ask.body -> Bodies] :
                /\ raw' = raw \o <<start>> \o line \o CRLF \o body
                /\ pending' = IF ask.children = 0 THEN Taken
                              ELSE Append(Taken, ask.children)
                /\ UNCHANGED outcome
  <2>1. PICK ask \in AsksFor(type, line) : \E body \in [1..ask.body -> Bodies] :
           /\ raw' = raw \o <<start>> \o line \o CRLF \o body
           /\ pending' = IF ask.children = 0 THEN Taken
                         ELSE Append(Taken, ask.children)
           /\ UNCHANGED outcome
    BY <1>3
  <2>2. PICK body \in [1..ask.body -> Bodies] :
           /\ raw' = raw \o <<start>> \o line \o CRLF \o body
           /\ pending' = IF ask.children = 0 THEN Taken
                         ELSE Append(Taken, ask.children)
           /\ UNCHANGED outcome
    BY <2>1
  <2>3. /\ text \in Seq(0..255) /\ start \in 0..255 /\ raw \in Seq(0..255)
        /\ Bodies \subseteq 0..255 /\ MaxFrameBytes \in Nat /\ MaxFrameDepth \in Nat
    BY DEF StreamAssumption, ReadInv, LimitsAssumption
  <2>4. PICK l : l = line
    OBVIOUS
  <2>5. l \in Seq(0..255) /\ Len(l) = Len(text) - 1 /\ Len(text) \in Nat
    BY <1>3, <2>3, <2>4, FrontProperties
  <2>6. Len(raw) + Len(l) + 3 <= MaxFrameBytes /\ Len(raw) \in Nat
    BY <1>3, <2>3, <2>5
  <2>7. /\ ask.body \in Nat /\ ask.children \in Nat
        /\ Len(raw) + Len(l) + 3 + ask.body <= MaxFrameBytes
        /\ 3 * ask.children <= MaxFrameBytes
    <3>1. ask \in AsksFor(type, l)
      BY <2>4
    <3> HIDE DEF type, line
    <3> QED
      BY <2>3, <2>5, <2>6, <3>1, AsksWithin
  <2>8. body \in Seq(0..255) /\ Len(body) = ask.body
    <3>1. PICK k : k = ask.body
      OBVIOUS
    <3>2. k \in Nat /\ body \in [1..k -> 0..255]
      BY <2>3, <2>7, <3>1
    <3>3. body \in Seq(0..255) /\ Len(body) = k
      BY <3>2
    <3> QED
      BY <3>1, <3>3
  <2>9. PICK r : r = raw \o <<start>> \o l \o CRLF \o body
    OBVIOUS
  <2>10. r \in Seq(0..255) /\ Len(r) = Len(raw) + Len(l) + 3 + Len(body)
    <3>1. <<start>> \in Seq(0..255) /\ Len(<<start>>) = 1
      BY <2>3
    <3>2. CRLF \in Seq(0..255) /\ Len(CRLF) = 2
      BY DEF CRLF, CR, LF
    <3>3. PICK a : a = raw \o <<start>>
      OBVIOUS
    <3>4. a \in Seq(0..255) /\ Len(a) = Len(raw) + 1
      BY <2>3, <3>1, <3>3, ConcatProperties
    <3>5. PICK b : b = a \o l
      OBVIOUS
    <3>6. b \in Seq(0..255) /\ Len(b) = Len(a) + Len(l)
      BY <2>5, <3>4, <3>5, ConcatProperties, ZenonT(60)
    <3>7. PICK c : c = b \o CRLF
      OBVIOUS
    <3>8. c \in Seq(0..255) /\ Len(c) = Len(b) + 2
      <4>1. c \in Seq(0..255) /\ Len(c) = Len(b) + Len(CRLF)
        BY <3>2, <3>6, <3>7, ConcatProperties, ZenonT(60)
      <4> QED
        BY <3>2, <4>1, Zenon
    <3>9. r = c \o body
      BY <2>9, <3>3, <3>5, <3>7
    <3>10. r \in Seq(0..255) /\ Len(r) = Len(c) + Len(body)
      BY <2>8, <3>8, <3>9, ConcatProperties, ZenonT(60)
    <3>11. /\ Len(raw) \in Nat /\ Len(l) \in Nat /\ Len(body) \in Nat
      BY <2>3, <2>5, <2>8
    <3> QED
      BY <3>4, <3>6, <3>8, <3>10, <3>11
  <2>11. PICK q : q = IF ask.children = 0 THEN Taken ELSE Append(Taken, ask.children)
    OBVIOUS
  <2>12. /\ q \in Seq(Nat) /\ q # <<>>
         /\ Len(q) <= MaxFrameDepth + 1 /\ Len(q) <= Len(pending) + 1
         /\ \A i \in DOMAIN q :
              q[i] \in Nat /\ IF i = 1 THEN q[i] <= 1 ELSE 3 * q[i] <= MaxFrameBytes
    BY <1>1, <2>7, <2>11, CountersAfterHeader
  <2>13. raw' = r /\ pending' = q
    BY <2>2, <2>4, <2>9, <2>11
  <2>14. 3 * (Len(pending) - 1) <= Len(raw) /\ Len(pending) \in Nat
    BY DEF ReadInv, WithinLimits
  <2>15. /\ Len(r) <= MaxFrameBytes
         /\ 3 * (Len(q) - 1) <= Len(r)
    <3>1. Len(q) \in Nat /\ Len(l) \in Nat /\ Len(body) \in Nat
      BY <2>5, <2>8, <2>12
    <3> QED
      BY <3>1, <2>6, <2>7, <2>8, <2>10, <2>12, <2>14, SMTT(40)
  <2>16. WithinLimits'
    BY <2>12, <2>13, <2>15 DEF WithinLimits
  <2> QED
    BY <2>10, <2>12, <2>13, <2>16 DEF ReadInv
<1> QED
  BY <1>2, <1>3 DEF ReadHeader

(* Whatever a peer sends and announces, the bytes a frame takes, its nesting *)
(* and the children each level waits for stay within the limits of resp.rs,  *)
(* at every moment of read_raw_frame.                                        *)
THEOREM ReaderBounded ==
  ASSUME LimitsAssumption, StreamAssumption
  PROVE  ReadSpec => []WithinLimits
<1>1. ReadInit => ReadInv
  BY ReadInitInv
<1>2. ReadInv /\ [ReadNext]_readVars => ReadInv'
  <2> SUFFICES ASSUME ReadInv, [ReadNext]_readVars PROVE ReadInv'
    OBVIOUS
  <2>1. CASE PopLevel
    BY <2>1, PopLevelInv
  <2>2. CASE PeerCloses
    BY <2>2, FailInv DEF PeerCloses
  <2>3. CASE Refuse
    BY <2>3, FailInv DEF Refuse
  <2>4. CASE ReadSome
    BY <2>4, ReadHeaderInv DEF ReadSome
  <2>5. CASE UNCHANGED readVars
    BY <2>5 DEF readVars, ReadInv, WithinLimits
  <2> QED
    BY <2>1, <2>2, <2>3, <2>4, <2>5 DEF ReadNext, Returned
<1>3. ReadInv => WithinLimits
  BY DEF ReadInv
<1> QED
  BY <1>1, <1>2, <1>3, PTL DEF ReadSpec

-----------------------------------------------------------------------------
(* The generator. *)

\* What holds of a frame, whatever it is part of.
Kept(p, f) == FrameBounded(f) /\ FrameOfProtocol(p, f) /\ MembersDiffer(f)

\* c[1], ..., c[n] leads from the root f of a tree to one of its frames.
IsPath(f, c, n) ==
  /\ c[1] = f
  /\ \A i \in 1..(n - 1) : \E k \in 1..Len(c[i].kids) : c[i + 1] = c[i].kids[k]

\* A tree has at most d levels, and Kept holds of each of its frames.
TreeKept(p, f, d) ==
  \A n \in Nat \ {0} : \A c : IsPath(f, c, n) => n <= d /\ Kept(p, c[n])

\* A sequence of whatever it holds.
IsSeq(s) == s \in Seq(ToSet(s))

\* The elements of a sequence.
LEMMA OwnElements ==
  ASSUME NEW S, NEW s \in Seq(S)
  PROVE  /\ IsSeq(s) /\ Len(s) \in Nat /\ DOMAIN s = 1..Len(s)
         /\ ToSet(s) = {s[i] : i \in 1..Len(s)}
<1>1. Len(s) \in Nat /\ DOMAIN s = 1..Len(s)
  BY LenProperties
<1>2. s \in Seq(Range(s))
  BY SeqOfRange
<1>3. Range(s) = ToSet(s)
  BY DEF Range, ToSet
<1> QED
  BY <1>1, <1>2, <1>3 DEF IsSeq, ToSet

\* The facts of a sequence of whatever it holds.
LEMMA SeqFacts ==
  ASSUME NEW s, IsSeq(s)
  PROVE  /\ Len(s) \in Nat /\ DOMAIN s = 1..Len(s)
         /\ ToSet(s) = {s[i] : i \in 1..Len(s)}
BY OwnElements DEF IsSeq

\* One more element.
LEMMA Appended ==
  ASSUME NEW s, IsSeq(s), NEW e
  PROVE  /\ IsSeq(Append(s, e)) /\ Len(Append(s, e)) = Len(s) + 1
         /\ Append(s, e)[Len(s) + 1] = e
         /\ \A i \in 1..Len(s) : Append(s, e)[i] = s[i]
<1>1. PICK S : S = ToSet(s) \cup {e}
  OBVIOUS
<1>2. s \in Seq(S) /\ e \in S
  <2>1. s \in Seq(ToSet(s)) /\ ToSet(s) \subseteq S /\ e \in S
    BY <1>1 DEF IsSeq
  <2> HIDE DEF ToSet
  <2> QED
    BY <2>1, SeqMonotonic, Zenon
<1>3. /\ Append(s, e) \in Seq(S)
      /\ Len(Append(s, e)) = Len(s) + 1
      /\ \A i \in 1..Len(s) : Append(s, e)[i] = s[i]
      /\ Append(s, e)[Len(s) + 1] = e
  BY <1>2, AppendProperties
<1>4. IsSeq(Append(s, e))
  BY <1>3, OwnElements
<1> QED
  BY <1>3, <1>4

\* All but the last element.
LEMMA Dropped ==
  ASSUME NEW s, IsSeq(s), s # <<>>, NEW t, t = Front(s)
  PROVE  /\ IsSeq(t) /\ Len(t) = Len(s) - 1 /\ Len(s) \in Nat \ {0}
         /\ \A i \in 1..(Len(s) - 1) : t[i] = s[i]
<1>1. PICK S : S = ToSet(s)
  OBVIOUS
<1>2. s \in Seq(S)
  BY <1>1 DEF IsSeq
<1>3. /\ Front(s) \in Seq(S) /\ Len(Front(s)) = Len(s) - 1
      /\ \A i \in 1..(Len(s) - 1) : Front(s)[i] = s[i]
      /\ Len(s) \in Nat \ {0}
  BY <1>2, FrontProperties
<1>4. t \in Seq(S)
  BY <1>3
<1>5. IsSeq(t)
  BY <1>4, OwnElements
<1> QED
  BY <1>3, <1>5

\* A frame whose children are the roots of such trees is the root of one.
LEMMA TreeOfKids ==
  ASSUME NEW p, NEW f, NEW d \in Nat \ {0}, Kept(p, f),
         \A k \in 1..Len(f.kids) : TreeKept(p, f.kids[k], d - 1)
  PROVE  TreeKept(p, f, d)
<1> SUFFICES ASSUME NEW n \in Nat \ {0}, NEW c, IsPath(f, c, n)
             PROVE  n <= d /\ Kept(p, c[n])
  BY DEF TreeKept
<1>1. CASE n = 1
  <2>1. c[1] = f
    BY DEF IsPath
  <2> QED
    BY <1>1, <2>1
<1>2. CASE n # 1
  <2>1. n - 1 \in Nat \ {0} /\ 1 \in 1..(n - 1)
    BY <1>2
  <2>2. PICK k \in 1..Len(f.kids) : c[2] = f.kids[k]
    BY <2>1 DEF IsPath
  <2>3. PICK t : t = [i \in 1..(n - 1) |-> c[i + 1]]
    OBVIOUS
  <2>4. \A i \in 1..(n - 1) : t[i] = c[i + 1]
    BY <2>3
  <2>5. IsPath(f.kids[k], t, n - 1)
    <3>1. t[1] = f.kids[k]
      BY <2>1, <2>2, <2>4
    <3>2. ASSUME NEW i \in 1..(n - 1 - 1)
          PROVE  \E j \in 1..Len(t[i].kids) : t[i + 1] = t[i].kids[j]
      <4>1. i \in 1..(n - 1) /\ i + 1 \in 1..(n - 1) /\ i + 1 + 1 = i + 2
        BY <2>1
      <4>2. t[i] = c[i + 1] /\ t[i + 1] = c[i + 1 + 1]
        BY <2>4, <4>1
      <4>3. \E j \in 1..Len(c[i + 1].kids) : c[i + 1 + 1] = c[i + 1].kids[j]
        BY <4>1 DEF IsPath
      <4> QED
        BY <4>2, <4>3
    <3> QED
      BY <3>1, <3>2 DEF IsPath
  <2>6. n - 1 <= d - 1 /\ Kept(p, t[n - 1])
    BY <2>1, <2>2, <2>5 DEF TreeKept
  <2>7. t[n - 1] = c[n]
    BY <2>1, <2>4
  <2> QED
    BY <2>1, <2>6, <2>7
<1> QED
  BY <1>1, <1>2

\* A scalar is a tree of one level.
LEMMA TreeOfScalar ==
  ASSUME NEW p, NEW type, NEW val, NEW d \in Nat \ {0}, Kept(p, Scalar(type, val))
  PROVE  TreeKept(p, Scalar(type, val), d)
<1>1. PICK f : f = Scalar(type, val)
  OBVIOUS
<1>2. f.kids = <<>> /\ Len(<<>>) = 0
  BY <1>1 DEF Scalar
<1>3. \A k \in 1..Len(f.kids) : TreeKept(p, f.kids[k], d - 1)
  BY <1>2
<1>4. Kept(p, f)
  BY <1>1
<1>5. TreeKept(p, f, d)
  BY <1>3, <1>4, TreeOfKids
<1> QED
  BY <1>1, <1>5

\* The least of a set of natural numbers.
LEMMA LeastOf ==
  ASSUME NEW S \in SUBSET Nat, S # {}
  PROVE  Min(S) \in S
<1>1. PICK n \in S : \A m \in S : <<m, n>> \notin OpToRel(<, Nat)
  BY NatLessThanWellFounded, WFMin, Zenon
<1>2. \A m \in S : ~(m < n)
  BY <1>1, Zenon DEF OpToRel
<1>3. \E x \in S : \A y \in S : x <= y
  BY <1>2, SMT
<1> QED
  BY <1>3, Zenon DEF Min

\* Distinct returns a member that the set does not have yet: among the
\* integers it tries there is one more than the set has members.
LEMMA DistinctIsNew ==
  ASSUME NEW s, IsSeq(s), NEW e
  PROVE  /\ Distinct(s, e) \notin ToSet(s)
         /\ Distinct(s, e) = e \/ \E n \in Nat : Distinct(s, e) = Int64(n)
<1>1. CASE e \notin ToSet(s)
  BY <1>1 DEF Distinct
<1>2. CASE e \in ToSet(s)
  <2> DEFINE Tried == Len(s)..(2 * Len(s))
             New == {n \in Tried : Int64(n) \notin ToSet(s)}
  <2>1. Len(s) \in Nat /\ ToSet(s) = {s[i] : i \in 1..Len(s)}
    BY SeqFacts
  <2>2. New # {}
    <3> SUFFICES ASSUME New = {} PROVE FALSE
      OBVIOUS
    <3>1. \A n \in Tried : \E i \in 1..Len(s) : s[i] = Int64(n)
      BY <2>1
    <3>2. PICK h : h = [n \in Tried |-> CHOOSE i \in 1..Len(s) : s[i] = Int64(n)]
      OBVIOUS
    <3>3. \A n \in Tried : h[n] \in 1..Len(s) /\ s[h[n]] = Int64(n)
      BY <3>1, <3>2
    <3>4. h \in [Tried -> 1..Len(s)]
      BY <3>2, <3>3
    <3>5. PICK T, P : T = Tried /\ P = 1..Len(s)
      OBVIOUS
    <3>6. /\ IsFiniteSet(T) /\ Cardinality(T) = Len(s) + 1
          /\ IsFiniteSet(P) /\ Cardinality(P) = Len(s)
      <4>1. Len(s) \in Int /\ 2 * Len(s) \in Int /\ 1 \in Int
        BY <2>1
      <4>2. /\ IsFiniteSet(Tried)
            /\ Cardinality(Tried) = IF Len(s) > 2 * Len(s) THEN 0 ELSE 2 * Len(s) - Len(s) + 1
        BY <4>1, FS_Interval
      <4>3. /\ IsFiniteSet(1..Len(s))
            /\ Cardinality(1..Len(s)) = IF 1 > Len(s) THEN 0 ELSE Len(s) - 1 + 1
        BY <4>1, FS_Interval
      <4> QED
        BY <2>1, <3>5, <4>2, <4>3
    <3>7. Cardinality(P) < Cardinality(T) /\ h \in [T -> P]
      BY <2>1, <3>4, <3>5, <3>6
    <3>8. \E x, y \in T : x # y /\ h[x] = h[y]
      BY <3>6, <3>7, FS_PigeonHole
    <3>9. PICK x \in Tried, y \in Tried : x # y /\ h[x] = h[y]
      BY <3>5, <3>8
    <3>10. Int64(x) = Int64(y)
      BY <3>3, <3>9
    <3>11. Int64(x).val[1] = x /\ Int64(y).val[1] = y
      <4>1. Int64(x).val = <<x>> /\ Int64(y).val = <<y>>
        BY DEF Int64, Scalar
      <4> QED
        BY <4>1
    <3> QED
      BY <3>9, <3>10, <3>11
  <2>3. Min(New) \in New
    <3>1. New \in SUBSET Nat
      BY <2>1
    <3> HIDE DEF New
    <3> QED
      BY <2>2, <3>1, LeastOf
  <2>4. Distinct(s, e) = Int64(Min(New))
    BY <1>2 DEF Distinct
  <2>5. Min(New) \in Nat /\ Int64(Min(New)) \notin ToSet(s)
    BY <2>1, <2>3
  <2> QED
    BY <2>4, <2>5
<1> QED
  BY <1>1, <1>2

\* A scalar that is not a blob, of a type its protocol has.
LEMMA ScalarKept ==
  ASSUME GeneratorAssumption, NEW p, NEW type, NEW val,
         type \notin Blobs \cup Aggregates,
         ~p.violations => /\ p.protocol = "RESP2" => type \in Resp2Types
                          /\ p.protocol = "RESP3" => type \notin Nullable
  PROVE  Kept(p, Scalar(type, val))
<1>1. PICK f : f = Scalar(type, val)
  OBVIOUS
<1>2. f.type = type /\ f.kids = <<>> /\ Len(f.kids) = 0
  BY <1>1 DEF Scalar
<1>3. type \notin {"Push", "Attribute", "VerbatimString", "Set", "Map"} /\ type \notin PairLists
  BY DEF Aggregates, Lists, PairLists, Blobs
<1>4. Count(f) = 0 /\ MaxItems \in Nat
  BY <1>2, <1>3 DEF Count, GeneratorAssumption
<1>5. FrameBounded(f)
  BY <1>2, <1>4 DEF FrameBounded
<1>6. FrameOfProtocol(p, f)
  BY <1>2, <1>3 DEF FrameOfProtocol
<1>7. MembersDiffer(f)
  BY <1>2, <1>3 DEF MembersDiffer
<1> QED
  BY <1>1, <1>5, <1>6, <1>7 DEF Kept

\* A blob that is short enough.
LEMMA BlobKept ==
  ASSUME GeneratorAssumption, NEW p, NEW type, NEW val,
         type \in Blobs, Len(val) <= MaxBlobBytes,
         ~p.violations => /\ p.protocol = "RESP2" => type \in Resp2Types
                          /\ type = "VerbatimString" => IsPrefix(Txt, val)
  PROVE  Kept(p, Scalar(type, val))
<1>1. PICK f : f = Scalar(type, val)
  OBVIOUS
<1>2. f.type = type /\ f.val = val /\ f.kids = <<>> /\ Len(f.kids) = 0
  BY <1>1 DEF Scalar
<1>3. type \notin {"Push", "Attribute", "Set", "Map"} \cup Nullable /\ type \notin PairLists
  BY DEF Blobs, Nullable, PairLists
<1>4. Count(f) = 0 /\ MaxItems \in Nat
  BY <1>2, <1>3 DEF Count, GeneratorAssumption
<1>5. FrameBounded(f)
  BY <1>2, <1>4 DEF FrameBounded
<1>6. FrameOfProtocol(p, f)
  BY <1>2, <1>3 DEF FrameOfProtocol
<1>7. MembersDiffer(f)
  BY <1>2, <1>3 DEF MembersDiffer
<1> QED
  BY <1>1, <1>5, <1>6, <1>7 DEF Kept

\* Bytes after a head of at most as many as a blob may have, truncated.
LEMMA TruncatedKept ==
  ASSUME CorpusAssumption, NEW head \in Seq(0..255), NEW b \in Seq(0..255),
         Len(head) <= MaxBlobBytes
  PROVE  /\ Len(Truncated(head \o b)) <= MaxBlobBytes
         /\ IsPrefix(head, Truncated(head \o b))
<1>1. PICK s : s = head \o b
  OBVIOUS
<1>2. /\ s \in Seq(0..255) /\ Len(s) = Len(head) + Len(b)
      /\ \A i \in 1..(Len(head) + Len(b)) :
           s[i] = IF i <= Len(head) THEN head[i] ELSE b[i - Len(head)]
  BY <1>1, ConcatProperties
<1>3. Len(head) \in Nat /\ Len(b) \in Nat /\ MaxBlobBytes \in Nat
  BY DEF CorpusAssumption
<1>4. PICK m : m = IF Len(s) > MaxBlobBytes THEN MaxBlobBytes ELSE Len(s)
  OBVIOUS
<1>5. m \in Nat /\ m <= Len(s) /\ Len(head) <= m /\ m <= MaxBlobBytes
  BY <1>2, <1>3, <1>4
<1>6. PICK t : t = SubSeq(s, 1, m)
  OBVIOUS
<1>7. t \in Seq(0..255) /\ Len(t) = m /\ \A i \in 1..m : t[i] = s[i]
  <2>1. \A i \in 1..m : s[i] \in 0..255
    <3> TAKE i \in 1..m
    <3>1. i \in 1..Len(s)
      BY <1>2, <1>3, <1>5
    <3> QED
      BY <1>2, <3>1, ElementOfSeq, Zenon
  <2>2. 1 \in Int /\ m \in Int
    BY <1>5
  <2>3. /\ SubSeq(s, 1, m) \in Seq(0..255)
        /\ Len(SubSeq(s, 1, m)) = IF 1 <= m THEN m - 1 + 1 ELSE 0
        /\ \A i \in 1..(m - 1 + 1) : SubSeq(s, 1, m)[i] = s[1 + i - 1]
    BY <2>1, <2>2, SubSeqProperties
  <2> QED
    BY <1>5, <1>6, <2>3
<1>8. Truncated(head \o b) = t
  BY <1>1, <1>4, <1>6 DEF Truncated
<1>9. SubSeq(head, 1, Len(head)) = SubSeq(t, 1, Len(head))
  <2>1. PICK h : h = Len(head)
    OBVIOUS
  <2>2. h \in Int /\ 1 \in Int /\ h \in Nat /\ h <= m
    BY <1>3, <1>5, <2>1
  <2>3. \A i \in 1..h : head[i] \in 0..255 /\ t[i] \in 0..255 /\ head[i] = t[i]
    BY <1>2, <1>3, <1>7, <2>1, <2>2, ElementOfSeq, SMTT(40)
  <2>4. /\ SubSeq(head, 1, h) \in Seq(0..255)
        /\ Len(SubSeq(head, 1, h)) = IF 1 <= h THEN h - 1 + 1 ELSE 0
        /\ \A i \in 1..(h - 1 + 1) : SubSeq(head, 1, h)[i] = head[1 + i - 1]
    BY <2>2, <2>3, SubSeqProperties
  <2>5. /\ SubSeq(t, 1, h) \in Seq(0..255)
        /\ Len(SubSeq(t, 1, h)) = IF 1 <= h THEN h - 1 + 1 ELSE 0
        /\ \A i \in 1..(h - 1 + 1) : SubSeq(t, 1, h)[i] = t[1 + i - 1]
    BY <2>2, <2>3, SubSeqProperties
  <2>6. PICK u, v : u = SubSeq(head, 1, h) /\ v = SubSeq(t, 1, h)
    OBVIOUS
  <2>7. u \in Seq(0..255) /\ v \in Seq(0..255) /\ Len(u) = Len(v)
        /\ \A i \in 1..Len(u) : u[i] = v[i]
    BY <2>2, <2>3, <2>4, <2>5, <2>6
  <2>8. u = v
    BY <2>7, SeqEqual, Zenon
  <2> QED
    BY <2>1, <2>6, <2>8
<1>10. IsPrefix(head, t) /\ Len(t) <= MaxBlobBytes
  BY <1>5, <1>7, <1>9 DEF IsPrefix
<1> QED
  BY <1>8, <1>10

\* The payloads that are drawn are short enough.
LEMMA BlobsDrawn ==
  ASSUME CorpusAssumption, NEW p, NEW b \in BlobDraws(p)
  PROVE  b \in Seq(0..255) /\ Len(b) <= MaxBlobBytes
<1>1. MaxBlobBytes \in Nat /\ MaxBlobBytes > 4
  BY DEF CorpusAssumption
<1>2. CASE b \in RandomBlobs
  BY <1>2 DEF CorpusAssumption
<1>3. CASE b \in BoundaryBlobs
  <2>1. CASE b = <<>>
    BY <1>1, <2>1
  <2>2. CASE b = CRLF \o <<0, 36, 42>>
    <3>1. b \in Seq(0..255) /\ Len(b) = 5
      <4>1. PICK u, v : u = CRLF /\ v = <<0, 36, 42>>
        OBVIOUS
      <4>2. u \in Seq(0..255) /\ Len(u) = 2 /\ v \in Seq(0..255) /\ Len(v) = 3
        BY <4>1 DEF CRLF, CR, LF
      <4>3. u \o v \in Seq(0..255) /\ Len(u \o v) = Len(u) + Len(v)
        BY <4>2, ConcatProperties, ZenonT(60)
      <4>4. b = u \o v
        BY <2>2, <4>1
      <4> QED
        BY <4>2, <4>3, <4>4
    <3> QED
      BY <1>1, <3>1
  <2> QED
    BY <1>3, <2>1, <2>2 DEF BoundaryBlobs
<1> QED
  BY <1>2, <1>3 DEF BlobDraws, BoundaryDraws

\* The kinds frame_at chooses from, by protocol.
LEMMA KindsAvailable ==
  ASSUME g \in GeneratorConfigs, NEW d, NEW kind \in Available(d)
  PROVE  /\ g.protocol = "RESP2" => kind \in Resp2Types
         /\ g.protocol = "RESP3" => kind \notin {"Push", "Attribute"} \cup Nullable
         /\ kind \in Aggregates => d # MaxDepth /\ kind \in {"Array", "Map", "Set"}
<1>1. CASE g.protocol = "RESP2"
  <2>1. PICK k, n : /\ k = <<"SimpleString", "SimpleError", "Integer", "BulkString",
                             "NullBulkString", "NullArray", "Array">>
                    /\ n = IF d = MaxDepth THEN 6 ELSE 7
    OBVIOUS
  <2>2. PICK i \in 1..n : kind = k[i]
    <3>1. Len(k) = 7 /\ Kinds(g.protocol) = k
      BY <1>1, <2>1 DEF Kinds
    <3>2. kind \in {k[i] : i \in 1..(Len(k) - (IF d = MaxDepth THEN 1 ELSE 0))}
      BY <1>1, <3>1 DEF Available
    <3> QED
      BY <2>1, <3>1, <3>2
  <2>3. i = 1 \/ i = 2 \/ i = 3 \/ i = 4 \/ i = 5 \/ i = 6 \/ (i = 7 /\ d # MaxDepth)
    BY <2>1
  <2>4. /\ k[1] = "SimpleString" /\ k[2] = "SimpleError" /\ k[3] = "Integer"
        /\ k[4] = "BulkString" /\ k[5] = "NullBulkString" /\ k[6] = "NullArray"
        /\ k[7] = "Array"
    BY <2>1
  <2> QED
    BY <1>1, <2>2, <2>3, <2>4 DEF Resp2Types, Aggregates, Lists, PairLists
<1>2. CASE g.protocol = "RESP3"
  <2>1. PICK k, n : /\ k = <<"SimpleString", "SimpleError", "Integer", "BulkString", "Null",
                             "Boolean", "Double", "BigNumber", "BulkError", "VerbatimString",
                             "Array", "Map", "Set">>
                    /\ n = IF d = MaxDepth THEN 10 ELSE 13
    OBVIOUS
  <2>2. PICK i \in 1..n : kind = k[i]
    <3>1. Len(k) = 13 /\ Kinds(g.protocol) = k
      BY <1>2, <2>1 DEF Kinds
    <3>2. kind \in {k[i] : i \in 1..(Len(k) - (IF d = MaxDepth THEN 3 ELSE 0))}
      BY <1>2, <3>1 DEF Available
    <3> QED
      BY <2>1, <3>1, <3>2
  <2>3. \/ i = 1 \/ i = 2 \/ i = 3 \/ i = 4 \/ i = 5 \/ i = 6 \/ i = 7 \/ i = 8 \/ i = 9 \/ i = 10
        \/ i \in {11, 12, 13} /\ d # MaxDepth
    BY <2>1
  <2>4. /\ k[1] = "SimpleString" /\ k[2] = "SimpleError" /\ k[3] = "Integer"
        /\ k[4] = "BulkString" /\ k[5] = "Null" /\ k[6] = "Boolean" /\ k[7] = "Double"
        /\ k[8] = "BigNumber" /\ k[9] = "BulkError" /\ k[10] = "VerbatimString"
        /\ k[11] = "Array" /\ k[12] = "Map" /\ k[13] = "Set"
    BY <2>1
  <2> QED
    BY <1>2, <2>2, <2>3, <2>4 DEF Aggregates, Lists, PairLists, Nullable
<1> QED
  BY <1>1, <1>2 DEF GeneratorConfigs

\* A drawn scalar is within the limits and the protocol.
LEMMA DrawnKept ==
  ASSUME CorpusAssumption, GeneratorAssumption, g \in GeneratorConfigs,
         NEW d, NEW kind \in Available(d) \ Aggregates, NEW f \in ScalarDraws(kind)
  PROVE  \E val : f = Scalar(kind, val) /\ Kept(g, f)
<1>1. PICK v : f = Scalar(kind, v)
  BY Zenon DEF ScalarDraws
<1>2. /\ g.protocol = "RESP2" => kind \in Resp2Types
      /\ g.protocol = "RESP3" => kind \notin Nullable
  BY KindsAvailable
<1>3. MaxBlobBytes \in Nat /\ MaxBlobBytes > 4
  BY DEF CorpusAssumption
<1>4. CASE kind \notin Blobs
  <2>1. Kept(g, Scalar(kind, v))
    BY <1>2, <1>4, ScalarKept
  <2> QED
    BY <1>1, <2>1
<1>5. CASE kind = "BulkString"
  <2>1. ScalarDraws("BulkString") = {Scalar("BulkString", w) : w \in BlobDraws(g)}
    BY Zenon DEF ScalarDraws
  <2>2. PICK b \in BlobDraws(g) : f = Scalar("BulkString", b)
    BY <1>5, <2>1
  <2>3. Len(b) <= MaxBlobBytes
    BY BlobsDrawn
  <2>4. Kept(g, Scalar("BulkString", b))
    <3>1. "BulkString" \in Blobs /\ "BulkString" \in Resp2Types /\ "BulkString" # "VerbatimString"
      BY DEF Blobs, Resp2Types
    <3> QED
      BY <2>3, <3>1, BlobKept
  <2> QED
    BY <1>5, <2>2, <2>4
<1>6. CASE kind = "BulkError"
  <2>1. ScalarDraws("BulkError") = {Scalar("BulkError", w) : w \in BulkErrorDraws(g)}
    BY Zenon DEF ScalarDraws
  <2>2. PICK b \in BlobDraws(g) : f = Scalar("BulkError", Truncated(Err \o b))
    BY <1>6, <2>1 DEF BulkErrorDraws
  <2>3. PICK w : w = Truncated(Err \o b)
    OBVIOUS
  <2>4. Len(w) <= MaxBlobBytes
    <3>1. Err \in Seq(0..255) /\ Len(Err) = 4 /\ Len(Err) <= MaxBlobBytes
      BY <1>3 DEF Err
    <3>2. b \in Seq(0..255)
      BY BlobsDrawn
    <3> QED
      BY <2>3, <3>1, <3>2, TruncatedKept
  <2>5. Kept(g, Scalar("BulkError", w))
    <3>1. "BulkError" \in Blobs /\ "BulkError" # "VerbatimString"
      BY DEF Blobs
    <3>2. g.protocol = "RESP2" => "BulkError" \in Resp2Types
      BY <1>2, <1>6
    <3> QED
      BY <2>4, <3>1, <3>2, BlobKept
  <2> QED
    BY <1>6, <2>2, <2>3, <2>5
<1>7. CASE kind = "VerbatimString"
  <2>1. ScalarDraws("VerbatimString") = {Scalar("VerbatimString", w) : w \in VerbatimDraws(g)}
    BY Zenon DEF ScalarDraws
  <2>2. PICK w \in VerbatimDraws(g) : f = Scalar("VerbatimString", w)
    BY <1>7, <2>1
  <2>3. Len(w) <= MaxBlobBytes /\ (~g.violations => IsPrefix(Txt, w))
    <3>1. CASE g.violations /\ w = BadVerbatim
      BY <1>3, <3>1 DEF BadVerbatim
    <3>2. CASE \E b \in BlobDraws(g) : w = Truncated(Txt \o b)
      <4>1. PICK b \in BlobDraws(g) : w = Truncated(Txt \o b)
        BY <3>2
      <4>2. Txt \in Seq(0..255) /\ Len(Txt) = 4 /\ Len(Txt) <= MaxBlobBytes
        BY <1>3 DEF Txt
      <4>3. b \in Seq(0..255)
        BY BlobsDrawn
      <4>4. /\ Len(Truncated(Txt \o b)) <= MaxBlobBytes
            /\ IsPrefix(Txt, Truncated(Txt \o b))
        BY <4>2, <4>3, TruncatedKept
      <4> QED
        BY <4>1, <4>4
    <3> QED
      BY <3>1, <3>2 DEF VerbatimDraws, Violating
  <2>4. Kept(g, Scalar("VerbatimString", w))
    <3>1. "VerbatimString" \in Blobs
      BY DEF Blobs
    <3>2. g.protocol = "RESP2" => "VerbatimString" \in Resp2Types
      BY <1>2, <1>7
    <3> QED
      BY <2>3, <3>1, <3>2, BlobKept
  <2> QED
    BY <1>7, <2>2, <2>4
<1> QED
  BY <1>4, <1>5, <1>6, <1>7 DEF Blobs

\* A violation is within the limits, and of two levels only above the deepest.
LEMMA ViolationKept ==
  ASSUME CorpusAssumption, GeneratorAssumption, g.violations,
         NEW d \in 1..MaxDepth, NEW f \in Violations(d)
  PROVE  TreeKept(g, f, MaxDepth - (d - 1))
<1> DEFINE m == MaxDepth - (d - 1)
<1>1. m \in Nat \ {0} /\ MaxItems \in Nat \ {0} /\ MaxBlobBytes \in Nat /\ MaxBlobBytes > 4
  BY DEF CorpusAssumption, GeneratorAssumption
<1> HIDE DEF m
<1>2. ASSUME NEW type \in {"Double", "BigNumber", "Boolean", "SimpleString", "Integer"},
             NEW val, NEW n \in Nat \ {0}
      PROVE  TreeKept(g, Scalar(type, val), n)
  <2>1. type \notin Blobs \cup Aggregates
    BY DEF Blobs, Aggregates, Lists, PairLists
  <2>2. Kept(g, Scalar(type, val))
    BY <2>1, ScalarKept
  <2> QED
    BY <2>2, TreeOfScalar
<1>3. ASSUME NEW type \in {"VerbatimString", "BulkString"}, NEW val, Len(val) <= MaxBlobBytes,
             NEW n \in Nat \ {0}
      PROVE  TreeKept(g, Scalar(type, val), n)
  <2>1. type \in Blobs
    BY DEF Blobs
  <2>2. Kept(g, Scalar(type, val))
    BY <1>3, <2>1, BlobKept
  <2> QED
    BY <2>2, TreeOfScalar
<1>4. ASSUME NEW type \in {"Push", "Attribute"}, NEW kids, Len(kids) = IF type = "Push" THEN 1 ELSE 2,
             d < MaxDepth, \A n \in Nat \ {0} : \A k \in 1..Len(kids) : TreeKept(g, kids[k], n)
      PROVE  TreeKept(g, Aggregate(type, kids), m)
  <2>1. PICK a : a = Aggregate(type, kids)
    OBVIOUS
  <2>2. a.type = type /\ a.kids = kids /\ type \notin Blobs
    BY <2>1 DEF Aggregate, Blobs
  <2>3. Count(a) = 1
    <3>1. CASE type = "Push"
      BY <1>4, <2>2, <3>1 DEF Count, PairLists
    <3>2. CASE type = "Attribute"
      <4>1. Len(a.kids) = 2 /\ a.type \in PairLists /\ 2 \div 2 = 1
        BY <1>4, <2>2, <3>2 DEF PairLists
      <4> QED
        BY <4>1 DEF Count
    <3> QED
      BY <3>1, <3>2
  <2>4. Kept(g, a)
    BY <1>1, <2>2, <2>3 DEF Kept, FrameBounded, FrameOfProtocol, MembersDiffer
  <2>5. m - 1 \in Nat \ {0}
    BY <1>1, <1>4 DEF m, GeneratorAssumption
  <2>6. \A k \in 1..Len(a.kids) : TreeKept(g, a.kids[k], m - 1)
    BY <1>4, <2>2, <2>5
  <2> QED
    BY <1>1, <2>1, <2>4, <2>6, TreeOfKids
<1>5. CASE f = Scalar("Double", BadNumber) \/ f = Scalar("BigNumber", BadBig) \/ f = Scalar("Boolean", <<1>>)
  BY <1>1, <1>2, <1>5 DEF m
<1>6. CASE f = Scalar("VerbatimString", BadVerbatim)
  <2>1. Len(BadVerbatim) <= MaxBlobBytes
    BY <1>1 DEF BadVerbatim
  <2> QED
    BY <1>1, <1>3, <1>6, <2>1 DEF m
<1>7. CASE d < MaxDepth /\ f = Aggregate("Push", <<Scalar("BulkString", <<109>>)>>)
  <2>1. PICK kids : kids = <<Scalar("BulkString", <<109>>)>>
    OBVIOUS
  <2>2. Len(kids) = 1 /\ kids[1] = Scalar("BulkString", <<109>>) /\ Len(<<109>>) <= MaxBlobBytes
    BY <1>1, <2>1
  <2>3. \A n \in Nat \ {0} : \A k \in 1..Len(kids) : TreeKept(g, kids[k], n)
    <3> TAKE n \in Nat \ {0}
    <3>1. "BulkString" \in {"VerbatimString", "BulkString"}
      OBVIOUS
    <3>2. TreeKept(g, Scalar("BulkString", <<109>>), n)
      BY <1>3, <2>2, <3>1
    <3>3. \A k \in 1..Len(kids) : k = 1
      BY <2>2
    <3> QED
      BY <2>2, <3>2, <3>3
  <2> QED
    BY <1>4, <1>7, <2>1, <2>2, <2>3 DEF m
<1>8. CASE d < MaxDepth /\ f = Aggregate("Attribute", <<Scalar("SimpleString", <<109>>), Int64(1)>>)
  <2>1. PICK kids : kids = <<Scalar("SimpleString", <<109>>), Int64(1)>>
    OBVIOUS
  <2>2. Len(kids) = 2 /\ kids[1] = Scalar("SimpleString", <<109>>)
        /\ kids[2] = Scalar("Integer", <<1>>)
    BY <2>1 DEF Int64
  <2>3. \A n \in Nat \ {0} : \A k \in 1..Len(kids) : TreeKept(g, kids[k], n)
    BY <1>2, <2>2
  <2> QED
    BY <1>4, <1>8, <2>1, <2>2, <2>3 DEF m
<1> QED
  BY <1>5, <1>6, <1>7, <1>8 DEF Violations

\* An aggregate that is being built, whose children have at most d levels. The
\* keys of a map are numbered by position.
OpenKept(p, o, d) ==
  /\ o = [type |-> o.type, want |-> o.want, kids |-> o.kids]
  /\ o.type \in {"Array", "Map", "Set"} /\ o.want \in 0..MaxItems
  /\ p.protocol = "RESP2" => o.type \in Resp2Types
  /\ IsSeq(o.kids) /\ Count(o) \in 0..o.want
  /\ o.type = "Map" => /\ Len(o.kids) = 2 * Count(o)
                       /\ \A i \in 1..Count(o) : o.kids[2 * i - 1] = Key(i - 1)
  /\ o.type = "Set" => IsInjective(o.kids)
  /\ \A k \in 1..Len(o.kids) : TreeKept(p, o.kids[k], d)

\* A closed aggregate is one level higher than its children.
LEMMA ClosedKept ==
  ASSUME GeneratorAssumption, NEW p, NEW d \in Nat, NEW o, OpenKept(p, o, d)
  PROVE  TreeKept(p, Aggregate(o.type, o.kids), d + 1)
<1>1. PICK f : f = Aggregate(o.type, o.kids)
  OBVIOUS
<1>2. f.type = o.type /\ f.kids = o.kids
  BY <1>1 DEF Aggregate
<1>3. Count(f) = Count(o)
  BY <1>2 DEF Count
<1>4. o.type \in {"Array", "Map", "Set"} /\ o.want \in 0..MaxItems /\ Count(o) \in 0..o.want
      /\ MaxItems \in Nat
  BY DEF OpenKept, GeneratorAssumption
<1>5. FrameBounded(f)
  <2>1. f.type \notin Blobs
    BY <1>2, <1>4 DEF Blobs
  <2>2. Count(f) <= MaxItems
    BY <1>3, <1>4
  <2> QED
    BY <2>1, <2>2 DEF FrameBounded
<1>6. FrameOfProtocol(p, f)
  BY <1>2, <1>4 DEF FrameOfProtocol, OpenKept, Nullable
<1>7. MembersDiffer(f)
  <2>1. f.type = "Set" => IsInjective(f.kids)
    BY <1>2 DEF OpenKept
  <2>2. ASSUME f.type = "Map"
        PROVE  IsInjective([i \in 1..Count(f) |-> f.kids[2 * i - 1]])
    <3>1. PICK k : k = [i \in 1..Count(f) |-> f.kids[2 * i - 1]]
      OBVIOUS
    <3>2. DOMAIN k = 1..Count(o) /\ \A i \in 1..Count(o) : k[i] = Key(i - 1)
      <4>1. \A i \in 1..Count(o) : o.kids[2 * i - 1] = Key(i - 1)
        BY <1>2, <2>2 DEF OpenKept
      <4> QED
        BY <1>2, <1>3, <3>1, <4>1
    <3>3. ASSUME NEW i \in 1..Count(o), NEW j \in 1..Count(o), k[i] = k[j]
          PROVE  i = j
      <4>1. i - 1 \in 0..(MaxItems - 1) /\ j - 1 \in 0..(MaxItems - 1)
        BY <1>4
      <4>2. Key(i - 1) = Key(j - 1)
        BY <3>2, <3>3
      <4>3. i - 1 = j - 1
        BY <4>1, <4>2 DEF GeneratorAssumption
      <4> QED
        BY <4>3
    <3> QED
      BY <3>1, <3>2, <3>3 DEF IsInjective
  <2> QED
    BY <2>1, <2>2 DEF MembersDiffer
<1>8. \A k \in 1..Len(f.kids) : TreeKept(p, f.kids[k], d + 1 - 1)
  <2>1. d + 1 - 1 = d
    OBVIOUS
  <2> QED
    BY <1>2, <2>1 DEF OpenKept
<1>9. d + 1 \in Nat \ {0}
  OBVIOUS
<1>10. TreeKept(p, f, d + 1)
  <2>1. Kept(p, f)
    BY <1>5, <1>6, <1>7 DEF Kept
  <2> QED
    BY <1>8, <1>9, <2>1, TreeOfKids
<1> QED
  BY <1>1, <1>10

\* A frame that is added to an open aggregate.
LEMMA AddedKept ==
  ASSUME CorpusAssumption, GeneratorAssumption, NEW p, NEW d \in Nat \ {0},
         NEW o, OpenKept(p, o, d), Count(o) < o.want,
         NEW f, TreeKept(p, f, d)
  PROVE  OpenKept(p, AddTo(o, f), d)
<1>1. /\ o = [type |-> o.type, want |-> o.want, kids |-> o.kids]
      /\ o.type \in {"Array", "Map", "Set"} /\ o.want \in 0..MaxItems
      /\ p.protocol = "RESP2" => o.type \in Resp2Types
      /\ IsSeq(o.kids) /\ Count(o) \in 0..o.want /\ MaxItems \in Nat
      /\ \A k \in 1..Len(o.kids) : TreeKept(p, o.kids[k], d)
  BY DEF OpenKept, GeneratorAssumption
<1>2. PICK s : s = o.kids
  OBVIOUS
<1>3. IsSeq(s) /\ Len(s) \in Nat /\ DOMAIN s = 1..Len(s) /\ ToSet(s) = {s[i] : i \in 1..Len(s)}
  BY <1>1, <1>2, SeqFacts
<1>4. ASSUME NEW t, NEW a, a = [o EXCEPT !.kids = t]
      PROVE  /\ a = [type |-> o.type, want |-> o.want, kids |-> t]
             /\ a = [type |-> a.type, want |-> a.want, kids |-> a.kids]
             /\ a.type = o.type /\ a.want = o.want /\ a.kids = t
  <2>1. a = [type |-> o.type, want |-> o.want, kids |-> t]
    BY <1>1, <1>4
  <2> QED
    BY <2>1
<1>5. ASSUME o.type # "Map", NEW t, NEW e, TreeKept(p, e, d), t = Append(s, e),
             NEW a, a = [o EXCEPT !.kids = t],
             o.type = "Set" => IsInjective(t)
      PROVE  OpenKept(p, a, d)
  <2>1. /\ IsSeq(t) /\ Len(t) = Len(s) + 1 /\ t[Len(s) + 1] = e
        /\ \A i \in 1..Len(s) : t[i] = s[i]
    <3>1. IsSeq(s) /\ t = Append(s, e)
      BY <1>3, <1>5
    <3> QED
      BY <3>1, Appended
  <2>2. \A k \in 1..Len(t) : TreeKept(p, t[k], d)
    <3> TAKE k \in 1..Len(t)
    <3>1. CASE k = Len(s) + 1
      BY <1>5, <2>1, <3>1
    <3>2. CASE k # Len(s) + 1
      <4>1. k \in 1..Len(s) /\ t[k] = o.kids[k]
        BY <1>2, <1>3, <2>1, <3>2
      <4> QED
        BY <1>1, <1>2, <4>1
    <3> QED
      BY <3>1, <3>2
  <2>3. /\ a = [type |-> a.type, want |-> a.want, kids |-> a.kids]
        /\ a.type = o.type /\ a.want = o.want /\ a.kids = t
    BY <1>4, <1>5, ZenonT(60)
  <2>4. Count(a) \in 0..a.want
    <3>1. o.type \notin PairLists
      BY <1>1, <1>5 DEF PairLists
    <3>2. Count(o) = Len(s) /\ Count(a) = Len(s) + 1
      BY <1>2, <2>1, <2>3, <3>1 DEF Count
    <3> QED
      BY <1>1, <1>3, <2>3, <3>2
  <2> QED
    BY <1>1, <1>5, <2>1, <2>2, <2>3, <2>4 DEF OpenKept
<1>6. CASE o.type = "Array"
  <2>1. AddTo(o, f) = [o EXCEPT !.kids = Append(o.kids, f)]
    BY <1>6, Zenon DEF AddTo
  <2> QED
    BY <1>2, <1>5, <1>6, <2>1
<1>7. CASE o.type = "Set"
  <2>1. AddTo(o, f) = [o EXCEPT !.kids = Append(o.kids, Distinct(o.kids, f))]
    BY <1>7, Zenon DEF AddTo
  <2>2. PICK e, t : e = Distinct(s, f) /\ t = Append(s, e)
    OBVIOUS
  <2>3. e \notin ToSet(s) /\ (e = f \/ \E n \in Nat : e = Int64(n))
    BY <1>3, <2>2, DistinctIsNew
  <2>4. TreeKept(p, e, d)
    <3>1. ASSUME NEW n \in Nat PROVE TreeKept(p, Int64(n), d)
      <4>1. /\ "Integer" \notin Blobs \cup Aggregates /\ "Integer" \in Resp2Types
            /\ "Integer" \notin Nullable
        BY DEF Blobs, Aggregates, Lists, PairLists, Resp2Types, Nullable
      <4>2. Kept(p, Scalar("Integer", <<n>>))
        BY <4>1, ScalarKept
      <4> QED
        BY <4>2, TreeOfScalar DEF Int64
    <3> QED
      BY <2>3, <3>1
  <2>5. IsInjective(t)
    <3>1. IsInjective(s)
      BY <1>2, <1>7 DEF OpenKept
    <3>2. /\ IsSeq(t) /\ Len(t) = Len(s) + 1 /\ t[Len(s) + 1] = e
          /\ \A i \in 1..Len(s) : t[i] = s[i]
      <4>1. IsSeq(s) /\ t = Append(s, e)
        BY <1>3, <2>2
      <4> QED
        BY <4>1, Appended
    <3>3. DOMAIN t = 1..(Len(s) + 1)
      BY <3>2, SeqFacts
    <3>4. \A i \in 1..Len(s) : s[i] # e
      BY <1>3, <2>3
    <3>5. ASSUME NEW i \in 1..(Len(s) + 1), NEW j \in 1..(Len(s) + 1), t[i] = t[j]
          PROVE  i = j
      <4>1. CASE i \in 1..Len(s) /\ j \in 1..Len(s)
        BY <1>3, <3>1, <3>2, <3>5, <4>1 DEF IsInjective
      <4>2. CASE i = Len(s) + 1 /\ j \in 1..Len(s)
        BY <3>2, <3>4, <3>5, <4>2
      <4>3. CASE j = Len(s) + 1 /\ i \in 1..Len(s)
        BY <3>2, <3>4, <3>5, <4>3
      <4> QED
        BY <1>3, <4>1, <4>2, <4>3
    <3> QED
      BY <3>3, <3>5 DEF IsInjective
  <2>6. AddTo(o, f) = [o EXCEPT !.kids = t]
    BY <1>2, <2>1, <2>2
  <2>7. PICK a : a = AddTo(o, f)
    OBVIOUS
  <2>8. OpenKept(p, a, d)
    BY <1>5, <1>7, <2>2, <2>4, <2>5, <2>6, <2>7
  <2> QED
    BY <2>7, <2>8
<1>8. CASE o.type = "Map"
  <2>1. AddTo(o, f) = [o EXCEPT !.kids = o.kids \o <<Key(Count(o)), f>>]
    BY <1>8, Zenon DEF AddTo
  <2>2. PICK n, t, a : n = Count(o) /\ t = s \o <<Key(n), f>> /\ a = AddTo(o, f)
    OBVIOUS
  <2>3. /\ n \in 0..(MaxItems - 1) /\ n < o.want /\ Len(s) = 2 * n
        /\ \A i \in 1..n : s[2 * i - 1] = Key(i - 1)
    BY <1>1, <1>2, <1>8, <2>2 DEF OpenKept
  <2>4. TreeKept(p, Key(n), d)
    <3>1. PICK v : v = <<107>> \o Decimal(n)
      OBVIOUS
    <3>2. Key(n) = Scalar("BulkString", v) /\ Key(n).val = v
      BY <3>1 DEF Key, Scalar
    <3>3. Len(v) <= MaxBlobBytes
      BY <2>3, <3>2 DEF GeneratorAssumption
    <3>4. "BulkString" \in Blobs /\ "BulkString" \in Resp2Types /\ "BulkString" # "VerbatimString"
      BY DEF Blobs, Resp2Types
    <3>5. Kept(p, Scalar("BulkString", v))
      BY <3>3, <3>4, BlobKept
    <3> QED
      BY <3>2, <3>5, TreeOfScalar
  <2>5. /\ IsSeq(t) /\ Len(t) = Len(s) + 2
        /\ t[Len(s) + 1] = Key(n) /\ t[Len(s) + 2] = f
        /\ \A i \in 1..Len(s) : t[i] = s[i]
    <3>1. PICK S, k, q : S = ToSet(s) \cup {Key(n), f} /\ k = Key(n) /\ q = <<k, f>>
      OBVIOUS
    <3>2. s \in Seq(S)
      <4>1. s \in Seq(ToSet(s)) /\ ToSet(s) \subseteq S
        BY <1>3, <3>1 DEF IsSeq
      <4> QED
        BY <4>1, SeqMonotonic, Zenon
    <3>3. k \in S /\ f \in S
      BY <3>1
    <3>4. q \in Seq(S) /\ Len(q) = 2 /\ q[1] = k /\ q[2] = f
      BY <3>1, <3>3
    <3>5. /\ s \o q \in Seq(S) /\ Len(s \o q) = Len(s) + Len(q)
          /\ \A i \in 1..(Len(s) + Len(q)) :
               (s \o q)[i] = IF i <= Len(s) THEN s[i] ELSE q[i - Len(s)]
      BY <3>2, <3>4, ConcatProperties
    <3>6. t = s \o q
      BY <2>2, <3>1
    <3>7. IsSeq(t)
      BY <3>5, <3>6, OwnElements
    <3>8. Len(s) + 1 - Len(s) = 1 /\ Len(s) + 2 - Len(s) = 2
      BY <1>3
    <3> QED
      BY <1>3, <3>1, <3>4, <3>5, <3>6, <3>7, <3>8
  <2>6. /\ a = [type |-> a.type, want |-> a.want, kids |-> a.kids]
        /\ a.type = o.type /\ a.want = o.want /\ a.kids = t
    <3>1. a = [o EXCEPT !.kids = t]
      BY <1>2, <2>1, <2>2
    <3> QED
      BY <1>4, <3>1
  <2>7. Count(a) = n + 1 /\ Count(a) \in 0..a.want /\ Len(t) = 2 * Count(a)
    <3>1. "Map" \in PairLists
      BY DEF PairLists
    <3>2. Len(t) = 2 * (n + 1) /\ n \in Nat
      BY <1>1, <2>3, <2>5
    <3>3. Len(t) \div 2 = n + 1
      BY <3>2
    <3>4. Count(a) = n + 1
      BY <1>8, <2>6, <3>1, <3>3 DEF Count
    <3> QED
      BY <1>1, <2>3, <2>6, <3>2, <3>4
  <2>8. \A i \in 1..(n + 1) : t[2 * i - 1] = Key(i - 1)
    <3> TAKE i \in 1..(n + 1)
    <3>1. CASE i = n + 1
      <4>0. n \in Nat /\ Len(s) = 2 * n
        BY <1>1, <2>3
      <4>1. 2 * i - 1 = Len(s) + 1 /\ i - 1 = n
        BY <3>1, <4>0
      <4>2. t[2 * i - 1] = Key(n)
        BY <2>5, <4>1, Zenon
      <4> QED
        BY <4>1, <4>2, Zenon
    <3>2. CASE i # n + 1
      <4>1. i \in 1..n /\ 2 * i - 1 \in 1..Len(s)
        BY <1>1, <2>3, <3>2, SMTT(40)
      <4> QED
        BY <2>3, <2>5, <4>1
    <3> QED
      BY <3>1, <3>2
  <2>9. \A k \in 1..Len(t) : TreeKept(p, t[k], d)
    <3> TAKE k \in 1..Len(t)
    <3>1. k \in 1..Len(s) \/ k = Len(s) + 1 \/ k = Len(s) + 2
      BY <1>3, <2>5
    <3> QED
      BY <1>1, <1>2, <2>4, <2>5, <3>1
  <2>10. OpenKept(p, a, d)
    BY <1>1, <1>8, <2>5, <2>6, <2>7, <2>8, <2>9 DEF OpenKept
  <2> QED
    BY <2>2, <2>10
<1> QED
  BY <1>1, <1>6, <1>7, <1>8

\* The inductive invariant. There are fewer open aggregates than levels, the
\* i-th one has room for MaxDepth - i levels below it, and all but the innermost
\* wait for a child.
GenerateInv ==
  /\ g \in Profiles
  /\ IsSeq(stack) /\ Len(stack) < MaxDepth
  /\ \A i \in 1..Len(stack) : OpenKept(g, stack[i], MaxDepth - i)
  /\ \A i \in 1..(Len(stack) - 1) : Count(stack[i]) < stack[i].want
  /\ tree # <<>> => stack = <<>> /\ TreeKept(g, tree[1], MaxDepth)

\* A frame is handed to the innermost aggregate, or returned.
LEMMA DeliverInv ==
  ASSUME CorpusAssumption, GeneratorAssumption, g \in Profiles,
         NEW open, IsSeq(open), Len(open) < MaxDepth,
         \A i \in 1..Len(open) :
           OpenKept(g, open[i], MaxDepth - i) /\ Count(open[i]) < open[i].want,
         NEW f, TreeKept(g, f, MaxDepth - Len(open)),
         tree = <<>>, Deliver(open, f), g' = g
  PROVE  GenerateInv'
<1>1. MaxDepth \in Nat \ {0} /\ Len(open) \in Nat
  BY SeqFacts DEF GeneratorAssumption
<1>2. CASE open = <<>>
  <2>1. stack' = <<>> /\ tree' = <<f>> /\ Len(open) = 0
    BY <1>2 DEF Deliver
  <2>2. IsSeq(<<>>) /\ Len(<<>>) = 0
    BY DEF IsSeq
  <2>3. MaxDepth - Len(open) = MaxDepth
    BY <1>1, <2>1
  <2>4. <<f>>[1] = f
    OBVIOUS
  <2>5. TreeKept(g', tree'[1], MaxDepth)
    BY <2>1, <2>3, <2>4
  <2> QED
    BY <1>1, <2>1, <2>2, <2>5 DEF GenerateInv
<1>3. CASE open # <<>>
  <2>1. PICK n, o, h, a, s :
          n = Len(open) /\ o = Last(open) /\ h = Front(open) /\ a = AddTo(o, f) /\ s = Append(h, a)
    OBVIOUS
  <2>2. /\ IsSeq(h) /\ Len(h) = n - 1 /\ n \in Nat \ {0}
        /\ \A i \in 1..(n - 1) : h[i] = open[i]
    BY <1>3, <2>1, Dropped
  <2>3. stack' = s /\ tree' = <<>>
    BY <1>3, <2>1 DEF Deliver
  <2>4. OpenKept(g, o, MaxDepth - n) /\ Count(o) < o.want
    BY <1>1, <2>1, <2>2 DEF Last
  <2>5. MaxDepth - n \in Nat \ {0} /\ TreeKept(g, f, MaxDepth - n)
    BY <1>1, <2>1
  <2>6. OpenKept(g, a, MaxDepth - n)
    <3>1. PICK d : d = MaxDepth - n
      OBVIOUS
    <3>2. d \in Nat \ {0} /\ OpenKept(g, o, d) /\ TreeKept(g, f, d)
      BY <2>4, <2>5, <3>1
    <3>3. OpenKept(g, AddTo(o, f), d)
      BY <2>4, <3>2, AddedKept
    <3> QED
      BY <2>1, <3>1, <3>3
  <2>7. IsSeq(s) /\ Len(s) = n /\ s[n] = a /\ \A i \in 1..(n - 1) : s[i] = open[i]
    <3>1. /\ IsSeq(s) /\ Len(s) = Len(h) + 1 /\ s[Len(h) + 1] = a
          /\ \A i \in 1..Len(h) : s[i] = h[i]
      BY <2>1, <2>2, Appended
    <3>2. Len(h) + 1 = n
      BY <2>2
    <3> QED
      BY <2>2, <3>1, <3>2
  <2>8. \A i \in 1..n : OpenKept(g, s[i], MaxDepth - i)
    <3> TAKE i \in 1..n
    <3>1. CASE i = n
      BY <2>6, <2>7, <3>1
    <3>2. CASE i # n
      <4>1. i \in 1..(n - 1) /\ i \in 1..Len(open)
        BY <2>1, <2>2, <3>2
      <4> QED
        BY <2>7, <4>1
    <3> QED
      BY <3>1, <3>2
  <2>9. \A i \in 1..(n - 1) : Count(s[i]) < s[i].want
    <3> TAKE i \in 1..(n - 1)
    <3>1. i \in 1..Len(open) /\ s[i] = open[i]
      BY <2>1, <2>2, <2>7
    <3> QED
      BY <3>1
  <2> QED
    BY <2>1, <2>3, <2>7, <2>8, <2>9 DEF GenerateInv
<1> QED
  BY <1>2, <1>3

\* Every open aggregate waits for a child when a frame is wanted.
LEMMA AllWant ==
  ASSUME GenerateInv, Wanted
  PROVE  /\ Len(stack) \in Nat
         /\ \A i \in 1..Len(stack) :
              OpenKept(g, stack[i], MaxDepth - i) /\ Count(stack[i]) < stack[i].want
<1>1. Len(stack) \in Nat
  BY SeqFacts DEF GenerateInv
<1>2. ASSUME NEW i \in 1..Len(stack)
      PROVE  OpenKept(g, stack[i], MaxDepth - i) /\ Count(stack[i]) < stack[i].want
  <2>1. OpenKept(g, stack[i], MaxDepth - i)
    BY DEF GenerateInv
  <2>2. CASE i = Len(stack)
    <3>1. stack # <<>>
      BY <1>1, <2>2
    <3>2. Last(stack) = stack[i]
      BY <2>2 DEF Last
    <3> QED
      BY <2>1, <3>1, <3>2 DEF Wanted
  <2>3. CASE i # Len(stack)
    <3>1. i \in 1..(Len(stack) - 1)
      BY <1>1, <2>3
    <3> QED
      BY <2>1, <3>1 DEF GenerateInv
  <2> QED
    BY <2>2, <2>3
<1> QED
  BY <1>1, <1>2

\* A scalar is drawn.
LEMMA DrawScalarInv ==
  ASSUME CorpusAssumption, GeneratorAssumption, GenerateInv, DrawScalar
  PROVE  GenerateInv'
<1>1. Wanted /\ tree = <<>> /\ g' = g
  BY DEF DrawScalar, Wanted
<1>2. PICK kind \in Available(Depth) \ Aggregates : \E f \in ScalarDraws(kind) : Deliver(stack, f)
  BY DEF DrawScalar
<1>3. PICK f \in ScalarDraws(kind) : Deliver(stack, f)
  BY <1>2
<1>4. g \in Profiles /\ g \in GeneratorConfigs /\ MaxDepth \in Nat \ {0}
  BY DEF GenerateInv, GeneratorAssumption
<1>5. PICK d : d = Depth
  OBVIOUS
<1>6. PICK val : f = Scalar(kind, val) /\ Kept(g, f)
  BY <1>4, DrawnKept
<1>7. IsSeq(stack) /\ Len(stack) < MaxDepth
  BY DEF GenerateInv
<1>8. PICK m : m = MaxDepth - Len(stack)
  OBVIOUS
<1>9. m \in Nat \ {0}
  BY <1>4, <1>7, <1>8, SeqFacts
<1>10. TreeKept(g, f, m)
  <2>1. Kept(g, Scalar(kind, val))
    BY <1>6
  <2>2. TreeKept(g, Scalar(kind, val), m)
    BY <1>9, <2>1, TreeOfScalar
  <2> QED
    BY <1>6, <2>2
<1>11. \A i \in 1..Len(stack) :
         OpenKept(g, stack[i], MaxDepth - i) /\ Count(stack[i]) < stack[i].want
  BY <1>1, AllWant
<1> QED
  BY <1>1, <1>3, <1>4, <1>7, <1>8, <1>10, <1>11, DeliverInv

\* A violation is drawn.
LEMMA DrawViolationInv ==
  ASSUME CorpusAssumption, GeneratorAssumption, GenerateInv, DrawViolation
  PROVE  GenerateInv'
<1>1. Wanted /\ tree = <<>> /\ g' = g /\ g.violations
  BY DEF DrawViolation, Wanted
<1>2. PICK f \in Violations(Depth) : Deliver(stack, f)
  BY DEF DrawViolation
<1>3. g \in Profiles /\ MaxDepth \in Nat \ {0} /\ IsSeq(stack) /\ Len(stack) < MaxDepth
  BY DEF GenerateInv, GeneratorAssumption
<1>4. Len(stack) \in Nat
  BY <1>3, SeqFacts
<1>5. PICK d : d = Len(stack) + 1
  OBVIOUS
<1>6. d \in 1..MaxDepth /\ f \in Violations(d)
  BY <1>3, <1>4, <1>5 DEF Depth
<1>7. TreeKept(g, f, MaxDepth - (d - 1))
  BY <1>1, <1>6, ViolationKept
<1>8. MaxDepth - (d - 1) = MaxDepth - Len(stack)
  BY <1>3, <1>4, <1>5
<1>9. TreeKept(g, f, MaxDepth - Len(stack))
  BY <1>7, <1>8
<1>10. \A i \in 1..Len(stack) :
         OpenKept(g, stack[i], MaxDepth - i) /\ Count(stack[i]) < stack[i].want
  BY <1>1, AllWant
<1> QED
  BY <1>1, <1>2, <1>3, <1>9, <1>10, DeliverInv

\* An aggregate has its children and becomes a child itself.
LEMMA CloseAggregateInv ==
  ASSUME CorpusAssumption, GeneratorAssumption, GenerateInv, CloseAggregate
  PROVE  GenerateInv'
<1>1. PICK n, o, h, f : /\ n = Len(stack) /\ o = Last(stack) /\ h = Front(stack)
                        /\ f = Aggregate(o.type, o.kids)
  OBVIOUS
<1>2. tree = <<>> /\ stack # <<>> /\ g' = g /\ Deliver(h, f)
  BY <1>1 DEF CloseAggregate
<1>3. g \in Profiles /\ MaxDepth \in Nat \ {0} /\ IsSeq(stack) /\ n < MaxDepth
  BY <1>1 DEF GenerateInv, GeneratorAssumption
<1>4. /\ IsSeq(h) /\ Len(h) = n - 1 /\ n \in Nat \ {0}
      /\ \A i \in 1..(n - 1) : h[i] = stack[i]
  BY <1>1, <1>2, <1>3, Dropped
<1>5. OpenKept(g, o, MaxDepth - n)
  BY <1>1, <1>4 DEF GenerateInv, Last
<1>6. TreeKept(g, f, MaxDepth - n + 1)
  <2>1. MaxDepth - n \in Nat
    BY <1>3, <1>4
  <2> QED
    BY <1>1, <1>5, <2>1, ClosedKept
<1>7. MaxDepth - n + 1 = MaxDepth - Len(h) /\ Len(h) < MaxDepth
  BY <1>3, <1>4
<1>8. TreeKept(g, f, MaxDepth - Len(h))
  BY <1>6, <1>7
<1>9. \A i \in 1..Len(h) :
        OpenKept(g, h[i], MaxDepth - i) /\ Count(h[i]) < h[i].want
  <2> TAKE i \in 1..Len(h)
  <2>1. i \in 1..(n - 1) /\ i \in 1..Len(stack) /\ h[i] = stack[i] /\ i \in 1..(Len(stack) - 1)
    BY <1>1, <1>4
  <2> QED
    BY <2>1 DEF GenerateInv
<1> QED
  BY <1>2, <1>3, <1>4, <1>7, <1>8, <1>9, DeliverInv

\* An aggregate is opened, above the deepest level.
LEMMA OpenAggregateInv ==
  ASSUME GeneratorAssumption, GenerateInv, OpenAggregate
  PROVE  GenerateInv'
<1>1. Wanted /\ tree = <<>> /\ g' = g /\ tree' = tree
  BY DEF OpenAggregate, Wanted
<1>2. PICK kind \in Available(Depth) \cap Aggregates, count \in 0..MaxItems :
        stack' = Append(stack, [type |-> kind, want |-> count, kids |-> <<>>])
  BY DEF OpenAggregate
<1>3. /\ g \in Profiles /\ g \in GeneratorConfigs /\ MaxDepth \in Nat \ {0}
      /\ MaxItems \in Nat /\ IsSeq(stack) /\ Len(stack) < MaxDepth
  BY DEF GenerateInv, GeneratorAssumption
<1>4. /\ Len(stack) \in Nat
      /\ \A i \in 1..Len(stack) :
           OpenKept(g, stack[i], MaxDepth - i) /\ Count(stack[i]) < stack[i].want
  BY <1>1, AllWant
<1>5. /\ kind \in {"Array", "Map", "Set"} /\ Depth # MaxDepth
      /\ g.protocol = "RESP2" => kind \in Resp2Types
  BY <1>2, <1>3, KindsAvailable
<1>6. PICK n, o, s : /\ n = Len(stack) /\ o = [type |-> kind, want |-> count, kids |-> <<>>]
                     /\ s = stack'
  OBVIOUS
<1>7. n \in Nat /\ n + 1 < MaxDepth
  BY <1>3, <1>4, <1>5, <1>6 DEF Depth
<1>8. IsSeq(s) /\ Len(s) = n + 1 /\ s[n + 1] = o /\ \A i \in 1..n : s[i] = stack[i]
  BY <1>2, <1>3, <1>6, Appended
<1>9. OpenKept(g, o, MaxDepth - (n + 1))
  <2>1. o.type = kind /\ o.want = count /\ o.kids = <<>> /\ Len(<<>>) = 0
        /\ o = [type |-> o.type, want |-> o.want, kids |-> o.kids]
    BY <1>6
  <2>2. Count(o) = 0
    BY <2>1 DEF Count
  <2>3. IsSeq(<<>>) /\ IsInjective(<<>>)
    BY DEF IsSeq, IsInjective
  <2>4. Count(o) \in 0..o.want
    BY <1>3, <2>1, <2>2
  <2> QED
    BY <1>5, <2>1, <2>2, <2>3, <2>4 DEF OpenKept
<1>10. \A i \in 1..(n + 1) : OpenKept(g, s[i], MaxDepth - i)
  <2> TAKE i \in 1..(n + 1)
  <2>1. CASE i = n + 1
    BY <1>8, <1>9, <2>1
  <2>2. CASE i # n + 1
    <3>1. i \in 1..n
      BY <1>7, <2>2
    <3> QED
      BY <1>4, <1>6, <1>8, <3>1
  <2> QED
    BY <2>1, <2>2
<1>11. \A i \in 1..(n + 1 - 1) : Count(s[i]) < s[i].want
  <2> TAKE i \in 1..(n + 1 - 1)
  <2>1. i \in 1..n
    BY <1>7
  <2> QED
    BY <1>4, <1>6, <1>8, <2>1
<1> QED
  BY <1>1, <1>3, <1>6, <1>7, <1>8, <1>10, <1>11 DEF GenerateInv

(* A generated reply, with violations too, has at most MAX_DEPTH levels, at  *)
(* most MAX_ITEMS items or pairs in each aggregate and MAX_BLOB_BYTES in     *)
(* each blob. Members of a set and keys of a map differ, whatever was drawn, *)
(* and without violations every frame belongs to the protocol.               *)
THEOREM TreesWithinLimits ==
  ASSUME CorpusAssumption, GeneratorAssumption
  PROVE  GenerateSpec => [](tree # <<>> => TreeKept(g, tree[1], MaxDepth))
<1>1. GenerateInit => GenerateInv
  <2> SUFFICES ASSUME GenerateInit PROVE GenerateInv
    OBVIOUS
  <2>1. IsSeq(<<>>) /\ Len(<<>>) = 0 /\ MaxDepth \in Nat \ {0}
    BY DEF IsSeq, GeneratorAssumption
  <2> QED
    BY <2>1 DEF GenerateInit, GenerateInv
<1>2. GenerateInv /\ [GenerateNext]_generateVars => GenerateInv'
  <2> SUFFICES ASSUME GenerateInv, [GenerateNext]_generateVars PROVE GenerateInv'
    OBVIOUS
  <2>1. CASE DrawScalar
    BY <2>1, DrawScalarInv
  <2>2. CASE OpenAggregate
    BY <2>2, OpenAggregateInv
  <2>3. CASE CloseAggregate
    BY <2>3, CloseAggregateInv
  <2>4. CASE DrawViolation
    BY <2>4, DrawViolationInv
  <2>5. CASE UNCHANGED generateVars
    BY <2>5 DEF generateVars, GenerateInv
  <2> QED
    BY <2>1, <2>2, <2>3, <2>4, <2>5 DEF GenerateNext, Finished
<1>3. GenerateInv => (tree # <<>> => TreeKept(g, tree[1], MaxDepth))
  BY DEF GenerateInv
<1> QED
  BY <1>1, <1>2, <1>3, PTL DEF GenerateSpec
=============================================================================
