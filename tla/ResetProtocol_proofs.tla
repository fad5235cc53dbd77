------------------------- MODULE ResetProtocol_proofs -------------------------
(***************************************************************************)
(* Proofs about ResetProtocol for any set of connections and listeners and *)
(* any number of resets and commands.                                      *)
(***************************************************************************)
EXTENDS ResetProtocol, TLAPS

Inv == TypeOK /\ BarrierProtectsIndex /\ IndexesContiguous

-----------------------------------------------------------------------------
(* The inductive invariant. *)

\* Appending to one member of a sequence of sequences.
LEMMA AppendAt ==
    ASSUME NEW s \in Seq(Seq(Nat)), NEW k \in 1..Len(s), NEW x \in Nat,
           NEW t, t = [s EXCEPT ![k] = Append(@, x)]
    PROVE  /\ t \in Seq(Seq(Nat))
           /\ Len(t) = Len(s)
           /\ t[k] = Append(s[k], x)
           /\ Len(s[k]) \in Nat
           /\ Len(t[k]) = Len(s[k]) + 1
           /\ \A i \in 1..Len(s[k]) : t[k][i] = s[k][i]
           /\ t[k][Len(s[k]) + 1] = x
           /\ \A j \in 1..Len(s) : j # k => t[j] = s[j]
<1>1. s[k] \in Seq(Nat)
  OBVIOUS
<1>2. Append(s[k], x) \in Seq(Nat)
  BY <1>1
<1> QED
  BY <1>1, <1>2

\* The initial state satisfies the invariant.
LEMMA InitInv == Init => Inv
  BY BoundsAssumption, NoEpochAssumption
  DEF Init, Inv, TypeOK, BarrierProtectsIndex, IndexesContiguous, Reading,
      Writing, Stale, PCs, NoCmd

\* What holds when a task draws: it is current, it excludes resets, and the
\* counter is the number of commands of the epoch.
LEMMA DrawFacts ==
    ASSUME Inv, NEW c \in Conns, pc[c] = "draw"
    PROVE  /\ epoch[c] = reset_epoch
           /\ reset_epoch + 1 \in 1..Len(issued)
           /\ \A d \in Conns : pc[d] \notin Writing
           /\ command_ids = Len(issued[reset_epoch + 1])
           /\ command_ids \in Nat
<1>1. c \in readers /\ epoch[c] = reset_epoch
  BY DEF Inv, BarrierProtectsIndex, Reading, Stale
<1>2. \A d \in Conns : pc[d] \notin Writing
  BY <1>1 DEF Inv, BarrierProtectsIndex
<1> QED
  BY <1>1, <1>2 DEF Inv, TypeOK, BarrierProtectsIndex, Writing

\* Every step preserves the invariant.
LEMMA NextInv == Inv /\ [Next]_vars => Inv'
<1> SUFFICES ASSUME Inv, [Next]_vars PROVE Inv'
  OBVIOUS
<1> USE DEF Inv
<1>1. TypeOK /\ BarrierProtectsIndex /\ IndexesContiguous
  OBVIOUS
<1>2. ASSUME NEW l \in Listeners, LoadEpoch(l) PROVE Inv'
  <2>1. TypeOK'
    BY <1>1, <1>2, NoEpochAssumption DEF TypeOK, LoadEpoch, Goto, barrier, PCs, Kinds
  <2>2. BarrierProtectsIndex'
    BY <1>1, <1>2, NoEpochAssumption DEF TypeOK, BarrierProtectsIndex, LoadEpoch, Goto, barrier, Reading, Writing, Stale
  <2>3. IndexesContiguous'
    BY <1>1, <1>2 DEF IndexesContiguous, LoadEpoch
  <2> QED
    BY <2>1, <2>2, <2>3
<1>3. ASSUME NEW l \in Listeners, NEW c \in Conns, Spawn(l, c) PROVE Inv'
  <2>1. TypeOK'
    BY <1>1, <1>3, NoEpochAssumption DEF TypeOK, Spawn, Goto, barrier, PCs, Kinds
  <2>2. BarrierProtectsIndex'
    BY <1>1, <1>3, NoEpochAssumption DEF TypeOK, BarrierProtectsIndex, Spawn, Goto, barrier, Reading, Writing, Stale
  <2>3. IndexesContiguous'
    BY <1>1, <1>3 DEF IndexesContiguous, Spawn
  <2> QED
    BY <2>1, <2>2, <2>3
<1>4. ASSUME NEW c \in Conns, NEW kind \in Kinds, ReadFrame(c, kind) PROVE Inv'
  <2>1. TypeOK'
    BY <1>1, <1>4, NoEpochAssumption DEF TypeOK, ReadFrame, Goto, barrier, PCs, Kinds
  <2>2. BarrierProtectsIndex'
    BY <1>1, <1>4, NoEpochAssumption DEF TypeOK, BarrierProtectsIndex, ReadFrame, Goto, barrier, Reading, Writing, Stale
  <2>3. IndexesContiguous'
    BY <1>1, <1>4 DEF IndexesContiguous, ReadFrame
  <2> QED
    BY <2>1, <2>2, <2>3
<1>5. ASSUME NEW c \in Conns, CheckStale(c) PROVE Inv'
  <2>1. TypeOK'
    BY <1>1, <1>5, NoEpochAssumption DEF TypeOK, CheckStale, Goto, Finish, barrier, PCs, Kinds
  <2>2. BarrierProtectsIndex'
    BY <1>1, <1>5, NoEpochAssumption DEF TypeOK, BarrierProtectsIndex, CheckStale, Goto, Finish, barrier, Reading, Writing, Stale
  <2>3. IndexesContiguous'
    BY <1>1, <1>5 DEF IndexesContiguous, CheckStale
  <2> QED
    BY <2>1, <2>2, <2>3
<1>6. ASSUME NEW c \in Conns, CheckFresh(c) PROVE Inv'
  <2>1. TypeOK'
    BY <1>1, <1>6, NoEpochAssumption DEF TypeOK, CheckFresh, Goto, Finish, barrier, PCs, Kinds
  <2>2. BarrierProtectsIndex'
    BY <1>1, <1>6, NoEpochAssumption DEF TypeOK, BarrierProtectsIndex, CheckFresh, Goto, Finish, barrier, Reading, Writing, Stale
  <2>3. IndexesContiguous'
    BY <1>1, <1>6 DEF IndexesContiguous, CheckFresh
  <2> QED
    BY <2>1, <2>2, <2>3
<1>7. ASSUME NEW c \in Conns, Enqueue(c) PROVE Inv'
  <2>1. TypeOK'
    BY <1>1, <1>7, NoEpochAssumption DEF TypeOK, Enqueue, Goto, Finish, barrier, PCs, Kinds
  <2>2. BarrierProtectsIndex'
    BY <1>1, <1>7, NoEpochAssumption DEF TypeOK, BarrierProtectsIndex, Enqueue, Goto, Finish, barrier, Reading, Writing, Stale
  <2>3. IndexesContiguous'
    BY <1>1, <1>7 DEF IndexesContiguous, Enqueue
  <2> QED
    BY <2>1, <2>2, <2>3
<1>8. ASSUME NEW c \in Conns, GrantRead(c) PROVE Inv'
  <2>1. TypeOK'
    BY <1>1, <1>8, NoEpochAssumption DEF TypeOK, GrantRead, Goto, Finish, AtHead, barrier, PCs, Kinds
  <2>2. BarrierProtectsIndex'
    BY <1>1, <1>8, NoEpochAssumption DEF TypeOK, BarrierProtectsIndex, GrantRead, Goto, Finish, AtHead, barrier, Reading, Writing, Stale
  <2>3. IndexesContiguous'
    BY <1>1, <1>8 DEF IndexesContiguous, GrantRead
  <2> QED
    BY <2>1, <2>2, <2>3
<1>9. ASSUME NEW c \in Conns, GrantWrite(c) PROVE Inv'
  <2>1. TypeOK'
    BY <1>1, <1>9, NoEpochAssumption DEF TypeOK, GrantWrite, Goto, Finish, AtHead, barrier, PCs, Kinds
  <2>2. BarrierProtectsIndex'
    BY <1>1, <1>9, NoEpochAssumption DEF TypeOK, BarrierProtectsIndex, GrantWrite, Goto, Finish, AtHead, barrier, Reading, Writing, Stale
  <2>3. IndexesContiguous'
    BY <1>1, <1>9 DEF IndexesContiguous, GrantWrite
  <2> QED
    BY <2>1, <2>2, <2>3
<1>10. ASSUME NEW c \in Conns, RecheckStale(c) PROVE Inv'
  <2>1. TypeOK'
    BY <1>1, <1>10, NoEpochAssumption DEF TypeOK, RecheckStale, Goto, Finish, barrier, PCs, Kinds
  <2>2. BarrierProtectsIndex'
    BY <1>1, <1>10, NoEpochAssumption DEF TypeOK, BarrierProtectsIndex, RecheckStale, Goto, Finish, barrier, Reading, Writing, Stale
  <2>3. IndexesContiguous'
    BY <1>1, <1>10 DEF IndexesContiguous, RecheckStale
  <2> QED
    BY <2>1, <2>2, <2>3
<1>11. ASSUME NEW c \in Conns, RecheckFresh(c) PROVE Inv'
  <2>1. TypeOK'
    BY <1>1, <1>11, NoEpochAssumption DEF TypeOK, RecheckFresh, Goto, Finish, barrier, PCs, Kinds
  <2>2. BarrierProtectsIndex'
    BY <1>1, <1>11, NoEpochAssumption DEF TypeOK, BarrierProtectsIndex, RecheckFresh, Goto, Finish, barrier, Reading, Writing, Stale
  <2>3. IndexesContiguous'
    BY <1>1, <1>11 DEF IndexesContiguous, RecheckFresh
  <2> QED
    BY <2>1, <2>2, <2>3
<1>12. ASSUME NEW c \in Conns, DrawIndex(c) PROVE Inv'
  <2> DEFINE k == reset_epoch + 1
  <2>1. /\ epoch[c] + 1 = k /\ k \in 1..Len(issued)
        /\ \A d \in Conns : pc[d] \notin Writing
        /\ command_ids = Len(issued[k]) /\ command_ids \in Nat
    BY <1>1, <1>12, DrawFacts DEF DrawIndex
  <2>2. /\ issued' \in Seq(Seq(Nat)) /\ Len(issued') = Len(issued)
        /\ Len(issued'[k]) = Len(issued[k]) + 1
        /\ \A i \in 1..Len(issued[k]) : issued'[k][i] = issued[k][i]
        /\ issued'[k][Len(issued[k]) + 1] = command_ids
        /\ \A j \in 1..Len(issued) : j # k => issued'[j] = issued[j]
    <3>1. issued' = [issued EXCEPT ![k] = Append(@, command_ids)]
      BY <1>12, <2>1 DEF DrawIndex
    <3>2. issued \in Seq(Seq(Nat))
      BY <1>1 DEF TypeOK
    <3> HIDE DEF k
    <3> QED
      BY <2>1, <3>1, <3>2, AppendAt
  <2>3. TypeOK'
    BY <1>1, <1>12, <2>2 DEF TypeOK, DrawIndex, Goto, barrier, PCs
  <2>4. BarrierProtectsIndex'
    BY <1>1, <1>12, <2>1, <2>2
    DEF TypeOK, BarrierProtectsIndex, DrawIndex, Goto, barrier, Reading, Writing, Stale
  <2>5. IndexesContiguous'
    <3> SUFFICES ASSUME NEW e \in 1..Len(issued), NEW i \in 1..Len(issued'[e])
                 PROVE  issued'[e][i] = i - 1
      BY <2>2 DEF IndexesContiguous
    <3>1. CASE e # k
      BY <1>1, <2>2, <3>1 DEF IndexesContiguous
    <3>2. CASE e = k
      <4>1. i \in 1..Len(issued[k]) \/ i = Len(issued[k]) + 1
        BY <2>1, <2>2, <3>2
      <4>2. CASE i \in 1..Len(issued[k])
        BY <1>1, <2>1, <2>2, <3>2, <4>2 DEF IndexesContiguous
      <4>3. CASE i = Len(issued[k]) + 1
        BY <2>1, <2>2, <3>2, <4>3
      <4> QED
        BY <4>1, <4>2, <4>3
    <3> QED
      BY <3>1, <3>2
  <2> QED
    BY <2>3, <2>4, <2>5
<1>13. ASSUME NEW c \in Conns, DropReadGuard(c) PROVE Inv'
  <2>1. TypeOK'
    BY <1>1, <1>13, NoEpochAssumption DEF TypeOK, DropReadGuard, Goto, Finish, barrier, PCs, Kinds
  <2>2. BarrierProtectsIndex'
    BY <1>1, <1>13, NoEpochAssumption DEF TypeOK, BarrierProtectsIndex, DropReadGuard, Goto, Finish, barrier, Reading, Writing, Stale
  <2>3. IndexesContiguous'
    BY <1>1, <1>13 DEF IndexesContiguous, DropReadGuard
  <2> QED
    BY <2>1, <2>2, <2>3
<1>14. ASSUME NEW c \in Conns, BumpEpoch(c) PROVE Inv'
  <2>1. TypeOK'
    BY <1>1, <1>14 DEF TypeOK, BumpEpoch, Goto, barrier, PCs
  <2>2. /\ issued'[reset_epoch' + 1] = << >>
        /\ \A e \in 1..Len(issued) : issued'[e] = issued[e]
    BY <1>1, <1>14 DEF TypeOK, BumpEpoch
  <2>3. /\ writers = {c} /\ readers = {}
        /\ \A d \in Conns : pc[d] \in Writing => d = c
        /\ \A d \in Conns : pc[d] \notin Reading
    BY <1>1, <1>14 DEF BarrierProtectsIndex, BumpEpoch, Writing
  <2>4. /\ pc' = [pc EXCEPT ![c] = "zero"] /\ pc \in [Conns -> PCs]
        /\ readers' = readers /\ writers' = writers
    BY <1>1, <1>14 DEF TypeOK, BumpEpoch, Goto, barrier
  <2>5. BarrierProtectsIndex'
    <3>1. \A d \in Conns : pc'[d] \notin Reading /\ (pc'[d] \in Writing => d = c)
      BY <2>3, <2>4 DEF Reading, Writing
    <3>2. pc'[c] = "zero"
      BY <2>4
    <3>3. \A d \in Conns : epoch'[d] <= reset_epoch'
      BY <1>1, <1>14 DEF TypeOK, BarrierProtectsIndex, BumpEpoch
    <3>4. \A l \in Listeners : loaded'[l] # NoEpoch => loaded'[l] <= reset_epoch'
      BY <1>1, <1>14, NoEpochAssumption DEF TypeOK, BarrierProtectsIndex, BumpEpoch
    <3> QED
      BY <2>2, <2>3, <2>4, <3>1, <3>2, <3>3, <3>4 DEF BarrierProtectsIndex, Reading
  <2>6. IndexesContiguous'
    BY <1>1, <1>14, <2>2 DEF TypeOK, IndexesContiguous, BumpEpoch
  <2> QED
    BY <2>1, <2>5, <2>6
<1>15. ASSUME NEW c \in Conns, ZeroIndex(c) PROVE Inv'
  <2>1. TypeOK'
    BY <1>1, <1>15, NoEpochAssumption DEF TypeOK, ZeroIndex, Goto, Finish, barrier, PCs, Kinds
  <2>2. BarrierProtectsIndex'
    BY <1>1, <1>15, NoEpochAssumption DEF TypeOK, BarrierProtectsIndex, ZeroIndex, Goto, Finish, barrier, Reading, Writing, Stale
  <2>3. IndexesContiguous'
    BY <1>1, <1>15 DEF IndexesContiguous, ZeroIndex
  <2> QED
    BY <2>1, <2>2, <2>3
<1>16. ASSUME NEW c \in Conns, DropWriteGuard(c) PROVE Inv'
  <2>1. TypeOK'
    BY <1>1, <1>16, NoEpochAssumption DEF TypeOK, DropWriteGuard, Goto, Finish, barrier, PCs, Kinds
  <2>2. BarrierProtectsIndex'
    BY <1>1, <1>16, NoEpochAssumption DEF TypeOK, BarrierProtectsIndex, DropWriteGuard, Goto, Finish, barrier, Reading, Writing, Stale
  <2>3. IndexesContiguous'
    BY <1>1, <1>16 DEF IndexesContiguous, DropWriteGuard
  <2> QED
    BY <2>1, <2>2, <2>3
<1>17. ASSUME NEW c \in Conns, Serve(c) PROVE Inv'
  <2>1. TypeOK'
    BY <1>1, <1>17, NoEpochAssumption DEF TypeOK, Serve, Goto, Finish, barrier, PCs, Kinds
  <2>2. BarrierProtectsIndex'
    BY <1>1, <1>17, NoEpochAssumption DEF TypeOK, BarrierProtectsIndex, Serve, Goto, Finish, barrier, Reading, Writing, Stale
  <2>3. IndexesContiguous'
    BY <1>1, <1>17 DEF IndexesContiguous, Serve
  <2> QED
    BY <2>1, <2>2, <2>3
<1>18. ASSUME NEW c \in Conns, MonitorEnds(c) PROVE Inv'
  <2>1. TypeOK'
    BY <1>1, <1>18, NoEpochAssumption DEF TypeOK, MonitorEnds, Goto, Finish, barrier, PCs, Kinds
  <2>2. BarrierProtectsIndex'
    BY <1>1, <1>18, NoEpochAssumption DEF TypeOK, BarrierProtectsIndex, MonitorEnds, Goto, Finish, barrier, Reading, Writing, Stale
  <2>3. IndexesContiguous'
    BY <1>1, <1>18 DEF IndexesContiguous, MonitorEnds
  <2> QED
    BY <2>1, <2>2, <2>3
<1>19. ASSUME NEW c \in Conns, ReplyReset(c) PROVE Inv'
  <2>1. TypeOK'
    BY <1>1, <1>19, NoEpochAssumption DEF TypeOK, ReplyReset, Goto, Finish, barrier, PCs, Kinds
  <2>2. BarrierProtectsIndex'
    BY <1>1, <1>19, NoEpochAssumption DEF TypeOK, BarrierProtectsIndex, ReplyReset, Goto, Finish, barrier, Reading, Writing, Stale
  <2>3. IndexesContiguous'
    BY <1>1, <1>19 DEF IndexesContiguous, ReplyReset
  <2> QED
    BY <2>1, <2>2, <2>3
<1>20. ASSUME NEW c \in Conns, Disconnect(c) PROVE Inv'
  <2>1. TypeOK'
    BY <1>1, <1>20, NoEpochAssumption DEF TypeOK, Disconnect, Goto, Finish, barrier, PCs, Kinds
  <2>2. BarrierProtectsIndex'
    BY <1>1, <1>20, NoEpochAssumption DEF TypeOK, BarrierProtectsIndex, Disconnect, Goto, Finish, barrier, Reading, Writing, Stale
  <2>3. IndexesContiguous'
    BY <1>1, <1>20 DEF IndexesContiguous, Disconnect
  <2> QED
    BY <2>1, <2>2, <2>3
<1>21. CASE UNCHANGED vars
  BY <1>1, <1>21 DEF vars, barrier, TypeOK, BarrierProtectsIndex, IndexesContiguous, Stale
<1> QED
  BY <1>2, <1>3, <1>4, <1>5, <1>6, <1>7, <1>8, <1>9, <1>10, <1>11, <1>12, <1>13, <1>14, <1>15, <1>16, <1>17, <1>18, <1>19, <1>20, <1>21 DEF Next, Internal

-----------------------------------------------------------------------------
(* Theorems. *)

\* Spec keeps the types, whatever the number of connections, resets and commands.
THEOREM TypeCorrect == Spec => []TypeOK
<1>1. Inv => TypeOK
  BY DEF Inv
<1> QED
  BY <1>1, InitInv, NextInv, PTL DEF Spec

\* The barrier separates resets from the tasks that draw an index, so the
\* shared counter always is the number of commands of the current epoch.
THEOREM BarrierCorrect == Spec => []BarrierProtectsIndex
<1>1. Inv => BarrierProtectsIndex
  BY DEF Inv
<1> QED
  BY <1>1, InitInv, NextInv, PTL DEF Spec

\* In every epoch the indexes drawn are 0, 1, 2, ... in this order.
THEOREM NumberingCorrect == Spec => []IndexesContiguous
<1>1. Inv => IndexesContiguous
  BY DEF Inv
<1> QED
  BY <1>1, InitInv, NextInv, PTL DEF Spec

-----------------------------------------------------------------------------
(* The detailed protocol implements CommandIndex. *)

\* Only the spawn of a task, a draw and a reset touch what CommandIndex shows.
LEMMA OtherSteps ==
    ASSUME [Next]_vars,
           \A c \in Conns : ~DrawIndex(c) /\ ~BumpEpoch(c)
                            /\ \A l \in Listeners : ~Spawn(l, c)
    PROVE  UNCHANGED <<issued, epoch>>
  BY DEF Next, Internal, vars, LoadEpoch, ReadFrame, Disconnect, CheckStale,
         CheckFresh, Enqueue, GrantRead, GrantWrite, RecheckStale, RecheckFresh,
         DropReadGuard, Serve, MonitorEnds, ZeroIndex, DropWriteGuard, ReplyReset

\* Each step of the protocol is a step of CommandIndex or changes nothing there.
LEMMA StepSimulation ==
    ASSUME Inv, [Next]_vars
    PROVE  [Index!Next]_(Index!avars)
<1>1. ASSUME NEW c \in Conns, NEW l \in Listeners, Spawn(l, c) PROVE Index!Join(c)
  <2>1. loaded[l] \in 0..Index!generation
    BY <1>1, NoEpochAssumption
    DEF Inv, TypeOK, BarrierProtectsIndex, Spawn, Index!generation
  <2> QED
    BY <1>1, <2>1 DEF Index!Join, Spawn
<1>2. ASSUME NEW c \in Conns, DrawIndex(c) PROVE Index!Draw(c)
  <2>1. /\ epoch[c] + 1 = Len(issued) /\ epoch[c] = Index!generation
        /\ command_ids = Len(issued[Len(issued)])
    BY <1>2, DrawFacts DEF DrawIndex, Inv, TypeOK, Index!generation
  <2> QED
    BY <1>2, <2>1 DEF DrawIndex, Index!Draw
<1>3. ASSUME NEW c \in Conns, BumpEpoch(c) PROVE Index!Reset(c)
  BY <1>3 DEF BumpEpoch, Index!Reset, Inv, TypeOK
<1> QED
  BY <1>1, <1>2, <1>3, OtherSteps DEF Index!Next, Index!avars

\* The numbering the tasks produce through the barrier and the shared counters
\* is the one CommandIndex promises.
THEOREM Refinement == Spec => ImplementsCommandIndex
<1>1. Init => Index!Init
  BY DEF Init, Index!Init
<1>2. Inv /\ [Next]_vars => [Index!Next]_(Index!avars)
  BY StepSimulation
<1> QED
  BY <1>1, <1>2, InitInv, NextInv, PTL DEF Spec, ImplementsCommandIndex, Index!Spec

\* A step numbers a command in no epoch but the current one.
THEOREM Fencing == Spec => ResetFencesIndexes
<1>1. ASSUME Inv, [Next]_vars
      PROVE  \A e \in 1..Len(issued) : issued'[e] # issued[e] => e = reset_epoch + 1
  <2>1. ASSUME NEW c \in Conns, DrawIndex(c), NEW e \in 1..Len(issued),
               e # reset_epoch + 1
        PROVE  issued'[e] = issued[e]
    <3> DEFINE k == reset_epoch + 1
    <3>1. /\ issued \in Seq(Seq(Nat)) /\ k \in 1..Len(issued)
          /\ command_ids \in Nat /\ epoch[c] + 1 = k
      BY <1>1, <2>1, DrawFacts DEF DrawIndex, Inv, TypeOK
    <3>2. issued' = [issued EXCEPT ![k] = Append(@, command_ids)]
      BY <2>1, <3>1 DEF DrawIndex
    <3>3. e # k
      BY <2>1
    <3> HIDE DEF k
    <3> QED
      BY <3>1, <3>2, <3>3, AppendAt
  <2>2. ASSUME NEW c \in Conns, BumpEpoch(c), NEW e \in 1..Len(issued)
        PROVE  issued'[e] = issued[e]
    BY <1>1, <2>2 DEF BumpEpoch, Inv, TypeOK
  <2>3. ASSUME NEW c \in Conns, NEW l \in Listeners, Spawn(l, c)
        PROVE  issued' = issued
    BY <2>3 DEF Spawn
  <2> QED
    BY <1>1, <2>1, <2>2, <2>3, OtherSteps
<1> QED
  BY <1>1, InitInv, NextInv, PTL DEF Spec, ResetFencesIndexes
=============================================================================
