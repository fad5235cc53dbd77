---------------------------- MODULE CommandIndex ----------------------------
(***************************************************************************)
(* What the proxy promises about command indexes, with the reset barrier   *)
(* and the shared atomic counters hidden.                                  *)
(*                                                                         *)
(* The proxy numbers the forwarded commands of all client connections with *)
(* one counter; the number seeds every mutation, so a replayed run has to  *)
(* see the same numbers.  DEBUG EVIL MODE RESET starts a new generation:   *)
(* its commands are numbered 0, 1, 2, ... without a gap or a repetition,   *)
(* and only connections of that generation take part in it.                *)
(***************************************************************************)
EXTENDS Naturals, Sequences

CONSTANT Conns             \* client connections

VARIABLES
    issued,    \* issued[g + 1]: the indexes handed out in generation g, in order
    member     \* member[c]: the generation connection c belongs to

avars == <<issued, member>>

generation == Len(issued) - 1

Init ==
    /\ issued = << << >> >>
    /\ member = [c \in Conns |-> 0]

\* A client is accepted.  Its generation was looked up before the connection
\* was set up, so it may be an old one by now.
Join(c) ==
    /\ \E g \in 0..generation : member' = [member EXCEPT ![c] = g]
    /\ UNCHANGED issued

\* A forwarded command of a current connection takes the next index.
Draw(c) ==
    /\ member[c] = generation
    /\ issued' = [issued EXCEPT ![Len(issued)] = Append(@, Len(@))]
    /\ UNCHANGED member

\* A reset opens a generation whose first index is 0; the resetting
\* connection is its first member.
Reset(c) ==
    /\ issued' = Append(issued, << >>)
    /\ member' = [member EXCEPT ![c] = Len(issued)]

Next == \E c \in Conns : Join(c) \/ Draw(c) \/ Reset(c)

Spec == Init /\ [][Next]_avars
=============================================================================
