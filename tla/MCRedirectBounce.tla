-------------------------- MODULE MCRedirectBounce --------------------------
(* Instances of RedirectBounce for TLC. *)
EXTENDS RedirectBounce

\* The client's key has slot 0.  Two primaries, the first of which
\* owns it; its owner has the other primary for a replica; nobody owns it.
BounceTopologies ==
    {<<[start |-> 0, end |-> 0, nodes |-> <<1>>], [start |-> 1, end |-> 2, nodes |-> <<2>>]>>,
     <<[start |-> 0, end |-> 1, nodes |-> <<2, 1>>], [start |-> 2, end |-> 2, nodes |-> <<1>>]>>,
     <<[start |-> 1, end |-> 1, nodes |-> <<1>>], [start |-> 2, end |-> 2, nodes |-> <<2>>]>>}

\* Bounces before and after forwarding, with a correct and with a wrong slot.
MCBounces ==
    {[kind |-> "MOVED", target |-> target, slot |-> slot, fixed |-> 0,
      phase |-> phase, key |-> 1, until |-> 3] :
         target \in {"NEXT", "SELF", "WRONG_NODE"}, slot \in {"CORRECT", "WILD"},
         phase \in {"BEFORE", "AFTER"}}

BounceLiteral == [port |-> 9, bare |-> FALSE]
=============================================================================
