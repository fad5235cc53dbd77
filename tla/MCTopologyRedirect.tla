------------------------- MODULE MCTopologyRedirect -------------------------
(* Instances of TopologyRedirect for TLC. *)
EXTENDS TopologyRedirect

SlotRange(a, b, nodes) == [start |-> a, end |-> b, nodes |-> nodes]

\* Slots 0 to 2.  One primary; two with a replica; the same primary in two
\* ranges, with different replicas, and a slot nobody owns; three primaries,
\* one of them first met as a replica.
MCTopologies ==
    {<<SlotRange(0, 2, <<1>>)>>,
     <<SlotRange(0, 1, <<1, 3>>), SlotRange(2, 2, <<2>>)>>,
     <<SlotRange(0, 0, <<1, 3>>), SlotRange(1, 1, <<2>>), SlotRange(0, 0, <<1, 2>>)>>,
     <<SlotRange(0, 0, <<3, 1>>), SlotRange(1, 1, <<1>>), SlotRange(2, 2, <<2>>)>>}

MCLiteral == [port |-> 9, bare |-> FALSE]

\* All destinations, all slots, both phases; RANDOM and ASK, the second argument
\* and a cutoff with some of them.
MCRedirects ==
    {f \in RedirectConfigs :
         /\ f.fixed = 1
         /\ f.kind = CASE f.target = "SELF" -> "ASK" [] f.target = "NEXT" -> "RANDOM"
                        [] OTHER -> "MOVED"
         /\ f.key = IF f.target = "REPLICA" THEN 2 ELSE 1
         /\ f.until = IF f.target \in {"SELF", "LITERAL"} THEN 1 ELSE Off
         /\ f.slot \in {"WRONG", "WILD"} => f.target \in {"SELF", "NEXT", "WRONG_NODE"}}
=============================================================================
