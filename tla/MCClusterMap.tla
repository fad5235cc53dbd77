---------------------------- MODULE MCClusterMap ----------------------------
(* Instances of ClusterMap for TLC. *)
EXTENDS ClusterMap

CONSTANTS h1, h2, a, b

\* Two hosts, one of them also as an unknown host; one port on both hosts.
MCNodes == {[host |-> e[1], port |-> e[2], id |-> id] :
                e \in {<<h1, 1>>, <<h1, 2>>, <<h2, 1>>}, id \in {a, b, NoId}}
           \cup {[host |-> NoHost, port |-> 1, id |-> a]}

Ranges(n) == [1..n -> MCNodes]

\* One to three ranges, up to four nodes.
MCTopologies ==
    {<<x>> : x \in Ranges(2)}
    \cup {<<x, y>> : x \in Ranges(2), y \in Ranges(1) \cup Ranges(2)}
    \cup {<<x, y>> : x \in Ranges(1), y \in Ranges(2)}
    \cup {<<x, y, z>> : x \in Ranges(1), y \in Ranges(1), z \in Ranges(1)}
    \cup {<< >>}
=============================================================================
