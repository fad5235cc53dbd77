------------------------------ MODULE Lifecycle ------------------------------
(***************************************************************************)
(* Starting and stopping the proxy (run, serve_topology, serve_listener    *)
(* and ProxyListener of proxy.rs): listeners are bound one after the other *)
(* and each accepts clients from then on, the first listener that fails or *)
(* Ctrl-C ends the process, and a Unix listener removes its socket file    *)
(* when it is dropped.                                                     *)
(*                                                                         *)
(* Listener tasks are in a JoinSet, which aborts them when it is dropped;  *)
(* connection tasks are detached and end with the runtime.                 *)
(***************************************************************************)
EXTENDS Naturals, FiniteSets

CONSTANTS
    Listeners,       \* the number of listeners of the topology
    Unix,            \* the listener, in standalone mode, is a Unix socket
    Clients,         \* clients, each of which connects at most once
    MaxStarts        \* bound on the number of times the proxy is started

LifecycleAssumption ==
    /\ Listeners \in Nat \ {0} /\ Unix \in BOOLEAN
    /\ Unix => Listeners = 1
    /\ IsFiniteSet(Clients) /\ MaxStarts \in Nat \ {0}

VARIABLES
    proc,            \* BINDING, SERVING, STOPPED (run returned) or KILLED
    starts,          \* times the proxy was started
    bound,           \* how many listeners were bound
    failed,          \* listeners whose accept returned an error
    clients,         \* clients[c]: AWAY, IN while connected, or LEFT
    told,            \* clients that were given the addresses of all listeners
    killed,          \* a process was killed
    files            \* the socket file: NONE, LIVE, or STALE without a listener

vars == <<proc, starts, bound, failed, clients, told, killed, files>>

Running == proc \in {"BINDING", "SERVING"}

\* The listeners whose task accepts clients.
Accepting == {i \in 1..bound : Running /\ i \notin failed}

Connected(c) == clients[c] = "IN"

Init ==
    /\ proc = "BINDING" /\ starts = 1 /\ bound = 0 /\ failed = {}
    /\ clients = [c \in Clients |-> "AWAY"] /\ told = {}
    /\ killed = FALSE /\ files = "NONE"

\* The end of the process: sockets and tasks are gone.
Ends(how) ==
    /\ proc' = how /\ bound' = 0 /\ failed' = {}
    /\ clients' = [c \in Clients |-> IF Connected(c) THEN "LEFT" ELSE clients[c]]
    /\ told' = {}
    /\ killed' = (killed \/ how = "KILLED")
    /\ UNCHANGED starts

\* ProxyListener::drop.  It comes when the listener's task returns, and else
\* with the JoinSet or the runtime: an early return of serve_topology is no
\* exception.
Drop == files' = IF files = "LIVE" THEN "NONE" ELSE files

Returns == Ends("STOPPED") /\ Drop

\* The next listener is bound and its task is spawned.
Bind ==
    /\ proc = "BINDING" /\ bound < Listeners
    /\ Unix => files = "NONE"
    /\ bound' = bound + 1
    /\ files' = IF Unix THEN "LIVE" ELSE files
    /\ UNCHANGED <<proc, starts, failed, clients, told, killed>>

\* The address is in use, or a socket file is in the way.
BindFails ==
    /\ proc = "BINDING" /\ bound < Listeners
    /\ Returns

\* All are bound: serve_topology waits for the first of its three events.
StartServing ==
    /\ proc = "BINDING" /\ bound = Listeners
    /\ proc' = "SERVING"
    /\ UNCHANGED <<starts, bound, failed, clients, told, files, killed>>

Accept(c, i) ==
    /\ i \in Accepting /\ clients[c] = "AWAY"
    /\ clients' = [clients EXCEPT ![c] = "IN"]
    /\ UNCHANGED <<proc, starts, bound, failed, told, files, killed>>

\* CLUSTER SLOTS in cluster mode, answered from the topology of the start.
AskSlots(c) ==
    /\ Running /\ ~Unix /\ Connected(c) /\ c \notin told
    /\ told' = told \cup {c}
    /\ UNCHANGED <<proc, starts, bound, failed, clients, files, killed>>

\* accept returns an error, a transient one too: serve_listener returns and
\* drops its listener, before join_next tells serve_topology.
AcceptFails(i) ==
    /\ i \in Accepting
    /\ failed' = failed \cup {i} /\ Drop
    /\ UNCHANGED <<proc, starts, bound, clients, told, killed>>

\* Mutant: an event of the listeners is not waited for.
JoinNextNever == FALSE /\ Returns

\* join_next returns the listener that ended.
JoinNext ==
    /\ proc = "SERVING" /\ failed # {}
    /\ Returns

\* Ctrl-C is handled once all listeners are bound.
CtrlC ==
    /\ proc = "SERVING"
    /\ Returns

\* Ctrl-C before that, any other signal, or a crash.
Kill ==
    /\ Running
    /\ Ends("KILLED")
    /\ files' = IF files = "LIVE" THEN "STALE" ELSE files

Start ==
    /\ ~Running /\ starts < MaxStarts
    /\ proc' = "BINDING" /\ starts' = starts + 1
    /\ UNCHANGED <<bound, failed, clients, told, files, killed>>

Next ==
    \/ Bind \/ BindFails \/ StartServing \/ JoinNext \/ CtrlC \/ Kill \/ Start
    \/ \E c \in Clients : AskSlots(c) \/ \E i \in 1..Listeners : Accept(c, i)
    \/ \E i \in 1..Listeners : AcceptFails(i)

\* serve_topology goes on binding, and notices a listener that ended.
Spec == /\ Init /\ [][Next]_vars
        /\ WF_vars(Bind \/ BindFails) /\ WF_vars(StartServing) /\ WF_vars(JoinNext)

-----------------------------------------------------------------------------
(* Properties. *)

\* The first listeners accept clients, and tell them all addresses, before the
\* later ones are bound: a client that was told an address finds it bound in
\* the end, unless the proxy stops.
AdvertisedServed == \A c \in Clients : (c \in told) ~> (bound = Listeners \/ c \notin told)

\* No part of a cluster goes on alone: once accept has failed on a listener,
\* also while others are still being bound, the whole proxy ends.
NeverPartlyServing == (failed # {}) ~> (failed = {})

\* The proxy's own socket file is there exactly while its listener accepts:
\* it is gone as soon as accept has failed, and whenever run has returned, by
\* Ctrl-C, a failed bind or a failed listener. A file another process left is
\* not touched: only a process killed while it listened leaves one, that keeps
\* the next from starting.
SocketFileRemoved ==
    /\ files = "STALE" => killed
    /\ files = "LIVE" <=> Unix /\ Running /\ bound = Listeners /\ failed = {}
    /\ (files = "STALE" /\ Running) => bound = 0
=============================================================================
