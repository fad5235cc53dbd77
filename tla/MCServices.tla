----------------------------- MODULE MCServices -----------------------------
(***************************************************************************)
(* Instances of the modules about what a connection uses beside its        *)
(* upstream: the MONITOR stream, the repro file, the fingerprints, and the *)
(* process with its listeners, over TCP and over a Unix socket.            *)
(*                                                                         *)
(* They share no state.  A behaviour is one of one module, the subject,    *)
(* while the variables of the others keep their initial values: TLC then   *)
(* visits the sum of their states and not the product.  Monitor, ReproLog  *)
(* and Fingerprints are extended, so that the run is about the definitions *)
(* the theorems are about; Lifecycle is instantiated, for each kind of     *)
(* listener.                                                               *)
(***************************************************************************)
EXTENDS Monitor, ReproLog, Fingerprints

CONSTANTS c1, c2, m1     \* connections and clients, and a monitor

VARIABLES
    subject,
    proc, starts, bound, failed, clients, told, killed, files

processVars == <<proc, starts, bound, failed, clients, told, killed, files>>
vars == <<subject, monitorVars, reproVars, fingerprintVars, processVars>>

\* Requests the fingerprints tell apart, one of them rejected.
R(k, a) == [kind |-> k, args |-> a]
MCRequests ==
    {R("PROTOCOL", <<"IN", "BLAKE3">>), R("PROTOCOL", <<"OUT", "TLSH">>),
     R("CHAOS", << >>), R("CHAOS", <<"101">>), R("RESET", << >>),
     R("MONITOR", << >>), R("OTHER", << >>)}

Cluster == INSTANCE Lifecycle WITH Listeners <- 3, Unix <- FALSE, Clients <- {c1, c2},
                                   MaxStarts <- 3
UnixSocket == INSTANCE Lifecycle WITH Listeners <- 1, Unix <- TRUE, Clients <- {c1, c2},
                                      MaxStarts <- 3

ASSUME InstancesAssumption ==
    /\ Cluster!LifecycleAssumption /\ UnixSocket!LifecycleAssumption

Init ==
    /\ subject \in {"MONITOR", "REPRO", "FINGERPRINTS", "CLUSTER", "LOCAL"}
    /\ MonitorInit /\ ReproInit /\ FingerprintInit /\ Cluster!Init

\* A step of the module about the subject s.
Step(s, action, others) == subject = s /\ action /\ UNCHANGED <<subject, others>>

OfMonitor(action) == Step("MONITOR", action, <<reproVars, fingerprintVars, processVars>>)
OfRepro(action) == Step("REPRO", action, <<monitorVars, fingerprintVars, processVars>>)
OfPrints(action) == Step("FINGERPRINTS", action, <<monitorVars, reproVars, processVars>>)
OfCluster(action) == Step("CLUSTER", action, <<monitorVars, reproVars, fingerprintVars>>)
OfLocal(action) == Step("LOCAL", action, <<monitorVars, reproVars, fingerprintVars>>)

Next ==
    \/ OfMonitor(MonitorNext)
    \/ OfRepro(ReproNext)
    \/ OfPrints(FingerprintNext)
    \/ OfCluster(Cluster!Next)
    \/ OfLocal(UnixSocket!Next)

\* The fairness of the modules.
Spec ==
    /\ Init /\ [][Next]_vars
    /\ WF_vars(OfMonitor(Task(m1))) /\ WF_vars(OfMonitor(ClientReads(m1)))
    /\ \A c \in Conns : WF_vars(OfRepro(Appending(c)))
    /\ WF_vars(OfCluster(Cluster!Bind \/ Cluster!BindFails))
    /\ WF_vars(OfCluster(Cluster!StartServing)) /\ WF_vars(OfCluster(Cluster!JoinNext))
    /\ WF_vars(OfLocal(UnixSocket!Bind \/ UnixSocket!BindFails))
    /\ WF_vars(OfLocal(UnixSocket!StartServing)) /\ WF_vars(OfLocal(UnixSocket!JoinNext))

-----------------------------------------------------------------------------
(* Properties: MonitorStream and StreamDrains of Monitor, LinesWhole and     *)
(* AppendsSettle of ReproLog, FingerprintsMatchLog of Fingerprints, and     *)
(* those of Lifecycle.                                                      *)

\* An address told to a client is served in the end unless the proxy stops,
\* no listener goes on alone after accept has failed on another, and the
\* socket file of a Unix listener is removed by every way in which run
\* returns, the file of another process by none.
StartsAndStops ==
    /\ Cluster!AdvertisedServed /\ Cluster!NeverPartlyServing
    /\ [](subject = "LOCAL" => UnixSocket!SocketFileRemoved)
=============================================================================
