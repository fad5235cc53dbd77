SPECIFICATION Spec
CONSTANTS
    h1 = h1
    h2 = h2
    a = a
    b = b
    Hosts = {h1, h2}
    NoHost = NoHost
    Bootstrap = h1
    UpstreamPorts = {1, 2}
    Ids = {a, b}
    NoId = NoId
    MaxPort = 4
    ListenPorts = {0, 1, 3}
    Topologies <- MCTopologies
CHECK_DEADLOCK FALSE
INVARIANTS MapsConsistent SlotsReachNode OneListenerPerNode RewritesAgreeWithSlots
PROPERTIES ListenersNeverMove
