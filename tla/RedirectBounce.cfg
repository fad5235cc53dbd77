SPECIFICATION BounceSpec
CONSTANTS
    Conns = {1, 2}
    Topologies <- BounceTopologies
    Ipv6 = FALSE
    SlotCount = 3
    Redirects <- MCBounces
    Probabilities = {"ALWAYS"}
    Literal <- BounceLiteral
    Off = Off
    MaxIndex = 3
    Bounces <- MCBounces
    MaxResets = 2
INVARIANTS ExecutedOnce
PROPERTIES EventuallyServed
