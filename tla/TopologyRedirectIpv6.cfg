SPECIFICATION Spec
CONSTANTS
    Conns = {1}
    Topologies <- MCTopologies
    Ipv6 = TRUE
    SlotCount = 3
    Redirects <- MCRedirects
    Probabilities = {"NEVER", "SOMETIMES", "ALWAYS"}
    Literal <- MCLiteral
    Off = Off
    MaxIndex = 2
INVARIANTS MutationsTruthful
