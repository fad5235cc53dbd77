SPECIFICATION Spec
CONSTANTS
    DataCommands = {"GET"}
    ClusterMode = TRUE
    MaxCommands = 4
CHECK_DEADLOCK FALSE
INVARIANTS ExecNamesMatch
