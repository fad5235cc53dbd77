SPECIFICATION FairSpec
CONSTANTS
    DataCommands = {"GET"}
    ClusterMode = TRUE
    MaxCommands = 4
CHECK_DEADLOCK FALSE
INVARIANTS AtMostOnce RepliesPaired IdentityOutsideTransactions ExecNamesKnown
PROPERTIES CommandsAnswered
