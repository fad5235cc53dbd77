SPECIFICATION FairSpec
CONSTANTS
    Conns = {c1, c2, c3}
    Listeners = {l1}
    MaxResets = 1
    MaxCommands = 2
    NoEpoch = NoEpoch
INVARIANTS IndexesContiguous
PROPERTIES ResetFencesIndexes ImplementsCommandIndex BarrierNeverBlocks
