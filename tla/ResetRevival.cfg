SPECIFICATION Spec
CONSTANTS
    Conns = {c1, c2}
    Listeners = {l1}
    MaxResets = 2
    MaxCommands = 1
    NoEpoch = NoEpoch
PROPERTIES InvalidatedForGood
