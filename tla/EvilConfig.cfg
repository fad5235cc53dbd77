SPECIFICATION Spec
CONSTANTS
    tcp1 = tcp1
    unix1 = unix1
    Conns = {tcp1, unix1}
    Tcp = {tcp1}
    Names = {"AUTH", "EXEC"}
    BadRegexes = {"("}
    MaxCommands = 3
    Commands <- MCCommands
    Numerals <- MCNumerals
    Targets <- MCTargets
    RegexMatches <- MCRegexMatches
INVARIANTS TransportServable PresetReplaces RepliesLeftAlone
PROPERTIES CommandsAccounted
CHECK_DEADLOCK FALSE
