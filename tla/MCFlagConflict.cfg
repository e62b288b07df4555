SPECIFICATION FlagSpec
CONSTANTS
    Flags = {f1, f2}
    Variants = {"on", "off"}
    Editors = {e1, e2}
    Default <- MCDefault
    MaxCasts = 4
    MaxDeaths = 0
CHECK_DEADLOCK FALSE
PROPERTIES
    ConflictsArePrevented
