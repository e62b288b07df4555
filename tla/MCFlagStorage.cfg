SPECIFICATION FairFlagSpec
CONSTANTS
    Flags = {f1, f2}
    Variants = {"on", "off"}
    Editors = {e1}
    Default <- MCDefault
    MaxCasts = 3
    MaxDeaths = 1
CHECK_DEADLOCK FALSE
INVARIANTS
    FlagTypeOK
    StateIsInFile
    DashboardChangesStay
PROPERTIES
    FlagsSettle
