SPECIFICATION CurrencySpec
CONSTANTS
    NanosMod = 1000
    Precision = 1000
    Table <- MCTable
    Unlisted = {"???"}
    Sent <- MCSent
INVARIANTS
    NanosAreBillionths
