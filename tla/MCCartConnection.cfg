SPECIFICATION FairConnSpec
CONSTANTS
    Requests = {r1, r2}
    Multiplexers = {m1, m2, m3, m4, m5}
    MaxOutages = 2
INVARIANTS
    ReplacedOnlyAfterFailures
PROPERTIES
    RequestsEnd
