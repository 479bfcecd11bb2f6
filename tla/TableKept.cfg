SPECIFICATION TablesSpec
CONSTANTS
    k1 = k1
    k2 = k2
    k3 = k3
    k4 = k4
    NullKey = NullKey
    Junk = Junk
    Keys <- MCKeys
    Hash <- MCHash
    MaxPowTwo = 4
    Values = {1, 2}
    Capacities = {0, 1, 4}
INVARIANTS
    Stored
PROPERTIES
    ImplementsTable
CHECK_DEADLOCK FALSE
