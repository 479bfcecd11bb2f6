SPECIFICATION Spec
CONSTANTS
    Junk = 0
    MaxPowTwo = 32
    MaxElements = 1000
    Kinds = {"deque", "queue", "array", "list", "slist"}
    Capacities = {2, 4}
    Seconds = {2}
    MaxNodes = 4
    New = 9
    MaxCalls = 2
    MaxLinkedCalls = 1
PROPERTIES
    DequesKept
    ArraysKept
    LinkedKept
CHECK_DEADLOCK FALSE
