CONSTANTS
    Values = {v1, v2}
    Null = Null
    Capacities = {0, 1, 3, 4}
SPECIFICATION RingSpec
PROPERTY
    ImplementsFifo
