SPECIFICATION Spec
CONSTANTS
    Values = {v1,v2}
    Producers = {socket,poll}
    Slots = 4
    NoValue = NoValue
PROPERTY IsFifo
