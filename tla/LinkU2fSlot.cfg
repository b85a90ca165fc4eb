CONSTANTS
    Slots <- MCSlots
    Ops <- MCOps
    NoSlot = NoSlot
    NoOp = NoOp
    Modes <- OnlyFido
    ClockMod = 16
    SeqMod = 8
    InstMod = 8
    Timeout = 2
    MaxMs = 3
    MaxHost = 1
    MaxRequests = 1
    MaxGestures = 1
    MaxSwitches = 0
SPECIFICATION LinkSpec
PROPERTY CodeIsOwn
