CONSTANTS
    Slots <- MCSlots
    Ops <- MCOps
    NoSlot = NoSlot
    NoOp = NoOp
    Modes <- CcidAndFido
    ClockMod = 16
    SeqMod = 8
    InstMod = 8
    Timeout = 2
    MaxMs = 3
    MaxHost = 1
    MaxRequests = 1
    MaxGestures = 2
    MaxSwitches = 1
SPECIFICATION LinkFairSpec
PROPERTIES OneGestureOneRelay SlipNeedsSameMs GrantsAreOwn WaitsEnd
