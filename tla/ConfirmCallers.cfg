CONSTANTS
    worker = worker
    linkTask = linkTask
    NoSlot = NoSlot
    NoOp = NoOp
    None = None
    Ops = {sign, code}
    Slots <- MCSlots
    Tasks <- MCTasks
    Pressers <- MCLink
    Cancellers <- MCLink
    ClockMod = 8
    SeqMod = 2
    Timeout = 3
    MaxLag = 2
    MaxAge = 7
SPECIFICATION Spec
INVARIANT GrantInWindow
PROPERTY GateRefined
