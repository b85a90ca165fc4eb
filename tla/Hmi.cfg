SPECIFICATION HmiFairSpec
CONSTANTS
    Ops = {o1, o2}
    o1 = o1
    o2 = o2
    NoOp = NoOp
    Debounce = 2
    Flash = 1
    ReinitAfter = 2
    Start <- MCStart
INVARIANT FramesAreTrue
PROPERTIES OneTouchOneGrant ScreenFollows LedTellsWaiting
