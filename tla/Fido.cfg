SPECIFICATION Spec
CONSTANTS
    a1 = a1
    a2 = a2
    k1 = k1
    k2 = k2
    None = None
    Apps <- MCApps
    U2f <- MCU2f
    Plain <- MCPlain
    Long = 2
    MsgIds = 2
    MaxTrouble = 1
INVARIANT NeverMute
PROPERTIES AnswersNotMixed SignedIsPressed GrantNotWasted
SYMMETRY MCSymmetry
