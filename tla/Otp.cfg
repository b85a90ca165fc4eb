SPECIFICATION OtpFairSpec
CONSTANTS
    None = None
    Apps = {a1, a2}
    a1 = a1
    a2 = a2
    Leavers = {a1}
    OtpSlots <- MCSlots
    Last = 2
    Chunks = 3
INVARIANT NoOldDigest
PROPERTIES AnswerIsPressed ChallengeEnds
