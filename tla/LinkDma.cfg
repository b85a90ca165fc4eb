SPECIFICATION DmaFairSpec
CONSTANTS
    None = None
    SlotIds <- MCSlots
    Pages <- MCPages
    Queue = 1
    MaxAsk = 2
    MaxOps = 1
    MaxRestart = 1
PROPERTIES CodeOfPressedSlot SeqMovesFirst AnswerMatchesRequest ListAnswered
