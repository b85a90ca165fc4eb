CONSTANTS
    MaxCmd = 3
    MaxRetries = 1
    MaxQueue = 2
    MaxSwitch = 1
SPECIFICATION FairSpec
INVARIANT BuffersOwned
PROPERTIES NoPostToDeadQueue OneAnswerPerCommand PipeNeverHangs
CHECK_DEADLOCK FALSE
