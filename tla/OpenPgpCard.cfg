CONSTANTS
    factory = factory
    mine = mine
    Slots <- MCSlots
    Pins <- MCPins
    Factory <- factory
    RetryMax = 2
    MaxKeys = 2
    MaxCtr = 1
SPECIFICATION Spec
INVARIANTS GuessesCharged KeysNeverUnguarded CounterCoversSignatures
PROPERTY OneSignaturePerVerify
