\* A bit of 12 clocks, the far clock off by a twelfth either way.
SPECIFICATION BSpec
CONSTANTS
    maxPreScaler = 11
    DataBits = 2
    Sent <- SomeBytes
    BitLengths = {11, 12, 13}
    MaxHold = 1
    MaxGap = 2
INVARIANTS TakenBytesArrive LostOnlyByLatePolling
