\* Sectors of three bytes, every part of each of three; cards that need more
\* rounds than the driver tries, and data later than it waits; responses as
\* soon and as late as a card may give them.  A driver that has given up stops.
SPECIFICATION Spec
CONSTANTS
    Kinds = {"SD1", "SD2", "SDHC", "MMC", "none"}
    SectorSize = 3
    Sectors = {0, 1, 3}
    Delays = {0, 8}
    Rounds = {0, 1, 2}
    Latencies = {0, 2, 3}
    Attempts = 10
    DummyBytes = 10
    Tries = 2
    TokenTries = 3
    MaxResets = 1
INVARIANTS CardRecognised ReadsWhatWasAsked FailsForReason
PROPERTIES LeavesNothing Returns
CHECK_DEADLOCK FALSE
