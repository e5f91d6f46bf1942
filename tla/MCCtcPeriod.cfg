\* Channel 3 counts channel 2 or either runs as a timer; time constant 0
\* stands for 2, and the divider ticks on every other edge.
SPECIFICATION PSpec
CONSTANTS
    Channels = {2, 3}
    sysclk = 2
    ctcclk = 1
    Tap16 = 1
    Tap256 = 1
    Range = 2
    MaxHold = 1
    Controls = {133, 199, 3}
    Vectors = {8}
    TimeConstants = {0, 1}
INVARIANTS TypeOK CountersLoaded ExactPeriod
PROPERTIES KeepsCounting ImplementsProgramming
