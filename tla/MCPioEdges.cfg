\* One port, in mode 3 with both lines monitored for "and, high", in mode 0
\* with a strobe, or disabled.
SPECIFICATION ESpec
CONSTANTS
    Ports = {1}
    Lines = {0, 1}
    MaxHold = 1
    Words = {119, 131, 207, 15, 8}
    Masks = {252}
    Data = {0}
    Pins = {0, 1, 3}
    Strobes = {0, 1}
INVARIANTS TypeOK OneRequestPerEdge OneRequestPerStrobe
PROPERTIES ImplementsProgramming
