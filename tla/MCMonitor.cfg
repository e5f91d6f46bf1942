SPECIFICATION HSpec
CONSTANTS
    Base = 2
    CounterRange = 8
    Bits = 3
    Seed = 2
    HelloLength = 2
    Faults <- MCFaults
    Records <- MCRecords
    Addresses = {11}
    TypedBytes = {2}
INVARIANTS RecordsLand KeepsUp NoFalseAlarm
PROPERTY FaultsReported
