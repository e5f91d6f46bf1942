\* Source 0 without bound, source 1 once: no state constraint, so that the
\* temporal properties are checked on the whole behaviour graph.
SPECIFICATION PSpec
CONSTANTS
    numInts = 2
    Bursts = 1
PROPERTIES RequestServed MainAdvances
