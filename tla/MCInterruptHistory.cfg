\* Two request inputs: one source can overtake, precede or repeat during the
\* service of the other.  Resets and pulses on every clock edge.
SPECIFICATION HSpec
CONSTANT numInts = 2
INVARIANTS TypeOK AckHasOneSource NoStaleSample NoRetrigger
PROPERTIES GrantsHighest RequestsKept NoNesting ProgramAdvances ImplementsService
