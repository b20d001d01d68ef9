\* Every legal hit row of 3 slots against 6 ids.
CONSTANTS
    batchSize = 1
    k = 3
SPECIFICATION MCSpec
INVARIANTS NewLruIsValid EvictsOldest AgreesWithReference
