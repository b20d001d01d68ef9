SPECIFICATION Spec
CONSTANTS
    Calls <- MCCalls
    Junk <- MCJunk
INVARIANTS ShapeTypeOK SizesCountPlaces NoEmptyAverage CeilReachesAll
