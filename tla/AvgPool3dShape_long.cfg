SPECIFICATION Spec
CONSTANTS
    Calls <- MCCalls
    Junk <- MCJunk
INVARIANTS SizesAreExact
