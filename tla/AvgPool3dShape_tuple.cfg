SPECIFICATION Spec
CONSTANTS
    Calls <- MCCalls
    Junk <- MCJunk
INVARIANTS KernelIsOneOrThree
