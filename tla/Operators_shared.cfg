SPECIFICATION Spec
CONSTANTS
    Threads <- MCThreads
    Streams <- MCStreams
    Blocks <- MCBlocks
    FirstLru <- MCFirstLru
    Params <- MCParams
    AclType <- MCAclType
    Scenarios <- Shared
INVARIANTS KernelsSeeTheirCall
