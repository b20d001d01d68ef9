SPECIFICATION Spec
CONSTANTS
    Threads <- MCThreads
    Streams <- MCStreams
    Blocks <- MCBlocks
    FirstLru <- MCFirstLru
    Params <- MCParams
    AclType <- MCAclType
    Scenarios <- Separate
INVARIANTS RuntimeTypeOK KernelsSeeTheirCall KernelsApart ResultsSurvive ObjectsLiveForTheirCall HugeMemOpenAfterRaise
