\* All four kernels, every sequence of three tasks.
CONSTANT TaskLimit <- MCTaskLimit
SPECIFICATION Spec
INVARIANTS TypeOK EnginesApart FlagsPaired
PROPERTIES ReadsInProgramOrder CopiesOutInOrder KernelEnds
