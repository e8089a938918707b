SPECIFICATION Spec
CONSTANTS
    NumInstances = 2
    Workers = {w1, w2}
    Main = main
    MaxRuns = 3
    MaxJobs = 2
    Faults <- FaultKinds
    MaxFaults = 1
    BootQuiet = FALSE
SYMMETRY WorkerSymmetry
INVARIANTS TypeOK CompletionNotForgotten FreeSlotsAreAttended
PROPERTIES RemovesOneWorkdir PoolRefinement
