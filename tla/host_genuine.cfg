SPECIFICATION Spec
CONSTANTS
    NumInstances = 2
    Workers = {w1, w2}
    Main = main
    MaxRuns = 5
    MaxJobs = 3
    Faults <- GenuineFaults
    MaxFaults = 1
    BootQuiet = FALSE
SYMMETRY WorkerSymmetry
INVARIANTS NoUndeservedKill NoOrphan OwnDisk
