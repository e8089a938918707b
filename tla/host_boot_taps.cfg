SPECIFICATION Spec
CONSTANTS
    NumInstances = 2
    Workers = {w1}
    Main = main
    MaxRuns = 4
    MaxJobs = 2
    Faults <- NoFaults
    MaxFaults = 0
    BootQuiet = FALSE
INVARIANTS TapsIntact
