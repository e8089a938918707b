SPECIFICATION Spec
CONSTANTS
    NumInstances = 2
    Workers = {w1}
    Main = main
    MaxRuns = 5
    MaxJobs = 2
    Faults <- QuietFaults
    MaxFaults = 3
    BootQuiet = TRUE
INVARIANTS TapsIntact OneStopPerFault
