SPECIFICATION FairSpec
CONSTANTS
    NumInstances = 2
    Workers = {w1}
    Main = main
    MaxRuns = 5
    MaxJobs = 1
    Faults <- DeliveryFaults
    MaxFaults = 1
    BootQuiet = FALSE
PROPERTIES SlotReturned SlotRefilled
