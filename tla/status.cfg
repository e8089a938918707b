SPECIFICATION FairSpec
CONSTANTS
    VMs = {v1, v2}
    Keys <- MCKeys
    MaxRuns = 2
    MaxFaults = 1
INVARIANTS TypeOK PickedNamesJob PageIsSnapshot
PROPERTIES NeverGoesBack WaitingIsShown
