SPECIFICATION FairSpec
CONSTANTS
    a1 = a1
    a2 = a2
    b1 = b1
    Jobs = {a1, a2, b1}
    None = None
    Hosts <- FleetHosts
    Instances <- FleetSizes
    RepoOf <- JobRepo
    LabelsOf <- JobLabels
    MaxDisruptions = 2
INVARIANTS TypeOK ReplacesOnlyFinished Supplied CapacityKept
PROPERTIES JobsGetRunners
