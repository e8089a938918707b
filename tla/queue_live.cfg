SPECIFICATION FairSpec
CONSTANTS
    VMs = {v1, v2}
    Testrig = {}
    None = None
    urgent = urgent
    regular = regular
    rig = rig
    Jobs <- PlainJobs
    LabelOf <- PlainLabel
    FaultKinds <- RetryFaults
    MaxFaults = 1
INVARIANTS NothingLost
PROPERTIES EveryJobPicked
