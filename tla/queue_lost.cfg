SPECIFICATION Spec
CONSTANTS
    VMs = {v1, v2}
    Testrig = {}
    None = None
    urgent = urgent
    regular = regular
    rig = rig
    Jobs <- PlainJobs
    LabelOf <- PlainLabel
    FaultKinds <- ReplyFaults
    MaxFaults = 1
INVARIANTS NothingLost
