SPECIFICATION Spec
CONSTANTS
    VMs = {v1, v2}
    Testrig = {v1}
    None = None
    urgent = urgent
    regular = regular
    rig = rig
    Jobs <- MixedJobs
    LabelOf <- MixedLabel
    FaultKinds <- AllFaults
    MaxFaults = 3
INVARIANTS TypeOK HandedOutOnce PassedOverOnlyIfRefused
