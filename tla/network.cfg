SPECIFICATION BootSpec
CONSTANTS
    Ids <- BoundaryIds
    HostName <- MCHostName
INVARIANTS TypeOK ReachesItsGuest HasEgress MacsDistinct KernelArgsSurvive GuestFitsHost
PROPERTIES OthersUntouched
