SPECIFICATION MCSpec
CONSTANTS
    h1 = h1
    h2 = h2
    Hosts <- MCHosts
    Web = web
    MaxSize = 2
    MaxEvents = 2
    MaxFaults = 1
INVARIANTS TypeOK PoisonOnce NoSlotForgotten StreamsExist
PROPERTIES HostsRecover EventsDrained
