SPECIFICATION Spec
CONSTANTS
    tree = tree
    host = host
    nowhere = nowhere
    own = own
    packaged = packaged
    unreadable = unreadable
    Kinds <- MCKinds
    Surfaces <- MCSurfaces
    Network = {"tls"}
    Policies = {own, packaged}
    Packaged = packaged
    NotGiven = NotGiven
    Nothing = Nothing
    Calls <- MCCalls
    MaxClock = 1
    MaxCalls = 2
    MaxFaults = 0
INVARIANT PackShowsThePolicy
CHECK_DEADLOCK FALSE
