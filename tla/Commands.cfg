SPECIFICATION Spec
CONSTANTS
    tree = tree
    host = host
    nowhere = nowhere
    own = own
    packaged = packaged
    unreadable = unreadable
    Kinds <- MCKinds
    Surfaces <- MCSurfaces
    Network = {"tls"}
    Policies = {own, packaged}
    Packaged = packaged
    NotGiven = NotGiven
    Nothing = Nothing
    Calls <- MCCalls
    MaxClock = 2
    MaxCalls = 4
    MaxFaults = 1
INVARIANTS TypeOK OfflineIsSilent ExitCodeIsTrue CertificateCovers ResumeExtendsTheLatest
CHECK_DEADLOCK FALSE
