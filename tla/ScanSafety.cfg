SPECIFICATION Spec
CONSTANTS
    tree = tree
    host = host
    source = source
    elf = elf
    tls = tls
    rsa = rsa
    md5 = md5
    Targets <- MCTargets
    Collectors <- MCCollectors
    Names = {rsa, md5}
    Scanner = scanner
    NoName = noname
    Garbled = garbled
    Digests = {1, 2}
    NoRecord = norecord
    Supports <- MCSupports
    Requests <- MCRequests
    Workers = 2
    MaxVersion = 2
    Present <- MCPresent
    Digest <- Distinct
    Yields <- MCYields
    Cuts = {}
    MaxRuns = 2
    MaxCrashes = 1
    MaxFaults = 1
INVARIANTS TypeOK SkipIsSafe Accounted ResultsJournalled SummaryCountsErrors
PROPERTIES ResumeKeepsOthers KeepsContract
