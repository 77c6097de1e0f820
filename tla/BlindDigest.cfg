SPECIFICATION Spec
CONSTANTS
    tree = tree
    host = host
    source = source
    elf = elf
    tls = tls
    rsa = rsa
    md5 = md5
    Targets <- MCTargets
    Collectors <- MCCollectors
    Names = {rsa, md5}
    Scanner = scanner
    NoName = noname
    Garbled = garbled
    Digests = {1, 2}
    NoRecord = norecord
    Supports <- OneUnitEach
    Requests <- ResumeTree
    Workers = 2
    MaxVersion = 2
    Present <- AlwaysPresent
    Digest <- Blind
    Yields <- BothNames
    Cuts = {}
    MaxRuns = 3
    MaxCrashes = 0
    MaxFaults = 0
INVARIANTS SkipIsSafe
