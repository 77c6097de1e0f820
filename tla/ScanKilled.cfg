SPECIFICATION FairSpec
CONSTANTS
    tree = tree
    host = host
    source = source
    elf = elf
    tls = tls
    rsa = rsa
    md5 = md5
    Targets <- MCTargets
    Collectors <- MCCollectors
    Names = {rsa, md5}
    Scanner = scanner
    NoName = noname
    Garbled = garbled
    Digests = {1, 2}
    NoRecord = norecord
    Supports <- OneUnitEach
    Requests <- AllOrTree
    Workers = 1
    MaxVersion = 2
    Present <- MCPresent
    Digest <- Distinct
    Yields <- TreeOnly
    Cuts = {"partial", "whole"}
    MaxRuns = 3
    MaxCrashes = 2
    MaxFaults = 2
INVARIANTS LossIsBounded CleanRunIsComplete LossShows
PROPERTIES ScanEnds
