SPECIFICATION Spec
CONSTANTS
    Threads = {th1, th2}
    NoUnit = NoUnit
    NoThread = NoThread
    NoReceiver = NoReceiver
    NoLayer = NoLayer
    a = a
    b = b
    c = c
    bins = bins
    layout = layout
    gzlayout = gzlayout
    noblobs = noblobs
    saved = saved
    intact = intact
    oci = oci
    flat = flat
    cut = cut
    garbage = garbage
    web = web
    vpn = vpn
    odd = odd
    Languages <- MCLanguages
    Installed <- MCInstalled
    Rules <- MCRules
    Files <- MCFiles
    Binaries <- MCBinaries
    Elftools = TRUE
    Malformed <- MCMalformed
    Images <- MCImages
    Truth <- MCTruth
    Endpoints <- MCEndpoints
    Configurations <- MCConfigurations
    FirstSetup <- MCFirstSetup
    ClientVersions = {12, 13}
    Probed = {"version", "group"}
    Unsettable <- MCUnsettable
    Units <- MCUnits
    Estates <- MCEstates
    MaxFaults = 1
    MaxChanges = 1
INVARIANTS TypeOK GrammarsLoadOnce ParsersStayHome DamageStaysLocal IntactIsQuiet
INVARIANTS ProbesAreTruthful ProbesAreComplete
PROPERTIES KeepsWhatItHas KeepsUnitContract UnitsEnd
CHECK_DEADLOCK FALSE
