SPECIFICATION Spec
CONSTANTS
    Unset <- None
    RefRank <- MCRefRank
    Entry <- MCEntry
    Aliases <- MCAliases
    Curves <- MCCurves
    Runs <- MCRuns
    Shown <- MCShown
    Templates <- MCTemplates
    Scenarios <- MCScenarios
    ShelfLifeYears <- MCShelfLifeYears
    DefaultCriticality = "high"
    EffortBySurface <- MCEffortBySurface
    EffortByKind <- MCEffortByKind
    DefaultEffort = 3
    Milestones <- MCMilestones
    Criticality <- MCCriticality
    Recommendations <- MCRecommendations
    Sizes <- MCSizes
    Sightings <- OnlyRsa
    Floor = 3500
    MaxFirst = 3
    MaxLater = 2
INVARIANTS SignaturesMigrateToSignatures
CHECK_DEADLOCK FALSE
