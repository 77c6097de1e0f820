SPECIFICATION Spec
CONSTANTS
    t1 = t1
    t2 = t2
    t3 = t3
    f1 = f1
    f2 = f2
    Threads <- MCThreads
    Facts <- MCFacts
    Posts <- SomePosts
    Free = Free
    Absent = Absent
    Empty = Empty
    Torn = Torn
    Saved = Saved
    MaxRequests = 4
    MaxKills = 1
SYMMETRY Same
INVARIANTS TypeOK RunDirectoryIsCurrent FailsOnlyIfDisturbed RunRepliesAreFresh LonePackVerifies
CHECK_DEADLOCK FALSE
