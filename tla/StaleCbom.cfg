SPECIFICATION Spec
CONSTANTS
    t1 = t1
    t2 = t2
    t3 = t3
    f1 = f1
    f2 = f2
    Threads <- MCThreads
    Facts <- MCFacts
    Posts <- SomePosts
    Free = Free
    Absent = Absent
    Empty = Empty
    Torn = Torn
    Saved = Saved
    MaxRequests = 3
    MaxKills = 0
SYMMETRY Same
INVARIANTS BrowserShowsTheCbom
CHECK_DEADLOCK FALSE
