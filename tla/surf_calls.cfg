SPECIFICATION Spec
CONSTANTS
    t1 = t1
    t2 = t2
    Threads = {t1, t2}
    DriverCount = 2
    Handles = {s1, s2}
    DriverHandles = {h1, h2}
    InitialCapacity = 2
    MaxCapacity = 4
    Environments <- SomeEnvironments
    Null = Null
    Garbage = Garbage
SYMMETRY HandleSymmetry
INVARIANTS
    SlotsOwned
    ListsCoverSurfaces
    EntriesLive
    NothingLeaked
