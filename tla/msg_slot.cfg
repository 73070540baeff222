SPECIFICATION Spec
CONSTANTS
    DriverCount = 1
    Supporting = {1}
    Handles = {m1, m2}
    DriverHandles = {h1, h2}
    InitialCapacity = 1
    MaxCapacity = 2
    Environments <- SlotsOnly
    Null = Null
    Garbage = Garbage
SYMMETRY HandleSymmetry
INVARIANTS
    AllBacked
