SPECIFICATION Spec
CONSTANTS
    DriverCount = 3
    Supporting = {1, 3}
    Handles = {m1, m2}
    DriverHandles = {h1, h2}
    InitialCapacity = 1
    MaxCapacity = 2
    Environments <- SomeEnvironments
    Null = Null
    Garbage = Garbage
SYMMETRY HandleSymmetry
INVARIANTS
    MessengersBacked
    NothingLeaked
    DestroysOnlyLive
