SPECIFICATION FairSpec
CONSTANTS
    DriverCount = 2
    InstanceAddr = {a1, a2}
    DriverInstances = {v1, v2}
    MaxPending = 1
    None = None
    Preload = Preload
    Environments <- SomeEnvironments
INVARIANTS
    LibrariesOwned
    TermsLoaded
    InstancesListed
    NoInstanceLost
    OneDriverSuffices
PROPERTIES
    IsInstanceTable
    CreationEnds
