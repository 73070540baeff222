SPECIFICATION GroupsSpec
CONSTANTS
    gpuA = gpuA  gpuB = gpuB
    icd1 = icd1
    t1 = t1 t2 = t2
    w1 = w1 w2 = w2 w3 = w3
    g1 = g1 g2 = g2 g3 = g3
    Drivers = {icd1}
    Devices = {gpuA, gpuB}
    DriverOf <- MCDriverOf
    GroupDrivers = {icd1}
    TermAddr = {t1, t2}
    TrampAddr = {w1, w2, w3}
    GroupAddr = {g1, g2, g3}
    Null = Null
    NoArray = NoArray
    PartialQueries = TRUE
    HotPlug = TRUE
SYMMETRY AddrSymmetry
VIEW GroupsView
\* The program stops when an empty entry is followed.
CHECK_DEADLOCK FALSE
INVARIANTS GroupsTypeOK GroupsOwned GroupsResolve NoEmptyEntry SharedListsSound
