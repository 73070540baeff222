SPECIFICATION GroupsFairSpec
CONSTANTS
    gpuA = gpuA  gpuB = gpuB
    icd1 = icd1
    t1 = t1 t2 = t2
    w1 = w1 w2 = w2 w3 = w3
    g1 = g1 g2 = g2 g3 = g3
    Drivers = {icd1}
    Devices = {gpuA}
    DriverOf <- MCDriverOf
    GroupDrivers = {icd1}
    TermAddr = {t1}
    TrampAddr = {w1, w2}
    GroupAddr = {g1, g2}
    Null = Null
    NoArray = NoArray
    PartialQueries = TRUE
    HotPlug = TRUE
CHECK_DEADLOCK FALSE
PROPERTY CallEnds
