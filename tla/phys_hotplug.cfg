SPECIFICATION Spec
CONSTANTS
    gpuA = gpuA  gpuB = gpuB  gpuC = gpuC
    icd1 = icd1  icd2 = icd2
    t1 = t1 t2 = t2 t3 = t3
    w1 = w1 w2 = w2 w3 = w3 w4 = w4
    Drivers = {icd1, icd2}
    Devices = {gpuA, gpuB, gpuC}
    DriverOf <- MCDriverOf
    TermAddr = {t1, t2, t3}
    TrampAddr = {w1, w2, w3, w4}
    PartialQueries = FALSE
    HotPlug = TRUE
SYMMETRY AddrSymmetry
INVARIANTS HeldHandlesResolve
PROPERTY IsHandleTable
