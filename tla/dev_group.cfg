SPECIFICATION Spec
CONSTANTS
    t1 = t1
    t2 = t2
    f = f
    g = g
    h = h
    Threads = {t1, t2}
    DriverCount = 2
    DevAddr = {a1, a2}
    Names = {f, g, h}
    Offers <- SomeOffers
    LayerOffers = {g}
    MaxUnknown = 2
    None = None
    Environments <- Failing
INVARIANT GroupGivenBack
