SPECIFICATION FairSpec
CONSTANTS
    Workers = {w1, w2}
    Closers = {k1, k2}
    Clients = {c1, c2, c3}
    NilClient = NilClient
    InitialCap = 1
    MaxCap = 1
INVARIANTS NoPanic ExclusiveLease LateGetRefused
PROPERTIES NoParkAfterClose ImplementsLeasePool CloseEnds RequestEnds
