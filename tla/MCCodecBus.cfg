SPECIFICATION Spec
CONSTANTS
    Addrs = {gfx, other}
    Gfx = gfx
    Junk = {j1, j2}
    Threads = {t1, t2}
    Tags = {0, 1}
    MaxChildren = 2
    NULL = NULL
SYMMETRY MCSymmetry
INVARIANT TypeOK
INVARIANT TagsAreOwn
INVARIANT ResponsesReachTheirCallback
INVARIANT PointersFollow
INVARIANT GoneWhenEjected
