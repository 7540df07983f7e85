SPECIFICATION FairSpec
CONSTANTS
    f1 = f1  f2 = f2  k1 = k1  k2 = k2  x1 = x1  x2 = x2
    NULL = NULL
    MaxNotif = 2
    MaxDone = 2
    Regs <- MCRegs
    Events = {e1}
INVARIANT TypeOK
INVARIANT CallsAreWhole
INVARIANT RegistrationsKept
PROPERTY OwedAreCalled
