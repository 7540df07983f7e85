CONSTANTS
    NULL = NULL
    NumCapture = 1
    NumPlayback = 1
    HdaClients = {h1, h2}
    DspClients = {d1}
    PpctlBits = 16
    DspTriggers = TRUE
SPECIFICATION Spec
SYMMETRY Symmetry
INVARIANT TypeOK
INVARIANT OneReferenceEach
INVARIANT SieAgrees
INVARIANT NoDmaToFreedMemory
INVARIANT FreeMeansClean
INVARIANT HandlesAreOwners
INVARIANT ProcenAgrees
