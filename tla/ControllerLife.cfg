CONSTANTS
    NumAddrs = 3
    GfxAddrs = {1}
    MaxStarts = 2
SPECIFICATION Spec
INVARIANT NoDmaToReleasedMemory
INVARIANT EnabledMeansUp
INVARIANT EventReady
INVARIANT ChildrenAreWoken
INVARIANT ReleasedOnce
