CONSTANTS
    N = 3
    NumStreams = 1
    MaxPending = 2
    MaxPosted = 4
    MaxDone = 2
    MaxDonePair = 2
    Errors = TRUE
SPECIFICATION Spec
PROPERTY ImplementsChannel
