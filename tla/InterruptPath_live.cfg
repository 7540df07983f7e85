CONSTANTS
    N = 3
    NumStreams = 2
    MaxPending = 2
    MaxPosted = 3
    MaxDone = 2
    MaxDonePair = 2
    Errors = FALSE
SPECIFICATION FairSpec
INVARIANT NothingForgotten
PROPERTY ResponsesDelivered
PROPERTY CompletionsSeen
