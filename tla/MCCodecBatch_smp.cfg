CONSTANTS
    c1 = c1  c2 = c2  c3 = c3
    a = a  b = b
    NULL = NULL
    Calls <- MCCalls
    CodecOf <- MCCodecOf
    Count <- MCCount
    Kind <- MCKind
    Entries = 4
    Serialised = TRUE
    Smp = TRUE
    Losses = FALSE
    LateAnswers = FALSE
    Vanishes = FALSE
SPECIFICATION Spec
INVARIANT TimeoutMeansLost
