CONSTANTS
    s1 = s1  s2 = s2  s3 = s3
    a = a  b = b
    NULL = NULL
    Calls <- MCCalls
    CodecOf <- MCCodecOf
    Count <- MCCount
    Kind <- MCKind
    Entries = 2
    Serialised = TRUE
    Smp = TRUE
    Losses = TRUE
    LateAnswers = FALSE
    Vanishes = TRUE
SPECIFICATION FairSpec
INVARIANT TypeOK
INVARIANT SuccessMeansAnswered
INVARIANT TimeoutMeansLost
INVARIANT QueueSound
INVARIANT EventExact
INVARIANT CorbIntact
PROPERTY CallsReturn
