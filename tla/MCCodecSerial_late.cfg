CONSTANTS
    s1 = s1  s2 = s2  s3 = s3
    a = a  b = b
    NULL = NULL
    Calls <- MCCalls
    CodecOf <- MCCodecOf
    Count <- MCCount
    Kind <- MCKind
    Entries = 2
    Serialised = TRUE
    Smp = TRUE
    Losses = FALSE
    LateAnswers = TRUE
    Vanishes = FALSE
SPECIFICATION Spec
INVARIANT AnswersMatch
