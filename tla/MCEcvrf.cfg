CONSTANTS
    Radix = 4
    PT_LEN = 2
    C_LEN = 1
    Q_LEN = 2
    COFACTOR = 2
    CURVE_ORDER = 5
    MAX_CTR = 2
    Candidates <- SomeCandidates
    MadeKeys <- SomeKeys
    MadeProofs <- SomeProofs
SPECIFICATION Spec
INVARIANTS HonestProofsVerify GammaIsDetermined ThrowsOnlyWhenExhausted
CHECK_DEADLOCK FALSE
