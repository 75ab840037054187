CONSTANTS
    ByteBits = 1
    WordBytes = 3
    BlockBytes = 2
    Mantissa = 4
    Paths <- SameBytes
    Forks <- OneLabel
    ByteCounts = {1}
    Ranges <- HalfRanges
    Mins = {3}
    Size = 3
    MaxBlocks = 4
    MaxStreams = 2
SPECIFICATION StreamSpec
INVARIANTS BytesInOrder PathsDoNotCollide DrawsUnbiased ShuffleUnbiased
CHECK_DEADLOCK FALSE
