CONSTANTS
    ByteBits = 1
    WordBytes = 3
    BlockBytes = 2
    Mantissa = 4
    Paths <- SameBytes
    Forks <- OneLabel
    ByteCounts = {1}
    Ranges <- AllRanges
    Mins = {3}
    Size = 3
    MaxBlocks = 4
    MaxStreams = 1
SPECIFICATION StreamSpec
INVARIANTS ValueInRange
CHECK_DEADLOCK FALSE
