CONSTANTS
    LogTraces <- ShortLogs
    RpcAnswers = {"tx", "nologs", "missing"}
    Limit = 3
    PageCap = 2
    MaxHistory = 4
SPECIFICATION Spec
INVARIANTS MissesAreExplained OnlyCommitted NoEventTwice
    OldestTransactionFirst
PROPERTIES ScanEnds
CHECK_DEADLOCK FALSE
