CONSTANTS
    Owners = {o1}
    Labels = {l1}
    Pks = {k1}
    Memos <- SomeMemos
    Bodies <- SomeModes
    p1 = p1
    p2 = p2
    Processes <- SomeProcesses
    Commands <- SomeCommands
    Fee <- SomeFees
    FailedFee = 1
SPECIFICATION BatchSpec
INVARIANTS CountedRollsAreOnChain 
PROPERTIES BatchEnds
CHECK_DEADLOCK FALSE
