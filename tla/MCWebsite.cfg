CONSTANTS
    Claims = {good, bad}
    Genuine = {good}
    Links <- SomeLinks
    Memos = {m1, m2}
    Keys = {k1, k2}
    HISTORY = 2
SPECIFICATION Spec
INVARIANTS ShownIsOfLatestSubmission ShownIsTrue RollsAreReproducible
PROPERTIES LoadingEnds
CHECK_DEADLOCK FALSE
