CONSTANTS
    o1 = o1
    o2 = o2
    k1 = k1
    k2 = k2
    p1 = p1
    p2 = p2
    Pubkeys = {o1, o2}
    Pks = {k1, k2}
    Suites = {0, 3}
    SUITE_EDWARDS25519_SHA512_TAI = 3
    Labels = {l1}
    MemoHashes = {m1}
    ProofHashes = {p1, p2}
    AlphaHashes = {a1}
    BetaHalves = {b1}
    AddressTrees = {v1, v2}
    ADDRESS_TREE_V2 = v2
    MaxSlot = 1
    MaxLeaves = 5
    MaxEvents = 1
SPECIFICATION Spec
SYMMETRY Symmetry
INVARIANTS TypeOK OneLiveLeaf AuthorityAtItsSeeds OneCommitPerMemo
    CommitsRestOnFrozenAuthority
PROPERTIES KeyIsPermanent NoCommitUnderRevoked CommitmentsArePermanent
    ImplementsRegistry
CHECK_DEADLOCK FALSE
