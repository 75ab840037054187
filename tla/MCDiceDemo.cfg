CONSTANTS
    Pubkeys = {o1}
    Operator = o1
    Pks = {k1, k2}
    Suites = {3}
    SUITE_EDWARDS25519_SHA512_TAI = 3
    Labels = {l1}
    DEFAULT_LABEL = l1
    Memos = {m1, m2}
    Alphas = {m1, m2}
    Nonces = {n1}
    RfcNonce = n1
    MemoHashes <- MCMemoHashes
    ProofHashes <- MCProofHashes
    AlphaHashes <- MCAlphaHashes
    BetaHalves <- MCBetaHalves
    AddressTrees = {v2}
    ADDRESS_TREE_V2 = v2
    SlotInBeta = 99
    Calls = {c1, c2, c3, c4}
    Faults = {"lost", "torn", "delete"}
    MaxSlot = 0
    MaxLeaves = 4
    MaxEvents = 1
SPECIFICATION DemoSpec
INVARIANTS SavedKeyIsAuthorityKey RecordedRollsVerify
SYMMETRY Symmetry
CHECK_DEADLOCK FALSE
