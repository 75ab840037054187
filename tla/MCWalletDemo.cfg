CONSTANTS
    Pubkeys = {o1}
    Pks = {k1, k2}
    Suites = {3}
    SUITE_EDWARDS25519_SHA512_TAI = 3
    Labels = {l1, l2}
    Memos = {m1}
    Alphas = {m1}
    Nonces = {n1}
    RfcNonce = n1
    MemoHashes <- MCMemoHashes
    ProofHashes <- MCProofHashes
    AlphaHashes <- MCAlphaHashes
    BetaHalves <- MCBetaHalves
    AddressTrees = {v2}
    ADDRESS_TREE_V2 = v2
    SlotInBeta = 99
    Calls = {1, 2, 3, 4}
    Pages = {p1}
    Elsewhere = TRUE
    MaxSlot = 0
    MaxLeaves = 4
    MaxEvents = 0
SPECIFICATION WalletSpec
INVARIANTS VerifiedRollsAreAnchored
PROPERTIES BusyEnds
CHECK_DEADLOCK FALSE
