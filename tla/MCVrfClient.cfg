CONSTANTS
    Pubkeys = {o1}
    Pks = {k1, k2}
    Suites = {0, 3}
    SUITE_EDWARDS25519_SHA512_TAI = 3
    Labels = {l1}
    Memos = {m1}
    Alphas = {a1}
    Nonces = {n1}
    RfcNonce = n1
    MemoHashes <- MCMemoHashes
    ProofHashes <- MCProofHashes
    AlphaHashes <- MCAlphaHashes
    BetaHalves <- MCBetaHalves
    AddressTrees = {v2}
    ADDRESS_TREE_V2 = v2
    Calls = {c1, c2, c3, c4}
    MaxSlot = 1
    MaxLeaves = 4
    MaxEvents = 2
SPECIFICATION ClientSpec
PROPERTIES CallsEnd
INVARIANTS SdkCommitsVerify LandedTookEffect RetryLandsOnce
CHECK_DEADLOCK FALSE
