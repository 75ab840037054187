CONSTANTS
    k1 = k1
    k2 = k2
    a1 = a1
    a2 = a2
    n1 = n1
    n2 = n2
    Pubkeys = {o1}
    Pks = {k1, k2}
    Suites = {3}
    SUITE_EDWARDS25519_SHA512_TAI = 3
    Labels = {l1}
    Memos = {m1}
    Alphas = {a1, a2}
    Nonces = {n1, n2}
    RfcNonce = n1
    MemoHashes <- MCMemoHashes
    ProofHashes <- MCProofHashes
    AlphaHashes <- MCAlphaHashes
    BetaHalves <- MCBetaHalves
    AddressTrees = {v2}
    ADDRESS_TREE_V2 = v2
    Modes = {"registry", "registry-beta", "event"}
    Consumers = {c1}
    MadeProofs <- MCMadeProofs
    SlotInBeta = 99
    MaxSlot = 0
    MaxLeaves = 4
    MaxEvents = 2
SPECIFICATION VerifierSpec
INVARIANTS AcceptedIsAnchored OneBetaPerAlpha
    OneRegistryOutcomePerMemo AcceptedStaysAcceptable
CHECK_DEADLOCK FALSE
