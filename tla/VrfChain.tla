------------------------------ MODULE VrfChain ------------------------------
(***************************************************************************)
(* The program of CcVrf with the hashes and proofs its users put into it:  *)
(* what the modules of the SDK and of the applications have in common.     *)
(***************************************************************************)
EXTENDS CcVrf

CONSTANTS Alphas, Nonces, RfcNonce, Memos

Vrf == INSTANCE VrfMath

ASSUME HashesAssumption ==
    /\ RfcNonce \in Nonces
    /\ MemoHashes = {Vrf!sha256(m) : m \in Memos}
    /\ ProofHashes = {Vrf!sha256(p) : p \in Vrf!Proofs}
    /\ AlphaHashes = {Vrf!sha256(a) : a \in Alphas}
    /\ BetaHalves = {Vrf!BetaHalf(g, n) : g \in Vrf!Gammas, n \in 1..2}

deriveAuthorityAddress(owner, label) ==
    AuthorityAddress(ADDRESS_TREE_V2, owner, label)

\* Both commit types derive the same address.
deriveProofCommitAddress(authority, memoHash) ==
    CommitAddress(ADDRESS_TREE_V2, authority, memoHash)
=============================================================================
