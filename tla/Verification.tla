---------------------------- MODULE Verification ----------------------------
(***************************************************************************)
(* What a verifier reads from the chain (the fetch functions of            *)
(* packages/vrf-client/src/operations.ts) and how it decides               *)
(* (verifyEndToEnd.ts).  A fetch gives a set: empty for null or an error,  *)
(* else the one record.                                                    *)
(***************************************************************************)
EXTENDS VrfChain

CONSTANT SlotInBeta     \* the u64 that the first 8 bytes of a beta spell

NoBeta == <<>>

-----------------------------------------------------------------------------
(* Fetching.                                                               *)

\* The record of the authority, a set of at most one; empty for null.
fetchAuthority(owner, label) == Current(deriveAuthorityAddress(owner, label))

\* rpc.getCompressedAccount (external): the unspent leaf at an address.
CompressedAccounts(address) ==
    {leaves[i] : i \in {j \in Live : leaves[j].address = address}}

\* An OnChainCommit, with the halves of beta where they were fetched.
OnChainCommit(authority, memo_hash, proof_hash, alpha_hash, committed_slot, beta) ==
    [authority |-> authority, memo_hash |-> memo_hash,
     proof_hash |-> proof_hash, alpha_hash |-> alpha_hash,
     committed_slot |-> committed_slot, beta |-> beta]

\* Both commit types live at the same address and the decoder does not look at
\* the discriminator: decoding the longer record as the shorter one takes the
\* slot from the bytes of beta_lo.
fetchProofCommit(authority, memo) ==
    {OnChainCommit(a.data.authority, a.data.memo_hash, a.data.proof_hash,
         a.data.alpha_hash,
         IF a.disc = "VrfProofCommit" THEN a.data.committed_slot
                                      ELSE SlotInBeta,
         NoBeta) :
       a \in CompressedAccounts(
                 deriveProofCommitAddress(authority, Vrf!sha256(memo)))}

\* Decoding the shorter record as the longer one runs out of bytes and throws.
fetchProofCommitWithBeta(authority, memo) ==
    {OnChainCommit(a.data.authority, a.data.memo_hash, a.data.proof_hash,
         a.data.alpha_hash, a.data.committed_slot,
         <<a.data.beta_lo, a.data.beta_hi>>) :
       a \in {b \in CompressedAccounts(
                 deriveProofCommitAddress(authority, Vrf!sha256(memo))) :
                 b.disc = "VrfProofCommitWithBeta"}}

\* The logged commitments of (owner, label, memo) among the events a scan has
\* read, by their positions in the log: the list of the code is the set in
\* increasing order (module EventScan).  It does not say whether the scan was
\* truncated or left transactions unfetched.
fetchProofCommitEvents(owner, label, memo, seen) ==
    {i \in seen : /\ events[i].owner = owner /\ events[i].label = label
                  /\ events[i].memo_hash = Vrf!sha256(memo)}

\* The OnChainCommit of a logged commitment.
CommitOfEvent(i) ==
    LET e == events[i]
    IN  OnChainCommit(deriveAuthorityAddress(e.owner, e.label), e.memo_hash,
            e.proof_hash, e.alpha_hash, e.committed_slot, NoBeta)

\* The candidates that pickCanonicalCommit's hash comparison keeps.
Matching(candidates, proof) ==
    {i \in candidates : events[i].proof_hash = Vrf!sha256(proof)}

\* Mutant: the newest match.
pickNewestCommit(candidates, proof) ==
    {CommitOfEvent(i) : i \in {j \in Matching(candidates, proof) :
                               \A k \in Matching(candidates, proof) : k <= j}}

\* canonical as a set: the first match, or none.
pickCanonicalCommit(candidates, proof) ==
    {CommitOfEvent(i) : i \in {j \in Matching(candidates, proof) :
                               \A k \in Matching(candidates, proof) : j <= k}}

-----------------------------------------------------------------------------
(* Verification.                                                           *)

\* Mutant: the committed proof hash is not compared.
verifyAnyProofHash(pk, suite, req, commit) ==
    /\ suite = SUITE_EDWARDS25519_SHA512_TAI
    /\ Vrf!verifyVRF(pk, req.alpha, req.proof)
    /\ commit.alpha_hash = Vrf!sha256(req.alpha)
    /\ commit.memo_hash = Vrf!sha256(req.memo)

\* Mutant: the key is the one that the proof names.
verifyPublishedKey(pk, suite, req, commit) ==
    /\ suite = SUITE_EDWARDS25519_SHA512_TAI
    /\ Vrf!verifyVRF(req.proof.gamma.pk, req.alpha, req.proof)
    /\ commit.proof_hash = Vrf!sha256(req.proof)
    /\ commit.alpha_hash = Vrf!sha256(req.alpha)
    /\ commit.memo_hash = Vrf!sha256(req.memo)

verifyEndToEnd(pk, suite, req, commit) ==
    /\ suite = SUITE_EDWARDS25519_SHA512_TAI
    /\ Vrf!verifyVRF(pk, req.alpha, req.proof)
    /\ commit.proof_hash = Vrf!sha256(req.proof)
    /\ commit.alpha_hash = Vrf!sha256(req.alpha)
    /\ commit.memo_hash = Vrf!sha256(req.memo)

\* expectedLabel is optional: a set, empty when the caller gives none.  All
\* callers give the owner.
verifyAuthorityCommitEndToEnd(authority, expectedLabel, req, commit) ==
    LET base == verifyEndToEnd(authority.pk, authority.suite, req, commit)
        ecvrfValid ==
            /\ authority.suite = SUITE_EDWARDS25519_SHA512_TAI
            /\ Vrf!verifyVRF(authority.pk, req.alpha, req.proof)
        beta == IF ecvrfValid THEN Vrf!vrfProofToHash(req.proof)
                              ELSE NoBeta
    IN  [valid |->
            /\ base
            /\ authority.frozen
            /\ ~authority.revoked
            /\ authority.owner = req.owner
            /\ expectedLabel \subseteq {authority.label}
            /\ commit.authority =
                   deriveAuthorityAddress(authority.owner, authority.label)
            /\ commit.beta # NoBeta => commit.beta = beta,
         beta |-> beta, slot |-> commit.committed_slot]

\* The commit a consumer gets for its request when its scan reads the events
\* seen; none when a fetch returns null or throws.
FetchedCommit(req, seen) ==
    LET authority == deriveAuthorityAddress(req.owner, req.label)
    IN  CASE req.mode = "registry" -> fetchProofCommit(authority, req.memo)
          [] req.mode = "registry-beta" ->
                fetchProofCommitWithBeta(authority, req.memo)
          [] req.mode = "event" ->
                pickCanonicalCommit(
                    fetchProofCommitEvents(req.owner, req.label, req.memo,
                                           seen),
                    req.proof)

\* A scan that misses no event.
CompleteScan == DOMAIN events
=============================================================================
