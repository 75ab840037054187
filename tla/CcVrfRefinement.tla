-------------------------- MODULE CcVrfRefinement --------------------------
(***************************************************************************)
(* CcVrf implements CommitRegistry: the abstract state is read off the     *)
(* unspent leaves and the log.                                             *)
(***************************************************************************)
EXTENDS CcVrf

\* A commitment without beta.
AbsNoBeta == "AbsNoBeta"

Bodies == [proof: ProofHashes, alpha: AlphaHashes,
           beta: {AbsNoBeta} \cup (BetaHalves \X BetaHalves)]

AbsAuthority(d) ==
    [owner |-> d.owner, label |-> d.label, pk |-> d.pk,
     frozen |-> d.frozen, revoked |-> d.revoked]

AbsCommit(account) ==
    LET d == account.data
    IN  [owner |-> d.authority.scope, label |-> d.authority.key,
         memo |-> d.memo_hash,
         body |-> [proof |-> d.proof_hash, alpha |-> d.alpha_hash,
                   beta |-> IF account.disc = "VrfProofCommitWithBeta"
                            THEN <<d.beta_lo, d.beta_hi>> ELSE AbsNoBeta]]

AbsEvent(e) ==
    [owner |-> e.owner, label |-> e.label, memo |-> e.memo_hash,
     body |-> [proof |-> e.proof_hash, alpha |-> e.alpha_hash,
               beta |-> AbsNoBeta]]

absAuthorities ==
    {AbsAuthority(leaves[i].data) : i \in Live \cap AuthorityLeaves}

absCommits == {AbsCommit(leaves[i]) : i \in Live \cap CommitLeaves}

absLog == [i \in DOMAIN events |-> AbsEvent(events[i])]

Registry == INSTANCE CommitRegistry WITH
    Owners <- Pubkeys, Labels <- Labels, Pks <- Pks, Memos <- MemoHashes,
    Bodies <- Bodies,
    authorities <- absAuthorities, commits <- absCommits, log <- absLog

\* The program, whatever records, leaves and trees callers pass, behaves as
\* the registry does: stale or forged snapshots take no effect and each
\* instruction acts on the current authority (programs/cc-vrf).
ImplementsRegistry == Registry!Spec
=============================================================================
