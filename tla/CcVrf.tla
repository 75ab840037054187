------------------------------- MODULE CcVrf -------------------------------
(***************************************************************************)
(* The cc-vrf on-chain program (programs/cc-vrf): VRF authorities, proof   *)
(* commitments in a registry of compressed accounts, and proof             *)
(* commitments as log events.  Each instruction handler is one action.     *)
(*                                                                         *)
(* The program keeps no account of its own: its records are leaves of the  *)
(* state tree of the Light system program.  A caller passes the record it  *)
(* claims is current (current_authority) and where it lives (account_meta) *)
(* and the Light program accepts the instruction only when they match an   *)
(* unspent leaf.  The caller is any signer with any arguments, so stale    *)
(* and forged claims are part of every behaviour.                          *)
(***************************************************************************)
EXTENDS Integers, Sequences

CONSTANTS
    Pubkeys,        \* signers
    Pks,            \* VRF public keys (32 bytes)
    Suites,         \* values of the u8 suite argument
    SUITE_EDWARDS25519_SHA512_TAI,
    Labels,         \* authority labels (32 bytes)
    MemoHashes, ProofHashes, AlphaHashes,
    BetaHalves,     \* the 32-byte halves of beta
    AddressTrees,   \* address trees a caller can name
    ADDRESS_TREE_V2,
    MaxSlot, MaxLeaves, MaxEvents   \* bounds of the model

ASSUME ConstantsAssumption ==
    /\ SUITE_EDWARDS25519_SHA512_TAI \in Suites
    /\ ADDRESS_TREE_V2 \in AddressTrees
    /\ MaxSlot \in Nat /\ MaxLeaves \in Nat /\ MaxEvents \in Nat

VARIABLES
    slot,       \* Clock::get()?.slot
    addresses,  \* addresses created so far (Light address tree)
    leaves,     \* every compressed account ever output, in order (state tree)
    nullified,  \* positions of leaves consumed as inputs (nullifier queue)
    events      \* VrfProofCommitted entries in the transaction logs

vars == <<slot, addresses, leaves, nullified, events>>

-----------------------------------------------------------------------------
(* Records (state.rs, events.rs)                                           *)

VrfAuthority ==
    [owner: Pubkeys, pk: Pks, suite: Suites, frozen: BOOLEAN,
     revoked: BOOLEAN, label: Labels, created_slot: Nat]

\* derive_address hashes the seeds, the tree and the program id; the hash is
\* taken to be injective, so an address is the record of what was hashed.
derive_address(tree, prefix, scope, key) ==
    [tree |-> tree, prefix |-> prefix, scope |-> scope, key |-> key]

AuthorityAddress(tree, owner, label) ==
    derive_address(tree, "vrf_authority", owner, label)

CommitAddress(tree, authority, memo_hash) ==
    derive_address(tree, "vrf_proof", authority, memo_hash)

AuthorityAddresses ==
    [tree: {ADDRESS_TREE_V2}, prefix: {"vrf_authority"}, scope: Pubkeys,
     key: Labels]

CommitAddresses ==
    [tree: {ADDRESS_TREE_V2}, prefix: {"vrf_proof"}, scope: AuthorityAddresses,
     key: MemoHashes]

VrfProofCommit ==
    [authority: AuthorityAddresses, memo_hash: MemoHashes,
     proof_hash: ProofHashes, alpha_hash: AlphaHashes, committed_slot: Nat]

VrfProofCommitWithBeta ==
    [authority: AuthorityAddresses, memo_hash: MemoHashes,
     proof_hash: ProofHashes, alpha_hash: AlphaHashes,
     beta_lo: BetaHalves, beta_hi: BetaHalves, committed_slot: Nat]

VrfProofCommitted ==
    [owner: Pubkeys, label: Labels, memo_hash: MemoHashes,
     proof_hash: ProofHashes, alpha_hash: AlphaHashes, committed_slot: Nat]

\* A compressed account: the type discriminator, the address and the data are
\* all part of the leaf hash.
Account(disc, address, data) ==
    [disc |-> disc, address |-> address, data |-> data]

CommitDiscs == {"VrfProofCommit", "VrfProofCommitWithBeta"}

Accounts ==
    [disc: {"VrfAuthority"}, address: AuthorityAddresses, data: VrfAuthority]
    \cup [disc: {"VrfProofCommit"}, address: CommitAddresses,
          data: VrfProofCommit]
    \cup [disc: {"VrfProofCommitWithBeta"}, address: CommitAddresses,
          data: VrfProofCommitWithBeta]

-----------------------------------------------------------------------------
(* The Light system program (external), as the handlers use it.            *)

\* The proof of an input account: the claimed record is the leaf that the meta
\* names, and that leaf is unspent.
LightInput(meta, account) ==
    /\ meta.leaf \in DOMAIN leaves \ nullified
    /\ leaves[meta.leaf] = account

\* Mutant: an address can be created again.
LightAnyAddress(address) == TRUE

\* An address can be created once.
LightNewAddress(address) == address \notin addresses

LightOutput(account) ==
    /\ Len(leaves) < MaxLeaves
    /\ leaves' = Append(leaves, account)

-----------------------------------------------------------------------------
(* Checks the handlers share.                                              *)

\* Mutant: the tree of new_address_params is taken as given.
AddressTreeUnchecked(tree) == tree \in AddressTrees

AddressTreeOk(tree) == tree = ADDRESS_TREE_V2

OwnerOk(owner, current_authority) == current_authority.owner = owner

\* Mutant: the frozen check is missing.
CommitGuardUnfrozen(owner, current_authority) ==
    /\ OwnerOk(owner, current_authority)
    /\ ~current_authority.revoked

CommitGuard(owner, current_authority) ==
    /\ OwnerOk(owner, current_authority)
    /\ current_authority.frozen
    /\ ~current_authority.revoked

-----------------------------------------------------------------------------
(* Instructions.                                                           *)

InitAuthority(owner, tree, pk, suite, label) ==
    /\ suite = SUITE_EDWARDS25519_SHA512_TAI
    /\ AddressTreeOk(tree)
    /\ LET address == AuthorityAddress(tree, owner, label)
       IN  /\ LightNewAddress(address)
           /\ addresses' = addresses \cup {address}
           /\ LightOutput(Account("VrfAuthority", address,
                  [owner |-> owner, pk |-> pk, suite |-> suite,
                   frozen |-> FALSE, revoked |-> FALSE, label |-> label,
                   created_slot |-> slot]))
    /\ UNCHANGED <<slot, nullified, events>>

\* Mutant: the changed record is output as a new leaf, the old one stays.
MutateWithoutNullify(current_authority, account_meta, new_authority) ==
    /\ LightInput(account_meta,
           Account("VrfAuthority", account_meta.address, current_authority))
    /\ LightOutput(
           Account("VrfAuthority", account_meta.address, new_authority))
    /\ UNCHANGED <<slot, addresses, nullified, events>>

\* Mutant: the proof covers the data of the input, its address is the caller's.
MutateAtCallersAddress(current_authority, account_meta, new_authority) ==
    /\ \E address \in addresses :
          LightInput(account_meta,
              Account("VrfAuthority", address, current_authority))
    /\ nullified' = nullified \cup {account_meta.leaf}
    /\ LightOutput(
           Account("VrfAuthority", account_meta.address, new_authority))
    /\ UNCHANGED <<slot, addresses, events>>

\* Mutant: the input may be a version that was spent before.
MutateStale(current_authority, account_meta, new_authority) ==
    /\ leaves[account_meta.leaf] =
           Account("VrfAuthority", account_meta.address, current_authority)
    /\ nullified' = nullified \cup {account_meta.leaf}
    /\ LightOutput(
           Account("VrfAuthority", account_meta.address, new_authority))
    /\ UNCHANGED <<slot, addresses, events>>

\* new_mut: the claimed leaf is consumed and the changed record is output at
\* the same address.
MutateAuthority(current_authority, account_meta, new_authority) ==
    /\ LightInput(account_meta,
           Account("VrfAuthority", account_meta.address, current_authority))
    /\ nullified' = nullified \cup {account_meta.leaf}
    /\ LightOutput(
           Account("VrfAuthority", account_meta.address, new_authority))
    /\ UNCHANGED <<slot, addresses, events>>

\* Mutant: freezing rebuilds the flags.
FreezeClearsRevoked(owner, current_authority, account_meta) ==
    /\ OwnerOk(owner, current_authority)
    /\ ~current_authority.frozen
    /\ MutateAuthority(current_authority, account_meta,
           [current_authority EXCEPT !.frozen = TRUE, !.revoked = FALSE])

FreezeAuthority(owner, current_authority, account_meta) ==
    /\ OwnerOk(owner, current_authority)
    /\ ~current_authority.frozen
    /\ MutateAuthority(current_authority, account_meta,
                       [current_authority EXCEPT !.frozen = TRUE])

RevokeAuthority(owner, current_authority, account_meta) ==
    /\ OwnerOk(owner, current_authority)
    /\ MutateAuthority(current_authority, account_meta,
                       [current_authority EXCEPT !.revoked = TRUE])

\* Mutant: the read-only input is not checked against the nullifiers.
ReadAuthorityStale(current_authority, account_meta) ==
    /\ account_meta.leaf \in DOMAIN leaves
    /\ leaves[account_meta.leaf] =
           Account("VrfAuthority", account_meta.address, current_authority)

\* new_read_only: the claimed leaf must be unspent and stays so.
ReadAuthority(current_authority, account_meta) ==
    LightInput(account_meta,
        Account("VrfAuthority", account_meta.address, current_authority))

\* Mutant: each commit type has seeds of its own.
CreateCommitPerType(current_authority, account_meta, tree, disc, data) ==
    LET address == derive_address(tree, disc, account_meta.address,
                                  data.memo_hash)
    IN  /\ AddressTreeOk(tree)
        /\ ReadAuthority(current_authority, account_meta)
        /\ LightNewAddress(address)
        /\ addresses' = addresses \cup {address}
        /\ LightOutput(Account(disc, address, data))
        /\ UNCHANGED <<slot, nullified, events>>

\* Mutant: a commit at an address in use replaces the one before.
CreateCommitUpsert(current_authority, account_meta, tree, disc, data) ==
    LET address == CommitAddress(tree, account_meta.address, data.memo_hash)
    IN  /\ AddressTreeOk(tree)
        /\ ReadAuthority(current_authority, account_meta)
        /\ nullified' = nullified \cup
               {i \in DOMAIN leaves : leaves[i].address = address}
        /\ addresses' = addresses \cup {address}
        /\ LightOutput(Account(disc, address, data))
        /\ UNCHANGED <<slot, events>>

\* The part the two registry commits share: the commit is scoped by the address
\* in the account meta, which the handlers do not re-derive.
CreateCommit(current_authority, account_meta, tree, disc, data) ==
    LET address == CommitAddress(tree, account_meta.address, data.memo_hash)
    IN  /\ AddressTreeOk(tree)
        /\ ReadAuthority(current_authority, account_meta)
        /\ LightNewAddress(address)
        /\ addresses' = addresses \cup {address}
        /\ LightOutput(Account(disc, address, data))
        /\ UNCHANGED <<slot, nullified, events>>

CommitProof(owner, current_authority, account_meta, tree, memo_hash, proof_hash, alpha_hash) ==
    /\ CommitGuard(owner, current_authority)
    /\ CreateCommit(current_authority, account_meta, tree, "VrfProofCommit",
           [authority |-> account_meta.address, memo_hash |-> memo_hash,
            proof_hash |-> proof_hash, alpha_hash |-> alpha_hash,
            committed_slot |-> slot])

CommitProofWithBeta(owner, current_authority, account_meta, tree, memo_hash, proof_hash, alpha_hash, beta_lo, beta_hi) ==
    /\ CommitGuard(owner, current_authority)
    /\ CreateCommit(current_authority, account_meta, tree,
           "VrfProofCommitWithBeta",
           [authority |-> account_meta.address, memo_hash |-> memo_hash,
            proof_hash |-> proof_hash, alpha_hash |-> alpha_hash,
            beta_lo |-> beta_lo, beta_hi |-> beta_hi,
            committed_slot |-> slot])

CommitProofEvent(owner, current_authority, account_meta, label, memo_hash, proof_hash, alpha_hash) ==
    /\ CommitGuard(owner, current_authority)
    /\ current_authority.label = label
    /\ account_meta.address = AuthorityAddress(ADDRESS_TREE_V2, owner, label)
    /\ ReadAuthority(current_authority, account_meta)
    /\ Len(events) < MaxEvents
    /\ events' = Append(events,
           [owner |-> owner, label |-> label, memo_hash |-> memo_hash,
            proof_hash |-> proof_hash, alpha_hash |-> alpha_hash,
            committed_slot |-> slot])
    /\ UNCHANGED <<slot, addresses, leaves, nullified>>

\* The cluster's clock (external).
AdvanceSlot ==
    /\ slot < MaxSlot
    /\ slot' = slot + 1
    /\ UNCHANGED <<addresses, leaves, nullified, events>>

-----------------------------------------------------------------------------
Init ==
    /\ slot = 0
    /\ addresses = {}
    /\ leaves = <<>>
    /\ nullified = {}
    /\ events = <<>>

\* Records a caller can claim to be current, and account metas a caller can
\* pass: any leaf position, spent or not, with any address already created.
Claims == [owner: Pubkeys, pk: Pks, suite: Suites, frozen: BOOLEAN,
           revoked: BOOLEAN, label: Labels, created_slot: 0..slot]

Metas == [leaf: DOMAIN leaves, address: addresses]

Next ==
    \/ AdvanceSlot
    \/ \E owner \in Pubkeys :
        \/ \E tree \in AddressTrees, pk \in Pks, suite \in Suites,
              label \in Labels : InitAuthority(owner, tree, pk, suite, label)
        \/ \E claim \in Claims, meta \in Metas :
            \/ FreezeAuthority(owner, claim, meta)
            \/ RevokeAuthority(owner, claim, meta)
            \/ \E m \in MemoHashes, p \in ProofHashes, a \in AlphaHashes :
                \/ \E tree \in AddressTrees :
                    \/ CommitProof(owner, claim, meta, tree, m, p, a)
                    \/ \E lo, hi \in BetaHalves :
                        CommitProofWithBeta(owner, claim, meta, tree, m, p, a,
                                            lo, hi)
                \/ \E label \in Labels :
                    CommitProofEvent(owner, claim, meta, label, m, p, a)

Spec == Init /\ [][Next]_vars

-----------------------------------------------------------------------------
(* Views of the state.                                                     *)

\* Positions of the unspent leaves.
Live == DOMAIN leaves \ nullified

AuthorityLeaves == {i \in DOMAIN leaves : leaves[i].disc = "VrfAuthority"}

CommitLeaves == {i \in DOMAIN leaves : leaves[i].disc \in CommitDiscs}

\* The current records of the authority at an address, the ones the program
\* would accept as read-only input (at most one: OneLiveLeaf).
Current(address) ==
    {leaves[i].data : i \in {j \in Live \cap AuthorityLeaves :
                                leaves[j].address = address}}

-----------------------------------------------------------------------------
(* Properties.                                                             *)

\* Every variable has its type: the trees hold well-formed accounts only.
TypeOK ==
    /\ slot \in Nat
    /\ addresses \subseteq AuthorityAddresses \cup CommitAddresses
    /\ leaves \in Seq(Accounts)
    /\ nullified \subseteq DOMAIN leaves
    /\ events \in Seq(VrfProofCommitted)

\* Each created address carries exactly one unspent leaf: freeze and revoke
\* never fork an account into two current versions, never lose it, and no
\* account exists without its address (init_authority.rs, freeze_authority.rs,
\* revoke_authority.rs).
OneLiveLeaf ==
    /\ \A i \in DOMAIN leaves : leaves[i].address \in addresses
    /\ \A a \in addresses : \E i \in Live : leaves[i].address = a
    /\ \A i, j \in Live : leaves[i].address = leaves[j].address => i = j

\* An authority record, in any version, lives at the address its own owner and
\* label derive.  commit_proof.rs:55 takes the scope of a commit from the
\* caller's meta and relies on this.
AuthorityAtItsSeeds ==
    \A i \in AuthorityLeaves :
        leaves[i].address =
            AuthorityAddress(ADDRESS_TREE_V2, leaves[i].data.owner,
                             leaves[i].data.label)

\* Every version of an authority has the supported suite and a creation slot
\* in the past.
AuthorityRecordsSound ==
    \A i \in AuthorityLeaves :
        /\ leaves[i].data.suite = SUITE_EDWARDS25519_SHA512_TAI
        /\ leaves[i].data.created_slot <= slot

\* A registry commit is never consumed and lives at the address that its own
\* authority and memo derive.
CommitAtItsSeeds ==
    \A i \in CommitLeaves :
        /\ i \in Live
        /\ leaves[i].address =
               CommitAddress(ADDRESS_TREE_V2, leaves[i].data.authority,
                             leaves[i].data.memo_hash)

\* (authority, memo_hash) is committed at most once over both registry modes
\* (commit_proof.rs:20-23, commit_proof_with_beta.rs:24-25).
OneCommitPerMemo ==
    \A i, j \in CommitLeaves :
        (/\ leaves[i].data.authority = leaves[j].data.authority
         /\ leaves[i].data.memo_hash = leaves[j].data.memo_hash) => i = j

\* The authority at an address is frozen now, with the supported suite, and was
\* created no later than slot s.
FrozenBy(address, s) ==
    \E d \in Current(address) :
        /\ d.frozen
        /\ d.suite = SUITE_EDWARDS25519_SHA512_TAI
        /\ d.created_slot <= s

\* What a registry commit or a log entry refers to is an authority that is
\* frozen now, has the supported suite, and is no younger than the commit.
\* For a log entry the authority is the one a verifier re-derives from
\* (owner, label), as events.rs:6-8 promises.
CommitsRestOnFrozenAuthority ==
    /\ \A i \in CommitLeaves :
        FrozenBy(leaves[i].data.authority, leaves[i].data.committed_slot)
    /\ \A i \in DOMAIN events :
        FrozenBy(AuthorityAddress(ADDRESS_TREE_V2, events[i].owner,
                                  events[i].label),
                 events[i].committed_slot)

\* The inductive invariant behind the theorems of CcVrfProofs: the safety
\* invariants, with what each kind of leaf carries that makes them inductive.
\* AuthorityAtItsSeeds and CommitAtItsSeeds tie the data of a leaf to its
\* address, which is what makes an address created once a record written once.
IndInv ==
    /\ TypeOK
    /\ OneLiveLeaf
    /\ AuthorityAtItsSeeds
    /\ AuthorityRecordsSound
    /\ CommitAtItsSeeds
    /\ CommitsRestOnFrozenAuthority

\* The current record of an authority never changes but for frozen and
\* revoked, which only rise: the key cannot be rotated (state.rs:7-9), not even
\* before freezing, when the website says that it can (LookupPage.tsx:247-249).
KeepsKeys ==
    \A a \in addresses : \A d \in Current(a) :
        \E e \in Current(a)' :
            /\ e = [d EXCEPT !.frozen = e.frozen, !.revoked = e.revoked]
            /\ d.frozen => e.frozen
            /\ d.revoked => e.revoked

KeyIsPermanent == [][KeepsKeys]_vars

\* A commitment made in a step is made under an authority that is, in the state
\* in which the step lands, frozen and not revoked.  A commit built from a
\* snapshot taken before a revocation does not land after it (the read-only
\* input of commit_proof.rs:90-95, commit_proof_event.rs:74-79).
CommitsUnderActive ==
    /\ \A i \in CommitLeaves' \ CommitLeaves :
        \E d \in Current(leaves'[i].data.authority) : d.frozen /\ ~d.revoked
    /\ \A i \in DOMAIN events' \ DOMAIN events :
        \E d \in Current(AuthorityAddress(ADDRESS_TREE_V2, events'[i].owner,
                                          events'[i].label)) :
            d.frozen /\ ~d.revoked

NoCommitUnderRevoked == [][CommitsUnderActive]_vars

\* A registry commit, once made, stays current and unchanged, and the log only
\* grows.
KeepsCommitments ==
    /\ \A i \in CommitLeaves : i \in Live' /\ leaves'[i] = leaves[i]
    /\ Len(events) <= Len(events')
    /\ \A i \in DOMAIN events : events'[i] = events[i]

CommitmentsArePermanent == [][KeepsCommitments]_vars
=============================================================================
