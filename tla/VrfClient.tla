----------------------------- MODULE VrfClient -----------------------------
(***************************************************************************)
(* The SDK's instruction builders (packages/vrf-client/src/operations.ts   *)
(* and light.ts) against the program.  A call reads the authority, checks  *)
(* it, asks for a validity proof, and the instruction it built lands later *)
(* or never.  Other calls run between any two of these steps, so a call    *)
(* may act on a snapshot that is stale by the time it lands, and a caller  *)
(* that saw no confirmation may run the same call again.                   *)
(***************************************************************************)
EXTENDS VrfChain

CONSTANT Calls      \* concurrent SDK calls, each made once

VARIABLE call   \* per call: its progress and what it holds

clientVars == <<vars, call>>

CommitKinds == {"commit", "commit-beta", "event"}

\* Inputs of the builders.  A proof need not be the one for alpha, and beta need
\* not be its hash: the builders check.
Inputs ==
    [kind: {"init"}, owner: Pubkeys, label: Labels, pk: Pks, suite: Suites]
    \cup [kind: {"freeze", "revoke"}, owner: Pubkeys, label: Labels]
    \cup [kind: {"commit", "event"}, owner: Pubkeys, label: Labels, memo: Memos,
          alpha: Alphas, proof: Vrf!Proofs]
    \cup [kind: {"commit-beta"}, owner: Pubkeys, label: Labels, memo: Memos,
          alpha: Alphas, proof: Vrf!Proofs, betaOf: Vrf!Gammas]

\* Steps of a call: "threw" is a rejected promise before submission; "landed"
\* and "rejected" are the fates of a transaction in the chain; "expired" one
\* that no leader included before its blockhash ran out.
Ended == {"threw", "landed", "rejected", "expired"}

-----------------------------------------------------------------------------
(* What the builders compute.                                              *)

AddressOf(input) == AuthorityAddress(ADDRESS_TREE_V2, input.owner, input.label)

CommitAddressOf(input) ==
    CommitAddress(ADDRESS_TREE_V2, AddressOf(input), Vrf!sha256(input.memo))

BetaIn(input) == <<Vrf!BetaHalf(input.betaOf, 1), Vrf!BetaHalf(input.betaOf, 2)>>

assertAuthorityCanCommit(auth) ==
    /\ auth.suite = SUITE_EDWARDS25519_SHA512_TAI
    /\ auth.frozen
    /\ ~auth.revoked

\* Mutant: the proof is not verified before it is committed.
acceptAnyProof(auth, input) == input.proof \in Vrf!Proofs

assertProofMatchesAuthority(auth, input) ==
    Vrf!verifyVRF(auth.pk, input.alpha, input.proof)

\* The checks of a builder on the authority it fetched.
BuilderChecks(input, auth) ==
    /\ input.kind \in CommitKinds =>
          /\ assertAuthorityCanCommit(auth)
          /\ assertProofMatchesAuthority(auth, input)
    /\ input.kind = "commit-beta" =>
          BetaIn(input) = Vrf!vrfProofToHash(input.proof)

\* Addresses the instruction will create.
NewAddresses(input) ==
    CASE input.kind = "init" -> {AddressOf(input)}
      [] input.kind \in {"commit", "commit-beta"} -> {CommitAddressOf(input)}
      [] OTHER -> {}

\* getValidityProofV0 (external) proves an unspent input and unused addresses,
\* in the state it is asked in.
ValidityProofAvailable(input, leaf) ==
    /\ input.kind # "init" => leaf \in Live
    /\ \A address \in NewAddresses(input) : LightNewAddress(address)

\* The handler behind a built instruction, with the snapshot the call holds.
Execute(input, leaf) ==
    LET claim == leaves[leaf].data
        meta == [leaf |-> leaf, address |-> leaves[leaf].address]
        m == Vrf!sha256(input.memo)
        p == Vrf!sha256(input.proof)
        a == Vrf!sha256(input.alpha)
    IN  CASE input.kind = "init" ->
               InitAuthority(input.owner, ADDRESS_TREE_V2, input.pk,
                             input.suite, input.label)
          [] input.kind = "freeze" ->
               FreezeAuthority(input.owner, claim, meta)
          [] input.kind = "revoke" ->
               RevokeAuthority(input.owner, claim, meta)
          [] input.kind = "commit" ->
               CommitProof(input.owner, claim, meta, ADDRESS_TREE_V2, m, p, a)
          [] input.kind = "commit-beta" ->
               CommitProofWithBeta(input.owner, claim, meta, ADDRESS_TREE_V2,
                   m, p, a, BetaIn(input)[1], BetaIn(input)[2])
          [] input.kind = "event" ->
               CommitProofEvent(input.owner, claim, meta, input.label, m, p, a)

\* The program accepts a built instruction when the snapshot is still current,
\* the new address is still unused, and, for freeze, the snapshot is unfrozen:
\* the builder of freeze does not look at the flag.
Accepts(input, leaf) ==
    /\ ValidityProofAvailable(input, leaf)
    /\ input.kind = "freeze" => ~leaves[leaf].data.frozen

-----------------------------------------------------------------------------
(* Actions.                                                                *)

Step(c, next) ==
    /\ call' = [call EXCEPT ![c] = next]
    /\ UNCHANGED vars

\* buildInitAuthorityIx up to its validity proof: no authority is fetched.
StartInit(c, input) ==
    /\ call[c].pc = "idle"
    /\ input.kind = "init"
    /\ IF input.suite = SUITE_EDWARDS25519_SHA512_TAI
       THEN Step(c, [pc |-> "fetched", input |-> input, leaf |-> 0])
       ELSE Step(c, [pc |-> "threw"])

\* The other builders fetch the authority and check it; they throw when there is
\* none or a check fails.
StartWithAuthority(c, input) ==
    /\ call[c].pc = "idle"
    /\ input.kind # "init"
    /\ LET found == {i \in Live : leaves[i].address = AddressOf(input)}
       IN  \/ /\ \A i \in found : ~BuilderChecks(input, leaves[i].data)
              /\ Step(c, [pc |-> "threw"])
           \/ \E i \in found :
                /\ BuilderChecks(input, leaves[i].data)
                /\ Step(c, [pc |-> "fetched", input |-> input, leaf |-> i])

\* Mutant: a validity proof that is refused is asked for again.
BuildWithRetry(c) ==
    /\ call[c].pc = "fetched"
    /\ ValidityProofAvailable(call[c].input, call[c].leaf)
    /\ Step(c, [call[c] EXCEPT !.pc = "submitted"])

\* The validity proof arrives (or the RPC rejects the request), and the caller
\* signs and submits.
BuildAndSubmit(c) ==
    /\ call[c].pc = "fetched"
    /\ IF ValidityProofAvailable(call[c].input, call[c].leaf)
       THEN Step(c, [call[c] EXCEPT !.pc = "submitted"])
       ELSE Step(c, [pc |-> "threw"])

\* The transaction is executed: its instruction succeeds or the transaction
\* fails without effect.
Land(c) ==
    /\ call[c].pc = "submitted"
    /\ Accepts(call[c].input, call[c].leaf)
    /\ Execute(call[c].input, call[c].leaf)
    /\ call' = [call EXCEPT ![c].pc = "landed"]

Reject(c) ==
    /\ call[c].pc = "submitted"
    /\ ~Accepts(call[c].input, call[c].leaf)
    /\ Step(c, [pc |-> "rejected"])

\* The cluster drops the transaction.
Expire(c) ==
    /\ call[c].pc = "submitted"
    /\ Step(c, [pc |-> "expired"])

Progress(c) == BuildAndSubmit(c) \/ Land(c) \/ Reject(c) \/ Expire(c)

ClientInit == Init /\ call = [c \in Calls |-> [pc |-> "idle"]]

ClientNext ==
    \/ AdvanceSlot /\ UNCHANGED call
    \/ \E c \in Calls :
        \/ \E input \in Inputs :
            StartInit(c, input) \/ StartWithAuthority(c, input)
        \/ Progress(c)

\* RPC requests settle, and the cluster executes or expires what it was sent.
ClientSpec ==
    /\ ClientInit /\ [][ClientNext]_clientVars
    /\ \A c \in Calls : WF_clientVars(Progress(c))

-----------------------------------------------------------------------------
(* Properties.                                                             *)

Landed == {c \in Calls : call[c].pc = "landed"}

\* Every commitment made through the SDK can be verified with the key the chain
\* shows now: the builders check the proof off-chain against a snapshot, and
\* neither the key nor the commitment can have changed when they land.
SdkCommitsVerify ==
    /\ \A i \in CommitLeaves : \A d \in Current(leaves[i].data.authority) :
        \E alpha \in Alphas, proof \in Vrf!Proofs :
            /\ leaves[i].data.alpha_hash = Vrf!sha256(alpha)
            /\ leaves[i].data.proof_hash = Vrf!sha256(proof)
            /\ Vrf!verifyVRF(d.pk, alpha, proof)
            /\ leaves[i].disc = "VrfProofCommitWithBeta" =>
                  <<leaves[i].data.beta_lo, leaves[i].data.beta_hi>> =
                      Vrf!vrfProofToHash(proof)
    /\ \A i \in DOMAIN events :
        \A d \in Current(AuthorityAddress(ADDRESS_TREE_V2, events[i].owner,
                                          events[i].label)) :
        \E alpha \in Alphas, proof \in Vrf!Proofs :
            /\ events[i].alpha_hash = Vrf!sha256(alpha)
            /\ events[i].proof_hash = Vrf!sha256(proof)
            /\ Vrf!verifyVRF(d.pk, alpha, proof)

\* A landed call took effect and nothing undoes it: an authority that was
\* frozen (revoked) through the SDK is so now, whichever stale snapshots landed
\* or were refused meanwhile, and a registry commit holds the proof it was
\* called with.
LandedTookEffect ==
    \A c \in Landed :
        LET input == call[c].input
        IN  \E d \in Current(AddressOf(input)) :
              /\ input.kind = "init" => d.pk = input.pk
              /\ input.kind = "freeze" => d.frozen
              /\ input.kind = "revoke" => d.revoked
              /\ input.kind \in {"commit", "commit-beta"} =>
                    \E i \in Live \cap CommitLeaves :
                        /\ leaves[i].address = CommitAddressOf(input)
                        /\ leaves[i].data.proof_hash = Vrf!sha256(input.proof)
                        /\ leaves[i].data.alpha_hash = Vrf!sha256(input.alpha)

\* A caller that lost the confirmation may repeat a registry commit or an init:
\* of all calls for one address at most one lands.  (An event may land twice.)
RetryLandsOnce ==
    \A c, d \in Landed :
        NewAddresses(call[c].input) \cap NewAddresses(call[d].input) # {}
            => c = d

\* Every call that began ends: with a result, an error or an expired
\* transaction.
CallsEnd == \A c \in Calls : call[c].pc # "idle" ~> call[c].pc \in Ended
=============================================================================
