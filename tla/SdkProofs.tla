---------------------------- MODULE SdkProofs -----------------------------
(***************************************************************************)
(* Proofs about the SDK: VrfClient, for every number of concurrent calls   *)
(* with any inputs, what a landed call has done to the chain; Verifier,    *)
(* for every operator, every number of consumers and every chain, what an  *)
(* accepted verification rests on.                                         *)
(***************************************************************************)
EXTENDS VrfClient, Verifier, CcVrfProofs

-----------------------------------------------------------------------------
(* The inputs of the builders and the handlers behind them.                *)

LEMMA InputFacts ==
    ASSUME NEW input \in Inputs
    PROVE  /\ input.owner \in Pubkeys /\ input.label \in Labels
           /\ input.kind \in {"init", "freeze", "revoke"} \cup CommitKinds
           /\ input.kind = "init" => input.pk \in Pks /\ input.suite \in Suites
           /\ input.kind \in CommitKinds =>
                input.memo \in Memos /\ input.alpha \in Alphas
                  /\ input.proof \in Vrf!Proofs
           /\ input.kind = "commit-beta" => input.betaOf \in Vrf!Gammas
  BY DEF Inputs, CommitKinds

\* The instruction that each builder makes.
LEMMA ExecuteByKind ==
    ASSUME NEW input, NEW leaf, Execute(input, leaf)
    PROVE  LET claim == leaves[leaf].data
               meta == [leaf |-> leaf, address |-> leaves[leaf].address]
               m == Vrf!sha256(input.memo)
               p == Vrf!sha256(input.proof)
               a == Vrf!sha256(input.alpha)
           IN  /\ input.kind = "init" =>
                    InitAuthority(input.owner, ADDRESS_TREE_V2, input.pk,
                                  input.suite, input.label)
               /\ input.kind = "freeze" =>
                    FreezeAuthority(input.owner, claim, meta)
               /\ input.kind = "revoke" =>
                    RevokeAuthority(input.owner, claim, meta)
               /\ input.kind = "commit" =>
                    CommitProof(input.owner, claim, meta, ADDRESS_TREE_V2,
                                m, p, a)
               /\ input.kind = "commit-beta" =>
                    CommitProofWithBeta(input.owner, claim, meta,
                        ADDRESS_TREE_V2, m, p, a, BetaIn(input)[1],
                        BetaIn(input)[2])
               /\ input.kind = "event" =>
                    CommitProofEvent(input.owner, claim, meta, input.label,
                                     m, p, a)
  BY DEF Execute

-----------------------------------------------------------------------------
(* The invariant of a call.                                                *)

\* What a builder that passed its checks holds: a version of the authority, in
\* a leaf that is never rewritten.
Built(input, leaf) ==
    /\ input \in Inputs
    /\ input.kind # "init" =>
          /\ leaf \in AuthorityLeaves
          /\ leaves[leaf].address = AddressOf(input)
          /\ BuilderChecks(input, leaves[leaf].data)

\* The type of account that a registry commit creates.
DiscOf(input) ==
    IF input.kind = "commit" THEN "VrfProofCommit" ELSE "VrfProofCommitWithBeta"

\* The entry that a logged commitment makes.
Logs(input, ev) ==
    /\ ev.owner = input.owner /\ ev.label = input.label
    /\ ev.memo_hash = Vrf!sha256(input.memo)
    /\ ev.proof_hash = Vrf!sha256(input.proof)
    /\ ev.alpha_hash = Vrf!sha256(input.alpha)

\* The effect of a landed call is there.
Effect(input) ==
    /\ input \in Inputs
    /\ \E d \in Current(AddressOf(input)) :
          /\ input.kind = "init" => d.pk = input.pk
          /\ input.kind = "freeze" => d.frozen
          /\ input.kind = "revoke" => d.revoked
    /\ input.kind \in {"commit", "commit-beta"} =>
          \E i \in Live \cap CommitLeaves :
              /\ leaves[i].address = CommitAddressOf(input)
              /\ leaves[i].disc = DiscOf(input)
              /\ leaves[i].data.proof_hash = Vrf!sha256(input.proof)
              /\ leaves[i].data.alpha_hash = Vrf!sha256(input.alpha)
    /\ input.kind = "event" => \E i \in DOMAIN events : Logs(input, events[i])
    /\ NewAddresses(input) \subseteq addresses

\* A call between its fetch and its fate.
Held(s) ==
    /\ s = [pc |-> s.pc, input |-> s.input, leaf |-> s.leaf]
    /\ Built(s.input, s.leaf)

CallInv ==
    /\ DOMAIN call = Calls
    /\ \A c \in Calls :
        /\ call[c].pc \in {"fetched", "submitted"} => Held(call[c])
        /\ call[c].pc = "landed" => Effect(call[c].input)

\* A committed pair of hashes is of an input and a proof that verifies with pk.
HashesVerify(pk, data) ==
    \E alpha \in Alphas, proof \in Vrf!Proofs :
        /\ data.alpha_hash = Vrf!sha256(alpha)
        /\ data.proof_hash = Vrf!sha256(proof)
        /\ Vrf!verifyVRF(pk, alpha, proof)

\* The same with the halves of beta.
LeafVerifies(pk, account) ==
    \E alpha \in Alphas, proof \in Vrf!Proofs :
        /\ account.data.alpha_hash = Vrf!sha256(alpha)
        /\ account.data.proof_hash = Vrf!sha256(proof)
        /\ Vrf!verifyVRF(pk, alpha, proof)
        /\ account.disc = "VrfProofCommitWithBeta" =>
              <<account.data.beta_lo, account.data.beta_hi>> =
                  Vrf!vrfProofToHash(proof)

ClientInv ==
    /\ IndInv
    /\ CallInv
    /\ SdkCommitsVerify
    /\ RetryLandsOnce

\* SdkCommitsVerify by its two parts.
LEMMA SdkCommits ==
    SdkCommitsVerify <=>
        /\ \A i \in CommitLeaves : \A d \in Current(leaves[i].data.authority) :
              LeafVerifies(d.pk, leaves[i])
        /\ \A i \in DOMAIN events :
              \A d \in Current(AuthorityAddress(ADDRESS_TREE_V2,
                                   events[i].owner, events[i].label)) :
                  HashesVerify(d.pk, events[i])
  BY DEF SdkCommitsVerify, LeafVerifies, HashesVerify

LEMMA SdkCommitsPrime ==
    SdkCommitsVerify' <=>
        /\ \A i \in CommitLeaves' :
              \A d \in Current(leaves[i].data.authority)' :
                  LeafVerifies(d.pk, leaves'[i])
        /\ \A i \in DOMAIN events' :
              \A d \in Current(AuthorityAddress(ADDRESS_TREE_V2,
                                   events[i].owner, events[i].label))' :
                  HashesVerify(d.pk, events'[i])
  BY DEF SdkCommitsVerify, LeafVerifies, HashesVerify

-----------------------------------------------------------------------------
(* What the program's steps keep.                                          *)

LEMMA BuiltKept ==
    ASSUME IndInv, [Next]_vars, NEW input, NEW leaf, Built(input, leaf)
    PROVE  Built(input, leaf)'
  <1>1. \A i \in DOMAIN leaves : i \in DOMAIN leaves' /\ leaves'[i] = leaves[i]
    BY LeavesKept
  <1> QED BY <1>1 DEF Built, AuthorityLeaves

LEMMA EventsKept ==
    ASSUME IndInv, [Next]_vars
    PROVE  \A i \in DOMAIN events : i \in DOMAIN events' /\ events'[i] = events[i]
  <1>1. /\ events \in Seq(VrfProofCommitted) /\ events' \in Seq(VrfProofCommitted)
        /\ Len(events) <= Len(events')
        /\ \A i \in DOMAIN events : events'[i] = events[i]
    BY StepKeepsCommitments, NextPreserves DEF KeepsCommitments, IndInv, TypeOK
  <1> QED BY <1>1

LEMMA EffectKept ==
    ASSUME IndInv, [Next]_vars, NEW input, Effect(input)
    PROVE  Effect(input)'
  <1>1. PICK d \in Current(AddressOf(input)) :
            /\ input.kind = "init" => d.pk = input.pk
            /\ input.kind = "freeze" => d.frozen
            /\ input.kind = "revoke" => d.revoked
    BY DEF Effect
  <1>2. PICK e \in Current(AddressOf(input))' : LaterVersion(d, e)
    BY HasLaterVersion
  <1>3. /\ input.kind = "init" => e.pk = input.pk
        /\ input.kind = "freeze" => e.frozen
        /\ input.kind = "revoke" => e.revoked
    BY <1>1, <1>2 DEF LaterVersion
  <1>4. \A i \in CommitLeaves :
            i \in Live' /\ leaves'[i] = leaves[i] /\ i \in CommitLeaves'
    BY StepKeepsCommitments DEF KeepsCommitments, CommitLeaves, Live
  <1>5. input.kind \in {"commit", "commit-beta"} =>
          \E i \in Live' \cap CommitLeaves' :
              /\ leaves'[i].address = CommitAddressOf(input)
              /\ leaves'[i].disc = DiscOf(input)
              /\ leaves'[i].data.proof_hash = Vrf!sha256(input.proof)
              /\ leaves'[i].data.alpha_hash = Vrf!sha256(input.alpha)
    BY <1>4 DEF Effect
  <1>6. NewAddresses(input) \subseteq addresses'
    BY LeavesKept DEF Effect
  <1>7. \E f \in Current(AddressOf(input))' :
            /\ input.kind = "init" => f.pk = input.pk
            /\ input.kind = "freeze" => f.frozen
            /\ input.kind = "revoke" => f.revoked
    BY <1>2, <1>3
  <1>8. input \in Inputs
    BY DEF Effect
  <1>9. input.kind = "event" => \E i \in DOMAIN events' : Logs(input, events'[i])
    <2>1. \A i \in DOMAIN events : i \in DOMAIN events' /\ events'[i] = events[i]
      BY EventsKept
    <2> QED BY <2>1 DEF Effect
  <1> QED BY <1>5, <1>6, <1>7, <1>8, <1>9 DEF Effect, DiscOf, Logs

\* The key of an authority is the one it had.
LEMMA KeyKept ==
    ASSUME IndInv, [Next]_vars, NEW a, NEW d \in Current(a),
           NEW e \in Current(a)'
    PROVE  e.pk = d.pk
  <1>1. PICK f \in Current(a)' : LaterVersion(d, f)
    BY HasLaterVersion
  <1>2. \A i, j \in Live' : leaves'[i].address = leaves'[j].address => i = j
    BY NextPreserves DEF IndInv, OneLiveLeaf
  <1>3. e = f
    BY <1>1, <1>2 DEF Current
  <1> QED BY <1>1, <1>3 DEF LaterVersion

\* A commitment that was there verifies with the key that is current after the
\* step.
LEMMA OldCommitsVerify ==
    ASSUME IndInv, [Next]_vars, SdkCommitsVerify
    PROVE  /\ \A i \in CommitLeaves :
                \A d \in Current(leaves[i].data.authority)' :
                    LeafVerifies(d.pk, leaves'[i])
           /\ \A i \in DOMAIN events :
                \A d \in Current(AuthorityAddress(ADDRESS_TREE_V2,
                                     events[i].owner, events[i].label))' :
                    HashesVerify(d.pk, events'[i])
  <1>1. ASSUME NEW i \in CommitLeaves,
               NEW e \in Current(leaves[i].data.authority)'
        PROVE  LeafVerifies(e.pk, leaves'[i])
    <2>1. leaves'[i] = leaves[i]
      BY StepKeepsCommitments DEF KeepsCommitments
    <2>2. PICK a : a = leaves[i].data.authority
      OBVIOUS
    <2>3. e \in Current(a)'
      BY <2>1, <2>2 DEF Current
    <2>4. PICK d \in Current(a) : TRUE
      BY <2>2 DEF IndInv, CommitsRestOnFrozenAuthority, FrozenBy
    <2>5. e.pk = d.pk
      BY <2>3, <2>4, KeyKept
    <2> QED BY <2>1, <2>2, <2>4, <2>5, SdkCommits
  <1>2. ASSUME NEW i \in DOMAIN events,
               NEW e \in Current(AuthorityAddress(ADDRESS_TREE_V2,
                                     events[i].owner, events[i].label))'
        PROVE  HashesVerify(e.pk, events'[i])
    <2>1. events'[i] = events[i]
      BY StepKeepsCommitments DEF KeepsCommitments
    <2>2. PICK a : a = AuthorityAddress(ADDRESS_TREE_V2, events[i].owner,
                                        events[i].label)
      OBVIOUS
    <2>3. e \in Current(a)'
      BY <2>1, <2>2 DEF Current
    <2>4. PICK d \in Current(a) : TRUE
      BY <2>2 DEF IndInv, CommitsRestOnFrozenAuthority, FrozenBy
    <2>5. e.pk = d.pk
      BY <2>3, <2>4, KeyKept
    <2> QED BY <2>1, <2>2, <2>4, <2>5, SdkCommits
  <1> QED BY <1>1, <1>2

-----------------------------------------------------------------------------
(* A transaction lands.                                                    *)

\* What the landing transaction appends to the state tree.
LEMMA AppendedLeaf ==
    ASSUME IndInv, NEW acc, LightOutput(acc)
    PROVE  \E n \in DOMAIN leaves' :
             /\ n \notin DOMAIN leaves
             /\ leaves'[n] = acc
             /\ \A i \in DOMAIN leaves' : i \in DOMAIN leaves \/ i = n
  <1>1. Len(leaves) + 1 \in DOMAIN leaves' /\ Len(leaves) + 1 \notin DOMAIN leaves
        /\ leaves'[Len(leaves) + 1] = acc
        /\ \A i \in DOMAIN leaves' : i \in DOMAIN leaves \/ i = Len(leaves) + 1
    BY DEF IndInv, TypeOK, LightOutput
  <1> QED BY <1>1

\* A snapshot that is still current.
LEMMA SnapshotFacts ==
    ASSUME IndInv, NEW input, NEW leaf, Built(input, leaf),
           Accepts(input, leaf), input.kind # "init"
    PROVE  /\ leaf \in Live \cap AuthorityLeaves
           /\ leaves[leaf].data \in Current(AddressOf(input))
           /\ leaves[leaf].data \in VrfAuthority
  <1>1. leaf \in Live \cap AuthorityLeaves
    BY DEF Built, Accepts, ValidityProofAvailable
  <1>2. leaves[leaf].data \in Current(AddressOf(input))
    BY <1>1 DEF Built, Current
  <1>3. leaves[leaf] \in Accounts /\ leaves[leaf].disc = "VrfAuthority"
    BY <1>1 DEF Live, AuthorityLeaves, IndInv, TypeOK
  <1> QED BY <1>1, <1>2, <1>3, AccountShape

\* An instruction that the SDK built is a step of the program.
LEMMA LandIsProgram ==
    ASSUME IndInv, NEW input, NEW leaf, Built(input, leaf),
           Accepts(input, leaf), Execute(input, leaf)
    PROVE  Next
  <1>1. input \in Inputs
    BY DEF Built
  <1>2. /\ input.owner \in Pubkeys /\ input.label \in Labels
        /\ input.kind \in {"init", "freeze", "revoke"} \cup CommitKinds
        /\ input.kind = "init" => input.pk \in Pks /\ input.suite \in Suites
        /\ input.kind \in CommitKinds =>
             input.memo \in Memos /\ input.alpha \in Alphas
               /\ input.proof \in Vrf!Proofs
        /\ input.kind = "commit-beta" => input.betaOf \in Vrf!Gammas
    BY <1>1, InputFacts
  <1>3. ADDRESS_TREE_V2 \in AddressTrees
    BY ConstantsAssumption
  <1>4. CASE input.kind = "init"
    <2>1. InitAuthority(input.owner, ADDRESS_TREE_V2, input.pk, input.suite,
                        input.label)
      BY <1>4, ExecuteByKind
    <2> QED BY <1>2, <1>3, <1>4, <2>1 DEF Next
  <1>5. CASE input.kind # "init"
    <2> DEFINE claim == leaves[leaf].data
               meta == [leaf |-> leaf, address |-> leaves[leaf].address]
               m == Vrf!sha256(input.memo)
               p == Vrf!sha256(input.proof)
               a == Vrf!sha256(input.alpha)
    <2>1. claim \in Claims /\ meta \in Metas
      BY <1>5, SnapshotFacts, CurrentClaim
    <2>2. input.kind \in CommitKinds =>
            m \in MemoHashes /\ p \in ProofHashes /\ a \in AlphaHashes
      BY <1>2, HashesAssumption
    <2>3. input.kind = "commit-beta" =>
            BetaIn(input)[1] \in BetaHalves /\ BetaIn(input)[2] \in BetaHalves
      BY <1>2, HashesAssumption DEF BetaIn
    <2>4. /\ input.kind = "freeze" => FreezeAuthority(input.owner, claim, meta)
          /\ input.kind = "revoke" => RevokeAuthority(input.owner, claim, meta)
          /\ input.kind = "commit" =>
               CommitProof(input.owner, claim, meta, ADDRESS_TREE_V2, m, p, a)
          /\ input.kind = "commit-beta" =>
               CommitProofWithBeta(input.owner, claim, meta, ADDRESS_TREE_V2,
                   m, p, a, BetaIn(input)[1], BetaIn(input)[2])
          /\ input.kind = "event" =>
               CommitProofEvent(input.owner, claim, meta, input.label, m, p, a)
      BY ExecuteByKind
    <2> HIDE DEF claim, meta, m, p, a
    <2>5. CASE input.kind = "freeze"
      BY <1>2, <2>1, <2>4, <2>5 DEF Next
    <2>6. CASE input.kind = "revoke"
      BY <1>2, <2>1, <2>4, <2>6 DEF Next
    <2>7. CASE input.kind = "commit"
      BY <1>2, <1>3, <2>1, <2>2, <2>4, <2>7 DEF Next, CommitKinds
    <2>8. CASE input.kind = "commit-beta"
      BY <1>2, <1>3, <2>1, <2>2, <2>3, <2>4, <2>8 DEF Next, CommitKinds
    <2>9. CASE input.kind = "event"
      BY <1>2, <2>1, <2>2, <2>4, <2>9 DEF Next, CommitKinds
    <2> QED BY <1>2, <1>5, <2>5, <2>6, <2>7, <2>8, <2>9 DEF CommitKinds
  <1> QED BY <1>4, <1>5

\* What a registry commit that lands puts into the tree.
LEMMA CommitLanded ==
    ASSUME IndInv, NEW input, NEW leaf, Built(input, leaf),
           Accepts(input, leaf), Execute(input, leaf),
           input.kind \in {"commit", "commit-beta"}
    PROVE  /\ UNCHANGED <<nullified, events>>
           /\ addresses' = addresses \cup {CommitAddressOf(input)}
           /\ \E disc, data :
                /\ LightOutput(Account(disc, CommitAddressOf(input), data))
                /\ disc \in CommitDiscs /\ disc = DiscOf(input)
                /\ data.authority = AddressOf(input)
                /\ data.proof_hash = Vrf!sha256(input.proof)
                /\ data.alpha_hash = Vrf!sha256(input.alpha)
                /\ disc = "VrfProofCommitWithBeta" =>
                     <<data.beta_lo, data.beta_hi>> =
                         Vrf!vrfProofToHash(input.proof)
  <1> DEFINE claim == leaves[leaf].data
             meta == [leaf |-> leaf, address |-> leaves[leaf].address]
             m == Vrf!sha256(input.memo)
             p == Vrf!sha256(input.proof)
             a == Vrf!sha256(input.alpha)
  <1>1. meta.address = AddressOf(input) /\ BuilderChecks(input, claim)
    BY DEF Built
  <1>2. CASE input.kind = "commit"
    <2> DEFINE data == [authority |-> meta.address, memo_hash |-> m,
                        proof_hash |-> p, alpha_hash |-> a,
                        committed_slot |-> slot]
    <2>1. CommitProof(input.owner, claim, meta, ADDRESS_TREE_V2, m, p, a)
      BY <1>2, ExecuteByKind
    <2>2. CreateCommit(claim, meta, ADDRESS_TREE_V2, "VrfProofCommit", data)
      BY <2>1 DEF CommitProof
    <2>3. /\ data.authority = AddressOf(input) /\ data.memo_hash = m
          /\ data.proof_hash = p /\ data.alpha_hash = a
      BY <1>1
    <2> HIDE DEF claim, meta, data
    <2>4. DiscOf(input) = "VrfProofCommit"
      BY <1>2 DEF DiscOf
    <2> QED
      BY <1>1, <2>2, <2>3, <2>4 DEF CreateCommit, CommitAddressOf, CommitDiscs
  <1>3. CASE input.kind = "commit-beta"
    <2> DEFINE data == [authority |-> meta.address, memo_hash |-> m,
                        proof_hash |-> p, alpha_hash |-> a,
                        beta_lo |-> BetaIn(input)[1],
                        beta_hi |-> BetaIn(input)[2],
                        committed_slot |-> slot]
    <2>1. CommitProofWithBeta(input.owner, claim, meta, ADDRESS_TREE_V2, m, p, a,
                              BetaIn(input)[1], BetaIn(input)[2])
      BY <1>3, ExecuteByKind
    <2>2. CreateCommit(claim, meta, ADDRESS_TREE_V2, "VrfProofCommitWithBeta",
                       data)
      BY <2>1 DEF CommitProofWithBeta
    <2>3. /\ data.authority = AddressOf(input) /\ data.memo_hash = m
          /\ data.proof_hash = p /\ data.alpha_hash = a
          /\ data.beta_lo = BetaIn(input)[1] /\ data.beta_hi = BetaIn(input)[2]
      BY <1>1
    <2>4. <<BetaIn(input)[1], BetaIn(input)[2]>> = Vrf!vrfProofToHash(input.proof)
      BY <1>1, <1>3 DEF BuilderChecks, BetaIn
    <2>5. DiscOf(input) = "VrfProofCommitWithBeta"
      BY <1>3 DEF DiscOf
    <2> HIDE DEF claim, meta, data
    <2> QED
      BY <1>1, <2>2, <2>3, <2>4, <2>5 DEF CreateCommit, CommitAddressOf, CommitDiscs
  <1> QED BY <1>2, <1>3

\* A freeze or a revocation that lands raises its flag in the current record.
LEMMA MutationLanded ==
    ASSUME IndInv, NEW d \in VrfAuthority, NEW meta, NEW e,
           MutateAuthority(d, meta, e), RaisesFlag(d, e)
    PROVE  /\ e \in Current(meta.address)'
           /\ CommitLeaves' = CommitLeaves /\ UNCHANGED events
  <1> DEFINE acc == Account("VrfAuthority", meta.address, e)
  <1>1. /\ LightOutput(acc) /\ UNCHANGED events
        /\ nullified' = nullified \cup {meta.leaf}
        /\ meta.leaf \in DOMAIN leaves
    BY DEF MutateAuthority, LightInput
  <1>2. acc.disc = "VrfAuthority" /\ acc.address = meta.address /\ acc.data = e
    BY DEF Account
  <1> HIDE DEF acc
  <1>3. PICK n \in DOMAIN leaves' :
             /\ n \notin DOMAIN leaves
             /\ leaves'[n] = acc
             /\ \A i \in DOMAIN leaves' : i \in DOMAIN leaves \/ i = n
    BY <1>1, AppendedLeaf
  <1>4. n \notin nullified'
    BY <1>1, <1>3 DEF IndInv, TypeOK
  <1>5. e \in Current(meta.address)'
    BY <1>2, <1>3, <1>4 DEF Current, Live, AuthorityLeaves
  <1>6. \A i \in DOMAIN leaves : i \in DOMAIN leaves' /\ leaves'[i] = leaves[i]
    BY <1>1, OutputKeeps DEF IndInv
  <1>7. CommitLeaves' = CommitLeaves
    BY <1>2, <1>3, <1>6 DEF CommitLeaves, CommitDiscs
  <1> QED BY <1>1, <1>5, <1>7

\* What a landed initialisation leaves behind.
LEMMA InitLanded ==
    ASSUME IndInv, NEW input, NEW leaf, Execute(input, leaf),
           input.kind = "init"
    PROVE  /\ \E d \in Current(AddressOf(input))' : d.pk = input.pk
           /\ CommitLeaves' = CommitLeaves /\ UNCHANGED events
           /\ addresses' = addresses \cup {AddressOf(input)}
  <1> DEFINE data == [owner |-> input.owner, pk |-> input.pk,
                      suite |-> input.suite, frozen |-> FALSE,
                      revoked |-> FALSE, label |-> input.label,
                      created_slot |-> slot]
             acc == Account("VrfAuthority", AddressOf(input), data)
  <1>1. InitAuthority(input.owner, ADDRESS_TREE_V2, input.pk, input.suite,
                      input.label)
    BY ExecuteByKind
  <1>2. /\ LightOutput(acc) /\ UNCHANGED <<nullified, events>>
        /\ addresses' = addresses \cup {AddressOf(input)}
    BY <1>1 DEF InitAuthority, AddressOf
  <1>3. /\ acc.disc = "VrfAuthority" /\ acc.address = AddressOf(input)
        /\ acc.data.pk = input.pk
    BY DEF Account
  <1> HIDE DEF acc
  <1>4. PICK n \in DOMAIN leaves' :
             /\ n \notin DOMAIN leaves
             /\ leaves'[n] = acc
             /\ \A i \in DOMAIN leaves' : i \in DOMAIN leaves \/ i = n
    BY <1>2, AppendedLeaf
  <1>5. n \notin nullified'
    BY <1>2, <1>4 DEF IndInv, TypeOK
  <1>6. acc.data \in Current(AddressOf(input))'
    BY <1>3, <1>4, <1>5 DEF Current, Live, AuthorityLeaves
  <1>7. \A i \in DOMAIN leaves : i \in DOMAIN leaves' /\ leaves'[i] = leaves[i]
    BY <1>2, OutputKeeps DEF IndInv
  <1>8. CommitLeaves' = CommitLeaves
    BY <1>3, <1>4, <1>7 DEF CommitLeaves, CommitDiscs
  <1> QED BY <1>2, <1>3, <1>6, <1>8

\* What a logged commitment that lands appends to the log.
LEMMA EventLanded ==
    ASSUME IndInv, NEW input, NEW leaf, Execute(input, leaf),
           input.kind = "event"
    PROVE  /\ UNCHANGED leaves
           /\ \E n \in DOMAIN events' :
                /\ n \notin DOMAIN events
                /\ Logs(input, events'[n])
                /\ \A i \in DOMAIN events' : i \in DOMAIN events \/ i = n
  <1> DEFINE claim == leaves[leaf].data
             meta == [leaf |-> leaf, address |-> leaves[leaf].address]
             ev == [owner |-> input.owner, label |-> input.label,
                    memo_hash |-> Vrf!sha256(input.memo),
                    proof_hash |-> Vrf!sha256(input.proof),
                    alpha_hash |-> Vrf!sha256(input.alpha),
                    committed_slot |-> slot]
  <1>1. CommitProofEvent(input.owner, claim, meta, input.label,
            Vrf!sha256(input.memo), Vrf!sha256(input.proof),
            Vrf!sha256(input.alpha))
    BY ExecuteByKind
  <1>2. events' = Append(events, ev) /\ UNCHANGED leaves
    BY <1>1 DEF CommitProofEvent
  <1>3. Logs(input, ev)
    BY DEF Logs
  <1>4. events \in Seq(VrfProofCommitted)
    BY DEF IndInv, TypeOK
  <1> HIDE DEF ev
  <1>5. /\ Len(events) + 1 \in DOMAIN events'
        /\ Len(events) + 1 \notin DOMAIN events
        /\ events'[Len(events) + 1] = ev
        /\ \A i \in DOMAIN events' : i \in DOMAIN events \/ i = Len(events) + 1
    BY <1>2, <1>4
  <1> QED BY <1>2, <1>3, <1>5

\* A landed transaction took effect.
LEMMA LandHasEffect ==
    ASSUME IndInv, NEW input, NEW leaf, Built(input, leaf),
           Accepts(input, leaf), Execute(input, leaf)
    PROVE  Effect(input)'
  <1>1. Next /\ input \in Inputs
    BY LandIsProgram DEF Built
  <1>2. input.kind \in {"init", "freeze", "revoke"} \cup CommitKinds
    BY <1>1, InputFacts
  <1>3. CASE input.kind = "init"
    <2>1. NewAddresses(input) = {AddressOf(input)}
      BY <1>3 DEF NewAddresses
    <2> QED BY <1>1, <1>3, <2>1, InitLanded DEF Effect
  <1>4. CASE input.kind \in {"freeze", "revoke"}
    <2> DEFINE claim == leaves[leaf].data
               meta == [leaf |-> leaf, address |-> leaves[leaf].address]
    <2>1. meta.address = AddressOf(input) /\ claim \in VrfAuthority
      BY <1>4, SnapshotFacts DEF Built
    <2>2. NewAddresses(input) = {}
      BY <1>4 DEF NewAddresses
    <2>3. /\ input.kind = "freeze" => FreezeAuthority(input.owner, claim, meta)
          /\ input.kind = "revoke" => RevokeAuthority(input.owner, claim, meta)
      BY ExecuteByKind
    <2>4. \E d \in Current(AddressOf(input))' :
            /\ input.kind = "freeze" => d.frozen
            /\ input.kind = "revoke" => d.revoked
      <3>1. CASE input.kind = "freeze"
        <4>1. MutateAuthority(claim, meta, [claim EXCEPT !.frozen = TRUE])
          BY <2>3, <3>1 DEF FreezeAuthority
        <4>2. [claim EXCEPT !.frozen = TRUE] \in Current(AddressOf(input))'
          BY <2>1, <4>1, MutationLanded DEF RaisesFlag
        <4>3. [claim EXCEPT !.frozen = TRUE].frozen
          BY <2>1 DEF VrfAuthority
        <4> QED BY <3>1, <4>2, <4>3
      <3>2. CASE input.kind = "revoke"
        <4>1. MutateAuthority(claim, meta, [claim EXCEPT !.revoked = TRUE])
          BY <2>3, <3>2 DEF RevokeAuthority
        <4>2. [claim EXCEPT !.revoked = TRUE] \in Current(AddressOf(input))'
          BY <2>1, <4>1, MutationLanded DEF RaisesFlag
        <4>3. [claim EXCEPT !.revoked = TRUE].revoked
          BY <2>1 DEF VrfAuthority
        <4> QED BY <3>2, <4>2, <4>3
      <3> QED BY <1>4, <3>1, <3>2
    <2> QED BY <1>1, <1>4, <2>2, <2>4 DEF Effect
  <1>5. CASE input.kind \in CommitKinds
    <2>1. \E d \in Current(AddressOf(input))' : TRUE
      <3>1. leaves[leaf].data \in Current(AddressOf(input))
        BY <1>5, SnapshotFacts DEF CommitKinds
      <3> QED BY <1>1, <3>1, HasLaterVersion
    <2>2. CASE input.kind = "event"
      <3>1. NewAddresses(input) = {}
        BY <2>2 DEF NewAddresses
      <3>2. \E i \in DOMAIN events' : Logs(input, events'[i])
        BY <2>2, EventLanded
      <3> QED BY <1>1, <2>1, <2>2, <3>1, <3>2 DEF Effect, Logs
    <2>3. CASE input.kind \in {"commit", "commit-beta"}
      <3>1. NewAddresses(input) = {CommitAddressOf(input)}
        BY <2>3 DEF NewAddresses
      <3>2. /\ UNCHANGED nullified
            /\ addresses' = addresses \cup {CommitAddressOf(input)}
        BY <2>3, CommitLanded
      <3>3. PICK disc, data :
                /\ LightOutput(Account(disc, CommitAddressOf(input), data))
                /\ disc \in CommitDiscs /\ disc = DiscOf(input)
                /\ data.proof_hash = Vrf!sha256(input.proof)
                /\ data.alpha_hash = Vrf!sha256(input.alpha)
        BY <2>3, CommitLanded
      <3>4. PICK n \in DOMAIN leaves' :
                 /\ n \notin DOMAIN leaves
                 /\ leaves'[n] = Account(disc, CommitAddressOf(input), data)
        BY <3>3, AppendedLeaf
      <3>5. n \in Live'
        BY <3>2, <3>4 DEF IndInv, TypeOK, Live
      <3>6. /\ leaves'[n].disc = disc
            /\ leaves'[n].address = CommitAddressOf(input)
            /\ leaves'[n].data = data
        BY <3>4 DEF Account
      <3>7. n \in CommitLeaves'
        BY <3>3, <3>4, <3>6 DEF CommitLeaves
      <3> QED
        BY <1>1, <2>1, <2>3, <3>1, <3>2, <3>3, <3>5, <3>6, <3>7
           DEF Effect, DiscOf
    <2> QED BY <1>5, <2>2, <2>3 DEF CommitKinds
  <1> QED BY <1>2, <1>3, <1>4, <1>5

\* A landed transaction leaves only commitments that verify: its own was checked
\* against a version of the authority that has the key of the current one.
LEMMA LandVerifies ==
    ASSUME IndInv, SdkCommitsVerify, NEW input, NEW leaf, Built(input, leaf),
           Accepts(input, leaf), Execute(input, leaf)
    PROVE  SdkCommitsVerify'
  <1>1. Next /\ input \in Inputs
    BY LandIsProgram DEF Built
  <1>2. /\ input.kind \in {"init", "freeze", "revoke"} \cup CommitKinds
        /\ input.kind \in CommitKinds =>
             /\ input.alpha \in Alphas /\ input.proof \in Vrf!Proofs
             /\ \A e \in Current(AddressOf(input))' :
                   Vrf!verifyVRF(e.pk, input.alpha, input.proof)
    <2>1. /\ input.kind \in {"init", "freeze", "revoke"} \cup CommitKinds
          /\ input.kind \in CommitKinds =>
                /\ input.alpha \in Alphas /\ input.proof \in Vrf!Proofs
      BY <1>1, InputFacts
    <2>2. ASSUME input.kind \in CommitKinds,
                 NEW e \in Current(AddressOf(input))'
          PROVE  Vrf!verifyVRF(e.pk, input.alpha, input.proof)
      <3>1. /\ leaves[leaf].data \in Current(AddressOf(input))
            /\ BuilderChecks(input, leaves[leaf].data)
        BY <2>2, SnapshotFacts DEF CommitKinds, Built
      <3>2. e.pk = leaves[leaf].data.pk
        BY <1>1, <3>1, KeyKept
      <3> QED
        BY <2>2, <3>1, <3>2 DEF BuilderChecks, assertProofMatchesAuthority
    <2> QED BY <2>1, <2>2
  <1>3. /\ \A i \in CommitLeaves :
             \A d \in Current(leaves[i].data.authority)' :
                 LeafVerifies(d.pk, leaves'[i])
        /\ \A i \in DOMAIN events :
             \A d \in Current(AuthorityAddress(ADDRESS_TREE_V2,
                                  events[i].owner, events[i].label))' :
                 HashesVerify(d.pk, events'[i])
    BY <1>1, OldCommitsVerify
  <1>4. CASE input.kind \in {"init", "freeze", "revoke"}
    <2>1. CommitLeaves' = CommitLeaves /\ UNCHANGED events
      <3> DEFINE claim == leaves[leaf].data
                 meta == [leaf |-> leaf, address |-> leaves[leaf].address]
      <3>1. CASE input.kind = "init"
        BY <3>1, InitLanded
      <3>2. CASE input.kind = "freeze"
        <4>1. FreezeAuthority(input.owner, claim, meta) /\ claim \in VrfAuthority
          BY <3>2, SnapshotFacts, ExecuteByKind
        <4> QED BY <4>1, MutationLanded DEF FreezeAuthority, RaisesFlag
      <3>3. CASE input.kind = "revoke"
        <4>1. RevokeAuthority(input.owner, claim, meta) /\ claim \in VrfAuthority
          BY <3>3, SnapshotFacts, ExecuteByKind
        <4> QED BY <4>1, MutationLanded DEF RevokeAuthority, RaisesFlag
      <3> QED BY <1>4, <3>1, <3>2, <3>3
    <2> QED BY <1>3, <2>1, SdkCommitsPrime
  <1>5. CASE input.kind \in {"commit", "commit-beta"}
    <2>1. UNCHANGED events
      BY <1>5, CommitLanded
    <2>2. PICK disc, data :
                /\ LightOutput(Account(disc, CommitAddressOf(input), data))
                /\ disc \in CommitDiscs
                /\ data.authority = AddressOf(input)
                /\ data.proof_hash = Vrf!sha256(input.proof)
                /\ data.alpha_hash = Vrf!sha256(input.alpha)
                /\ disc = "VrfProofCommitWithBeta" =>
                     <<data.beta_lo, data.beta_hi>> =
                         Vrf!vrfProofToHash(input.proof)
      BY <1>5, CommitLanded
    <2>3. ASSUME NEW i \in CommitLeaves', i \notin CommitLeaves,
                 NEW d \in Current(leaves[i].data.authority)'
          PROVE  LeafVerifies(d.pk, leaves'[i])
      <3>1. \A k \in DOMAIN leaves : k \in DOMAIN leaves' /\ leaves'[k] = leaves[k]
        BY <1>1, LeavesKept
      <3>2. leaves'[i] = Account(disc, CommitAddressOf(input), data)
        <4>1. i \notin DOMAIN leaves
          BY <2>3, <3>1 DEF CommitLeaves
        <4> QED BY <2>2, <4>1, AppendedLeaf DEF CommitLeaves
      <3>3. leaves'[i].disc = disc /\ leaves'[i].data = data
        BY <3>2 DEF Account
      <3>4. d \in Current(AddressOf(input))'
        BY <2>2, <3>3 DEF Current
      <3>5. /\ input.alpha \in Alphas /\ input.proof \in Vrf!Proofs
            /\ Vrf!verifyVRF(d.pk, input.alpha, input.proof)
        BY <1>2, <1>5, <3>4 DEF CommitKinds
      <3> QED BY <2>2, <3>3, <3>5 DEF LeafVerifies
    <2> QED BY <1>3, <2>1, <2>3, SdkCommitsPrime
  <1>6. CASE input.kind = "event"
    <2>1. UNCHANGED leaves
      BY <1>6, EventLanded
    <2>2. PICK n \in DOMAIN events' :
              /\ Logs(input, events'[n])
              /\ \A i \in DOMAIN events' : i \in DOMAIN events \/ i = n
      BY <1>6, EventLanded
    <2>3. CommitLeaves' = CommitLeaves
      BY <2>1 DEF CommitLeaves
    <2>4. ASSUME NEW i \in DOMAIN events', i \notin DOMAIN events,
                 NEW d \in Current(AuthorityAddress(ADDRESS_TREE_V2,
                                       events[i].owner, events[i].label))'
          PROVE  HashesVerify(d.pk, events'[i])
      <3>1. i = n /\ Logs(input, events'[i])
        BY <2>2, <2>4
      <3>2. d \in Current(AddressOf(input))'
        BY <3>1 DEF Current, AddressOf, Logs
      <3>3. /\ input.alpha \in Alphas /\ input.proof \in Vrf!Proofs
            /\ Vrf!verifyVRF(d.pk, input.alpha, input.proof)
        BY <1>2, <1>6, <3>2 DEF CommitKinds
      <3> QED BY <3>1, <3>3 DEF HashesVerify, Logs
    <2> QED BY <1>3, <2>3, <2>4, SdkCommitsPrime
  <1> QED BY <1>2, <1>4, <1>5, <1>6 DEF CommitKinds

-----------------------------------------------------------------------------
(* The steps of the calls.                                                 *)

\* One call moves, with or without a step of the program; the others keep what
\* they hold.
LEMMA CallMoves ==
    ASSUME ClientInv, [Next]_vars, SdkCommitsVerify',
           NEW c \in Calls, NEW next, call' = [call EXCEPT ![c] = next],
           next.pc \in {"fetched", "submitted"} => Held(next),
           next.pc = "landed" =>
              /\ Effect(next.input)'
              /\ NewAddresses(next.input) \cap addresses = {}
    PROVE  ClientInv'
  <1>1. IndInv /\ IndInv' /\ CallInv /\ RetryLandsOnce
    BY NextPreserves DEF ClientInv
  <1>2. /\ DOMAIN call' = Calls
        /\ \A x \in Calls : call'[x] = IF x = c THEN next ELSE call[x]
    BY <1>1 DEF CallInv
  <1>3. ASSUME NEW x \in Calls
        PROVE  /\ call'[x].pc \in {"fetched", "submitted"} => Held(call[x])'
               /\ call'[x].pc = "landed" => Effect(call[x].input)'
    <2>1. PICK s : s = call'[x]
      OBVIOUS
    <2>2. s.pc \in {"fetched", "submitted"} => Held(s)
      BY <1>1, <1>2, <2>1 DEF CallInv
    <2>3. s.pc \in {"fetched", "submitted"} => Held(s)'
      BY <1>1, <2>2, BuiltKept DEF Held
    <2>4. s.pc = "landed" => Effect(s.input)'
      <3>1. CASE x = c
        BY <1>2, <2>1, <3>1
      <3>2. CASE x # c
        <4>1. PICK input : input = s.input
          OBVIOUS
        <4>2. s.pc = "landed" => Effect(input)
          BY <1>1, <1>2, <2>1, <3>2, <4>1 DEF CallInv
        <4>3. s.pc = "landed" => Effect(input)'
          BY <1>1, <4>2, EffectKept
        <4> QED BY <4>1, <4>3
      <3> QED BY <3>1, <3>2
    <2>5. Held(s)' => Held(call[x])'
      BY <2>1, Zenon DEF Held
    <2>6. Effect(s.input)' => Effect(call[x].input)'
      BY <2>1, Zenon DEF Effect
    <2> QED BY <2>1, <2>3, <2>4, <2>5, <2>6
  <1>4. RetryLandsOnce'
    <2>1. \A x \in Landed' : x # c =>
            x \in Landed /\ call'[x] = call[x]
              /\ NewAddresses(call[x].input) \subseteq addresses
      BY <1>1, <1>2 DEF Landed, CallInv, Effect
    <2>2. c \in Landed' =>
            call'[c] = next /\ NewAddresses(next.input) \cap addresses = {}
      BY <1>2 DEF Landed
    <2> SUFFICES ASSUME NEW x \in Landed', NEW y \in Landed', x # y
                 PROVE  NewAddresses(call'[x].input)
                          \cap NewAddresses(call'[y].input) = {}
      BY DEF RetryLandsOnce, NewAddresses, AddressOf, CommitAddressOf
    <2>3. CASE x # c /\ y # c
      BY <1>1, <2>1, <2>3 DEF RetryLandsOnce
    <2>4. CASE x = c \/ y = c
      BY <2>1, <2>2, <2>4
    <2> QED BY <2>3, <2>4
  <1> QED BY <1>1, <1>2, <1>3, <1>4 DEF ClientInv, CallInv

\* A call that waits: the chain does not move.
LEMMA StepPreserves ==
    ASSUME ClientInv, NEW c \in Calls, NEW next, Step(c, next),
           next.pc \in {"fetched", "submitted"} => Held(next),
           next.pc # "landed"
    PROVE  ClientInv'
  <1>1. UNCHANGED vars /\ call' = [call EXCEPT ![c] = next]
    BY DEF Step
  <1>2. SdkCommitsVerify'
    BY <1>1 DEF ClientInv, SdkCommitsVerify, vars, CommitLeaves, Current, Live,
                AuthorityLeaves
  <1> QED BY <1>1, <1>2, CallMoves

LEMMA StartInitPreserves ==
    ASSUME ClientInv, NEW c \in Calls, NEW input \in Inputs, StartInit(c, input)
    PROVE  ClientInv'
  <1> DEFINE next == [pc |-> "fetched", input |-> input, leaf |-> 0]
  <1>1. input.kind = "init"
    BY DEF StartInit
  <1>2. next.pc = "fetched" /\ Held(next)
    BY <1>1 DEF Held, Built
  <1>3. Step(c, next) \/ Step(c, [pc |-> "threw"])
    BY DEF StartInit
  <1> HIDE DEF next
  <1> QED BY <1>2, <1>3, StepPreserves

LEMMA StartWithAuthorityPreserves ==
    ASSUME ClientInv, NEW c \in Calls, NEW input \in Inputs,
           StartWithAuthority(c, input)
    PROVE  ClientInv'
  <1>1. CASE Step(c, [pc |-> "threw"])
    BY <1>1, StepPreserves
  <1>2. CASE \E i \in Live :
                /\ leaves[i].address = AddressOf(input)
                /\ BuilderChecks(input, leaves[i].data)
                /\ Step(c, [pc |-> "fetched", input |-> input, leaf |-> i])
    <2>1. PICK i \in Live :
                /\ leaves[i].address = AddressOf(input)
                /\ BuilderChecks(input, leaves[i].data)
                /\ Step(c, [pc |-> "fetched", input |-> input, leaf |-> i])
      BY <1>2
    <2> DEFINE next == [pc |-> "fetched", input |-> input, leaf |-> i]
    <2>2. leaves[i] \in Accounts /\ i \in DOMAIN leaves
      BY DEF ClientInv, IndInv, TypeOK, Live
    <2>3. leaves[i].disc = "VrfAuthority"
      <3>1. leaves[i].address.prefix = "vrf_authority"
        BY <2>1 DEF AddressOf, AuthorityAddress, derive_address
      <3>2. leaves[i].disc \in CommitDiscs => leaves[i].address \in CommitAddresses
        BY <2>2, AccountShape
      <3> QED BY <2>2, <3>1, <3>2, AccountShape DEF CommitAddresses
    <2>4. i \in AuthorityLeaves
      BY <2>2, <2>3 DEF AuthorityLeaves
    <2>5. next.pc = "fetched" /\ Held(next)
      BY <2>1, <2>4 DEF Held, Built
    <2> HIDE DEF next
    <2> QED BY <2>1, <2>5, StepPreserves DEF next
  <1> QED BY <1>1, <1>2 DEF StartWithAuthority

LEMMA BuildAndSubmitPreserves ==
    ASSUME ClientInv, NEW c \in Calls, BuildAndSubmit(c)
    PROVE  ClientInv'
  <1> DEFINE next == [call[c] EXCEPT !.pc = "submitted"]
  <1>1. Held(call[c])
    BY DEF BuildAndSubmit, ClientInv, CallInv
  <1>2. next = [pc |-> "submitted", input |-> call[c].input,
                leaf |-> call[c].leaf]
    BY <1>1 DEF Held
  <1>3. next.pc = "submitted" /\ Held(next)
    BY <1>1, <1>2 DEF Held
  <1>4. Step(c, next) \/ Step(c, [pc |-> "threw"])
    BY DEF BuildAndSubmit
  <1> HIDE DEF next
  <1> QED BY <1>3, <1>4, StepPreserves

\* The program accepts the transaction: a snapshot that is stale is refused, so
\* the one that lands is current.
LEMMA LandPreserves ==
    ASSUME ClientInv, NEW c \in Calls, Land(c)
    PROVE  ClientInv'
  <1>1. PICK input, leaf : input = call[c].input /\ leaf = call[c].leaf
    OBVIOUS
  <1>0. PICK next : next = [call[c] EXCEPT !.pc = "landed"]
    OBVIOUS
  <1>2. /\ IndInv /\ SdkCommitsVerify /\ Built(input, leaf)
        /\ call[c] = [pc |-> call[c].pc, input |-> input, leaf |-> leaf]
    BY <1>1 DEF Land, ClientInv, CallInv, Held
  <1>3. Accepts(input, leaf) /\ Execute(input, leaf)
    BY <1>1 DEF Land
  <1>4. Next /\ Effect(input)' /\ SdkCommitsVerify'
    BY <1>2, <1>3, LandIsProgram, LandHasEffect, LandVerifies
  <1>5. next.pc = "landed" /\ next.input = input
    BY <1>0, <1>2
  <1>6. call' = [call EXCEPT ![c] = next]
    BY <1>0 DEF Land
  <1>7. NewAddresses(input) \cap addresses = {}
    BY <1>3 DEF Accepts, ValidityProofAvailable, LightNewAddress
  <1>8. Effect(next.input)'
    BY <1>4, <1>5
  <1> QED BY <1>4, <1>5, <1>6, <1>7, <1>8, CallMoves

LEMMA ClientNextPreserves ==
    ClientInv /\ [ClientNext]_clientVars => ClientInv'
  <1> SUFFICES ASSUME ClientInv, [ClientNext]_clientVars
               PROVE  ClientInv'
    OBVIOUS
  <1>1. ASSUME [Next]_vars, UNCHANGED <<call, leaves, nullified, events>>
        PROVE  ClientInv'
    <2>1. SdkCommitsVerify'
      BY <1>1 DEF ClientInv, SdkCommitsVerify, CommitLeaves, Current, Live,
                  AuthorityLeaves
    <2>2. IndInv' /\ CallInv'
      <3>1. ASSUME NEW x \in Calls
            PROVE  /\ call'[x].pc \in {"fetched", "submitted"} => Held(call[x])'
                   /\ call'[x].pc = "landed" => Effect(call[x].input)'
        <4>1. PICK s, input : s = call[x] /\ input = call[x].input
          OBVIOUS
        <4>2. /\ s.pc \in {"fetched", "submitted"} => Held(s)
              /\ s.pc = "landed" => Effect(input)
          BY <4>1 DEF ClientInv, CallInv
        <4>3. s.pc \in {"fetched", "submitted"} => Held(s)'
          BY <1>1, <4>2, BuiltKept DEF Held, ClientInv
        <4>4. s.pc = "landed" => Effect(input)'
          BY <1>1, <4>2, EffectKept DEF ClientInv
        <4>5. call'[x] = s /\ call'[x].input = input
          BY <1>1, <4>1
        <4>6. Held(s)' => Held(call[x])'
          BY <4>5, Zenon DEF Held
        <4>7. Effect(input)' => Effect(call[x].input)'
          BY <4>5, Zenon DEF Effect
        <4> QED BY <4>3, <4>4, <4>5, <4>6, <4>7
      <3> QED BY <1>1, <3>1, NextPreserves DEF ClientInv, CallInv
    <2>3. RetryLandsOnce'
      BY <1>1 DEF ClientInv, RetryLandsOnce, Landed, NewAddresses, AddressOf,
                  CommitAddressOf
    <2> QED BY <2>1, <2>2, <2>3 DEF ClientInv
  <1>2. CASE AdvanceSlot /\ UNCHANGED call
    BY <1>1, <1>2 DEF AdvanceSlot, Next
  <1>3. CASE \E c \in Calls, input \in Inputs :
                StartInit(c, input) \/ StartWithAuthority(c, input)
    BY <1>3, StartInitPreserves, StartWithAuthorityPreserves
  <1>4. CASE \E c \in Calls : Progress(c)
    <2>1. PICK c \in Calls : Progress(c)
      BY <1>4
    <2>2. CASE Reject(c) \/ Expire(c)
      BY <2>2, StepPreserves DEF Reject, Expire
    <2> QED BY <2>1, <2>2, BuildAndSubmitPreserves, LandPreserves DEF Progress
  <1>5. CASE UNCHANGED clientVars
    BY <1>1, <1>5 DEF clientVars, vars
  <1> QED BY <1>2, <1>3, <1>4, <1>5 DEF ClientNext

LEMMA ClientInitEstablishes == ClientInit => ClientInv
  <1> SUFFICES ASSUME ClientInit PROVE ClientInv
    OBVIOUS
  <1>1. IndInv /\ leaves = <<>> /\ events = <<>>
    BY InitEstablishes DEF ClientInit, Init
  <1>2. DOMAIN call = Calls /\ \A c \in Calls : call[c].pc = "idle"
    BY DEF ClientInit
  <1> QED BY <1>1, <1>2 DEF ClientInv, CallInv, SdkCommitsVerify, CommitLeaves,
                            RetryLandsOnce, Landed

\* What SDK calls hold and what they did stays true, whichever calls run between
\* their steps (operations.ts).
THEOREM ClientInvariant == ClientSpec => []ClientInv
  BY ClientInitEstablishes, ClientNextPreserves, PTL DEF ClientSpec

\* Every commitment made through the SDK verifies with the key the chain shows
\* now, although its proof was checked against an older snapshot
\* (operations.ts, assertProofMatchesAuthority).
THEOREM SdkCommitmentsVerify == ClientSpec => []SdkCommitsVerify
  <1>1. ClientInv => SdkCommitsVerify
    BY DEF ClientInv
  <1> QED BY <1>1, ClientInvariant, PTL

\* A landed call took effect, and no stale snapshot undoes it.
THEOREM LandedCallsTookEffect == ClientSpec => []LandedTookEffect
  <1>1. ClientInv => LandedTookEffect
    BY DEF ClientInv, CallInv, LandedTookEffect, Landed, Effect
  <1> QED BY <1>1, ClientInvariant, PTL

\* Repeating a registry commit or an initialisation is safe: of all calls for
\* one address at most one lands.
THEOREM RetriesLandOnce == ClientSpec => []RetryLandsOnce
  <1>1. ClientInv => RetryLandsOnce
    BY DEF ClientInv
  <1> QED BY <1>1, ClientInvariant, PTL

-----------------------------------------------------------------------------
(* The operator only takes steps of the program.                           *)

LEMMA OperatorIsProgram ==
    ASSUME IndInv, OperatorActs
    PROVE  [Next]_vars
  <1>1. PICK owner \in Pubkeys :
            \/ \E pk \in Pks, label \in Labels :
                  InitAuthority(owner, ADDRESS_TREE_V2, pk,
                                SUITE_EDWARDS25519_SHA512_TAI, label)
            \/ \E i \in Live \cap AuthorityLeaves :
                LET claim == leaves[i].data
                    meta == [leaf |-> i, address |-> leaves[i].address]
                IN  \/ FreezeAuthority(owner, claim, meta)
                    \/ RevokeAuthority(owner, claim, meta)
                    \/ OperatorCommits(owner, claim, meta)
    BY DEF OperatorActs
  <1>2. CASE \E pk \in Pks, label \in Labels :
                InitAuthority(owner, ADDRESS_TREE_V2, pk,
                              SUITE_EDWARDS25519_SHA512_TAI, label)
    <2>1. /\ ADDRESS_TREE_V2 \in AddressTrees
          /\ SUITE_EDWARDS25519_SHA512_TAI \in Suites
      BY ConstantsAssumption
    <2> QED BY <1>2, <2>1 DEF Next
  <1>3. CASE \E i \in Live \cap AuthorityLeaves :
                LET claim == leaves[i].data
                    meta == [leaf |-> i, address |-> leaves[i].address]
                IN  \/ FreezeAuthority(owner, claim, meta)
                    \/ RevokeAuthority(owner, claim, meta)
                    \/ OperatorCommits(owner, claim, meta)
    <2>1. PICK i \in Live \cap AuthorityLeaves :
                LET claim == leaves[i].data
                    meta == [leaf |-> i, address |-> leaves[i].address]
                IN  \/ FreezeAuthority(owner, claim, meta)
                    \/ RevokeAuthority(owner, claim, meta)
                    \/ OperatorCommits(owner, claim, meta)
      BY <1>3
    <2> DEFINE claim == leaves[i].data
               meta == [leaf |-> i, address |-> leaves[i].address]
    <2>2. claim \in Claims /\ meta \in Metas
      BY CurrentClaim
    <2>4. \/ FreezeAuthority(owner, claim, meta)
          \/ RevokeAuthority(owner, claim, meta)
          \/ OperatorCommits(owner, claim, meta)
      BY <2>1
    <2> HIDE DEF claim, meta
    <2>5. CASE FreezeAuthority(owner, claim, meta)
      BY <2>2, <2>5 DEF Next
    <2>6. CASE RevokeAuthority(owner, claim, meta)
      BY <2>2, <2>6 DEF Next
    <2>7. CASE OperatorCommits(owner, claim, meta)
      <3>1. PICK m \in MemoHashes, a \in AlphaHashes,
                 p \in {Vrf!sha256(q) : q \in MadeProofs} :
              \/ CommitProof(owner, claim, meta, ADDRESS_TREE_V2, m, p, a)
              \/ \E q \in MadeProofs :
                    CommitProofWithBeta(owner, claim, meta, ADDRESS_TREE_V2,
                        m, p, a, Vrf!BetaHalf(q.gamma, 1),
                        Vrf!BetaHalf(q.gamma, 2))
              \/ \E label \in Labels :
                    CommitProofEvent(owner, claim, meta, label, m, p, a)
        BY <2>7 DEF OperatorCommits
      <3>2. p \in ProofHashes
        BY VerifierAssumption, HashesAssumption
      <3>3. ADDRESS_TREE_V2 \in AddressTrees
        BY ConstantsAssumption
      <3>4. \A q \in MadeProofs : /\ Vrf!BetaHalf(q.gamma, 1) \in BetaHalves
                                   /\ Vrf!BetaHalf(q.gamma, 2) \in BetaHalves
        BY VerifierAssumption, HashesAssumption DEF Vrf!Proofs
      <3>5. CASE CommitProof(owner, claim, meta, ADDRESS_TREE_V2, m, p, a)
        BY <2>2, <3>2, <3>3, <3>5 DEF Next
      <3>6. CASE \E q \in MadeProofs :
                    CommitProofWithBeta(owner, claim, meta, ADDRESS_TREE_V2,
                        m, p, a, Vrf!BetaHalf(q.gamma, 1),
                        Vrf!BetaHalf(q.gamma, 2))
        BY <2>2, <3>2, <3>3, <3>4, <3>6 DEF Next
      <3>7. CASE \E label \in Labels :
                    CommitProofEvent(owner, claim, meta, label, m, p, a)
        BY <2>2, <3>2, <3>7 DEF Next
      <3> QED BY <3>1, <3>5, <3>6, <3>7
    <2> QED BY <2>4, <2>5, <2>6, <2>7
  <1> QED BY <1>1, <1>2, <1>3

-----------------------------------------------------------------------------
(* What was read stays true.                                               *)

\* Everything a verification checks but the label and the revocation.
Checks(d, req, commit) ==
    /\ d.suite = SUITE_EDWARDS25519_SHA512_TAI
    /\ Vrf!verifyVRF(d.pk, req.alpha, req.proof)
    /\ d.frozen
    /\ d.owner = req.owner
    /\ commit.proof_hash = Vrf!sha256(req.proof)
    /\ commit.alpha_hash = Vrf!sha256(req.alpha)
    /\ commit.memo_hash = Vrf!sha256(req.memo)
    /\ commit.authority = deriveAuthorityAddress(d.owner, d.label)
    /\ commit.beta # NoBeta => commit.beta = BetaOf(req)

\* The chain supports a request to a consumer that reads the events seen.
Supported(req, seen) ==
    \E d \in fetchAuthority(req.owner, req.label) :
        \E commit \in FetchedCommit(req, seen) : Checks(d, req, commit)

LEMMA VerdictFacts ==
    ASSUME NEW d, NEW l, NEW req, NEW commit
    PROVE  /\ verifyAuthorityCommitEndToEnd(d, l, req, commit).valid
                <=> /\ Checks(d, req, commit)
                    /\ l \subseteq {d.label} /\ ~d.revoked
           /\ verifyAuthorityCommitEndToEnd(d, l, req, commit).valid =>
                verifyAuthorityCommitEndToEnd(d, l, req, commit).beta =
                    BetaOf(req)
  BY DEF verifyAuthorityCommitEndToEnd, verifyEndToEnd, Checks, BetaOf

LEMMA ChecksKept ==
    ASSUME NEW d, NEW e, NEW req, NEW commit,
           LaterVersion(d, e), Checks(d, req, commit)
    PROVE  Checks(e, req, commit)
  BY DEF LaterVersion, Checks

\* The commit that a request's mode reads.
LEMMA FetchedByMode ==
    ASSUME NEW req, NEW seen
    PROVE  /\ req.mode = "registry" =>
                FetchedCommit(req, seen) =
                  fetchProofCommit(deriveAuthorityAddress(req.owner, req.label),
                                   req.memo)
           /\ req.mode = "registry-beta" =>
                FetchedCommit(req, seen) =
                  fetchProofCommitWithBeta(
                      deriveAuthorityAddress(req.owner, req.label), req.memo)
           /\ req.mode = "event" =>
                FetchedCommit(req, seen) =
                  pickCanonicalCommit(
                      fetchProofCommitEvents(req.owner, req.label, req.memo,
                                             seen), req.proof)
  BY DEF FetchedCommit

LEMMA RequestModes ==
    ASSUME NEW req \in Requests
    PROVE  req.mode \in {"registry", "registry-beta", "event"}
  BY VerifierAssumption DEF Requests

\* An authority that was read has a current version in every later state.
LEMMA AuthorityKept ==
    ASSUME IndInv, [Next]_vars, NEW owner, NEW label,
           NEW d \in fetchAuthority(owner, label)
    PROVE  \E e \in fetchAuthority(owner, label)' : LaterVersion(d, e)
  <1>1. PICK e \in Current(deriveAuthorityAddress(owner, label))' :
            LaterVersion(d, e)
    BY HasLaterVersion DEF fetchAuthority
  <1> QED BY <1>1 DEF fetchAuthority, deriveAuthorityAddress

\* The leaf at a commit address holds a commit.
LEMMA CommitLeafAt ==
    ASSUME IndInv, NEW a, NEW m, NEW i \in Live,
           leaves[i].address = deriveProofCommitAddress(a, m)
    PROVE  i \in CommitLeaves /\ leaves[i].disc \in CommitDiscs
  <1>1. leaves[i] \in Accounts
    BY DEF Live, IndInv, TypeOK
  <1>2. leaves[i].disc # "VrfAuthority"
    <2> SUFFICES ASSUME leaves[i].disc = "VrfAuthority" PROVE FALSE
      OBVIOUS
    <2>1. leaves[i].address \in AuthorityAddresses
      BY <1>1, AccountShape
    <2>2. leaves[i].address.prefix = "vrf_authority"
      BY <2>1 DEF AuthorityAddresses
    <2> QED BY <2>2 DEF deriveProofCommitAddress, CommitAddress, derive_address
  <1> QED BY <1>1, <1>2, AccountShape DEF CommitLeaves, Live

\* The account at a commit address stays.
LEMMA AccountsKept ==
    ASSUME IndInv, [Next]_vars, NEW a, NEW m
    PROVE  CompressedAccounts(deriveProofCommitAddress(a, m)) \subseteq
             CompressedAccounts(deriveProofCommitAddress(a, m))'
  <1> SUFFICES ASSUME NEW i \in Live,
                      leaves[i].address = deriveProofCommitAddress(a, m)
               PROVE  leaves[i] \in
                        CompressedAccounts(deriveProofCommitAddress(a, m))'
    BY DEF CompressedAccounts
  <1>1. i \in CommitLeaves
    BY CommitLeafAt
  <1>2. i \in Live' /\ leaves'[i] = leaves[i]
    BY <1>1, StepKeepsCommitments DEF KeepsCommitments
  <1>3. deriveProofCommitAddress(a, m)' = deriveProofCommitAddress(a, m)
    BY DEF deriveProofCommitAddress, CommitAddress, derive_address
  <1> QED BY <1>2, <1>3 DEF CompressedAccounts

\* What a request fetched is fetched by every later reader of the same events.
LEMMA FetchedKept ==
    ASSUME IndInv, [Next]_vars, NEW req \in Requests,
           NEW seen \in SUBSET (DOMAIN events)
    PROVE  /\ DOMAIN events \subseteq DOMAIN events'
           /\ FetchedCommit(req, seen) \subseteq FetchedCommit(req, seen)'
  <1>1. /\ DOMAIN events \subseteq DOMAIN events'
        /\ \A i \in DOMAIN events : events'[i] = events[i]
    <2>1. /\ events \in Seq(VrfProofCommitted) /\ events' \in Seq(VrfProofCommitted)
          /\ Len(events) <= Len(events')
          /\ \A i \in DOMAIN events : events'[i] = events[i]
      BY StepKeepsCommitments, NextPreserves DEF KeepsCommitments, IndInv, TypeOK
    <2> QED BY <2>1
  <1> DEFINE authority == deriveAuthorityAddress(req.owner, req.label)
             address == deriveProofCommitAddress(authority, Vrf!sha256(req.memo))
  <1>2. CompressedAccounts(address) \subseteq CompressedAccounts(address)'
    BY AccountsKept
  <1>3. CASE req.mode = "registry"
    BY <1>1, <1>2, <1>3, FetchedByMode DEF fetchProofCommit, FetchedCommit
  <1>4. CASE req.mode = "registry-beta"
    BY <1>1, <1>2, <1>4, FetchedByMode
       DEF fetchProofCommitWithBeta, FetchedCommit
  <1>5. CASE req.mode = "event"
    <2> DEFINE found == fetchProofCommitEvents(req.owner, req.label, req.memo,
                                               seen)
               kept == Matching(found, req.proof)
    <2>1. found' = found /\ found \subseteq seen
      BY <1>1 DEF fetchProofCommitEvents
    <2>2. kept' = kept /\ kept \subseteq seen
      BY <1>1, <2>1 DEF Matching
    <2>3. \A i \in seen : CommitOfEvent(i)' = CommitOfEvent(i)
      BY <1>1 DEF CommitOfEvent
    <2>4. pickCanonicalCommit(found, req.proof)' =
            pickCanonicalCommit(found, req.proof)
      BY <2>1, <2>2, <2>3 DEF pickCanonicalCommit
    <2> QED BY <1>1, <1>5, <2>4 DEF FetchedCommit
  <1> QED BY <1>3, <1>4, <1>5, RequestModes

\* A supported request stays supported.
LEMMA SupportKept ==
    ASSUME IndInv, [Next]_vars, NEW req \in Requests,
           NEW seen \in SUBSET (DOMAIN events), Supported(req, seen)
    PROVE  Supported(req, seen)'
  <1>1. PICK d \in fetchAuthority(req.owner, req.label),
             commit \in FetchedCommit(req, seen) : Checks(d, req, commit)
    BY DEF Supported
  <1>2. PICK e \in fetchAuthority(req.owner, req.label)' : LaterVersion(d, e)
    BY AuthorityKept
  <1>3. commit \in FetchedCommit(req, seen)'
    BY FetchedKept
  <1>4. Checks(e, req, commit)
    BY <1>1, <1>2, ChecksKept
  <1> QED BY <1>2, <1>3, <1>4 DEF Supported

-----------------------------------------------------------------------------
(* The invariant of a verification.                                        *)

\* The authority that was fetched still has a current version.
FetchedSound(s) ==
    /\ s.req \in Requests
    /\ \E e \in fetchAuthority(s.req.owner, s.req.label) :
          LaterVersion(s.auth, e)

\* What was accepted is supported by the chain.
DoneSound(s) ==
    /\ s.req \in Requests
    /\ s.known \in Nat /\ s.known <= Len(events)
    /\ s.seen \subseteq 1..s.known
    /\ s.req.mode # "event" => s.seen = {}
    /\ s.verdict.valid => /\ Supported(s.req, s.seen)
                          /\ s.verdict.beta = BetaOf(s.req)

SessionInv ==
    /\ DOMAIN session = Consumers
    /\ \A c \in Consumers :
        /\ session[c].pc = "fetched" => FetchedSound(session[c])
        /\ session[c].pc = "done" => DoneSound(session[c])

VerifierInv == IndInv /\ SessionInv

LEMMA FetchedSoundKept ==
    ASSUME IndInv, [Next]_vars, NEW s, FetchedSound(s)
    PROVE  FetchedSound(s)'
  <1>1. PICK d \in fetchAuthority(s.req.owner, s.req.label) :
            LaterVersion(s.auth, d)
    BY DEF FetchedSound
  <1>2. PICK e \in fetchAuthority(s.req.owner, s.req.label)' :
            LaterVersion(d, e)
    BY AuthorityKept
  <1>3. LaterVersion(s.auth, e)
    BY <1>1, <1>2 DEF LaterVersion
  <1> QED BY <1>2, <1>3 DEF FetchedSound

LEMMA DoneSoundKept ==
    ASSUME IndInv, [Next]_vars, NEW s, DoneSound(s)
    PROVE  DoneSound(s)'
  <1>1. /\ events \in Seq(VrfProofCommitted) /\ events' \in Seq(VrfProofCommitted)
        /\ Len(events) <= Len(events')
    BY StepKeepsCommitments, NextPreserves DEF KeepsCommitments, IndInv, TypeOK
  <1>2. s.seen \in SUBSET (DOMAIN events)
    BY <1>1 DEF DoneSound
  <1>3. Supported(s.req, s.seen) => Supported(s.req, s.seen)'
    BY <1>2, SupportKept DEF DoneSound
  <1>4. s.known \in Nat /\ s.known <= Len(events')
    BY <1>1 DEF DoneSound
  <1> QED BY <1>3, <1>4 DEF DoneSound

\* The chain moves while the consumers hold what they read.
LEMMA OperatorKeepsSessions ==
    ASSUME VerifierInv, [Next]_vars, UNCHANGED session
    PROVE  VerifierInv'
  <1>1. IndInv'
    BY NextPreserves DEF VerifierInv
  <1>2. ASSUME NEW c \in Consumers, session[c].pc = "fetched"
        PROVE  FetchedSound(session[c])'
    <2>1. PICK s : s = session[c]
      OBVIOUS
    <2>2. FetchedSound(s)'
      BY <1>2, <2>1, FetchedSoundKept DEF VerifierInv, SessionInv
    <2>3. session'[c] = s
      BY <2>1
    <2> QED BY <2>2, <2>3, Zenon DEF FetchedSound
  <1>3. ASSUME NEW c \in Consumers, session[c].pc = "done"
        PROVE  DoneSound(session[c])'
    <2>1. PICK s : s = session[c]
      OBVIOUS
    <2>2. DoneSound(s)'
      BY <1>3, <2>1, DoneSoundKept DEF VerifierInv, SessionInv
    <2>3. session'[c] = s
      BY <2>1
    <2> QED BY <2>2, <2>3, Zenon DEF DoneSound
  <1> QED BY <1>1, <1>2, <1>3 DEF VerifierInv, SessionInv

LEMMA FetchAuthorityPreserves ==
    ASSUME VerifierInv, NEW c \in Consumers, NEW req \in Requests,
           FetchAuthority(c, req)
    PROVE  VerifierInv'
  <1> DEFINE found == fetchAuthority(req.owner, req.label)
  <1>1. UNCHANGED vars /\ DOMAIN session = Consumers
    BY DEF FetchAuthority, VerifierInv, SessionInv
  <1>2. IndInv'
    BY <1>1, StutterPreserves DEF VerifierInv
  <1>3. \A s : /\ FetchedSound(s) => FetchedSound(s)'
               /\ DoneSound(s) => DoneSound(s)'
    BY <1>1, FetchedSoundKept, DoneSoundKept DEF VerifierInv
  <1>4. PICK s : /\ session' = [session EXCEPT ![c] = s]
                 /\ \/ s = [pc |-> "error"]
                    \/ \E d \in found :
                          s = [pc |-> "fetched", req |-> req, auth |-> d]
    BY DEF FetchAuthority
  <1>5. s.pc # "done" /\ (s.pc = "fetched" => FetchedSound(s))
    BY <1>4 DEF FetchedSound, LaterVersion
  <1>6. /\ DOMAIN session' = Consumers
        /\ \A x \in Consumers :
              session'[x] = IF x = c THEN s ELSE session[x]
    BY <1>1, <1>4
  <1>7. ASSUME NEW x \in Consumers
        PROVE  /\ session'[x].pc = "fetched" => FetchedSound(session[x])'
               /\ session'[x].pc = "done" => DoneSound(session[x])'
    <2>1. PICK t : t = session'[x]
      OBVIOUS
    <2>2. /\ t.pc = "fetched" => FetchedSound(t)
          /\ t.pc = "done" => DoneSound(t)
      BY <1>5, <1>6, <2>1 DEF VerifierInv, SessionInv
    <2>3. /\ t.pc = "fetched" => FetchedSound(t)'
          /\ t.pc = "done" => DoneSound(t)'
      BY <1>3, <2>2
    <2> QED BY <2>1, <2>3, Zenon DEF FetchedSound, DoneSound
  <1> QED BY <1>2, <1>6, <1>7 DEF VerifierInv, SessionInv

\* The decision rests on an authority that was read earlier: what it checks also
\* holds of the current version.
LEMMA FetchCommitPreserves ==
    ASSUME VerifierInv, NEW c \in Consumers, FetchCommitAndVerify(c)
    PROVE  VerifierInv'
  <1>1. /\ UNCHANGED vars /\ DOMAIN session = Consumers
        /\ FetchedSound(session[c])
    BY DEF FetchCommitAndVerify, VerifierInv, SessionInv
  <1>2. IndInv'
    BY <1>1, StutterPreserves DEF VerifierInv
  <1>3. \A s : /\ FetchedSound(s) => FetchedSound(s)'
               /\ DoneSound(s) => DoneSound(s)'
    BY <1>1, FetchedSoundKept, DoneSoundKept DEF VerifierInv
  <1> DEFINE req == session[c].req
             auth == session[c].auth
             Verdict(seen, commit) ==
                [pc |-> "done", req |-> req, seen |-> seen,
                 known |-> Len(events),
                 verdict |-> verifyAuthorityCommitEndToEnd(auth, {}, req, commit)]
  <1>4. PICK seen \in Scans(req.mode) :
            \/ session' = [session EXCEPT ![c] = [pc |-> "error"]]
            \/ \E commit \in FetchedCommit(req, seen) :
                  session' = [session EXCEPT ![c] = Verdict(seen, commit)]
    BY DEF FetchCommitAndVerify
  <1> HIDE DEF Verdict
  <1>5. PICK s : /\ session' = [session EXCEPT ![c] = s]
                 /\ \/ s = [pc |-> "error"]
                    \/ \E commit \in FetchedCommit(req, seen) :
                          s = Verdict(seen, commit)
    BY <1>4
  <1>6. ASSUME NEW commit \in FetchedCommit(req, seen)
        PROVE  DoneSound(Verdict(seen, commit))
    <2> DEFINE s0 == Verdict(seen, commit)
    <2>1. /\ s0.req = req /\ s0.seen = seen /\ s0.known = Len(events)
          /\ s0.verdict = verifyAuthorityCommitEndToEnd(auth, {}, req, commit)
      BY DEF Verdict
    <2>2. req \in Requests
      BY <1>1 DEF FetchedSound
    <2>3. events \in Seq(VrfProofCommitted)
      BY DEF VerifierInv, IndInv, TypeOK
    <2>4. /\ Len(events) \in Nat /\ DOMAIN events = 1..Len(events)
          /\ seen \subseteq DOMAIN events
          /\ req.mode # "event" => seen = {}
      BY <2>3 DEF Scans
    <2>5. ASSUME s0.verdict.valid
          PROVE  Supported(req, seen) /\ s0.verdict.beta = BetaOf(req)
      <3>1. Checks(auth, req, commit) /\ s0.verdict.beta = BetaOf(req)
        BY <2>1, <2>5, VerdictFacts
      <3>2. PICK e \in fetchAuthority(req.owner, req.label) :
                LaterVersion(auth, e)
        BY <1>1 DEF FetchedSound
      <3>3. Checks(e, req, commit)
        BY <3>1, <3>2, ChecksKept
      <3> QED BY <3>1, <3>2, <3>3 DEF Supported
    <2> QED BY <2>1, <2>2, <2>4, <2>5 DEF DoneSound
  <1>7. \A commit : Verdict(seen, commit).pc = "done"
    BY DEF Verdict
  <1>8. s.pc # "fetched" /\ (s.pc = "done" => DoneSound(s))
    BY <1>5, <1>6, <1>7
  <1>9. /\ DOMAIN session' = Consumers
        /\ \A x \in Consumers :
              session'[x] = IF x = c THEN s ELSE session[x]
    BY <1>1, <1>5
  <1>10. ASSUME NEW x \in Consumers
         PROVE  /\ session'[x].pc = "fetched" => FetchedSound(session[x])'
                /\ session'[x].pc = "done" => DoneSound(session[x])'
    <2>1. PICK t : t = session'[x]
      OBVIOUS
    <2>2. /\ t.pc = "fetched" => FetchedSound(t)
          /\ t.pc = "done" => DoneSound(t)
      BY <1>8, <1>9, <2>1 DEF VerifierInv, SessionInv
    <2>3. /\ t.pc = "fetched" => FetchedSound(t)'
          /\ t.pc = "done" => DoneSound(t)'
      BY <1>3, <2>2
    <2> QED BY <2>1, <2>3, Zenon DEF FetchedSound, DoneSound
  <1> QED BY <1>2, <1>9, <1>10 DEF VerifierInv, SessionInv

LEMMA VerifierNextPreserves ==
    VerifierInv /\ [VerifierNext]_verifierVars => VerifierInv'
  <1> SUFFICES ASSUME VerifierInv, [VerifierNext]_verifierVars
               PROVE  VerifierInv'
    OBVIOUS
  <1>1. CASE OperatorActs /\ UNCHANGED session
    BY <1>1, OperatorIsProgram, OperatorKeepsSessions DEF VerifierInv
  <1>2. CASE \E c \in Consumers : \E req \in Requests : FetchAuthority(c, req)
    BY <1>2, FetchAuthorityPreserves
  <1>3. CASE \E c \in Consumers : FetchCommitAndVerify(c)
    BY <1>3, FetchCommitPreserves
  <1>4. CASE UNCHANGED verifierVars
    BY <1>4, OperatorKeepsSessions DEF verifierVars
  <1> QED BY <1>1, <1>2, <1>3, <1>4 DEF VerifierNext

\* What a consumer holds stays backed by the chain while the operator goes on
\* (verifyEndToEnd.ts, apps/website/src/pages/VerifyPage.tsx).
THEOREM VerifierInvariant == VerifierSpec => []VerifierInv
  <1>1. VerifierInit => VerifierInv
    <2> SUFFICES ASSUME VerifierInit PROVE VerifierInv
      OBVIOUS
    <2>1. IndInv
      BY InitEstablishes DEF VerifierInit
    <2>2. DOMAIN session = Consumers /\ \A c \in Consumers : session[c].pc = "idle"
      BY DEF VerifierInit, Idle
    <2> QED BY <2>1, <2>2 DEF VerifierInv, SessionInv
  <1> QED BY <1>1, VerifierNextPreserves, PTL DEF VerifierSpec

-----------------------------------------------------------------------------
(* What an accepted verification means.                                    *)

LEMMA AcceptedFacts ==
    ASSUME VerifierInv, NEW c \in Accepted
    PROVE  DoneSound(session[c]) /\ Supported(session[c].req, session[c].seen)
           /\ session[c].verdict.beta = BetaOf(session[c].req)
  BY DEF Accepted, VerifierInv, SessionInv, DoneSound

\* A commit that a registry mode reads is a leaf at the address of the request.
LEMMA RegistryLeaf ==
    ASSUME IndInv, NEW req \in Requests, req.mode # "event", NEW seen,
           NEW commit \in FetchedCommit(req, seen)
    PROVE  \E i \in CommitLeaves \cap Live :
             /\ leaves[i].address =
                  deriveProofCommitAddress(
                      deriveAuthorityAddress(req.owner, req.label),
                      Vrf!sha256(req.memo))
             /\ commit.authority = leaves[i].data.authority
             /\ commit.memo_hash = leaves[i].data.memo_hash
             /\ commit.proof_hash = leaves[i].data.proof_hash
             /\ commit.alpha_hash = leaves[i].data.alpha_hash
  <1> DEFINE authority == deriveAuthorityAddress(req.owner, req.label)
             address == deriveProofCommitAddress(authority, Vrf!sha256(req.memo))
  <1>1. \E a \in CompressedAccounts(address) :
             /\ commit.authority = a.data.authority
             /\ commit.memo_hash = a.data.memo_hash
             /\ commit.proof_hash = a.data.proof_hash
             /\ commit.alpha_hash = a.data.alpha_hash
    <2>1. CASE req.mode = "registry"
      BY <2>1, FetchedByMode DEF fetchProofCommit, OnChainCommit
    <2>2. CASE req.mode = "registry-beta"
      BY <2>2, FetchedByMode DEF fetchProofCommitWithBeta, OnChainCommit
    <2> QED BY <2>1, <2>2, RequestModes
  <1>2. PICK i \in Live :
             /\ leaves[i].address = address
             /\ commit.authority = leaves[i].data.authority
             /\ commit.memo_hash = leaves[i].data.memo_hash
             /\ commit.proof_hash = leaves[i].data.proof_hash
             /\ commit.alpha_hash = leaves[i].data.alpha_hash
    BY <1>1 DEF CompressedAccounts
  <1>3. i \in CommitLeaves
    BY <1>2, CommitLeafAt
  <1> QED BY <1>2, <1>3

\* A commit that the event mode reads is a log entry of the request.
LEMMA EventOfCommit ==
    ASSUME NEW req, req.mode = "event", NEW seen,
           NEW commit \in FetchedCommit(req, seen)
    PROVE  \E i \in seen :
             /\ events[i].owner = req.owner /\ events[i].label = req.label
             /\ events[i].memo_hash = commit.memo_hash
             /\ events[i].proof_hash = commit.proof_hash
             /\ events[i].alpha_hash = commit.alpha_hash
  <1>1. PICK i \in Matching(fetchProofCommitEvents(req.owner, req.label,
                                req.memo, seen), req.proof) :
            commit = CommitOfEvent(i)
    BY FetchedByMode DEF pickCanonicalCommit
  <1>2. i \in seen /\ events[i].owner = req.owner /\ events[i].label = req.label
    BY <1>1 DEF Matching, fetchProofCommitEvents
  <1> QED BY <1>1, <1>2 DEF CommitOfEvent, OnChainCommit

\* An accepted outcome is anchored, although authority and commit were read at
\* different times: the frozen authority has the key, and it committed the proof
\* and the input for the memo (verifyEndToEnd.ts:158-230).
THEOREM AcceptedIsAnchoredHolds == VerifierSpec => []AcceptedIsAnchored
  <1>1. VerifierInv => AcceptedIsAnchored
    <2> SUFFICES ASSUME VerifierInv, NEW c \in Accepted
                 PROVE  LET req == session[c].req
                            address == AuthorityAddress(ADDRESS_TREE_V2,
                                           req.owner, req.label)
                        IN  /\ \E d \in Current(address) :
                                  d.frozen /\ Vrf!verifyVRF(d.pk, req.alpha, req.proof)
                            /\ \/ \E i \in CommitLeaves \cap Live :
                                    /\ leaves[i].data.authority = address
                                    /\ leaves[i].data.memo_hash = Vrf!sha256(req.memo)
                                    /\ leaves[i].data.proof_hash = Vrf!sha256(req.proof)
                                    /\ leaves[i].data.alpha_hash = Vrf!sha256(req.alpha)
                               \/ /\ req.mode = "event"
                                  /\ \E i \in DOMAIN events :
                                    /\ events[i].owner = req.owner
                                    /\ events[i].label = req.label
                                    /\ events[i].memo_hash = Vrf!sha256(req.memo)
                                    /\ events[i].proof_hash = Vrf!sha256(req.proof)
                                    /\ events[i].alpha_hash = Vrf!sha256(req.alpha)
      BY DEF AcceptedIsAnchored
    <2> DEFINE req == session[c].req
               seen == session[c].seen
               address == AuthorityAddress(ADDRESS_TREE_V2, req.owner, req.label)
    <2>1. /\ IndInv /\ DoneSound(session[c]) /\ Supported(req, seen)
          /\ req \in Requests
      BY AcceptedFacts DEF VerifierInv, DoneSound
    <2>2. PICK d \in Current(address), commit \in FetchedCommit(req, seen) :
              Checks(d, req, commit)
      BY <2>1 DEF Supported, fetchAuthority, deriveAuthorityAddress
    <2>3. /\ d.frozen /\ Vrf!verifyVRF(d.pk, req.alpha, req.proof)
          /\ commit.authority = address
          /\ commit.memo_hash = Vrf!sha256(req.memo)
          /\ commit.proof_hash = Vrf!sha256(req.proof)
          /\ commit.alpha_hash = Vrf!sha256(req.alpha)
      <3>1. deriveAuthorityAddress(d.owner, d.label) = address
        BY <2>1 DEF IndInv, AuthorityAtItsSeeds, Current, deriveAuthorityAddress
      <3> QED BY <2>2, <3>1 DEF Checks
    <2>4. seen \subseteq DOMAIN events
      <3>1. events \in Seq(VrfProofCommitted)
        BY <2>1 DEF IndInv, TypeOK
      <3> QED BY <2>1, <3>1 DEF DoneSound
    <2>5. CASE req.mode # "event"
      BY <2>1, <2>2, <2>3, <2>5, RegistryLeaf
    <2>6. CASE req.mode = "event"
      BY <2>2, <2>3, <2>4, <2>6, EventOfCommit
    <2> QED BY <2>2, <2>3, <2>5, <2>6
  <1> QED BY <1>1, VerifierInvariant, PTL

\* The registry settles one proof and one input per (owner, label, memo), over
\* both registry modes (state.rs:43-44).
THEOREM RegistrySettlesOutcome == VerifierSpec => []OneRegistryOutcomePerMemo
  <1>1. VerifierInv => OneRegistryOutcomePerMemo
    <2> SUFFICES ASSUME VerifierInv, NEW c \in Accepted,
                        session[c].req.mode # "event",
                        NEW other \in Requests, other.mode # "event",
                        other.owner = session[c].req.owner,
                        other.label = session[c].req.label,
                        other.memo = session[c].req.memo,
                        AcceptableNow(other)
                 PROVE  /\ other.proof = session[c].req.proof
                        /\ other.alpha = session[c].req.alpha
      BY DEF OneRegistryOutcomePerMemo
    <2> DEFINE req == session[c].req
               address == deriveProofCommitAddress(
                              deriveAuthorityAddress(req.owner, req.label),
                              Vrf!sha256(req.memo))
    <2>1. /\ IndInv /\ Supported(req, session[c].seen) /\ req \in Requests
      BY AcceptedFacts DEF VerifierInv, DoneSound
    <2>2. PICK d1, commit1 : /\ commit1 \in FetchedCommit(req, session[c].seen)
                             /\ Checks(d1, req, commit1)
      BY <2>1 DEF Supported
    <2>3. PICK i \in CommitLeaves \cap Live :
              /\ leaves[i].address = address
              /\ commit1.proof_hash = leaves[i].data.proof_hash
              /\ commit1.alpha_hash = leaves[i].data.alpha_hash
      BY <2>1, <2>2, RegistryLeaf
    <2>4. PICK seen, d2, commit2 : /\ commit2 \in FetchedCommit(other, seen)
                                   /\ Checks(d2, other, commit2)
      BY VerdictFacts DEF AcceptableNow, AcceptableTo
    <2>5. PICK j \in CommitLeaves \cap Live :
              /\ leaves[j].address = address
              /\ commit2.proof_hash = leaves[j].data.proof_hash
              /\ commit2.alpha_hash = leaves[j].data.alpha_hash
      BY <2>1, <2>4, RegistryLeaf
    <2>6. i = j
      BY <2>1, <2>3, <2>5 DEF IndInv, OneLiveLeaf
    <2>7. /\ Vrf!sha256(req.proof) = Vrf!sha256(other.proof)
          /\ Vrf!sha256(req.alpha) = Vrf!sha256(other.alpha)
      BY <2>2, <2>3, <2>4, <2>5, <2>6 DEF Checks
    <2> QED BY <2>7 DEF Vrf!sha256
  <1> QED BY <1>1, VerifierInvariant, PTL

\* The operator cannot choose the outcome of an input: over all modes, memos and
\* scans, accepted proofs for one (owner, label, alpha) have one beta, because
\* there is one key and Gamma is a function of key and input.
THEOREM OneBetaPerInput == VerifierSpec => []OneBetaPerAlpha
  <1>1. VerifierInv => OneBetaPerAlpha
    <2> SUFFICES ASSUME VerifierInv, NEW c \in Accepted,
                        NEW other \in Requests,
                        other.owner = session[c].req.owner,
                        other.label = session[c].req.label,
                        other.alpha = session[c].req.alpha,
                        AcceptableNow(other)
                 PROVE  BetaOf(other) = session[c].verdict.beta
      BY DEF OneBetaPerAlpha
    <2> DEFINE req == session[c].req
    <2>1. /\ IndInv /\ Supported(req, session[c].seen)
          /\ session[c].verdict.beta = BetaOf(req)
      BY AcceptedFacts DEF VerifierInv
    <2>2. PICK d1 \in fetchAuthority(req.owner, req.label) :
              \E commit : Checks(d1, req, commit)
      BY <2>1 DEF Supported
    <2>3. PICK d2 \in fetchAuthority(req.owner, req.label) :
              \E commit : Checks(d2, other, commit)
      BY VerdictFacts DEF AcceptableNow, AcceptableTo
    <2>4. d1 = d2
      BY <2>1, <2>2, <2>3, OneCurrent DEF fetchAuthority
    <2>5. req.proof.gamma = other.proof.gamma
      BY <2>2, <2>3, <2>4 DEF Checks, Vrf!verifyVRF
    <2> QED BY <2>1, <2>5 DEF BetaOf, Vrf!vrfProofToHash
  <1> QED BY <1>1, VerifierInvariant, PTL

\* A scan that reads more finds the same canonical commit: the first match is
\* older than anything it adds (verifyEndToEnd.ts:143-155).
LEMMA CanonicalIsFirst ==
    ASSUME NEW req, NEW n \in Nat, NEW seen \in SUBSET (1..n),
           NEW later \in SUBSET {i \in Nat : i > n},
           NEW commit \in FetchedCommit(req, seen), req \in Requests
    PROVE  commit \in FetchedCommit(req, seen \cup later)
  <1>1. CASE req.mode # "event"
    BY <1>1, FetchedByMode, RequestModes
  <1>2. CASE req.mode = "event"
    <2> DEFINE Kept(s) == Matching(fetchProofCommitEvents(req.owner, req.label,
                                       req.memo, s), req.proof)
    <2>1. /\ \A s : Kept(s) \subseteq s
          /\ Kept(seen \cup later) = Kept(seen) \cup Kept(later)
      BY DEF Matching, fetchProofCommitEvents
    <2> HIDE DEF Kept
    <2>2. \A s : FetchedCommit(req, s) =
                   {CommitOfEvent(i) : i \in {j \in Kept(s) :
                                              \A k \in Kept(s) : j <= k}}
      BY <1>2, FetchedByMode DEF pickCanonicalCommit, Kept
    <2>3. PICK i \in Kept(seen) :
              commit = CommitOfEvent(i) /\ \A k \in Kept(seen) : i <= k
      BY <2>2
    <2>4. \A k \in Kept(later) : i <= k
      <3>1. i \in seen
        BY <2>1
      <3>2. \A k \in Kept(later) : k \in later
        BY <2>1
      <3> QED BY <3>1, <3>2
    <2>5. i \in {j \in Kept(seen \cup later) :
                  \A k \in Kept(seen \cup later) : j <= k}
      BY <2>1, <2>3, <2>4
    <2> QED BY <2>2, <2>3, <2>5
  <1> QED BY <1>1, <1>2

\* What was accepted stays acceptable to every scan that reads the same events
\* and any later ones, until the authority is revoked.
THEOREM AcceptanceStays == VerifierSpec => []AcceptedStaysAcceptable
  <1>1. VerifierInv => AcceptedStaysAcceptable
    <2> SUFFICES ASSUME VerifierInv, NEW c \in Accepted,
                        \A d \in fetchAuthority(session[c].req.owner,
                                                session[c].req.label) :
                            ~d.revoked,
                        NEW later \in
                            SUBSET ((session[c].known + 1)..Len(events))
                 PROVE  AcceptableTo(session[c].req, session[c].seen \cup later)
      BY DEF AcceptedStaysAcceptable
    <2> DEFINE req == session[c].req
               seen == session[c].seen
    <2>1. /\ Supported(req, seen) /\ DoneSound(session[c])
      BY AcceptedFacts
    <2>2. PICK d \in fetchAuthority(req.owner, req.label),
               commit \in FetchedCommit(req, seen) : Checks(d, req, commit)
      BY <2>1 DEF Supported
    <2>3. commit \in FetchedCommit(req, seen \cup later)
      <3>1. /\ session[c].known \in Nat
            /\ seen \in SUBSET (1..session[c].known)
            /\ req \in Requests
        BY <2>1 DEF DoneSound
      <3>2. Len(events) \in Nat
        BY DEF VerifierInv, IndInv, TypeOK
      <3>3. later \in SUBSET {i \in Nat : i > session[c].known}
        BY <3>1, <3>2
      <3> QED BY <2>2, <3>1, <3>3, CanonicalIsFirst
    <2>4. verifyAuthorityCommitEndToEnd(d, {}, req, commit).valid
      BY <2>2, VerdictFacts
    <2> QED BY <2>2, <2>3, <2>4 DEF AcceptableTo
  <1> QED BY <1>1, VerifierInvariant, PTL
===========================================================================
