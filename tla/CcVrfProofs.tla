---------------------------- MODULE CcVrfProofs ----------------------------
(***************************************************************************)
(* Proofs about CcVrf, for every set of signers, keys, labels, hashes and  *)
(* trees and every bound.                                                  *)
(***************************************************************************)
EXTENDS CcVrfRefinement, TLAPS

-----------------------------------------------------------------------------
(* Facts about the data.                                                   *)

\* The ledger only appends: old leaves keep their position and value.
LEMMA AppendFacts ==
    ASSUME NEW S, NEW s \in Seq(S), NEW x \in S
    PROVE  /\ Append(s, x) \in Seq(S)
           /\ Len(Append(s, x)) = Len(s) + 1
           /\ DOMAIN Append(s, x) = DOMAIN s \cup {Len(s) + 1}
           /\ Len(s) + 1 \notin DOMAIN s
           /\ \A i \in DOMAIN s : Append(s, x)[i] = s[i]
           /\ Append(s, x)[Len(s) + 1] = x
  OBVIOUS

\* The discriminator of a leaf determines the shape of its address and data.
LEMMA AccountShape ==
    ASSUME NEW acc \in Accounts
    PROVE  /\ acc.disc = "VrfAuthority" =>
                 acc.address \in AuthorityAddresses /\ acc.data \in VrfAuthority
           /\ acc.disc \in CommitDiscs =>
                 /\ acc.address \in CommitAddresses
                 /\ acc.data.authority \in AuthorityAddresses
                 /\ acc.data.memo_hash \in MemoHashes
                 /\ acc.data.committed_slot \in Nat
           /\ acc.disc = "VrfAuthority" \/ acc.disc \in CommitDiscs
  BY DEF Accounts, CommitDiscs, VrfProofCommit, VrfProofCommitWithBeta

\* An authority and a commit never share an address, and an address
\* determines its seeds.
LEMMA AddressesDiffer ==
    /\ AuthorityAddresses \cap CommitAddresses = {}
    /\ \A t1, o1, l1, t2, o2, l2 :
         AuthorityAddress(t1, o1, l1) = AuthorityAddress(t2, o2, l2)
            => t1 = t2 /\ o1 = o2 /\ l1 = l2
    /\ \A t1, a1, m1, t2, a2, m2 :
         CommitAddress(t1, a1, m1) = CommitAddress(t2, a2, m2)
            => t1 = t2 /\ a1 = a2 /\ m1 = m2
  BY DEF AuthorityAddresses, CommitAddresses, AuthorityAddress, CommitAddress,
         derive_address

-----------------------------------------------------------------------------
(* A leaf that is appended.                                                *)

\* Output appends one account; nothing else about the leaves changes.
LEMMA OutputFacts ==
    ASSUME TypeOK, NEW acc \in Accounts, LightOutput(acc)
    PROVE  /\ leaves' \in Seq(Accounts)
           /\ DOMAIN leaves' = DOMAIN leaves \cup {Len(leaves) + 1}
           /\ Len(leaves) + 1 \notin DOMAIN leaves
           /\ \A i \in DOMAIN leaves : leaves'[i] = leaves[i]
           /\ leaves'[Len(leaves) + 1] = acc
  BY AppendFacts DEF TypeOK, LightOutput

\* A frozen authority is one leaf: Current spelled out.
LEMMA FrozenByLeaf ==
    ASSUME NEW a, NEW s
    PROVE  FrozenBy(a, s) <=>
             \E j \in DOMAIN leaves :
                /\ j \notin nullified
                /\ leaves[j].disc = "VrfAuthority"
                /\ leaves[j].address = a
                /\ leaves[j].data.frozen
                /\ leaves[j].data.suite = SUITE_EDWARDS25519_SHA512_TAI
                /\ leaves[j].data.created_slot <= s
  BY DEF FrozenBy, Current, Live, AuthorityLeaves

LEMMA FrozenByLeafPrime ==
    ASSUME NEW a, NEW s
    PROVE  FrozenBy(a, s)' <=>
             \E j \in DOMAIN leaves' :
                /\ j \notin nullified'
                /\ leaves'[j].disc = "VrfAuthority"
                /\ leaves'[j].address = a
                /\ leaves'[j].data.frozen
                /\ leaves'[j].data.suite = SUITE_EDWARDS25519_SHA512_TAI
                /\ leaves'[j].data.created_slot <= s
  BY DEF FrozenBy, Current, Live, AuthorityLeaves

\* Creating an account at a fresh address keeps every address with exactly one
\* unspent leaf, and every frozen authority frozen.
LEMMA CreateStep ==
    ASSUME IndInv, NEW acc \in Accounts,
           LightNewAddress(acc.address),
           addresses' = addresses \cup {acc.address},
           LightOutput(acc), UNCHANGED nullified
    PROVE  /\ leaves' \in Seq(Accounts)
           /\ nullified' \subseteq DOMAIN leaves'
           /\ OneLiveLeaf'
           /\ \A a, s : FrozenBy(a, s) => FrozenBy(a, s)'
  <1> DEFINE n == Len(leaves) + 1
  <1>1. /\ leaves' \in Seq(Accounts)
        /\ DOMAIN leaves' = DOMAIN leaves \cup {n}
        /\ n \notin DOMAIN leaves
        /\ \A i \in DOMAIN leaves : leaves'[i] = leaves[i]
        /\ leaves'[n] = acc
    BY OutputFacts DEF IndInv
  <1> HIDE DEF n
  <1>2. nullified \subseteq DOMAIN leaves
    BY DEF IndInv, TypeOK
  <1>3. Live' = Live \cup {n}
    BY <1>1, <1>2 DEF Live
  <1>4. OneLiveLeaf'
    <2>1. \A i \in DOMAIN leaves' : leaves'[i].address \in addresses'
      BY <1>1 DEF IndInv, OneLiveLeaf
    <2>2. \A a \in addresses' : \E i \in Live' : leaves'[i].address = a
      BY <1>1, <1>3 DEF IndInv, OneLiveLeaf, Live
    <2>3. \A i, j \in Live' : leaves'[i].address = leaves'[j].address => i = j
      BY <1>1, <1>3 DEF IndInv, OneLiveLeaf, Live, LightNewAddress
    <2> QED BY <2>1, <2>2, <2>3 DEF OneLiveLeaf
  <1>5. \A a, s : FrozenBy(a, s) => FrozenBy(a, s)'
    BY <1>1, FrozenByLeaf, FrozenByLeafPrime
  <1> QED BY <1>1, <1>2, <1>4, <1>5

-----------------------------------------------------------------------------
(* One lemma per operation: it preserves the inductive invariant.          *)

LEMMA InitAuthorityPreserves ==
    ASSUME IndInv, NEW owner \in Pubkeys, NEW tree \in AddressTrees,
           NEW pk \in Pks, NEW suite \in Suites, NEW label \in Labels,
           InitAuthority(owner, tree, pk, suite, label)
    PROVE  IndInv'
  <1> DEFINE address == AuthorityAddress(tree, owner, label)
             data == [owner |-> owner, pk |-> pk, suite |-> suite,
                      frozen |-> FALSE, revoked |-> FALSE, label |-> label,
                      created_slot |-> slot]
             acc == Account("VrfAuthority", address, data)
             n == Len(leaves) + 1
  <1>1. /\ suite = SUITE_EDWARDS25519_SHA512_TAI
        /\ tree = ADDRESS_TREE_V2
        /\ LightNewAddress(address)
        /\ addresses' = addresses \cup {address}
        /\ LightOutput(acc)
        /\ UNCHANGED <<slot, nullified, events>>
    BY DEF InitAuthority, AddressTreeOk
  <1>2. slot \in Nat /\ TypeOK
    BY DEF IndInv, TypeOK
  <1>3. address \in AuthorityAddresses
    BY <1>1 DEF AuthorityAddress, derive_address, AuthorityAddresses
  <1>4. data \in VrfAuthority
    BY <1>2 DEF VrfAuthority
  <1>5. acc \in Accounts /\ acc.address = address
    BY <1>3, <1>4 DEF Accounts, Account
  <1>6. acc.disc = "VrfAuthority" /\ acc.data = data
    BY DEF Account
  <1>7. data.owner = owner /\ data.label = label /\ data.suite = suite
        /\ data.created_slot = slot
    OBVIOUS
  <1> HIDE DEF data, acc, address
  <1>8. /\ leaves' \in Seq(Accounts)
        /\ DOMAIN leaves' = DOMAIN leaves \cup {n}
        /\ n \notin DOMAIN leaves
        /\ \A i \in DOMAIN leaves : leaves'[i] = leaves[i]
        /\ leaves'[n] = acc
    BY <1>1, <1>2, <1>5, OutputFacts
  <1>9. /\ nullified' \subseteq DOMAIN leaves'
        /\ OneLiveLeaf'
        /\ \A a, s : FrozenBy(a, s) => FrozenBy(a, s)'
    BY <1>1, <1>5, CreateStep
  <1> HIDE DEF n
  <1>10. AuthorityLeaves' = AuthorityLeaves \cup {n}
    BY <1>6, <1>8 DEF AuthorityLeaves
  <1>11. CommitLeaves' = CommitLeaves
    BY <1>6, <1>8 DEF CommitLeaves, CommitDiscs
  <1>12. TypeOK'
    BY <1>1, <1>2, <1>3, <1>8, <1>9 DEF TypeOK
  <1>13. AuthorityAtItsSeeds'
    BY <1>1, <1>5, <1>6, <1>7, <1>8, <1>10
       DEF IndInv, AuthorityAtItsSeeds, AuthorityLeaves, address
  <1>14. AuthorityRecordsSound'
    BY <1>1, <1>2, <1>6, <1>7, <1>8, <1>10
       DEF IndInv, AuthorityRecordsSound, AuthorityLeaves
  <1>15. CommitAtItsSeeds'
    BY <1>1, <1>8, <1>11 DEF IndInv, CommitAtItsSeeds, CommitLeaves, Live
  <1>16. CommitsRestOnFrozenAuthority'
    BY <1>1, <1>8, <1>9, <1>11
       DEF IndInv, CommitsRestOnFrozenAuthority, CommitLeaves
  <1> QED BY <1>9, <1>12, <1>13, <1>14, <1>15, <1>16 DEF IndInv

\* e is d with one of its flags raised.
RaisesFlag(d, e) ==
    \/ e = [d EXCEPT !.frozen = TRUE]
    \/ e = [d EXCEPT !.revoked = TRUE]

\* Freeze and revoke replace the current leaf of an authority by one that
\* differs in a raised flag only.
LEMMA MutatePreserves ==
    ASSUME IndInv, NEW d, NEW e, NEW meta,
           MutateAuthority(d, meta, e), RaisesFlag(d, e)
    PROVE  IndInv'
  <1> DEFINE acc == Account("VrfAuthority", meta.address, e)
             n == Len(leaves) + 1
             k == meta.leaf
  <1>1. /\ k \in DOMAIN leaves /\ k \notin nullified
        /\ leaves[k] = Account("VrfAuthority", meta.address, d)
        /\ nullified' = nullified \cup {k}
        /\ LightOutput(acc)
        /\ UNCHANGED <<slot, addresses, events>>
    BY DEF MutateAuthority, LightInput
  <1>2. TypeOK /\ nullified \subseteq DOMAIN leaves /\ slot \in Nat
    BY DEF IndInv, TypeOK
  <1>3. leaves[k] \in Accounts
    BY <1>1, <1>2 DEF TypeOK
  <1>4. /\ leaves[k].disc = "VrfAuthority"
        /\ leaves[k].address = meta.address
        /\ leaves[k].data = d
    BY <1>1 DEF Account
  <1>5. meta.address \in AuthorityAddresses /\ d \in VrfAuthority
    BY <1>3, <1>4, AccountShape
  <1>6. /\ e \in VrfAuthority
        /\ e.owner = d.owner /\ e.label = d.label /\ e.suite = d.suite
        /\ e.created_slot = d.created_slot
        /\ d.frozen => e.frozen
    BY <1>5 DEF VrfAuthority, RaisesFlag
  <1>7. /\ acc \in Accounts
        /\ acc.disc = "VrfAuthority"
        /\ acc.address = meta.address
        /\ acc.data = e
    BY <1>5, <1>6 DEF Accounts, Account
  <1> HIDE DEF acc, k
  <1>8. /\ leaves' \in Seq(Accounts)
        /\ DOMAIN leaves' = DOMAIN leaves \cup {n}
        /\ n \notin DOMAIN leaves
        /\ \A i \in DOMAIN leaves : leaves'[i] = leaves[i]
        /\ leaves'[n] = acc
    BY <1>1, <1>2, <1>7, OutputFacts
  <1> HIDE DEF n
  <1>9. Live' = (Live \ {k}) \cup {n}
    BY <1>1, <1>2, <1>8 DEF Live
  <1>10. AuthorityLeaves' = AuthorityLeaves \cup {n}
    BY <1>7, <1>8 DEF AuthorityLeaves
  <1>11. CommitLeaves' = CommitLeaves /\ k \notin CommitLeaves
    BY <1>4, <1>7, <1>8 DEF CommitLeaves, CommitDiscs
  <1>12. k \in Live /\ k \in AuthorityLeaves
    BY <1>1, <1>4 DEF Live, AuthorityLeaves
  <1>13. TypeOK'
    BY <1>1, <1>2, <1>8 DEF TypeOK
  <1>14. OneLiveLeaf'
    <2>1. \A i \in DOMAIN leaves' : leaves'[i].address \in addresses'
      BY <1>1, <1>4, <1>7, <1>8 DEF IndInv, OneLiveLeaf
    <2>2. ASSUME NEW a \in addresses'
          PROVE  \E i \in Live' : leaves'[i].address = a
      <3>1. PICK i \in Live : leaves[i].address = a
        BY <1>1 DEF IndInv, OneLiveLeaf
      <3>2. CASE i = k
        BY <3>1, <3>2, <1>4, <1>7, <1>8, <1>9
      <3>3. CASE i # k
        BY <3>1, <3>3, <1>8, <1>9 DEF Live
      <3> QED BY <3>2, <3>3
    <2>3. \A i, j \in Live' : leaves'[i].address = leaves'[j].address => i = j
      BY <1>4, <1>7, <1>8, <1>9, <1>12 DEF IndInv, OneLiveLeaf, Live
    <2> QED BY <2>1, <2>2, <2>3 DEF OneLiveLeaf
  <1>15. AuthorityAtItsSeeds'
    BY <1>4, <1>6, <1>7, <1>8, <1>10, <1>12
       DEF IndInv, AuthorityAtItsSeeds, AuthorityLeaves
  <1>16. AuthorityRecordsSound'
    BY <1>1, <1>4, <1>6, <1>7, <1>8, <1>10, <1>12
       DEF IndInv, AuthorityRecordsSound, AuthorityLeaves
  <1>17. CommitAtItsSeeds'
    BY <1>8, <1>9, <1>11 DEF IndInv, CommitAtItsSeeds, CommitLeaves
  <1>18. ASSUME NEW a, NEW s, FrozenBy(a, s)
         PROVE  FrozenBy(a, s)'
    <2>1. PICK j \in DOMAIN leaves :
                /\ j \notin nullified
                /\ leaves[j].disc = "VrfAuthority"
                /\ leaves[j].address = a
                /\ leaves[j].data.frozen
                /\ leaves[j].data.suite = SUITE_EDWARDS25519_SHA512_TAI
                /\ leaves[j].data.created_slot <= s
      BY <1>18, FrozenByLeaf
    <2>2. CASE j = k
      <3>1. n \in DOMAIN leaves' /\ n \notin nullified'
        BY <1>1, <1>2, <1>8
      <3>2. /\ leaves'[n].disc = "VrfAuthority"
            /\ leaves'[n].address = a
            /\ leaves'[n].data.frozen
            /\ leaves'[n].data.suite = SUITE_EDWARDS25519_SHA512_TAI
            /\ leaves'[n].data.created_slot <= s
        BY <2>1, <2>2, <1>4, <1>6, <1>7, <1>8
      <3> QED BY <3>1, <3>2, FrozenByLeafPrime
    <2>3. CASE j # k
      <3>1. j \in DOMAIN leaves' /\ j \notin nullified' /\ leaves'[j] = leaves[j]
        BY <2>1, <2>3, <1>1, <1>8
      <3> QED BY <2>1, <3>1, FrozenByLeafPrime
    <2> QED BY <2>2, <2>3
  <1>19. CommitsRestOnFrozenAuthority'
    BY <1>1, <1>8, <1>11, <1>18
       DEF IndInv, CommitsRestOnFrozenAuthority, CommitLeaves
  <1> QED BY <1>13, <1>14, <1>15, <1>16, <1>17, <1>19 DEF IndInv

\* A read-only input is a current leaf of the supported suite, at an authority
\* address, and if the claim is frozen so is the authority.
LEMMA ReadAuthorityFacts ==
    ASSUME IndInv, NEW d, NEW meta, ReadAuthority(d, meta)
    PROVE  /\ meta.address \in AuthorityAddresses
           /\ d \in VrfAuthority
           /\ meta.address = AuthorityAddress(ADDRESS_TREE_V2, d.owner, d.label)
           /\ d.frozen => FrozenBy(meta.address, slot)
           /\ d \in Current(meta.address)
  <1> DEFINE k == meta.leaf
  <1>1. /\ k \in DOMAIN leaves /\ k \notin nullified
        /\ leaves[k] = Account("VrfAuthority", meta.address, d)
    BY DEF ReadAuthority, LightInput
  <1>2. leaves[k] \in Accounts
    BY <1>1 DEF IndInv, TypeOK
  <1>3. /\ leaves[k].disc = "VrfAuthority"
        /\ leaves[k].address = meta.address
        /\ leaves[k].data = d
    BY <1>1 DEF Account
  <1> HIDE DEF k
  <1>4. meta.address \in AuthorityAddresses /\ d \in VrfAuthority
    BY <1>2, <1>3, AccountShape
  <1>5. k \in AuthorityLeaves /\ k \in Live
    BY <1>1, <1>3 DEF AuthorityLeaves, Live
  <1>6. meta.address = AuthorityAddress(ADDRESS_TREE_V2, d.owner, d.label)
    BY <1>3, <1>5 DEF IndInv, AuthorityAtItsSeeds
  <1>7. d.suite = SUITE_EDWARDS25519_SHA512_TAI /\ d.created_slot <= slot
    BY <1>3, <1>5 DEF IndInv, AuthorityRecordsSound
  <1>8. d.frozen => FrozenBy(meta.address, slot)
    BY <1>1, <1>3, <1>7, FrozenByLeaf
  <1>9. d \in Current(meta.address)
    BY <1>3, <1>5 DEF Current
  <1> QED BY <1>4, <1>6, <1>8, <1>9

\* Both registry commits.
LEMMA CreateCommitPreserves ==
    ASSUME IndInv, NEW d, NEW meta, NEW tree, NEW disc, NEW data,
           CreateCommit(d, meta, tree, disc, data), d.frozen,
           data.authority = meta.address, data.committed_slot = slot,
           data.memo_hash \in MemoHashes,
           meta.address \in AuthorityAddresses =>
              \/ disc = "VrfProofCommit" /\ data \in VrfProofCommit
              \/ disc = "VrfProofCommitWithBeta"
                   /\ data \in VrfProofCommitWithBeta
    PROVE  IndInv'
  <1> DEFINE address == CommitAddress(tree, meta.address, data.memo_hash)
             acc == Account(disc, address, data)
             n == Len(leaves) + 1
  <1>1. /\ tree = ADDRESS_TREE_V2
        /\ ReadAuthority(d, meta)
        /\ LightNewAddress(address)
        /\ addresses' = addresses \cup {address}
        /\ LightOutput(acc)
        /\ UNCHANGED <<slot, nullified, events>>
    BY DEF CreateCommit, AddressTreeOk
  <1>2. meta.address \in AuthorityAddresses /\ FrozenBy(meta.address, slot)
    BY <1>1, ReadAuthorityFacts
  <1>3. address \in CommitAddresses
    BY <1>1, <1>2 DEF CommitAddress, derive_address, CommitAddresses
  <1>4. TypeOK /\ nullified \subseteq DOMAIN leaves
    BY DEF IndInv, TypeOK
  <1>5. /\ acc.disc = disc /\ acc.address = address /\ acc.data = data
        /\ disc \in CommitDiscs /\ disc # "VrfAuthority"
    BY <1>2 DEF Account, CommitDiscs
  <1>6. acc \in Accounts
    BY <1>2, <1>3 DEF Accounts, Account
  <1> HIDE DEF acc, address
  <1>7. /\ leaves' \in Seq(Accounts)
        /\ DOMAIN leaves' = DOMAIN leaves \cup {n}
        /\ n \notin DOMAIN leaves
        /\ \A i \in DOMAIN leaves : leaves'[i] = leaves[i]
        /\ leaves'[n] = acc
    BY <1>1, <1>4, <1>6, OutputFacts
  <1>8. /\ nullified' \subseteq DOMAIN leaves'
        /\ OneLiveLeaf'
        /\ \A a, s : FrozenBy(a, s) => FrozenBy(a, s)'
    BY <1>1, <1>5, <1>6, CreateStep
  <1> HIDE DEF n
  <1>9. AuthorityLeaves' = AuthorityLeaves
    BY <1>5, <1>7 DEF AuthorityLeaves
  <1>10. CommitLeaves' = CommitLeaves \cup {n}
    BY <1>5, <1>7 DEF CommitLeaves
  <1>11. TypeOK'
    BY <1>1, <1>3, <1>4, <1>7, <1>8 DEF TypeOK
  <1>12. AuthorityAtItsSeeds'
    BY <1>7, <1>9 DEF IndInv, AuthorityAtItsSeeds, AuthorityLeaves
  <1>13. AuthorityRecordsSound'
    BY <1>1, <1>7, <1>9 DEF IndInv, AuthorityRecordsSound, AuthorityLeaves
  <1>14. CommitAtItsSeeds'
    <2>1. n \in Live'
      BY <1>1, <1>4, <1>7 DEF Live
    <2>2. leaves'[n].address =
              CommitAddress(ADDRESS_TREE_V2, leaves'[n].data.authority,
                            leaves'[n].data.memo_hash)
      BY <1>1, <1>5, <1>7 DEF address
    <2>3. ASSUME NEW i \in CommitLeaves
          PROVE  /\ i \in Live'
                 /\ leaves'[i].address =
                      CommitAddress(ADDRESS_TREE_V2, leaves'[i].data.authority,
                                    leaves'[i].data.memo_hash)
      BY <1>1, <1>7 DEF IndInv, CommitAtItsSeeds, CommitLeaves, Live
    <2> QED BY <1>10, <2>1, <2>2, <2>3 DEF CommitAtItsSeeds
  <1>15. CommitsRestOnFrozenAuthority'
    <2>1. ASSUME NEW i \in CommitLeaves'
          PROVE  FrozenBy(leaves[i].data.authority,
                          leaves[i].data.committed_slot)'
      <3>1. CASE i = n
        BY <3>1, <1>2, <1>5, <1>7, <1>8
      <3>2. CASE i \in CommitLeaves
        BY <3>2, <1>7, <1>8
           DEF IndInv, CommitsRestOnFrozenAuthority, CommitLeaves
      <3> QED BY <3>1, <3>2, <1>10
    <2>2. ASSUME NEW i \in DOMAIN events'
          PROVE  FrozenBy(AuthorityAddress(ADDRESS_TREE_V2, events[i].owner,
                                           events[i].label),
                          events[i].committed_slot)'
      BY <1>1, <1>8 DEF IndInv, CommitsRestOnFrozenAuthority
    <2> QED BY <2>1, <2>2 DEF CommitsRestOnFrozenAuthority
  <1> QED BY <1>8, <1>11, <1>12, <1>13, <1>14, <1>15 DEF IndInv

LEMMA CommitProofEventPreserves ==
    ASSUME IndInv, NEW owner \in Pubkeys, NEW d, NEW meta,
           NEW label \in Labels, NEW m \in MemoHashes, NEW p \in ProofHashes,
           NEW a \in AlphaHashes,
           CommitProofEvent(owner, d, meta, label, m, p, a)
    PROVE  IndInv'
  <1> DEFINE ev == [owner |-> owner, label |-> label, memo_hash |-> m,
                    proof_hash |-> p, alpha_hash |-> a,
                    committed_slot |-> slot]
             n == Len(events) + 1
  <1>1. /\ d.frozen
        /\ meta.address = AuthorityAddress(ADDRESS_TREE_V2, owner, label)
        /\ ReadAuthority(d, meta)
        /\ events' = Append(events, ev)
        /\ UNCHANGED <<slot, addresses, leaves, nullified>>
    BY DEF CommitProofEvent, CommitGuard
  <1>2. FrozenBy(AuthorityAddress(ADDRESS_TREE_V2, owner, label), slot)
    BY <1>1, ReadAuthorityFacts
  <1>3. TypeOK /\ events \in Seq(VrfProofCommitted) /\ slot \in Nat
    BY DEF IndInv, TypeOK
  <1>4. /\ ev \in VrfProofCommitted
        /\ ev.owner = owner /\ ev.label = label /\ ev.committed_slot = slot
    BY <1>3 DEF VrfProofCommitted
  <1> HIDE DEF ev
  <1>5. /\ events' \in Seq(VrfProofCommitted)
        /\ DOMAIN events' = DOMAIN events \cup {n}
        /\ \A i \in DOMAIN events : events'[i] = events[i]
        /\ events'[n] = ev
    BY <1>1, <1>3, <1>4, AppendFacts
  <1> HIDE DEF n
  <1>6. TypeOK'
    BY <1>1, <1>3, <1>5 DEF TypeOK
  <1>7. \A x, s : FrozenBy(x, s)' <=> FrozenBy(x, s)
    BY <1>1, FrozenByLeaf, FrozenByLeafPrime
  <1>8. /\ OneLiveLeaf' /\ AuthorityAtItsSeeds' /\ AuthorityRecordsSound'
        /\ CommitAtItsSeeds' /\ CommitLeaves' = CommitLeaves
    BY <1>1 DEF IndInv, OneLiveLeaf, AuthorityAtItsSeeds,
                AuthorityRecordsSound, CommitAtItsSeeds, CommitLeaves,
                AuthorityLeaves, Live
  <1>9. CommitsRestOnFrozenAuthority'
    <2>1. ASSUME NEW i \in CommitLeaves'
          PROVE  FrozenBy(leaves[i].data.authority,
                          leaves[i].data.committed_slot)'
      BY <1>1, <1>7, <1>8 DEF IndInv, CommitsRestOnFrozenAuthority
    <2>2. ASSUME NEW i \in DOMAIN events'
          PROVE  FrozenBy(AuthorityAddress(ADDRESS_TREE_V2, events[i].owner,
                                           events[i].label),
                          events[i].committed_slot)'
      <3>1. CASE i = n
        BY <3>1, <1>2, <1>4, <1>5, <1>7
      <3>2. CASE i \in DOMAIN events
        BY <3>2, <1>5, <1>7 DEF IndInv, CommitsRestOnFrozenAuthority
      <3> QED BY <3>1, <3>2, <1>5
    <2> QED BY <2>1, <2>2 DEF CommitsRestOnFrozenAuthority
  <1> QED BY <1>6, <1>8, <1>9 DEF IndInv

LEMMA AdvanceSlotPreserves ==
    ASSUME IndInv, AdvanceSlot
    PROVE  IndInv'
  <1>1. slot \in Nat /\ slot' = slot + 1
        /\ UNCHANGED <<addresses, leaves, nullified, events>>
    BY DEF IndInv, TypeOK, AdvanceSlot
  <1>2. AuthorityRecordsSound'
    <2>1. ASSUME NEW i \in AuthorityLeaves
          PROVE  leaves[i].data.created_slot \in Nat
      BY AccountShape DEF IndInv, TypeOK, AuthorityLeaves, VrfAuthority
    <2>2. AuthorityLeaves' = AuthorityLeaves
      BY <1>1 DEF AuthorityLeaves
    <2> QED BY <1>1, <2>1, <2>2 DEF IndInv, AuthorityRecordsSound
  <1>3. TypeOK'
    BY <1>1 DEF IndInv, TypeOK
  <1>4. OneLiveLeaf' /\ AuthorityAtItsSeeds' /\ CommitAtItsSeeds'
    BY <1>1 DEF IndInv, OneLiveLeaf, AuthorityAtItsSeeds, CommitAtItsSeeds,
                CommitLeaves, AuthorityLeaves, Live
  <1>5. CommitsRestOnFrozenAuthority'
    BY <1>1 DEF IndInv, CommitsRestOnFrozenAuthority, FrozenBy, Current,
                CommitLeaves, AuthorityLeaves, Live
  <1> QED BY <1>2, <1>3, <1>4, <1>5 DEF IndInv

LEMMA StutterPreserves ==
    ASSUME IndInv, UNCHANGED vars
    PROVE  IndInv'
  <1>1. UNCHANGED <<slot, addresses, leaves, nullified, events>>
    BY DEF vars
  <1> QED
    BY <1>1 DEF IndInv, TypeOK, OneLiveLeaf, AuthorityAtItsSeeds,
                AuthorityRecordsSound, CommitAtItsSeeds,
                CommitsRestOnFrozenAuthority, FrozenBy, Current,
                CommitLeaves, AuthorityLeaves, Live

-----------------------------------------------------------------------------
(* The inductive invariant.                                                *)

LEMMA InitEstablishes == Init => IndInv
  BY ConstantsAssumption
     DEF Init, IndInv, TypeOK, OneLiveLeaf, AuthorityAtItsSeeds,
         AuthorityRecordsSound, CommitAtItsSeeds,
         CommitsRestOnFrozenAuthority, CommitLeaves, AuthorityLeaves, Live

\* The commits of the two registry modes, from their parameters.
LEMMA CommitProofPreserves ==
    ASSUME IndInv, NEW owner \in Pubkeys, NEW d, NEW meta, NEW tree,
           NEW m \in MemoHashes, NEW p \in ProofHashes, NEW a \in AlphaHashes,
           CommitProof(owner, d, meta, tree, m, p, a)
    PROVE  IndInv'
  <1> DEFINE data == [authority |-> meta.address, memo_hash |-> m,
                      proof_hash |-> p, alpha_hash |-> a,
                      committed_slot |-> slot]
  <1>1. d.frozen /\ CreateCommit(d, meta, tree, "VrfProofCommit", data)
    BY DEF CommitProof, CommitGuard
  <1>2. slot \in Nat
    BY DEF IndInv, TypeOK
  <1>3. /\ data.authority = meta.address /\ data.committed_slot = slot
        /\ data.memo_hash \in MemoHashes
        /\ meta.address \in AuthorityAddresses => data \in VrfProofCommit
    BY <1>2 DEF VrfProofCommit
  <1> HIDE DEF data
  <1> QED BY <1>1, <1>3, CreateCommitPreserves

LEMMA CommitProofWithBetaPreserves ==
    ASSUME IndInv, NEW owner \in Pubkeys, NEW d, NEW meta, NEW tree,
           NEW m \in MemoHashes, NEW p \in ProofHashes, NEW a \in AlphaHashes,
           NEW lo \in BetaHalves, NEW hi \in BetaHalves,
           CommitProofWithBeta(owner, d, meta, tree, m, p, a, lo, hi)
    PROVE  IndInv'
  <1> DEFINE data == [authority |-> meta.address, memo_hash |-> m,
                      proof_hash |-> p, alpha_hash |-> a,
                      beta_lo |-> lo, beta_hi |-> hi, committed_slot |-> slot]
  <1>1. d.frozen
        /\ CreateCommit(d, meta, tree, "VrfProofCommitWithBeta", data)
    BY DEF CommitProofWithBeta, CommitGuard
  <1>2. slot \in Nat
    BY DEF IndInv, TypeOK
  <1>3. /\ data.authority = meta.address /\ data.committed_slot = slot
        /\ data.memo_hash \in MemoHashes
        /\ meta.address \in AuthorityAddresses =>
             data \in VrfProofCommitWithBeta
    BY <1>2 DEF VrfProofCommitWithBeta
  <1> HIDE DEF data
  <1> QED BY <1>1, <1>3, CreateCommitPreserves

LEMMA NextPreserves == IndInv /\ [Next]_vars => IndInv'
  <1> SUFFICES ASSUME IndInv, [Next]_vars PROVE IndInv'
    OBVIOUS
  <1>1. CASE AdvanceSlot
    BY <1>1, AdvanceSlotPreserves
  <1>2. ASSUME NEW owner \in Pubkeys, NEW tree \in AddressTrees,
               NEW pk \in Pks, NEW suite \in Suites, NEW label \in Labels,
               InitAuthority(owner, tree, pk, suite, label)
        PROVE  IndInv'
    BY <1>2, InitAuthorityPreserves
  <1>3. ASSUME NEW owner \in Pubkeys, NEW d, NEW meta,
               FreezeAuthority(owner, d, meta)
        PROVE  IndInv'
    <2>1. MutateAuthority(d, meta, [d EXCEPT !.frozen = TRUE])
      BY <1>3 DEF FreezeAuthority
    <2>2. RaisesFlag(d, [d EXCEPT !.frozen = TRUE])
      BY Zenon DEF RaisesFlag
    <2> QED BY <2>1, <2>2, MutatePreserves
  <1>4. ASSUME NEW owner \in Pubkeys, NEW d, NEW meta,
               RevokeAuthority(owner, d, meta)
        PROVE  IndInv'
    <2>1. MutateAuthority(d, meta, [d EXCEPT !.revoked = TRUE])
      BY <1>4 DEF RevokeAuthority
    <2>2. RaisesFlag(d, [d EXCEPT !.revoked = TRUE])
      BY Zenon DEF RaisesFlag
    <2> QED BY <2>1, <2>2, MutatePreserves
  <1>5. ASSUME NEW owner \in Pubkeys, NEW d, NEW meta, NEW tree,
               NEW m \in MemoHashes, NEW p \in ProofHashes,
               NEW a \in AlphaHashes,
               CommitProof(owner, d, meta, tree, m, p, a)
        PROVE  IndInv'
    BY <1>5, CommitProofPreserves
  <1>6. ASSUME NEW owner \in Pubkeys, NEW d, NEW meta, NEW tree,
               NEW m \in MemoHashes, NEW p \in ProofHashes,
               NEW a \in AlphaHashes, NEW lo \in BetaHalves,
               NEW hi \in BetaHalves,
               CommitProofWithBeta(owner, d, meta, tree, m, p, a, lo, hi)
        PROVE  IndInv'
    BY <1>6, CommitProofWithBetaPreserves
  <1>7. ASSUME NEW owner \in Pubkeys, NEW d, NEW meta, NEW label \in Labels,
               NEW m \in MemoHashes, NEW p \in ProofHashes,
               NEW a \in AlphaHashes,
               CommitProofEvent(owner, d, meta, label, m, p, a)
        PROVE  IndInv'
    BY <1>7, CommitProofEventPreserves
  <1>8. CASE UNCHANGED vars
    BY <1>8, StutterPreserves
  <1> QED
    BY <1>1, <1>2, <1>3, <1>4, <1>5, <1>6, <1>7, <1>8 DEF Next

\* The strengthened invariant holds in every reachable state.
THEOREM InductiveInvariant == Spec => []IndInv
  BY InitEstablishes, NextPreserves, PTL DEF Spec

\* The trees hold well-formed accounts only.
THEOREM TypeCorrect == Spec => []TypeOK
  <1>1. IndInv => TypeOK
    BY DEF IndInv
  <1> QED BY <1>1, InductiveInvariant, PTL

\* Every account has exactly one current version (freeze and revoke neither
\* fork nor lose an account).
THEOREM AccountsAreSingle == Spec => []OneLiveLeaf
  <1>1. IndInv => OneLiveLeaf
    BY DEF IndInv
  <1> QED BY <1>1, InductiveInvariant, PTL

\* The authority that a commit is scoped by is the one its owner and label
\* derive, although commit_proof never re-derives it.
THEOREM AuthoritiesAtTheirSeeds == Spec => []AuthorityAtItsSeeds
  <1>1. IndInv => AuthorityAtItsSeeds
    BY DEF IndInv
  <1> QED BY <1>1, InductiveInvariant, PTL

\* Every commit and every log entry belongs to a frozen authority.
THEOREM CommitmentsAreAnchored == Spec => []CommitsRestOnFrozenAuthority
  <1>1. IndInv => CommitsRestOnFrozenAuthority
    BY DEF IndInv
  <1> QED BY <1>1, InductiveInvariant, PTL

\* One registry commit per (authority, memo), over both modes: two commits with
\* the same seeds share an address, and are both unspent, so they are one leaf.
THEOREM RegistryIsWriteOnce == Spec => []OneCommitPerMemo
  <1>1. IndInv => OneCommitPerMemo
    <2> SUFFICES ASSUME IndInv, NEW i \in CommitLeaves, NEW j \in CommitLeaves,
                        leaves[i].data.authority = leaves[j].data.authority,
                        leaves[i].data.memo_hash = leaves[j].data.memo_hash
                 PROVE  i = j
      BY DEF OneCommitPerMemo
    <2>1. i \in Live /\ j \in Live /\ leaves[i].address = leaves[j].address
      BY DEF IndInv, CommitAtItsSeeds
    <2> QED BY <2>1 DEF IndInv, OneLiveLeaf
  <1> QED BY <1>1, InductiveInvariant, PTL
-----------------------------------------------------------------------------
(* What a step may never do.                                               *)

\* A step either replaces the current leaf of an authority by one with a raised
\* flag, or appends a leaf without consuming one, or leaves the trees alone.
LEMMA StepKinds ==
    ASSUME IndInv, [Next]_vars
    PROVE  \/ \E d, e, meta : MutateAuthority(d, meta, e) /\ RaisesFlag(d, e)
           \/ /\ \E acc : LightOutput(acc)
              /\ UNCHANGED <<nullified, events>>
           \/ UNCHANGED <<leaves, nullified>>
  <1>1. ASSUME NEW owner, NEW d, NEW meta, FreezeAuthority(owner, d, meta)
        PROVE  \E x, e, mt : MutateAuthority(x, mt, e) /\ RaisesFlag(x, e)
    <2>1. MutateAuthority(d, meta, [d EXCEPT !.frozen = TRUE])
      BY <1>1 DEF FreezeAuthority
    <2>2. RaisesFlag(d, [d EXCEPT !.frozen = TRUE])
      BY Zenon DEF RaisesFlag
    <2> QED BY <2>1, <2>2
  <1>2. ASSUME NEW owner, NEW d, NEW meta, RevokeAuthority(owner, d, meta)
        PROVE  \E x, e, mt : MutateAuthority(x, mt, e) /\ RaisesFlag(x, e)
    <2>1. MutateAuthority(d, meta, [d EXCEPT !.revoked = TRUE])
      BY <1>2 DEF RevokeAuthority
    <2>2. RaisesFlag(d, [d EXCEPT !.revoked = TRUE])
      BY Zenon DEF RaisesFlag
    <2> QED BY <2>1, <2>2
  <1>3. ASSUME NEW owner, NEW tree, NEW pk, NEW suite, NEW label,
               InitAuthority(owner, tree, pk, suite, label)
        PROVE  (\E acc : LightOutput(acc)) /\ UNCHANGED <<nullified, events>>
    BY <1>3 DEF InitAuthority
  <1>4. ASSUME NEW owner, NEW d, NEW meta, NEW tree, NEW m, NEW p, NEW a,
               CommitProof(owner, d, meta, tree, m, p, a)
        PROVE  (\E acc : LightOutput(acc)) /\ UNCHANGED <<nullified, events>>
    BY <1>4 DEF CommitProof, CreateCommit
  <1>5. ASSUME NEW owner, NEW d, NEW meta, NEW tree, NEW m, NEW p, NEW a,
               NEW lo, NEW hi,
               CommitProofWithBeta(owner, d, meta, tree, m, p, a, lo, hi)
        PROVE  (\E acc : LightOutput(acc)) /\ UNCHANGED <<nullified, events>>
    BY <1>5 DEF CommitProofWithBeta, CreateCommit
  <1>6. ASSUME NEW owner, NEW d, NEW meta, NEW label, NEW m, NEW p, NEW a,
               CommitProofEvent(owner, d, meta, label, m, p, a)
        PROVE  UNCHANGED <<leaves, nullified>>
    BY <1>6 DEF CommitProofEvent
  <1>7. AdvanceSlot => UNCHANGED <<leaves, nullified>>
    BY DEF AdvanceSlot
  <1>8. UNCHANGED vars => UNCHANGED <<leaves, nullified>>
    BY DEF vars
  <1> QED BY <1>1, <1>2, <1>3, <1>4, <1>5, <1>6, <1>7, <1>8 DEF Next

\* Appending to the ledger, whatever the account.
LEMMA OutputKeeps ==
    ASSUME TypeOK, NEW acc, LightOutput(acc)
    PROVE  /\ DOMAIN leaves \subseteq DOMAIN leaves'
           /\ \A i \in DOMAIN leaves : leaves'[i] = leaves[i]
  BY DEF TypeOK, LightOutput

\* A record that is not consumed stays current.
LEMMA CurrentKept ==
    ASSUME NEW a, NEW i \in Live, i \in AuthorityLeaves,
           leaves[i].address = a, i \in Live', leaves'[i] = leaves[i]
    PROVE  leaves[i].data \in Current(a)'
  <1>1. i \in AuthorityLeaves'
    BY DEF AuthorityLeaves, Live
  <1> QED BY <1>1 DEF Current

LEMMA SelfExcept ==
    ASSUME NEW d \in VrfAuthority
    PROVE  d = [d EXCEPT !.frozen = d.frozen, !.revoked = d.revoked]
  BY DEF VrfAuthority

LEMMA StepKeepsKeys ==
    ASSUME IndInv, [Next]_vars
    PROVE  KeepsKeys
  <1> SUFFICES ASSUME NEW a \in addresses, NEW i \in Live,
                      i \in AuthorityLeaves, leaves[i].address = a
               PROVE  \E e \in Current(a)' :
                        /\ e = [leaves[i].data EXCEPT !.frozen = e.frozen,
                                                      !.revoked = e.revoked]
                        /\ leaves[i].data.frozen => e.frozen
                        /\ leaves[i].data.revoked => e.revoked
    BY Zenon DEF KeepsKeys, Current
  <1>1. TypeOK /\ i \in DOMAIN leaves /\ i \notin nullified
    BY DEF IndInv, Live
  <1>2. leaves[i].data \in VrfAuthority
    BY <1>1, AccountShape DEF TypeOK, AuthorityLeaves
  <1>3. ASSUME i \in Live', leaves'[i] = leaves[i]
        PROVE  \E e \in Current(a)' :
                 /\ e = [leaves[i].data EXCEPT !.frozen = e.frozen,
                                               !.revoked = e.revoked]
                 /\ leaves[i].data.frozen => e.frozen
                 /\ leaves[i].data.revoked => e.revoked
    <2>1. leaves[i].data \in Current(a)'
      BY <1>3, CurrentKept
    <2>2. leaves[i].data = [leaves[i].data EXCEPT !.frozen = leaves[i].data.frozen,
                                    !.revoked = leaves[i].data.revoked]
      BY <1>2, SelfExcept
    <2> QED BY <2>1, <2>2, Zenon
  <1>4. CASE UNCHANGED <<leaves, nullified>>
    <2>1. i \in Live' /\ leaves'[i] = leaves[i]
      BY <1>4 DEF Live
    <2> QED BY <2>1, <1>3
  <1>5. CASE (\E acc : LightOutput(acc)) /\ UNCHANGED <<nullified, events>>
    <2>1. i \in Live' /\ leaves'[i] = leaves[i]
      BY <1>1, <1>5, OutputKeeps DEF Live
    <2> QED BY <2>1, <1>3
  <1>6. CASE \E d, e, meta : MutateAuthority(d, meta, e) /\ RaisesFlag(d, e)
    <2>1. PICK d, e, meta : MutateAuthority(d, meta, e) /\ RaisesFlag(d, e)
      BY <1>6
    <2>2. /\ leaves[meta.leaf] = Account("VrfAuthority", meta.address, d)
          /\ nullified' = nullified \cup {meta.leaf}
          /\ LightOutput(Account("VrfAuthority", meta.address, e))
      BY <2>1 DEF MutateAuthority, LightInput
    <2>3. CASE meta.leaf # i
      <3>1. i \in Live' /\ leaves'[i] = leaves[i]
        BY <1>1, <2>2, <2>3, OutputKeeps DEF Live
      <3> QED BY <3>1, <1>3
    <2>4. CASE meta.leaf = i
      <3> DEFINE n == Len(leaves) + 1
                 acc == Account("VrfAuthority", meta.address, e)
      <3>1. leaves[i].data = d /\ meta.address = a
        BY <2>2, <2>4 DEF Account
      <3>2. leaves[i].disc = "VrfAuthority" /\ leaves[i] \in Accounts
        BY <1>1 DEF AuthorityLeaves, TypeOK
      <3>3. a \in AuthorityAddresses /\ d \in VrfAuthority
        BY <3>1, <3>2, AccountShape
      <3>4. /\ e \in VrfAuthority
            /\ d.frozen => e.frozen
            /\ d.revoked => e.revoked
            /\ e = [d EXCEPT !.frozen = e.frozen, !.revoked = e.revoked]
        BY <2>1, <3>3 DEF VrfAuthority, RaisesFlag
      <3>5. /\ acc \in Accounts /\ acc.disc = "VrfAuthority"
            /\ acc.address = a /\ acc.data = e
        BY <3>1, <3>3, <3>4 DEF Accounts, Account
      <3>6. LightOutput(acc)
        BY <2>2
      <3> HIDE DEF acc
      <3>7. /\ n \in DOMAIN leaves' /\ n \notin DOMAIN leaves
            /\ leaves'[n] = acc
        BY <1>1, <3>5, <3>6, OutputFacts
      <3>8. n \notin nullified'
        BY <1>1, <2>2, <2>4, <3>7 DEF TypeOK
      <3> HIDE DEF n
      <3>9. n \in Live' /\ n \in AuthorityLeaves'
        BY <3>5, <3>7, <3>8 DEF Live, AuthorityLeaves
      <3>10. e \in Current(a)'
        BY <3>5, <3>7, <3>9 DEF Current
      <3> QED BY <3>1, <3>4, <3>10, Zenon
    <2> QED BY <2>3, <2>4
  <1> QED BY <1>4, <1>5, <1>6, StepKinds

\* A VRF key cannot be rotated: whatever callers pass, the record of an
\* authority changes only by raising frozen or revoked.
THEOREM KeysArePermanent == Spec => KeyIsPermanent
  <1>1. IndInv /\ [Next]_vars => [KeepsKeys]_vars
    BY StepKeepsKeys
  <1> QED BY <1>1, InductiveInvariant, PTL DEF Spec, KeyIsPermanent

\* The leaf that an operation appends is the only new one.
LEMMA NewLeaf ==
    ASSUME TypeOK, NEW acc, LightOutput(acc), NEW i \in DOMAIN leaves',
           i \notin DOMAIN leaves
    PROVE  leaves'[i] = acc
  BY DEF TypeOK, LightOutput

LEMMA CommitUnderActive ==
    ASSUME IndInv, NEW d, NEW meta, NEW tree, NEW disc, NEW data,
           CreateCommit(d, meta, tree, disc, data),
           d.frozen, ~d.revoked, data.authority = meta.address
    PROVE  CommitsUnderActive
  <1>1. /\ ReadAuthority(d, meta)
        /\ \E address : LightOutput(Account(disc, address, data))
        /\ UNCHANGED events
    BY DEF CreateCommit
  <1>2. d \in Current(meta.address)
    BY <1>1, ReadAuthorityFacts
  <1>3. PICK address : LightOutput(Account(disc, address, data))
    BY <1>1
  <1>4. TypeOK
    BY DEF IndInv
  <1>5. ASSUME NEW i \in CommitLeaves' \ CommitLeaves
        PROVE  \E x \in Current(leaves'[i].data.authority) :
                  x.frozen /\ ~x.revoked
    <2>1. i \in DOMAIN leaves' /\ i \notin DOMAIN leaves
      BY <1>3, <1>4, OutputKeeps DEF CommitLeaves
    <2>2. leaves'[i].data = data
      BY <1>3, <1>4, <2>1, NewLeaf DEF Account
    <2> QED BY <1>2, <2>2
  <1> QED BY <1>1, <1>5 DEF CommitsUnderActive

\* A step that adds no commit and no event commits nothing.
LEMMA NoNewCommit ==
    ASSUME IndInv, UNCHANGED events,
           \/ UNCHANGED leaves
           \/ \E address, data :
                 LightOutput(Account("VrfAuthority", address, data))
    PROVE  CommitsUnderActive
  <1>1. CommitLeaves' \ CommitLeaves = {}
    <2>1. CASE UNCHANGED leaves
      BY <2>1 DEF CommitLeaves
    <2>2. ASSUME NEW address, NEW data,
                 LightOutput(Account("VrfAuthority", address, data)),
                 NEW i \in CommitLeaves', i \notin CommitLeaves
          PROVE  FALSE
      <3>1. TypeOK
        BY DEF IndInv
      <3>2. i \in DOMAIN leaves' /\ i \notin DOMAIN leaves
        BY <2>2, <3>1, OutputKeeps DEF CommitLeaves
      <3>3. leaves'[i].disc = "VrfAuthority"
        BY <2>2, <3>1, <3>2, NewLeaf DEF Account
      <3> QED BY <2>2, <3>3 DEF CommitLeaves, CommitDiscs
    <2> QED BY <2>1, <2>2
  <1> QED BY <1>1 DEF CommitsUnderActive

LEMMA StepCommitsUnderActive ==
    ASSUME IndInv, [Next]_vars
    PROVE  CommitsUnderActive
  <1>1. AdvanceSlot => CommitsUnderActive
    BY NoNewCommit DEF AdvanceSlot
  <1>2. ASSUME NEW owner, NEW tree, NEW pk, NEW suite, NEW label,
               InitAuthority(owner, tree, pk, suite, label)
        PROVE  CommitsUnderActive
    BY <1>2, NoNewCommit DEF InitAuthority
  <1>3. ASSUME NEW d, NEW e, NEW meta, MutateAuthority(d, meta, e)
        PROVE  CommitsUnderActive
    BY <1>3, NoNewCommit DEF MutateAuthority
  <1>4. ASSUME NEW owner, NEW d, NEW meta, FreezeAuthority(owner, d, meta)
        PROVE  CommitsUnderActive
    <2>1. MutateAuthority(d, meta, [d EXCEPT !.frozen = TRUE])
      BY <1>4 DEF FreezeAuthority
    <2> QED BY <1>3, <2>1
  <1>5. ASSUME NEW owner, NEW d, NEW meta, RevokeAuthority(owner, d, meta)
        PROVE  CommitsUnderActive
    <2>1. MutateAuthority(d, meta, [d EXCEPT !.revoked = TRUE])
      BY <1>5 DEF RevokeAuthority
    <2> QED BY <1>3, <2>1
  <1>6. ASSUME NEW owner, NEW d, NEW meta, NEW tree, NEW m, NEW p, NEW a,
               CommitProof(owner, d, meta, tree, m, p, a)
        PROVE  CommitsUnderActive
    <2> DEFINE data == [authority |-> meta.address, memo_hash |-> m,
                        proof_hash |-> p, alpha_hash |-> a,
                        committed_slot |-> slot]
    <2>1. /\ d.frozen /\ ~d.revoked
          /\ CreateCommit(d, meta, tree, "VrfProofCommit", data)
      BY <1>6 DEF CommitProof, CommitGuard
    <2>2. data.authority = meta.address
      OBVIOUS
    <2> HIDE DEF data
    <2> QED BY <2>1, <2>2, CommitUnderActive
  <1>7. ASSUME NEW owner, NEW d, NEW meta, NEW tree, NEW m, NEW p, NEW a,
               NEW lo, NEW hi,
               CommitProofWithBeta(owner, d, meta, tree, m, p, a, lo, hi)
        PROVE  CommitsUnderActive
    <2> DEFINE data == [authority |-> meta.address, memo_hash |-> m,
                        proof_hash |-> p, alpha_hash |-> a,
                        beta_lo |-> lo, beta_hi |-> hi,
                        committed_slot |-> slot]
    <2>1. /\ d.frozen /\ ~d.revoked
          /\ CreateCommit(d, meta, tree, "VrfProofCommitWithBeta", data)
      BY <1>7 DEF CommitProofWithBeta, CommitGuard
    <2>2. data.authority = meta.address
      OBVIOUS
    <2> HIDE DEF data
    <2> QED BY <2>1, <2>2, CommitUnderActive
  <1>8. ASSUME NEW owner \in Pubkeys, NEW d, NEW meta, NEW label \in Labels,
               NEW m \in MemoHashes, NEW p \in ProofHashes,
               NEW a \in AlphaHashes,
               CommitProofEvent(owner, d, meta, label, m, p, a)
        PROVE  CommitsUnderActive
    <2> DEFINE ev == [owner |-> owner, label |-> label, memo_hash |-> m,
                      proof_hash |-> p, alpha_hash |-> a,
                      committed_slot |-> slot]
    <2>1. /\ d.frozen /\ ~d.revoked
          /\ meta.address = AuthorityAddress(ADDRESS_TREE_V2, owner, label)
          /\ ReadAuthority(d, meta)
          /\ events' = Append(events, ev)
          /\ UNCHANGED leaves
      BY <1>8 DEF CommitProofEvent, CommitGuard
    <2>2. d \in Current(meta.address)
      BY <2>1, ReadAuthorityFacts
    <2>3. events \in Seq(VrfProofCommitted) /\ slot \in Nat
      BY DEF IndInv, TypeOK
    <2>4. ev.owner = owner /\ ev.label = label /\ ev \in VrfProofCommitted
      BY <2>3 DEF VrfProofCommitted
    <2> HIDE DEF ev
    <2>5. ASSUME NEW i \in DOMAIN events' \ DOMAIN events
          PROVE  events'[i].owner = owner /\ events'[i].label = label
      BY <2>1, <2>3, <2>4, AppendFacts
    <2>6. CommitLeaves' \ CommitLeaves = {}
      BY <2>1 DEF CommitLeaves
    <2> QED BY <2>1, <2>2, <2>5, <2>6 DEF CommitsUnderActive
  <1>9. UNCHANGED vars => CommitsUnderActive
    BY NoNewCommit DEF vars
  <1> QED
    BY <1>1, <1>2, <1>4, <1>5, <1>6, <1>7, <1>8, <1>9 DEF Next

\* No commitment lands under a revoked or unfrozen authority, however stale the
\* snapshot it was built from.
THEOREM RevocationIsFinal == Spec => NoCommitUnderRevoked
  <1>1. IndInv /\ [Next]_vars => [CommitsUnderActive]_vars
    BY StepCommitsUnderActive
  <1> QED BY <1>1, InductiveInvariant, PTL DEF Spec, NoCommitUnderRevoked

\* The log only grows.
LEMMA StepKeepsEvents ==
    ASSUME IndInv, [Next]_vars
    PROVE  /\ Len(events) <= Len(events')
           /\ \A i \in DOMAIN events : events'[i] = events[i]
  <1>1. events \in Seq(VrfProofCommitted) /\ slot \in Nat
    BY DEF IndInv, TypeOK
  <1>2. ASSUME NEW owner \in Pubkeys, NEW d, NEW meta, NEW label \in Labels,
               NEW m \in MemoHashes, NEW p \in ProofHashes,
               NEW a \in AlphaHashes,
               CommitProofEvent(owner, d, meta, label, m, p, a)
        PROVE  \E ev \in VrfProofCommitted : events' = Append(events, ev)
    <2> DEFINE ev == [owner |-> owner, label |-> label, memo_hash |-> m,
                      proof_hash |-> p, alpha_hash |-> a,
                      committed_slot |-> slot]
    <2>1. events' = Append(events, ev)
      BY <1>2 DEF CommitProofEvent
    <2>2. ev \in VrfProofCommitted
      BY <1>1 DEF VrfProofCommitted
    <2> HIDE DEF ev
    <2> QED BY <2>1, <2>2
  <1>3. ASSUME NEW d, NEW e, NEW meta, MutateAuthority(d, meta, e)
        PROVE  UNCHANGED events
    BY <1>3 DEF MutateAuthority
  <1>4. ASSUME NEW owner, NEW d, NEW meta, FreezeAuthority(owner, d, meta)
        PROVE  UNCHANGED events
    <2>1. MutateAuthority(d, meta, [d EXCEPT !.frozen = TRUE])
      BY <1>4 DEF FreezeAuthority
    <2> QED BY <1>3, <2>1
  <1>5. ASSUME NEW owner, NEW d, NEW meta, RevokeAuthority(owner, d, meta)
        PROVE  UNCHANGED events
    <2>1. MutateAuthority(d, meta, [d EXCEPT !.revoked = TRUE])
      BY <1>5 DEF RevokeAuthority
    <2> QED BY <1>3, <2>1
  <1>6. \/ UNCHANGED events
        \/ \E ev \in VrfProofCommitted : events' = Append(events, ev)
    <2>1. AdvanceSlot => UNCHANGED events
      BY DEF AdvanceSlot
    <2>2. \A owner, tree, pk, suite, label :
            InitAuthority(owner, tree, pk, suite, label) => UNCHANGED events
      BY DEF InitAuthority
    <2>3. \A owner, d, meta, tree, m, p, a :
            CommitProof(owner, d, meta, tree, m, p, a) => UNCHANGED events
      BY DEF CommitProof, CreateCommit
    <2>4. \A owner, d, meta, tree, m, p, a, lo, hi :
            CommitProofWithBeta(owner, d, meta, tree, m, p, a, lo, hi)
               => UNCHANGED events
      BY DEF CommitProofWithBeta, CreateCommit
    <2>5. UNCHANGED vars => UNCHANGED events
      BY DEF vars
    <2> QED BY <1>2, <1>4, <1>5, <2>1, <2>2, <2>3, <2>4, <2>5 DEF Next
  <1>7. CASE UNCHANGED events
    BY <1>1, <1>7
  <1>8. CASE \E ev \in VrfProofCommitted : events' = Append(events, ev)
    BY <1>1, <1>8, AppendFacts
  <1> QED BY <1>6, <1>7, <1>8

LEMMA StepKeepsCommitments ==
    ASSUME IndInv, [Next]_vars
    PROVE  KeepsCommitments
  <1> SUFFICES ASSUME NEW i \in CommitLeaves
               PROVE  i \in Live' /\ leaves'[i] = leaves[i]
    BY StepKeepsEvents DEF KeepsCommitments
  <1>1. i \in DOMAIN leaves /\ i \notin nullified /\ TypeOK
    BY DEF IndInv, CommitAtItsSeeds, Live
  <1>2. leaves[i].disc # "VrfAuthority"
    BY DEF CommitLeaves, CommitDiscs
  <1>3. CASE UNCHANGED <<leaves, nullified>>
    BY <1>1, <1>3 DEF Live
  <1>4. CASE (\E acc : LightOutput(acc)) /\ UNCHANGED <<nullified, events>>
    BY <1>1, <1>4, OutputKeeps DEF Live
  <1>5. CASE \E d, e, meta : MutateAuthority(d, meta, e) /\ RaisesFlag(d, e)
    <2>1. PICK d, e, meta : MutateAuthority(d, meta, e)
      BY <1>5
    <2>2. /\ leaves[meta.leaf] = Account("VrfAuthority", meta.address, d)
          /\ nullified' = nullified \cup {meta.leaf}
          /\ LightOutput(Account("VrfAuthority", meta.address, e))
      BY <2>1 DEF MutateAuthority, LightInput
    <2>3. meta.leaf # i
      BY <1>2, <2>2 DEF Account
    <2> QED BY <1>1, <2>2, <2>3, OutputKeeps DEF Live
  <1> QED BY <1>3, <1>4, <1>5, StepKinds

\* A registry commit stays current and unchanged for ever, and log entries are
\* never rewritten.
THEOREM CommitmentsStay == Spec => CommitmentsArePermanent
  <1>1. IndInv /\ [Next]_vars => [KeepsCommitments]_vars
    BY StepKeepsCommitments
  <1> QED BY <1>1, InductiveInvariant, PTL DEF Spec, CommitmentsArePermanent

-----------------------------------------------------------------------------
(* What the modules that build on the program need.                        *)

\* The current record of an authority is a claim that a caller can make.
LEMMA CurrentClaim ==
    ASSUME IndInv, NEW i \in Live \cap AuthorityLeaves
    PROVE  /\ leaves[i].data \in Claims
           /\ [leaf |-> i, address |-> leaves[i].address] \in Metas
  <1> DEFINE claim == leaves[i].data
  <1>1. /\ leaves[i] \in Accounts /\ leaves[i].disc = "VrfAuthority"
        /\ slot \in Nat
    BY DEF Live, AuthorityLeaves, IndInv, TypeOK
  <1>2. claim \in VrfAuthority
    BY <1>1, AccountShape
  <1>3. claim.created_slot <= slot
    BY DEF IndInv, AuthorityRecordsSound
  <1>4. claim.created_slot \in 0..slot
    BY <1>1, <1>2, <1>3 DEF VrfAuthority
  <1>5. [leaf |-> i, address |-> leaves[i].address] \in Metas
    BY DEF Metas, Live, IndInv, OneLiveLeaf
  <1> HIDE DEF claim
  <1>6. claim \in Claims
    BY <1>2, <1>4 DEF Claims, VrfAuthority
  <1> QED BY <1>5, <1>6 DEF claim

\* No leaf and no address is ever taken back.
LEMMA LeavesKept ==
    ASSUME IndInv, [Next]_vars
    PROVE  /\ \A i \in DOMAIN leaves : i \in DOMAIN leaves' /\ leaves'[i] = leaves[i]
           /\ addresses \subseteq addresses'
  <1>1. \A i \in DOMAIN leaves : i \in DOMAIN leaves' /\ leaves'[i] = leaves[i]
    <2>1. CASE UNCHANGED <<leaves, nullified>>
      BY <2>1
    <2>2. CASE (\E acc : LightOutput(acc)) /\ UNCHANGED <<nullified, events>>
      BY <2>2, OutputKeeps DEF IndInv
    <2>3. CASE \E d, e, meta : MutateAuthority(d, meta, e) /\ RaisesFlag(d, e)
      BY <2>3, OutputKeeps DEF IndInv, MutateAuthority
    <2> QED BY <2>1, <2>2, <2>3, StepKinds
  <1>2. ASSUME NEW a \in addresses
        PROVE  a \in addresses'
    <2>1. PICK i \in Live : leaves[i].address = a
      BY DEF IndInv, OneLiveLeaf
    <2>2. i \in DOMAIN leaves' /\ leaves'[i].address = a
      BY <1>1, <2>1 DEF Live
    <2> QED BY <2>2, NextPreserves DEF IndInv, OneLiveLeaf
  <1> QED BY <1>1, <1>2

\* e is d or a version of it that came after.
LaterVersion(d, e) ==
    /\ e.owner = d.owner /\ e.label = d.label
    /\ e.pk = d.pk /\ e.suite = d.suite
    /\ d.frozen => e.frozen
    /\ d.revoked => e.revoked

\* An authority has a current version in every later state.
LEMMA HasLaterVersion ==
    ASSUME IndInv, [Next]_vars, NEW a, NEW d \in Current(a)
    PROVE  \E e \in Current(a)' : LaterVersion(d, e)
  <1>1. PICK i \in Live \cap AuthorityLeaves :
            leaves[i].address = a /\ d = leaves[i].data
    BY DEF Current
  <1>2. leaves[i] \in Accounts /\ leaves[i].disc = "VrfAuthority"
    BY <1>1 DEF Live, AuthorityLeaves, IndInv, TypeOK
  <1>3. d \in VrfAuthority
    BY <1>1, <1>2, AccountShape
  <1>4. a \in addresses
    BY <1>1 DEF IndInv, OneLiveLeaf, Live
  <1>5. PICK e \in Current(a)' :
            /\ e = [d EXCEPT !.frozen = e.frozen, !.revoked = e.revoked]
            /\ d.frozen => e.frozen
            /\ d.revoked => e.revoked
    BY <1>4, StepKeepsKeys, Zenon DEF KeepsKeys
  <1>6. LaterVersion(d, e)
    BY <1>3, <1>5 DEF LaterVersion, VrfAuthority
  <1> QED BY <1>6

\* Only one version of an authority is current.
LEMMA OneCurrent ==
    ASSUME IndInv, NEW a, NEW d \in Current(a), NEW e \in Current(a)
    PROVE  d = e
  BY DEF IndInv, OneLiveLeaf, Current

-----------------------------------------------------------------------------
(* The abstract state over a step.                                         *)

\* Only the unspent leaves and the log are seen by the registry.
LEMMA AbstractStutter ==
    ASSUME UNCHANGED <<leaves, nullified, events>>
    PROVE  UNCHANGED Registry!vars
  <1>1. Live' = Live /\ AuthorityLeaves' = AuthorityLeaves
        /\ CommitLeaves' = CommitLeaves
    BY DEF Live, AuthorityLeaves, CommitLeaves
  <1>2. absAuthorities' = absAuthorities
    BY <1>1 DEF absAuthorities
  <1>3. absCommits' = absCommits
    BY <1>1 DEF absCommits
  <1>4. absLog' = absLog
    BY DEF absLog
  <1> QED BY <1>2, <1>3, <1>4 DEF Registry!vars

\* An unspent authority leaf maps to a record with its owner and label, which
\* determine its address.
LEMMA AuthorityLeafFacts ==
    ASSUME IndInv, NEW i \in Live \cap AuthorityLeaves
    PROVE  /\ leaves[i].data \in VrfAuthority
           /\ leaves[i].address \in addresses
           /\ leaves[i].address =
                AuthorityAddress(ADDRESS_TREE_V2,
                    AbsAuthority(leaves[i].data).owner,
                    AbsAuthority(leaves[i].data).label)
  <1>1. i \in DOMAIN leaves /\ leaves[i] \in Accounts
        /\ leaves[i].disc = "VrfAuthority"
    BY DEF IndInv, TypeOK, Live, AuthorityLeaves
  <1>2. leaves[i].data \in VrfAuthority
    BY <1>1, AccountShape
  <1>3. /\ AbsAuthority(leaves[i].data).owner = leaves[i].data.owner
        /\ AbsAuthority(leaves[i].data).label = leaves[i].data.label
    BY DEF AbsAuthority
  <1> QED BY <1>1, <1>2, <1>3 DEF IndInv, OneLiveLeaf, AuthorityAtItsSeeds

\* A commit maps to an entry whose names and memo determine its address.
LEMMA CommitLeafFacts ==
    ASSUME IndInv, NEW i \in CommitLeaves
    PROVE  /\ leaves[i].address \in addresses
           /\ leaves[i].address =
                CommitAddress(ADDRESS_TREE_V2,
                    AuthorityAddress(ADDRESS_TREE_V2,
                        AbsCommit(leaves[i]).owner, AbsCommit(leaves[i]).label),
                    AbsCommit(leaves[i]).memo)
  <1>1. i \in DOMAIN leaves /\ leaves[i] \in Accounts
        /\ leaves[i].disc \in CommitDiscs
    BY DEF IndInv, TypeOK, CommitLeaves
  <1>2. leaves[i].data.authority \in AuthorityAddresses
    BY <1>1, AccountShape
  <1>3. leaves[i].data.authority =
            AuthorityAddress(ADDRESS_TREE_V2, leaves[i].data.authority.scope,
                             leaves[i].data.authority.key)
    BY <1>2 DEF AuthorityAddresses, AuthorityAddress, derive_address
  <1>4. /\ AbsCommit(leaves[i]).owner = leaves[i].data.authority.scope
        /\ AbsCommit(leaves[i]).label = leaves[i].data.authority.key
        /\ AbsCommit(leaves[i]).memo = leaves[i].data.memo_hash
    BY DEF AbsCommit
  <1> QED BY <1>1, <1>3, <1>4 DEF IndInv, OneLiveLeaf, CommitAtItsSeeds

\* What raising one flag does to an abstract record.
LEMMA AbsRaises ==
    ASSUME NEW d, NEW e, d \in VrfAuthority
    PROVE  /\ e = [d EXCEPT !.frozen = TRUE] =>
                AbsAuthority(e) = [AbsAuthority(d) EXCEPT !.frozen = TRUE]
           /\ e = [d EXCEPT !.revoked = TRUE] =>
                AbsAuthority(e) = [AbsAuthority(d) EXCEPT !.revoked = TRUE]
  <1> DEFINE Rec(f, r) == [owner |-> d.owner, label |-> d.label, pk |-> d.pk,
                           frozen |-> f, revoked |-> r]
  <1>1. \A t : /\ [AbsAuthority(d) EXCEPT !.frozen = t] = Rec(t, d.revoked)
               /\ [AbsAuthority(d) EXCEPT !.revoked = t] = Rec(d.frozen, t)
    BY DEF AbsAuthority
  <1>2. ASSUME e = [d EXCEPT !.frozen = TRUE]
        PROVE  AbsAuthority(e) = Rec(TRUE, d.revoked)
    <2>1. /\ e.owner = d.owner /\ e.label = d.label /\ e.pk = d.pk
          /\ e.frozen = TRUE /\ e.revoked = d.revoked
      BY <1>2, Zenon DEF VrfAuthority
    <2> QED BY <2>1, Zenon DEF AbsAuthority
  <1>3. ASSUME e = [d EXCEPT !.revoked = TRUE]
        PROVE  AbsAuthority(e) = Rec(d.frozen, TRUE)
    <2>1. /\ e.owner = d.owner /\ e.label = d.label /\ e.pk = d.pk
          /\ e.frozen = d.frozen /\ e.revoked = TRUE
      BY <1>3, Zenon DEF VrfAuthority
    <2> QED BY <2>1, Zenon DEF AbsAuthority
  <1> HIDE DEF Rec
  <1>4. /\ [AbsAuthority(d) EXCEPT !.frozen = TRUE] = Rec(TRUE, d.revoked)
        /\ [AbsAuthority(d) EXCEPT !.revoked = TRUE] = Rec(d.frozen, TRUE)
    BY <1>1, Zenon
  <1> QED BY <1>2, <1>3, <1>4, Zenon

-----------------------------------------------------------------------------
(* One lemma per instruction.                                              *)

\* init_authority publishes.
LEMMA InitPublishes ==
    ASSUME IndInv, NEW owner \in Pubkeys, NEW tree \in AddressTrees,
           NEW pk \in Pks, NEW suite \in Suites, NEW label \in Labels,
           InitAuthority(owner, tree, pk, suite, label)
    PROVE  Registry!Publish(owner, label, pk)
  <1> DEFINE address == AuthorityAddress(tree, owner, label)
             data == [owner |-> owner, pk |-> pk, suite |-> suite,
                      frozen |-> FALSE, revoked |-> FALSE, label |-> label,
                      created_slot |-> slot]
             acc == Account("VrfAuthority", address, data)
             n == Len(leaves) + 1
             published == [owner |-> owner, label |-> label, pk |-> pk,
                           frozen |-> FALSE, revoked |-> FALSE]
  <1>1. /\ tree = ADDRESS_TREE_V2
        /\ address \notin addresses
        /\ LightOutput(acc)
        /\ UNCHANGED <<nullified, events>>
    BY DEF InitAuthority, AddressTreeOk, LightNewAddress
  <1>2. slot \in Nat /\ TypeOK
    BY DEF IndInv, TypeOK
  <1>3. address \in AuthorityAddresses /\ data \in VrfAuthority
    BY <1>1, <1>2
       DEF AuthorityAddress, derive_address, AuthorityAddresses, VrfAuthority
  <1>4. acc \in Accounts /\ acc.disc = "VrfAuthority" /\ acc.data = data
    BY <1>3 DEF Accounts, Account
  <1>5. AbsAuthority(data) = published
    BY DEF AbsAuthority
  <1> HIDE DEF acc, data, published
  <1>6. /\ DOMAIN leaves' = DOMAIN leaves \cup {n}
        /\ n \notin DOMAIN leaves
        /\ \A i \in DOMAIN leaves : leaves'[i] = leaves[i]
        /\ leaves'[n] = acc
    BY <1>1, <1>2, <1>4, OutputFacts
  <1> HIDE DEF n
  <1>7. /\ Live' \cap AuthorityLeaves' = (Live \cap AuthorityLeaves) \cup {n}
        /\ Live' \cap CommitLeaves' = Live \cap CommitLeaves
    BY <1>1, <1>2, <1>4, <1>6
       DEF TypeOK, Live, AuthorityLeaves, CommitLeaves, CommitDiscs
  <1>8. absAuthorities' = absAuthorities \cup {published}
    BY <1>4, <1>5, <1>6, <1>7 DEF absAuthorities, Live
  <1>9. absCommits' = absCommits
    BY <1>6, <1>7 DEF absCommits, Live
  <1>10. absLog' = absLog
    BY <1>1 DEF absLog
  <1>11. \A a \in absAuthorities : ~(a.owner = owner /\ a.label = label)
    BY <1>1, AuthorityLeafFacts DEF absAuthorities
  <1> QED BY <1>8, <1>9, <1>10, <1>11 DEF Registry!Publish, published

\* Consuming a leaf and appending its successor replaces one abstract record by
\* the other, for no other unspent leaf maps to the same name.
LEMMA MutateMaps ==
    ASSUME IndInv, NEW d, NEW e, NEW meta,
           MutateAuthority(d, meta, e), RaisesFlag(d, e)
    PROVE  /\ d \in VrfAuthority
           /\ AbsAuthority(d) \in absAuthorities
           /\ absAuthorities' = (absAuthorities \ {AbsAuthority(d)})
                                    \cup {AbsAuthority(e)}
           /\ UNCHANGED <<absCommits, absLog>>
  <1> DEFINE acc == Account("VrfAuthority", meta.address, e)
             n == Len(leaves) + 1
             k == meta.leaf
             S == Live \cap AuthorityLeaves
  <1>1. /\ k \in DOMAIN leaves /\ k \notin nullified
        /\ leaves[k] = Account("VrfAuthority", meta.address, d)
        /\ nullified' = nullified \cup {k}
        /\ LightOutput(acc)
        /\ UNCHANGED <<slot, addresses, events>>
    BY DEF MutateAuthority, LightInput
  <1>2. TypeOK /\ nullified \subseteq DOMAIN leaves
    BY DEF IndInv, TypeOK
  <1>3. /\ leaves[k] \in Accounts
        /\ leaves[k].disc = "VrfAuthority"
        /\ leaves[k].address = meta.address
        /\ leaves[k].data = d
    BY <1>1, <1>2 DEF Account, TypeOK
  <1>4. meta.address \in AuthorityAddresses /\ d \in VrfAuthority
    BY <1>3, AccountShape
  <1>5. e \in VrfAuthority
    BY <1>4 DEF VrfAuthority, RaisesFlag
  <1>6. acc \in Accounts /\ acc.disc = "VrfAuthority" /\ acc.data = e
    BY <1>4, <1>5 DEF Accounts, Account
  <1> HIDE DEF acc, k
  <1>7. /\ DOMAIN leaves' = DOMAIN leaves \cup {n}
        /\ n \notin DOMAIN leaves
        /\ \A i \in DOMAIN leaves : leaves'[i] = leaves[i]
        /\ leaves'[n] = acc
    BY <1>1, <1>2, <1>6, OutputFacts
  <1> HIDE DEF n
  <1>8. k \in S /\ S \subseteq DOMAIN leaves
    BY <1>1, <1>3 DEF Live, AuthorityLeaves
  <1>9. Live' \cap AuthorityLeaves' = (S \ {k}) \cup {n}
    BY <1>1, <1>2, <1>6, <1>7 DEF Live, AuthorityLeaves
  <1>10. Live' \cap CommitLeaves' = Live \cap CommitLeaves
    BY <1>1, <1>2, <1>3, <1>6, <1>7 DEF Live, CommitLeaves, CommitDiscs
  <1>11. ASSUME NEW i \in S, AbsAuthority(leaves[i].data) = AbsAuthority(d)
         PROVE  i = k
    <2>1. leaves[i].address = leaves[k].address
      BY <1>3, <1>8, <1>11, AuthorityLeafFacts
    <2> QED BY <1>8, <2>1 DEF IndInv, OneLiveLeaf
  <1>12. absAuthorities = {AbsAuthority(leaves[i].data) : i \in S}
    BY DEF absAuthorities
  <1>13. absAuthorities' =
            {AbsAuthority(leaves[i].data) : i \in S \ {k}} \cup {AbsAuthority(e)}
    <2>1. absAuthorities' =
             {AbsAuthority(leaves'[i].data) : i \in (S \ {k}) \cup {n}}
      BY <1>9 DEF absAuthorities
    <2> QED BY <1>6, <1>7, <1>8, <2>1
  <1>14. {AbsAuthority(leaves[i].data) : i \in S \ {k}}
            = absAuthorities \ {AbsAuthority(d)}
    BY <1>3, <1>8, <1>11, <1>12
  <1>15. absCommits' = absCommits
    BY <1>7, <1>10 DEF absCommits, Live
  <1>16. absLog' = absLog
    BY <1>1 DEF absLog
  <1>17. AbsAuthority(d) \in absAuthorities
    BY <1>3, <1>8, <1>12
  <1> QED BY <1>4, <1>13, <1>14, <1>15, <1>16, <1>17

\* freeze_authority freezes the current record.
LEMMA FreezeFreezes ==
    ASSUME IndInv, NEW owner, NEW d, NEW meta, FreezeAuthority(owner, d, meta)
    PROVE  \E a \in absAuthorities : Registry!Freeze(a)
  <1> DEFINE e == [d EXCEPT !.frozen = TRUE]
  <1>1. ~d.frozen /\ MutateAuthority(d, meta, e) /\ RaisesFlag(d, e)
    BY DEF FreezeAuthority, RaisesFlag
  <1>2. /\ d \in VrfAuthority
        /\ AbsAuthority(d) \in absAuthorities
        /\ absAuthorities' = (absAuthorities \ {AbsAuthority(d)})
                                    \cup {AbsAuthority(e)}
        /\ UNCHANGED <<absCommits, absLog>>
    BY <1>1, MutateMaps
  <1>3. AbsAuthority(e) = [AbsAuthority(d) EXCEPT !.frozen = TRUE]
    BY <1>2, AbsRaises, Zenon
  <1>4. ~AbsAuthority(d).frozen
    BY <1>1 DEF AbsAuthority
  <1> QED BY <1>2, <1>3, <1>4 DEF Registry!Freeze

\* revoke_authority revokes the current record; revoking again outputs a leaf
\* with the same record, which the registry does not see.
LEMMA RevokeRevokes ==
    ASSUME IndInv, NEW owner, NEW d, NEW meta, RevokeAuthority(owner, d, meta)
    PROVE  \/ \E a \in absAuthorities : Registry!Revoke(a)
           \/ UNCHANGED Registry!vars
  <1> DEFINE e == [d EXCEPT !.revoked = TRUE]
  <1>1. MutateAuthority(d, meta, e) /\ RaisesFlag(d, e)
    BY DEF RevokeAuthority, RaisesFlag
  <1>2. /\ d \in VrfAuthority
        /\ AbsAuthority(d) \in absAuthorities
        /\ absAuthorities' = (absAuthorities \ {AbsAuthority(d)})
                                    \cup {AbsAuthority(e)}
        /\ UNCHANGED <<absCommits, absLog>>
    BY <1>1, MutateMaps
  <1>3. AbsAuthority(e) = [AbsAuthority(d) EXCEPT !.revoked = TRUE]
    BY <1>2, AbsRaises, Zenon
  <1>4. CASE ~d.revoked
    <2>1. ~AbsAuthority(d).revoked
      BY <1>4 DEF AbsAuthority
    <2> QED BY <1>2, <1>3, <2>1 DEF Registry!Revoke
  <1>5. CASE d.revoked
    <2>1. e = d
      BY <1>2, <1>5 DEF VrfAuthority
    <2> QED BY <1>2, <2>1 DEF Registry!vars
  <1> QED BY <1>4, <1>5

\* What a commit reads is a current abstract record that may commit.
LEMMA ReadsActive ==
    ASSUME IndInv, NEW d, NEW meta, ReadAuthority(d, meta),
           d.frozen, ~d.revoked
    PROVE  /\ AbsAuthority(d) \in absAuthorities
           /\ Registry!MayCommit(AbsAuthority(d))
           /\ meta.address \in AuthorityAddresses
           /\ meta.address = AuthorityAddress(ADDRESS_TREE_V2, d.owner, d.label)
  <1>1. /\ d \in Current(meta.address)
        /\ meta.address \in AuthorityAddresses
        /\ meta.address = AuthorityAddress(ADDRESS_TREE_V2, d.owner, d.label)
    BY ReadAuthorityFacts
  <1>2. AbsAuthority(d) \in absAuthorities
    BY <1>1 DEF absAuthorities, Current
  <1>3. Registry!MayCommit(AbsAuthority(d))
    BY Zenon DEF Registry!MayCommit, AbsAuthority
  <1> QED BY <1>1, <1>2, <1>3

\* Both registry commits add one entry, under a name and memo with none.
LEMMA CommitRegisters ==
    ASSUME IndInv, NEW d, NEW meta, NEW tree, NEW disc, NEW data, NEW body,
           CreateCommit(d, meta, tree, disc, data), d.frozen, ~d.revoked,
           data.authority = meta.address,
           meta.address \in AuthorityAddresses =>
              \/ disc = "VrfProofCommit" /\ data \in VrfProofCommit
              \/ disc = "VrfProofCommitWithBeta"
                   /\ data \in VrfProofCommitWithBeta,
           \A address : AbsCommit(Account(disc, address, data)).body = body
    PROVE  \E a \in absAuthorities : Registry!Register(a, data.memo_hash, body)
  <1> DEFINE address == CommitAddress(tree, meta.address, data.memo_hash)
             acc == Account(disc, address, data)
             n == Len(leaves) + 1
             entry == Registry!Entry(AbsAuthority(d), data.memo_hash, body)
  <1>1. /\ tree = ADDRESS_TREE_V2
        /\ ReadAuthority(d, meta)
        /\ address \notin addresses
        /\ LightOutput(acc)
        /\ UNCHANGED <<nullified, events>>
    BY DEF CreateCommit, AddressTreeOk, LightNewAddress
  <1>2. /\ AbsAuthority(d) \in absAuthorities
        /\ Registry!MayCommit(AbsAuthority(d))
        /\ meta.address \in AuthorityAddresses
        /\ meta.address = AuthorityAddress(ADDRESS_TREE_V2, d.owner, d.label)
    BY <1>1, ReadsActive
  <1>3. TypeOK /\ nullified \subseteq DOMAIN leaves
    BY DEF IndInv, TypeOK
  <1>4. data.memo_hash \in MemoHashes /\ disc \in CommitDiscs
    BY <1>2 DEF CommitDiscs, VrfProofCommit, VrfProofCommitWithBeta
  <1>5. address \in CommitAddresses
    BY <1>1, <1>2, <1>4 DEF CommitAddress, derive_address, CommitAddresses
  <1>6. /\ acc \in Accounts
        /\ acc.disc \in CommitDiscs /\ acc.disc # "VrfAuthority"
    BY <1>2, <1>4, <1>5 DEF Accounts, Account, CommitDiscs
  <1>7. AbsCommit(acc) = entry
    <2>1. meta.address.scope = d.owner /\ meta.address.key = d.label
      BY <1>2 DEF AuthorityAddress, derive_address
    <2>2. AbsCommit(acc) =
             [owner |-> data.authority.scope, label |-> data.authority.key,
              memo |-> data.memo_hash, body |-> AbsCommit(acc).body]
      BY DEF AbsCommit, Account
    <2>3. AbsAuthority(d).owner = d.owner /\ AbsAuthority(d).label = d.label
      BY DEF AbsAuthority
    <2>4. AbsCommit(acc).body = body
      OBVIOUS
    <2> HIDE DEF acc
    <2> QED BY <2>1, <2>2, <2>3, <2>4 DEF Registry!Entry
  <1> HIDE DEF acc, entry
  <1>8. /\ DOMAIN leaves' = DOMAIN leaves \cup {n}
        /\ n \notin DOMAIN leaves
        /\ \A i \in DOMAIN leaves : leaves'[i] = leaves[i]
        /\ leaves'[n] = acc
    BY <1>1, <1>3, <1>6, OutputFacts
  <1> HIDE DEF n
  <1>9. /\ Live' \cap CommitLeaves' = (Live \cap CommitLeaves) \cup {n}
        /\ Live' \cap AuthorityLeaves' = Live \cap AuthorityLeaves
    BY <1>1, <1>3, <1>6, <1>8 DEF Live, AuthorityLeaves, CommitLeaves
  <1>10. absCommits' = absCommits \cup {entry}
    BY <1>7, <1>8, <1>9 DEF absCommits, Live
  <1>11. absAuthorities' = absAuthorities
    BY <1>8, <1>9 DEF absAuthorities, Live
  <1>12. absLog' = absLog
    BY <1>1 DEF absLog
  <1>13. \A c \in absCommits :
            ~(/\ c.owner = AbsAuthority(d).owner
              /\ c.label = AbsAuthority(d).label
              /\ c.memo = data.memo_hash)
    <2> SUFFICES ASSUME NEW i \in Live \cap CommitLeaves,
                        AbsCommit(leaves[i]).owner = AbsAuthority(d).owner,
                        AbsCommit(leaves[i]).label = AbsAuthority(d).label,
                        AbsCommit(leaves[i]).memo = data.memo_hash
                 PROVE  FALSE
      BY DEF absCommits
    <2>1. AbsAuthority(d).owner = d.owner /\ AbsAuthority(d).label = d.label
      BY DEF AbsAuthority
    <2>2. leaves[i].address = address
      BY <1>1, <1>2, <2>1, CommitLeafFacts
    <2> QED BY <1>1, <2>2, CommitLeafFacts
  <1> QED BY <1>2, <1>10, <1>11, <1>12, <1>13
          DEF Registry!Register, entry

\* commit_proof registers the proof and alpha hashes.
LEMMA ProofRegisters ==
    ASSUME IndInv, NEW owner, NEW d, NEW meta, NEW tree,
           NEW m \in MemoHashes, NEW p \in ProofHashes, NEW a \in AlphaHashes,
           CommitProof(owner, d, meta, tree, m, p, a)
    PROVE  \E x \in absAuthorities, b \in Bodies : Registry!Register(x, m, b)
  <1> DEFINE data == [authority |-> meta.address, memo_hash |-> m,
                      proof_hash |-> p, alpha_hash |-> a,
                      committed_slot |-> slot]
             body == [proof |-> p, alpha |-> a, beta |-> AbsNoBeta]
  <1>1. /\ d.frozen /\ ~d.revoked
        /\ CreateCommit(d, meta, tree, "VrfProofCommit", data)
    BY DEF CommitProof, CommitGuard
  <1>2. slot \in Nat
    BY DEF IndInv, TypeOK
  <1>3. /\ data.authority = meta.address /\ data.memo_hash = m
        /\ meta.address \in AuthorityAddresses => data \in VrfProofCommit
    BY <1>2 DEF VrfProofCommit
  <1>4. \A address :
           AbsCommit(Account("VrfProofCommit", address, data)).body = body
    BY DEF AbsCommit, Account
  <1>5. body \in Bodies
    BY DEF Bodies
  <1> HIDE DEF data, body
  <1>6. \E x \in absAuthorities : Registry!Register(x, data.memo_hash, body)
    BY <1>1, <1>3, <1>4, CommitRegisters
  <1> QED BY <1>3, <1>5, <1>6

\* commit_proof_with_beta registers beta too.
LEMMA ProofWithBetaRegisters ==
    ASSUME IndInv, NEW owner, NEW d, NEW meta, NEW tree,
           NEW m \in MemoHashes, NEW p \in ProofHashes, NEW a \in AlphaHashes,
           NEW lo \in BetaHalves, NEW hi \in BetaHalves,
           CommitProofWithBeta(owner, d, meta, tree, m, p, a, lo, hi)
    PROVE  \E x \in absAuthorities, b \in Bodies : Registry!Register(x, m, b)
  <1> DEFINE data == [authority |-> meta.address, memo_hash |-> m,
                      proof_hash |-> p, alpha_hash |-> a,
                      beta_lo |-> lo, beta_hi |-> hi, committed_slot |-> slot]
             body == [proof |-> p, alpha |-> a, beta |-> <<lo, hi>>]
  <1>1. /\ d.frozen /\ ~d.revoked
        /\ CreateCommit(d, meta, tree, "VrfProofCommitWithBeta", data)
    BY DEF CommitProofWithBeta, CommitGuard
  <1>2. slot \in Nat
    BY DEF IndInv, TypeOK
  <1>3. /\ data.authority = meta.address /\ data.memo_hash = m
        /\ meta.address \in AuthorityAddresses =>
              data \in VrfProofCommitWithBeta
    BY <1>2 DEF VrfProofCommitWithBeta
  <1>4. \A address :
           AbsCommit(Account("VrfProofCommitWithBeta", address, data)).body
              = body
    BY DEF AbsCommit, Account
  <1>5. body \in Bodies
    BY DEF Bodies
  <1> HIDE DEF data, body
  <1>6. \E x \in absAuthorities : Registry!Register(x, data.memo_hash, body)
    BY <1>1, <1>3, <1>4, CommitRegisters
  <1> QED BY <1>3, <1>5, <1>6

\* commit_proof_event logs under the name that the authority's address derives.
LEMMA EventLogs ==
    ASSUME IndInv, NEW owner \in Pubkeys, NEW d, NEW meta, NEW label \in Labels,
           NEW m \in MemoHashes, NEW p \in ProofHashes, NEW a \in AlphaHashes,
           CommitProofEvent(owner, d, meta, label, m, p, a)
    PROVE  \E x \in absAuthorities, b \in Bodies : Registry!Log(x, m, b)
  <1> DEFINE ev == [owner |-> owner, label |-> label, memo_hash |-> m,
                    proof_hash |-> p, alpha_hash |-> a,
                    committed_slot |-> slot]
             body == [proof |-> p, alpha |-> a, beta |-> AbsNoBeta]
             entry == Registry!Entry(AbsAuthority(d), m, body)
  <1>1. /\ d.owner = owner /\ d.label = label
        /\ d.frozen /\ ~d.revoked
        /\ ReadAuthority(d, meta)
        /\ events' = Append(events, ev)
        /\ UNCHANGED <<leaves, nullified>>
    BY DEF CommitProofEvent, CommitGuard, OwnerOk
  <1>2. /\ AbsAuthority(d) \in absAuthorities
        /\ Registry!MayCommit(AbsAuthority(d))
    BY <1>1, ReadsActive
  <1>3. events \in Seq(VrfProofCommitted) /\ slot \in Nat
    BY DEF IndInv, TypeOK
  <1>4. ev \in VrfProofCommitted /\ body \in Bodies
    BY <1>3 DEF VrfProofCommitted, Bodies
  <1>5. AbsEvent(ev) = entry
    BY <1>1 DEF AbsEvent, AbsAuthority, Registry!Entry
  <1> HIDE DEF ev, entry, body
  <1>6. /\ Len(events') = Len(events) + 1
        /\ \A i \in 1..Len(events) : events'[i] = events[i]
        /\ events'[Len(events) + 1] = ev
        /\ DOMAIN events' = 1..(Len(events) + 1)
        /\ DOMAIN events = 1..Len(events)
        /\ Len(events) \in Nat
    BY <1>1, <1>3, <1>4
  <1>7. absLog' = Append(absLog, entry)
    <2>1. absLog = [i \in 1..Len(events) |-> AbsEvent(events[i])]
      BY <1>6 DEF absLog
    <2>2. absLog' = [i \in 1..(Len(events) + 1) |-> AbsEvent(events'[i])]
      BY <1>6 DEF absLog
    <2>3. \A i \in 1..(Len(events) + 1) :
             AbsEvent(events'[i]) =
                IF i <= Len(events) THEN AbsEvent(events[i]) ELSE entry
      BY <1>5, <1>6
    <2>4. Len(absLog) = Len(events)
      BY <1>6, <2>1
    <2>5. Append(absLog, entry) =
             [i \in 1..(Len(events) + 1) |->
                IF i <= Len(events) THEN AbsEvent(events[i]) ELSE entry]
      BY <1>6, <2>1, <2>4
    <2> QED BY <2>2, <2>3, <2>5
  <1>8. absAuthorities' = absAuthorities /\ absCommits' = absCommits
    BY <1>1 DEF absAuthorities, absCommits, Live, AuthorityLeaves, CommitLeaves
  <1> QED BY <1>2, <1>4, <1>7, <1>8 DEF Registry!Log, entry

-----------------------------------------------------------------------------
(* The refinement.                                                         *)

LEMMA InitMaps == Init => Registry!Init
  <1> SUFFICES ASSUME Init PROVE Registry!Init
    OBVIOUS
  <1>1. leaves = <<>> /\ events = <<>>
    BY DEF Init
  <1>2. absAuthorities = {} /\ absCommits = {}
    BY <1>1 DEF absAuthorities, absCommits, Live
  <1>3. absLog = <<>>
    BY <1>1 DEF absLog
  <1> QED BY <1>2, <1>3 DEF Registry!Init

LEMMA StepMaps == IndInv /\ [Next]_vars => [Registry!Next]_(Registry!vars)
  <1> SUFFICES ASSUME IndInv, [Next]_vars
               PROVE  Registry!Next \/ UNCHANGED Registry!vars
    OBVIOUS
  <1>1. CASE AdvanceSlot
    BY <1>1, AbstractStutter DEF AdvanceSlot
  <1>2. ASSUME NEW owner \in Pubkeys, NEW tree \in AddressTrees,
               NEW pk \in Pks, NEW suite \in Suites, NEW label \in Labels,
               InitAuthority(owner, tree, pk, suite, label)
        PROVE  Registry!Next
    BY <1>2, InitPublishes DEF Registry!Next
  <1>3. ASSUME NEW owner \in Pubkeys, NEW d, NEW meta,
               FreezeAuthority(owner, d, meta)
        PROVE  Registry!Next
    BY <1>3, FreezeFreezes DEF Registry!Next
  <1>4. ASSUME NEW owner \in Pubkeys, NEW d, NEW meta,
               RevokeAuthority(owner, d, meta)
        PROVE  Registry!Next \/ UNCHANGED Registry!vars
    BY <1>4, RevokeRevokes DEF Registry!Next
  <1>5. ASSUME NEW owner \in Pubkeys, NEW d, NEW meta, NEW tree,
               NEW m \in MemoHashes, NEW p \in ProofHashes,
               NEW a \in AlphaHashes,
               CommitProof(owner, d, meta, tree, m, p, a)
        PROVE  Registry!Next
    BY <1>5, ProofRegisters DEF Registry!Next
  <1>6. ASSUME NEW owner \in Pubkeys, NEW d, NEW meta, NEW tree,
               NEW m \in MemoHashes, NEW p \in ProofHashes,
               NEW a \in AlphaHashes, NEW lo \in BetaHalves,
               NEW hi \in BetaHalves,
               CommitProofWithBeta(owner, d, meta, tree, m, p, a, lo, hi)
        PROVE  Registry!Next
    BY <1>6, ProofWithBetaRegisters DEF Registry!Next
  <1>7. ASSUME NEW owner \in Pubkeys, NEW d, NEW meta, NEW label \in Labels,
               NEW m \in MemoHashes, NEW p \in ProofHashes,
               NEW a \in AlphaHashes,
               CommitProofEvent(owner, d, meta, label, m, p, a)
        PROVE  Registry!Next
    BY <1>7, EventLogs DEF Registry!Next
  <1>8. CASE UNCHANGED vars
    BY <1>8, AbstractStutter DEF vars
  <1> QED
    BY <1>1, <1>2, <1>3, <1>4, <1>5, <1>6, <1>7, <1>8 DEF Next

\* The program, whatever callers claim and replay, behaves as the registry: a
\* name is published once, a key is never rotated, an entry is written once and
\* only under a frozen, unrevoked authority.
THEOREM ProgramImplementsRegistry == Spec => ImplementsRegistry
  BY InitMaps, StepMaps, InductiveInvariant, PTL
     DEF Spec, ImplementsRegistry, Registry!Spec
=============================================================================
