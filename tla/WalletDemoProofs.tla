-------------------------- MODULE WalletDemoProofs --------------------------
(***************************************************************************)
(* Proofs about WalletDemo, for every number of pages, wallets and labels  *)
(* and whatever the wallet does elsewhere: a roll shown as verified is     *)
(* committed.                                                              *)
(***************************************************************************)
EXTENDS WalletDemo, SdkProofs, WellFoundedInduction

-----------------------------------------------------------------------------
(* The inductive invariant.                                                *)

\* What VerifiedRollsAreAnchored says of one roll.
Anchored(roll) ==
    LET proof == Vrf!proveVRF(roll.pk, roll.memo)
    IN  \E i \in Live \cap CommitLeaves :
          /\ leaves[i].address = roll.commitAddr
          /\ leaves[i].data.proof_hash = Vrf!sha256(proof)
          /\ leaves[i].data.alpha_hash = Vrf!sha256(roll.memo)
          /\ \E d \in Current(leaves[i].data.authority) :
                d.frozen /\ Vrf!verifyVRF(d.pk, roll.memo, proof)

Shown(roll) == (roll.kind = "commit" /\ roll.verifyValid) => Anchored(roll)

\* A promise that awaits its transaction: what the click captured is what the
\* SDK accepts.
Captured(op) ==
    /\ op = [step |-> op.step, kind |-> op.kind, call |-> op.call,
             owner |-> op.owner, label |-> op.label, pk |-> op.pk,
             memo |-> op.memo]
    /\ op.kind \in {"init", "freeze", "commit"}
    /\ op.call \in Calls
    /\ op.owner \in Pubkeys /\ op.label \in Labels /\ op.pk \in Pks
    /\ op.kind = "commit" => op.memo \in Memos

\* A promise between its two reads: the authority that it holds has a later
\* version on chain.
Read(op) ==
    \A d \in op.auth :
        \E e \in fetchAuthority(op.owner, op.label) : LaterVersion(d, e)

OpInv(op) ==
    /\ op.step \in {"building", "confirming"} => Captured(op)
    /\ op.step = "fetching" => Read(op)

PageInv(pg) ==
    /\ pg = [wallet |-> pg.wallet, pk |-> pg.pk, label |-> pg.label,
             authorityExists |-> pg.authorityExists, op |-> pg.op,
             rolls |-> pg.rolls]
    /\ pg.wallet \in Pubkeys \cup {NoWallet}
    /\ pg.pk \in Pks /\ pg.label \in Labels
    /\ OpInv(pg.op)
    /\ \A roll \in pg.rolls : Shown(roll)

\* What the SDK calls hold was built from the chain.
CallsInv ==
    /\ DOMAIN call = Calls
    /\ \A c \in Calls : call[c].pc \in {"fetched", "submitted"} => Held(call[c])

WalletInv ==
    /\ IndInv
    /\ CallsInv
    /\ DOMAIN page = Pages
    /\ \A p \in Pages : PageInv(page[p])

-----------------------------------------------------------------------------
(* The next call.                                                          *)

\* A set of naturals has a least element.
LEMMA LeastCall ==
    ASSUME NEW T, T \subseteq Nat, T # {}
    PROVE  Min(T) \in T
  <1> DEFINE R == {ss \in Nat \X Nat : ss[1] < ss[2]}
  <1>1. IsWellFoundedOn(R, Nat)
    BY NatLessThanWellFounded, Zenon DEF OpToRel
  <1>2. \A x, y \in Nat : <<x, y>> \in R <=> x < y
    OBVIOUS
  <1> HIDE DEF R
  <1>3. PICK x \in T : \A y \in T : ~ (<<y, x>> \in R)
    BY <1>1, WFMin, Zenon
  <1>4. \A y \in T : ~(y < x)
    BY <1>2, <1>3
  <1>5. \A y \in T : x <= y
    BY <1>4
  <1> QED BY <1>5 DEF Min

LEMMA NextCallIsCall ==
    ASSUME IdleCalls # {}
    PROVE  NextCall \in Calls
  <1>1. IdleCalls \subseteq Calls /\ Calls \subseteq Nat
    BY WalletAssumption DEF IdleCalls
  <1> QED BY <1>1, LeastCall DEF NextCall

-----------------------------------------------------------------------------
(* What the pages hold stays true over a step of the program.              *)

LEMMA AnchoredKept ==
    ASSUME IndInv, [Next]_vars, NEW roll, Anchored(roll)
    PROVE  Anchored(roll)'
  <1>1. PICK proof : proof = Vrf!proveVRF(roll.pk, roll.memo)
    OBVIOUS
  <1>2. PICK i \in Live \cap CommitLeaves :
          /\ leaves[i].address = roll.commitAddr
          /\ leaves[i].data.proof_hash = Vrf!sha256(proof)
          /\ leaves[i].data.alpha_hash = Vrf!sha256(roll.memo)
          /\ \E d \in Current(leaves[i].data.authority) :
                d.frozen /\ Vrf!verifyVRF(d.pk, roll.memo, proof)
    BY <1>1 DEF Anchored
  <1>3. PICK a : a = leaves[i].data.authority
    OBVIOUS
  <1>4. PICK d \in Current(a) : d.frozen /\ Vrf!verifyVRF(d.pk, roll.memo, proof)
    BY <1>2, <1>3
  <1>5. PICK e \in Current(a)' : LaterVersion(d, e)
    BY HasLaterVersion
  <1>6. e.frozen /\ Vrf!verifyVRF(e.pk, roll.memo, proof)
    BY <1>4, <1>5 DEF LaterVersion
  <1>7. i \in Live' /\ leaves'[i] = leaves[i]
    BY StepKeepsCommitments DEF KeepsCommitments
  <1>8. i \in CommitLeaves'
    BY <1>7 DEF CommitLeaves, Live
  <1>9. leaves'[i].data.authority = a
    BY <1>3, <1>7
  <1>10. e \in Current(leaves[i].data.authority)'
    BY <1>5, <1>9 DEF Current
  <1> QED BY <1>1, <1>2, <1>6, <1>7, <1>8, <1>10 DEF Anchored

LEMMA ReadKept ==
    ASSUME IndInv, [Next]_vars, NEW op, Read(op)
    PROVE  Read(op)'
  <1> SUFFICES ASSUME NEW d \in op.auth
               PROVE  \E e \in fetchAuthority(op.owner, op.label)' :
                         LaterVersion(d, e)
    BY DEF Read
  <1>1. PICK owner, label : owner = op.owner /\ label = op.label
    OBVIOUS
  <1>2. PICK e \in fetchAuthority(owner, label) : LaterVersion(d, e)
    BY <1>1 DEF Read
  <1>3. PICK f \in fetchAuthority(owner, label)' : LaterVersion(e, f)
    BY AuthorityKept
  <1>4. LaterVersion(d, f)
    BY <1>2, <1>3 DEF LaterVersion
  <1> QED BY <1>1, <1>3, <1>4

LEMMA PageKept ==
    ASSUME IndInv, [Next]_vars, NEW pg, PageInv(pg)
    PROVE  PageInv(pg)'
  <1>1. ASSUME NEW roll \in pg.rolls PROVE Shown(roll)'
    <2>1. Shown(roll)
      BY DEF PageInv
    <2>2. Anchored(roll) => Anchored(roll)'
      BY AnchoredKept
    <2> QED BY <2>1, <2>2 DEF Shown
  <1>2. PICK op : op = pg.op
    OBVIOUS
  <1>3. OpInv(op)'
    BY <1>2, ReadKept DEF PageInv, OpInv, Captured
  <1> QED BY <1>1, <1>2, <1>3 DEF PageInv, OpInv

LEMMA CallKept ==
    ASSUME IndInv, [Next]_vars, NEW s, Held(s)
    PROVE  Held(s)'
  BY BuiltKept DEF Held

-----------------------------------------------------------------------------
(* Steps that move one page, and steps that move one call.                 *)

LEMMA PageMoves ==
    ASSUME WalletInv, NEW p \in Pages, NEW next, UNCHANGED clientVars,
           page' = [page EXCEPT ![p] = next], PageInv(next)
    PROVE  WalletInv'
  <1>1. IndInv /\ [Next]_vars /\ UNCHANGED call /\ CallsInv
    BY DEF WalletInv, clientVars
  <1>2. IndInv'
    BY <1>1, NextPreserves
  <1>3. CallsInv'
    <2>1. ASSUME NEW c \in Calls, call'[c].pc \in {"fetched", "submitted"}
          PROVE  Held(call[c])'
      <3>1. PICK s : s = call[c]
        OBVIOUS
      <3>2. Held(s)'
        BY <1>1, <2>1, <3>1, CallKept DEF CallsInv
      <3>3. s = call'[c]
        BY <1>1, <3>1
      <3> QED BY <3>2, <3>3, Zenon DEF Held
    <2> QED BY <1>1, <2>1 DEF CallsInv
  <1>4. ASSUME NEW x \in Pages PROVE PageInv(page[x])'
    <2>1. PICK pg : pg = page'[x]
      OBVIOUS
    <2>2. PageInv(pg)
      BY <2>1 DEF WalletInv
    <2>3. PageInv(pg)'
      BY <1>1, <2>2, PageKept
    <2> QED BY <2>1, <2>3, Zenon DEF PageInv
  <1>5. DOMAIN page' = Pages
    BY DEF WalletInv
  <1> QED BY <1>2, <1>3, <1>4, <1>5 DEF WalletInv

LEMMA CallMovesOn ==
    ASSUME WalletInv, [Next]_vars, UNCHANGED page, NEW c \in Calls, NEW next,
           call' = [call EXCEPT ![c] = next],
           next.pc \in {"fetched", "submitted"} => Held(next)
    PROVE  WalletInv'
  <1>1. IndInv /\ IndInv' /\ CallsInv
    BY NextPreserves DEF WalletInv
  <1>2. ASSUME NEW x \in Calls, call'[x].pc \in {"fetched", "submitted"}
        PROVE  Held(call[x])'
    <2>1. PICK s : s = call'[x]
      OBVIOUS
    <2>2. Held(s)
      BY <1>1, <1>2, <2>1 DEF CallsInv
    <2>3. Held(s)'
      BY <1>1, <2>2, CallKept
    <2> QED BY <2>1, <2>3, Zenon DEF Held
  <1>3. DOMAIN call' = Calls
    BY <1>1 DEF CallsInv
  <1>4. ASSUME NEW x \in Pages PROVE PageInv(page[x])'
    <2>1. PICK pg : pg = page[x]
      OBVIOUS
    <2>2. PageInv(pg)'
      BY <1>1, <2>1, PageKept DEF WalletInv
    <2>3. pg = page'[x]
      BY <2>1
    <2> QED BY <2>2, <2>3, Zenon DEF PageInv
  <1> QED BY <1>1, <1>2, <1>3, <1>4 DEF WalletInv, CallsInv

\* The program moves without the page: its calls stay as they are.
LEMMA ProgramMoves ==
    ASSUME WalletInv, [Next]_vars, UNCHANGED <<call, page>>
    PROVE  WalletInv'
  <1>1. IndInv /\ IndInv' /\ CallsInv
    BY NextPreserves DEF WalletInv
  <1>2. ASSUME NEW x \in Calls, call'[x].pc \in {"fetched", "submitted"}
        PROVE  Held(call[x])'
    <2>1. PICK s : s = call[x]
      OBVIOUS
    <2>2. Held(s)'
      BY <1>1, <1>2, <2>1, CallKept DEF CallsInv
    <2>3. s = call'[x]
      BY <2>1
    <2> QED BY <2>2, <2>3, Zenon DEF Held
  <1>3. ASSUME NEW x \in Pages PROVE PageInv(page[x])'
    <2>1. PICK pg : pg = page[x]
      OBVIOUS
    <2>2. PageInv(pg)'
      BY <1>1, <2>1, PageKept DEF WalletInv
    <2>3. pg = page'[x]
      BY <2>1
    <2> QED BY <2>2, <2>3, Zenon DEF PageInv
  <1> QED BY <1>1, <1>2, <1>3 DEF WalletInv, CallsInv

-----------------------------------------------------------------------------
(* The user.                                                               *)

LEMMA UserPreserves ==
    ASSUME WalletInv, NEW p \in Pages, User(p)
    PROVE  WalletInv'
  <1>1. PICK pg : pg = page[p]
    OBVIOUS
  <1>2. PageInv(pg)
    BY <1>1 DEF WalletInv
  <1>3. CASE \E wallet \in Pubkeys \cup {NoWallet} : SelectWallet(p, wallet)
    <2>1. PICK wallet \in Pubkeys \cup {NoWallet} : SelectWallet(p, wallet)
      BY <1>3
    <2>2. PICK next : next = [pg EXCEPT !.wallet = wallet]
      OBVIOUS
    <2>3. /\ next.wallet = wallet /\ next.pk = pg.pk /\ next.label = pg.label
          /\ next.op = pg.op /\ next.rolls = pg.rolls
          /\ next = [wallet |-> next.wallet, pk |-> next.pk,
                     label |-> next.label,
                     authorityExists |-> next.authorityExists,
                     op |-> next.op, rolls |-> next.rolls]
      BY <1>2, <2>2 DEF PageInv
    <2>4. PageInv(next)
      BY <1>2, <2>3 DEF PageInv
    <2> QED BY <1>1, <2>1, <2>2, <2>4, PageMoves DEF SelectWallet, Set
  <1>4. CASE disconnect(p)
    <2>1. PICK next : next = [pg EXCEPT !.wallet = NoWallet,
                                 !.authorityExists = FALSE, !.rolls = {}]
      OBVIOUS
    <2>2. /\ next.wallet = NoWallet /\ next.pk = pg.pk /\ next.label = pg.label
          /\ next.op = pg.op /\ next.rolls = {}
          /\ next = [wallet |-> next.wallet, pk |-> next.pk,
                     label |-> next.label,
                     authorityExists |-> next.authorityExists,
                     op |-> next.op, rolls |-> next.rolls]
      BY <1>2, <2>1 DEF PageInv
    <2>3. PageInv(next)
      BY <1>2, <2>2 DEF PageInv
    <2> QED BY <1>1, <1>4, <2>1, <2>3, PageMoves DEF disconnect, Set
  <1>5. CASE \E label \in Labels : setLabel(p, label)
    <2>1. PICK label \in Labels : setLabel(p, label)
      BY <1>5
    <2>2. PICK next : next = [pg EXCEPT !.label = label]
      OBVIOUS
    <2>3. /\ next.wallet = pg.wallet /\ next.pk = pg.pk /\ next.label = label
          /\ next.op = pg.op /\ next.rolls = pg.rolls
          /\ next = [wallet |-> next.wallet, pk |-> next.pk,
                     label |-> next.label,
                     authorityExists |-> next.authorityExists,
                     op |-> next.op, rolls |-> next.rolls]
      BY <1>2, <2>2 DEF PageInv
    <2>4. PageInv(next)
      BY <1>2, <2>3 DEF PageInv
    <2> QED BY <1>1, <2>1, <2>2, <2>4, PageMoves DEF setLabel, Set
  <1>6. CASE \E pk \in Pks, label \in Labels : regenerateKeypair(p, pk, label)
    <2>1. PICK pk \in Pks, label \in Labels : regenerateKeypair(p, pk, label)
      BY <1>6
    <2>2. PICK next : next = [pg EXCEPT !.pk = pk, !.label = label,
                                 !.authorityExists = FALSE, !.rolls = {}]
      OBVIOUS
    <2>3. page' = [page EXCEPT ![p] = next]
      <3>1. page' = [page EXCEPT ![p].pk = pk, ![p].label = label,
                                 ![p].authorityExists = FALSE, ![p].rolls = {}]
        BY <2>1, Zenon DEF regenerateKeypair
      <3> QED BY <1>1, <2>2, <3>1 DEF WalletInv
    <2>4. /\ next.wallet = pg.wallet /\ next.pk = pk /\ next.label = label
          /\ next.op = pg.op /\ next.rolls = {}
          /\ next = [wallet |-> next.wallet, pk |-> next.pk,
                     label |-> next.label,
                     authorityExists |-> next.authorityExists,
                     op |-> next.op, rolls |-> next.rolls]
      BY <1>2, <2>2 DEF PageInv
    <2>5. PageInv(next)
      BY <1>2, <2>4 DEF PageInv
    <2> QED BY <2>1, <2>3, <2>5, PageMoves DEF regenerateKeypair
  <1>7. ASSUME NEW kind \in {"init", "commit"}, NEW memo, Click(p, kind, memo),
               kind = "commit" => memo \in Memos, pg.wallet # NoWallet
        PROVE  WalletInv'
    <2>1. PICK op : op = [step |-> "building", kind |-> kind, call |-> NextCall,
                          owner |-> pg.wallet, label |-> pg.label,
                          pk |-> pg.pk, memo |-> memo]
      OBVIOUS
    <2>2. PICK next : next = [pg EXCEPT !.op = op]
      OBVIOUS
    <2>3. NextCall \in Calls
      BY <1>7, NextCallIsCall DEF Click
    <2>4. OpInv(op)
      BY <1>2, <1>7, <2>1, <2>3 DEF OpInv, Captured, PageInv
    <2>5. /\ next.wallet = pg.wallet /\ next.pk = pg.pk /\ next.label = pg.label
          /\ next.op = op /\ next.rolls = pg.rolls
          /\ next = [wallet |-> next.wallet, pk |-> next.pk,
                     label |-> next.label,
                     authorityExists |-> next.authorityExists,
                     op |-> next.op, rolls |-> next.rolls]
      BY <1>2, <2>2 DEF PageInv
    <2>6. PageInv(next)
      BY <1>2, <2>4, <2>5 DEF PageInv
    <2>7. Set(p, next)
      BY <1>1, <1>7, <2>1, <2>2, Zenon DEF Click
    <2> QED BY <2>6, <2>7, PageMoves DEF Set
  <1>8. CASE ClickInit(p)
    <2>1. pg.wallet # NoWallet
      BY <1>1, <1>8 DEF ClickInit, phase
    <2> QED BY <1>7, <1>8, <2>1 DEF ClickInit
  <1>9. CASE \E memo \in Memos : ClickRoll(p, memo)
    <2>1. pg.wallet # NoWallet
      BY <1>1, <1>9 DEF ClickRoll, phase
    <2> QED BY <1>7, <1>9, <2>1 DEF ClickRoll
  <1> QED BY <1>3, <1>4, <1>5, <1>6, <1>8, <1>9 DEF User

-----------------------------------------------------------------------------
(* The promise of a click.                                                 *)

\* The SDK accepts what the page passes to it.
LEMMA CapturedInputs ==
    ASSUME NEW op, Captured(op)
    PROVE  InputOf(op) \in Inputs
  <1>1. /\ op.kind \in {"init", "freeze", "commit"}
        /\ op.owner \in Pubkeys /\ op.label \in Labels /\ op.pk \in Pks
        /\ op.kind = "commit" => op.memo \in Memos
    BY DEF Captured
  <1>2. CASE op.kind = "init"
    BY <1>1, <1>2, ConstantsAssumption DEF InputOf, Inputs
  <1>3. CASE op.kind = "freeze"
    BY <1>1, <1>3 DEF InputOf, Inputs
  <1>4. CASE op.kind = "commit"
    <2>1. op.memo \in Alphas
      BY <1>1, <1>4, WalletAssumption
    <2>2. PICK proof : proof = Vrf!proveVRF(op.pk, op.memo)
      OBVIOUS
    <2>3. proof \in Vrf!Proofs
      BY <1>1, <2>1, <2>2, HashesAssumption
         DEF Vrf!proveVRF, Vrf!Proofs, Vrf!Gammas
    <2>4. InputOf(op) = [kind |-> "commit", owner |-> op.owner,
                         label |-> op.label, memo |-> op.memo,
                         alpha |-> op.memo, proof |-> proof]
      BY <1>4, <2>2 DEF InputOf
    <2> QED BY <1>1, <1>4, <2>1, <2>3, <2>4 DEF Inputs
  <1> QED BY <1>1, <1>2, <1>3, <1>4

\* The leaf at the address of an authority holds an authority.
LEMMA AuthorityLeafAt ==
    ASSUME IndInv, NEW input, NEW i \in Live,
           leaves[i].address = AddressOf(input)
    PROVE  i \in AuthorityLeaves
  <1>1. leaves[i] \in Accounts /\ i \in DOMAIN leaves
    BY DEF IndInv, TypeOK, Live
  <1>2. leaves[i].address.prefix = "vrf_authority"
    BY DEF AddressOf, AuthorityAddress, derive_address
  <1>3. leaves[i].disc \in CommitDiscs => leaves[i].address \in CommitAddresses
    BY <1>1, AccountShape
  <1> QED BY <1>1, <1>2, <1>3, AccountShape DEF CommitAddresses, AuthorityLeaves

LEMMA BuildPreserves ==
    ASSUME WalletInv, NEW p \in Pages, Build(p)
    PROVE  WalletInv'
  <1>1. PICK op : op = page[p].op
    OBVIOUS
  <1>2. PICK c, input : c = op.call /\ input = InputOf(op)
    OBVIOUS
  <1>3. Captured(op) /\ c \in Calls /\ input \in Inputs /\ IndInv /\ CallsInv
    BY <1>1, <1>2, CapturedInputs
       DEF Build, WalletInv, PageInv, OpInv, Captured
  <1>4. /\ \/ StartInit(c, input) \/ StartWithAuthority(c, input)
           \/ BuildAndSubmit(c)
        /\ UNCHANGED page
    BY <1>1, <1>2, Zenon DEF Build
  <1>5. ASSUME NEW next, Step(c, next),
               next.pc \in {"fetched", "submitted"} => Held(next)
        PROVE  WalletInv'
    <2>1. call' = [call EXCEPT ![c] = next] /\ [Next]_vars /\ UNCHANGED page
      BY <1>4, <1>5 DEF Step
    <2> QED BY <1>3, <1>5, <2>1, CallMovesOn
  <1>6. ASSUME Step(c, [pc |-> "threw"]) PROVE WalletInv'
    <2>1. PICK next : next = [pc |-> "threw"]
      OBVIOUS
    <2> QED BY <1>5, <1>6, <2>1
  <1>7. CASE StartInit(c, input)
    <2>1. PICK next : next = [pc |-> "fetched", input |-> input, leaf |-> 0]
      OBVIOUS
    <2>2. input.kind = "init" /\ (Step(c, next) \/ Step(c, [pc |-> "threw"]))
      BY <1>7, <2>1 DEF StartInit
    <2>3. Held(next)
      BY <1>3, <2>1, <2>2 DEF Held, Built
    <2> QED BY <1>5, <1>6, <2>2, <2>3
  <1>8. CASE StartWithAuthority(c, input)
    <2>1. \/ Step(c, [pc |-> "threw"])
          \/ \E i \in Live :
                /\ leaves[i].address = AddressOf(input)
                /\ BuilderChecks(input, leaves[i].data)
                /\ Step(c, [pc |-> "fetched", input |-> input, leaf |-> i])
      BY <1>8 DEF StartWithAuthority
    <2>2. ASSUME NEW i \in Live,
                 leaves[i].address = AddressOf(input),
                 BuilderChecks(input, leaves[i].data),
                 Step(c, [pc |-> "fetched", input |-> input, leaf |-> i])
          PROVE  WalletInv'
      <3>1. PICK next : next = [pc |-> "fetched", input |-> input, leaf |-> i]
        OBVIOUS
      <3>2. i \in AuthorityLeaves
        BY <1>3, <2>2, AuthorityLeafAt
      <3>3. i \in DOMAIN leaves
        BY DEF Live
      <3>4. Held(next)
        BY <1>3, <2>2, <3>1, <3>2, <3>3 DEF Held, Built
      <3> QED BY <1>5, <2>2, <3>1, <3>4
    <2> QED BY <1>6, <2>1, <2>2
  <1>9. CASE BuildAndSubmit(c)
    <2>1. PICK s : s = call[c]
      OBVIOUS
    <2>2. Held(s)
      BY <1>3, <1>9, <2>1 DEF BuildAndSubmit, CallsInv
    <2>3. PICK next : next = [s EXCEPT !.pc = "submitted"]
      OBVIOUS
    <2>4. next = [pc |-> "submitted", input |-> s.input, leaf |-> s.leaf]
      BY <2>2, <2>3 DEF Held
    <2>5. Held(next)
      BY <2>2, <2>4 DEF Held
    <2>6. Step(c, next) \/ Step(c, [pc |-> "threw"])
      BY <1>9, <2>1, <2>3, Zenon DEF BuildAndSubmit
    <2> QED BY <1>5, <1>6, <2>5, <2>6
  <1> QED BY <1>4, <1>7, <1>8, <1>9

LEMMA RefusePreserves ==
    ASSUME WalletInv, NEW p \in Pages, Refuse(p)
    PROVE  WalletInv'
  <1>1. PICK op : op = page[p].op
    OBVIOUS
  <1>2. PICK c : c = op.call
    OBVIOUS
  <1>3. c \in Calls
    BY <1>1, <1>2 DEF Refuse, WalletInv, PageInv, OpInv, Captured
  <1>4. PICK next : next = [pc |-> "threw"]
    OBVIOUS
  <1>5. /\ call' = [call EXCEPT ![c] = next]
        /\ [Next]_vars /\ UNCHANGED page
    BY <1>1, <1>2, <1>4, Zenon DEF Refuse
  <1> QED BY <1>3, <1>4, <1>5, CallMovesOn

\* What was sent is executed, as a step of the program, or comes to nothing.
LEMMA ChainPreserves ==
    ASSUME WalletInv, NEW p \in Pages, Chain(p)
    PROVE  WalletInv'
  <1>1. PICK op : op = page[p].op
    OBVIOUS
  <1>2. PICK c : c = op.call
    OBVIOUS
  <1>3. c \in Calls /\ IndInv /\ CallsInv
    BY <1>1, <1>2 DEF Chain, WalletInv, PageInv, OpInv, Captured
  <1>4. (Land(c) \/ Reject(c) \/ Expire(c)) /\ UNCHANGED page
    BY <1>1, <1>2, Zenon DEF Chain
  <1>5. CASE Land(c)
    <2>1. PICK s, input, leaf :
              s = call[c] /\ input = s.input /\ leaf = s.leaf
      OBVIOUS
    <2>2. Built(input, leaf)
      BY <1>3, <1>5, <2>1 DEF Land, CallsInv, Held
    <2>3. Accepts(input, leaf) /\ Execute(input, leaf)
      BY <1>5, <2>1 DEF Land
    <2>4. [Next]_vars
      BY <1>3, <2>2, <2>3, LandIsProgram
    <2>5. PICK next : next = [s EXCEPT !.pc = "landed"]
      OBVIOUS
    <2>6. next.pc = "landed"
      BY <1>3, <1>5, <2>1, <2>5 DEF Land, CallsInv, Held
    <2>7. call' = [call EXCEPT ![c] = next]
      BY <1>5, <2>1, <2>5 DEF Land
    <2> QED BY <1>3, <1>4, <2>4, <2>6, <2>7, CallMovesOn
  <1>6. ASSUME NEW next, Step(c, next), next.pc \in {"rejected", "expired"}
        PROVE  WalletInv'
    BY <1>3, <1>4, <1>6, CallMovesOn DEF Step
  <1>7. CASE Reject(c)
    <2>1. PICK next : next = [pc |-> "rejected"]
      OBVIOUS
    <2> QED BY <1>6, <1>7, <2>1 DEF Reject
  <1>8. CASE Expire(c)
    <2>1. PICK next : next = [pc |-> "expired"]
      OBVIOUS
    <2> QED BY <1>6, <1>8, <2>1 DEF Expire
  <1> QED BY <1>4, <1>5, <1>7, <1>8

\* The promise goes on: its state, the flag and the rolls of its page change.
LEMMA PromiseMoves ==
    ASSUME WalletInv, NEW p \in Pages, NEW op, NEW exists, NEW rolls,
           Set(p, [page[p] EXCEPT !.op = op, !.authorityExists = exists,
                                  !.rolls = rolls]),
           OpInv(op), \A roll \in rolls : Shown(roll)
    PROVE  WalletInv'
  <1>1. PICK pg : pg = page[p]
    OBVIOUS
  <1>2. PageInv(pg)
    BY <1>1 DEF WalletInv
  <1>3. PICK next : next = [pg EXCEPT !.op = op, !.authorityExists = exists,
                                      !.rolls = rolls]
    OBVIOUS
  <1>4. /\ next.wallet = pg.wallet /\ next.pk = pg.pk /\ next.label = pg.label
        /\ next.op = op /\ next.rolls = rolls
        /\ next = [wallet |-> next.wallet, pk |-> next.pk,
                   label |-> next.label,
                   authorityExists |-> next.authorityExists,
                   op |-> next.op, rolls |-> next.rolls]
    BY <1>2, <1>3 DEF PageInv
  <1>5. PageInv(next)
    BY <1>2, <1>4 DEF PageInv
  <1>6. Set(p, next)
    BY <1>1, <1>3
  <1> QED BY <1>5, <1>6, PageMoves DEF Set

\* The same when only the promise's own state changes.
LEMMA OpMoves ==
    ASSUME WalletInv, NEW p \in Pages, NEW op,
           Set(p, [page[p] EXCEPT !.op = op]), OpInv(op)
    PROVE  WalletInv'
  <1>1. PICK pg : pg = page[p]
    OBVIOUS
  <1>2. PageInv(pg)
    BY <1>1 DEF WalletInv
  <1>3. PICK exists, rolls : exists = pg.authorityExists /\ rolls = pg.rolls
    OBVIOUS
  <1>4. [pg EXCEPT !.op = op] =
           [pg EXCEPT !.op = op, !.authorityExists = exists, !.rolls = rolls]
    BY <1>2, <1>3 DEF PageInv
  <1>5. \A roll \in rolls : Shown(roll)
    BY <1>2, <1>3 DEF PageInv
  <1>6. Set(p, [page[p] EXCEPT !.op = op, !.authorityExists = exists,
                               !.rolls = rolls])
    BY <1>1, <1>4
  <1> QED BY <1>5, <1>6, PromiseMoves

LEMMA Idles == OpInv(NoOp)
  BY DEF OpInv, NoOp

LEMMA SendPreserves ==
    ASSUME WalletInv, NEW p \in Pages, Send(p)
    PROVE  WalletInv'
  <1>1. PICK pg, op : pg = page[p] /\ op = page[p].op
    OBVIOUS
  <1>2. PageInv(pg) /\ Captured(op)
    BY <1>1 DEF Send, WalletInv, PageInv, OpInv
  <1>3. PICK next : next = [op EXCEPT !.step = "confirming"]
    OBVIOUS
  <1>4. /\ next.step = "confirming" /\ next.kind = op.kind
        /\ next.call = op.call /\ next.owner = op.owner
        /\ next.label = op.label /\ next.pk = op.pk /\ next.memo = op.memo
        /\ next = [step |-> next.step, kind |-> next.kind, call |-> next.call,
                   owner |-> next.owner, label |-> next.label, pk |-> next.pk,
                   memo |-> next.memo]
    BY <1>2, <1>3 DEF Captured
  <1>5. OpInv(next)
    BY <1>2, <1>4 DEF OpInv, Captured
  <1>6. Set(p, [page[p] EXCEPT !.op.step = "confirming"])
    BY Zenon DEF Send
  <1>7. [pg EXCEPT !.op.step = "confirming"] = [pg EXCEPT !.op = next]
    BY <1>1, <1>2, <1>3 DEF PageInv
  <1>8. Set(p, [page[p] EXCEPT !.op = next])
    BY <1>1, <1>6, <1>7
  <1> QED BY <1>5, <1>8, OpMoves

LEMMA InitConfirmedPreserves ==
    ASSUME WalletInv, NEW p \in Pages, InitConfirmed(p)
    PROVE  WalletInv'
  <1>1. PICK op : op = page[p].op
    OBVIOUS
  <1>2. PICK c : c = NextCall
    OBVIOUS
  <1>3. Captured(op) /\ c \in Calls
    BY <1>1, <1>2, NextCallIsCall
       DEF InitConfirmed, Confirmed, WalletInv, PageInv, OpInv
  <1>4. PICK next : next = [op EXCEPT !.step = "building", !.kind = "freeze",
                                      !.call = c]
    OBVIOUS
  <1>5. /\ next.step = "building" /\ next.kind = "freeze"
        /\ next.call = c /\ next.owner = op.owner
        /\ next.label = op.label /\ next.pk = op.pk /\ next.memo = op.memo
        /\ next = [step |-> next.step, kind |-> next.kind, call |-> next.call,
                   owner |-> next.owner, label |-> next.label, pk |-> next.pk,
                   memo |-> next.memo]
    BY <1>3, <1>4 DEF Captured
  <1>6. OpInv(next)
    BY <1>3, <1>5 DEF OpInv, Captured
  <1>7. Set(p, [page[p] EXCEPT !.op = next])
    BY <1>1, <1>2, <1>4, Zenon DEF InitConfirmed
  <1> QED BY <1>6, <1>7, OpMoves

\* The fetched authority is the current one.
LEMMA RollConfirmedPreserves ==
    ASSUME WalletInv, NEW p \in Pages, RollConfirmed(p)
    PROVE  WalletInv'
  <1>1. PICK op, auth : op = page[p].op
                        /\ auth = fetchAuthority(op.owner, op.label)
    OBVIOUS
  <1>2. PICK next : next = [step |-> "fetching", kind |-> op.kind,
                            owner |-> op.owner, label |-> op.label,
                            pk |-> op.pk, memo |-> op.memo, call |-> op.call,
                            auth |-> auth]
    OBVIOUS
  <1>3. /\ next.step = "fetching" /\ next.auth = auth
        /\ next.owner = op.owner /\ next.label = op.label
    BY <1>2
  <1>4. ASSUME NEW d \in next.auth
        PROVE  \E e \in fetchAuthority(next.owner, next.label) :
                  LaterVersion(d, e)
    <2>1. d \in fetchAuthority(next.owner, next.label)
      BY <1>1, <1>3, <1>4
    <2> QED BY <2>1 DEF LaterVersion
  <1>5. OpInv(next)
    BY <1>3, <1>4 DEF OpInv, Read
  <1>6. Set(p, [page[p] EXCEPT !.op = next])
    BY <1>1, <1>2, Zenon DEF RollConfirmed
  <1> QED BY <1>5, <1>6, OpMoves

\* A verdict of true: the commit that was read is on chain, and the authority
\* that was read a moment before has a later version there.
LEMMA ValidRollIsAnchored ==
    ASSUME IndInv, NEW op, Read(op), RollIsValid(op)
    PROVE  Anchored(RecordedRoll(op, RollCommitAddress(op), TRUE))
  <1>1. PICK proof : proof = Vrf!proveVRF(op.pk, op.memo)
    OBVIOUS
  <1>2. PICK req : req = [mode |-> "registry", owner |-> op.owner,
                          label |-> op.label, memo |-> op.memo,
                          alpha |-> op.memo, proof |-> proof]
    OBVIOUS
  <1>3. PICK d \in op.auth, commit \in FetchedCommit(req, CompleteScan) :
            verifyAuthorityCommitEndToEnd(d, {req.label}, req, commit).valid
    BY <1>1, <1>2 DEF RollIsValid
  <1>4. Checks(d, req, commit) /\ d.label = req.label
    BY <1>3, VerdictFacts
  <1>5. /\ req.mode = "registry" /\ req.owner = op.owner
        /\ req.label = op.label /\ req.memo = op.memo /\ req.alpha = op.memo
        /\ req.proof = proof
    BY <1>2
  <1>6. PICK a : a = deriveAuthorityAddress(op.owner, op.label)
    OBVIOUS
  <1>7. /\ Vrf!verifyVRF(d.pk, op.memo, proof) /\ d.frozen
        /\ commit.proof_hash = Vrf!sha256(proof)
        /\ commit.alpha_hash = Vrf!sha256(op.memo)
        /\ commit.authority = a
    BY <1>4, <1>5, <1>6 DEF Checks
  <1>8. PICK acc \in CompressedAccounts(
                         deriveProofCommitAddress(a, Vrf!sha256(op.memo))) :
             /\ commit.authority = acc.data.authority
             /\ commit.proof_hash = acc.data.proof_hash
             /\ commit.alpha_hash = acc.data.alpha_hash
    <2>1. commit \in fetchProofCommit(a, op.memo)
      BY <1>5, <1>6, FetchedByMode
    <2> QED BY <2>1 DEF fetchProofCommit, OnChainCommit
  <1>9. PICK i \in Live :
             /\ leaves[i].address =
                  deriveProofCommitAddress(a, Vrf!sha256(op.memo))
             /\ acc = leaves[i]
    BY DEF CompressedAccounts
  <1>10. i \in CommitLeaves
    BY <1>9, CommitLeafAt
  <1>11. PICK e \in fetchAuthority(op.owner, op.label) : LaterVersion(d, e)
    BY DEF Read
  <1>12. /\ e \in Current(leaves[i].data.authority)
         /\ e.frozen /\ Vrf!verifyVRF(e.pk, op.memo, proof)
    BY <1>6, <1>7, <1>8, <1>9, <1>11 DEF LaterVersion, fetchAuthority
  <1>13. PICK roll : roll = RecordedRoll(op, RollCommitAddress(op), TRUE)
    OBVIOUS
  <1>14. /\ roll.pk = op.pk /\ roll.memo = op.memo
         /\ roll.commitAddr = deriveProofCommitAddress(a, Vrf!sha256(op.memo))
    BY <1>6, <1>13 DEF RecordedRoll, RollCommitAddress, AuthorityOf
  <1>15. Anchored(roll)
    BY <1>1, <1>7, <1>8, <1>9, <1>10, <1>12, <1>14 DEF Anchored
  <1> QED BY <1>13, <1>15

LEMMA RecordPreserves ==
    ASSUME WalletInv, NEW p \in Pages,
           FetchCommitAndRecord(p) \/ FreezeConfirmed(p)
    PROVE  WalletInv'
  <1>1. PICK pg, op : pg = page[p] /\ op = page[p].op
    OBVIOUS
  <1>2. PageInv(pg) /\ IndInv
    BY <1>1 DEF WalletInv
  <1>3. ASSUME NEW roll, Shown(roll), NEW exists,
               Set(p, [page[p] EXCEPT !.op = NoOp, !.authorityExists = exists,
                                      !.rolls = pg.rolls \cup {roll}])
        PROVE  WalletInv'
    <2>1. PICK rolls : rolls = pg.rolls \cup {roll}
      OBVIOUS
    <2>2. \A r \in rolls : Shown(r)
      BY <1>2, <1>3, <2>1 DEF PageInv
    <2> QED BY <1>3, <2>1, <2>2, Idles, PromiseMoves
  <1>4. CASE FreezeConfirmed(p)
    <2>1. PICK roll : roll = RecordedRoll(op, AuthorityOf(op), TRUE)
      OBVIOUS
    <2>2. Shown(roll)
      BY <1>1, <1>4, <2>1 DEF FreezeConfirmed, RecordedRoll, Shown
    <2>3. [pg EXCEPT !.op = NoOp, !.authorityExists = TRUE,
                     !.rolls = @ \cup {roll}]
            = [pg EXCEPT !.op = NoOp, !.authorityExists = TRUE,
                         !.rolls = pg.rolls \cup {roll}]
      BY <1>2 DEF PageInv
    <2>4. Set(p, [pg EXCEPT !.op = NoOp, !.authorityExists = TRUE,
                            !.rolls = @ \cup {roll}])
      BY <1>1, <1>4, <2>1, Zenon DEF FreezeConfirmed
    <2> QED BY <1>1, <1>3, <2>2, <2>3, <2>4
  <1>5. CASE FetchCommitAndRecord(p)
    <2>1. PICK valid : valid = RollIsValid(op)
      OBVIOUS
    <2>2. PICK roll : roll = RecordedRoll(op, RollCommitAddress(op), valid)
      OBVIOUS
    <2>3. Shown(roll)
      <3>1. Read(op)
        BY <1>1, <1>2, <1>5 DEF FetchCommitAndRecord, PageInv, OpInv
      <3>2. roll.verifyValid = RollIsValid(op)
        BY <2>1, <2>2 DEF RecordedRoll
      <3>3. RollIsValid(op) =>
               Anchored(RecordedRoll(op, RollCommitAddress(op), TRUE))
        BY <1>2, <3>1, ValidRollIsAnchored
      <3>4. ASSUME Anchored(RecordedRoll(op, RollCommitAddress(op), TRUE))
            PROVE  Anchored(roll)
        BY <2>2, <3>4 DEF Anchored, RecordedRoll
      <3> QED BY <3>2, <3>3, <3>4 DEF Shown
    <2>4. PICK exists : exists = pg.authorityExists
      OBVIOUS
    <2>5. [pg EXCEPT !.op = NoOp, !.rolls = @ \cup {roll}]
            = [pg EXCEPT !.op = NoOp, !.authorityExists = exists,
                         !.rolls = pg.rolls \cup {roll}]
      BY <1>2, <2>4 DEF PageInv
    <2>6. Set(p, [pg EXCEPT !.op = NoOp, !.rolls = @ \cup {roll}])
      BY <1>1, <1>5, <2>1, <2>2, Zenon DEF FetchCommitAndRecord
    <2> QED BY <1>1, <1>3, <2>3, <2>5, <2>6
  <1> QED BY <1>4, <1>5

LEMMA EndPreserves ==
    ASSUME WalletInv, NEW p \in Pages, Fail(p) \/ FetchFails(p)
    PROVE  WalletInv'
  <1>1. Set(p, [page[p] EXCEPT !.op = NoOp])
    BY Zenon DEF Fail, FetchFails
  <1> QED BY <1>1, Idles, OpMoves

LEMMA PromisePreserves ==
    ASSUME WalletInv, NEW p \in Pages, Promise(p)
    PROVE  WalletInv'
  BY BuildPreserves, SendPreserves, RefusePreserves, ChainPreserves,
     EndPreserves, InitConfirmedPreserves, RollConfirmedPreserves,
     RecordPreserves, Zenon DEF Promise

-----------------------------------------------------------------------------
(* The system.                                                             *)

LEMMA OtherClientIsProgram ==
    ASSUME IndInv, OtherClient
    PROVE  [Next]_vars
  <1>1. PICK owner \in Pubkeys :
            \/ \E pk \in Pks, label \in Labels :
                  InitAuthority(owner, ADDRESS_TREE_V2, pk,
                                SUITE_EDWARDS25519_SHA512_TAI, label)
            \/ \E i \in Live \cap AuthorityLeaves :
                LET claim == leaves[i].data
                    meta == [leaf |-> i, address |-> leaves[i].address]
                IN  \/ FreezeAuthority(owner, claim, meta)
                    \/ RevokeAuthority(owner, claim, meta)
    BY Zenon DEF OtherClient
  <1>2. CASE \E pk \in Pks, label \in Labels :
                InitAuthority(owner, ADDRESS_TREE_V2, pk,
                              SUITE_EDWARDS25519_SHA512_TAI, label)
    <2>1. /\ ADDRESS_TREE_V2 \in AddressTrees
          /\ SUITE_EDWARDS25519_SHA512_TAI \in Suites
      BY ConstantsAssumption
    <2> QED BY <1>2, <2>1 DEF Next
  <1>3. ASSUME NEW i \in Live \cap AuthorityLeaves, NEW claim, NEW meta,
               claim = leaves[i].data,
               meta = [leaf |-> i, address |-> leaves[i].address],
               FreezeAuthority(owner, claim, meta)
                 \/ RevokeAuthority(owner, claim, meta)
        PROVE  [Next]_vars
    <2>1. claim \in Claims /\ meta \in Metas
      BY <1>3, CurrentClaim
    <2> QED BY <1>3, <2>1 DEF Next
  <1> QED BY <1>1, <1>2, <1>3

LEMMA WalletInitEstablishes == WalletInit => WalletInv
  <1> SUFFICES ASSUME WalletInit PROVE WalletInv
    OBVIOUS
  <1>1. IndInv /\ DOMAIN call = Calls /\ \A c \in Calls : call[c].pc = "idle"
    BY InitEstablishes DEF WalletInit, ClientInit
  <1>2. PICK pks \in [Pages -> Pks], labels \in [Pages -> Labels] :
           page = [p \in Pages |->
              [wallet |-> NoWallet, pk |-> pks[p], label |-> labels[p],
               authorityExists |-> FALSE, op |-> NoOp, rolls |-> {}]]
    BY DEF WalletInit
  <1>3. ASSUME NEW p \in Pages PROVE PageInv(page[p])
    <2>1. PICK pk \in Pks, label \in Labels :
              page[p] = [wallet |-> NoWallet, pk |-> pk, label |-> label,
                         authorityExists |-> FALSE, op |-> NoOp, rolls |-> {}]
      BY <1>2
    <2>2. PICK pg : pg = page[p]
      OBVIOUS
    <2>3. /\ pg.wallet = NoWallet /\ pg.pk = pk /\ pg.label = label
          /\ pg.op = NoOp /\ pg.rolls = {}
          /\ pg = [wallet |-> pg.wallet, pk |-> pg.pk, label |-> pg.label,
                   authorityExists |-> pg.authorityExists, op |-> pg.op,
                   rolls |-> pg.rolls]
      BY <2>1, <2>2
    <2>4. PageInv(pg)
      BY <2>3, Idles DEF PageInv
    <2> QED BY <2>2, <2>4
  <1> QED BY <1>1, <1>2, <1>3 DEF WalletInv, CallsInv

LEMMA WalletNextPreserves ==
    ASSUME WalletInv, [WalletNext]_walletVars
    PROVE  WalletInv'
  <1>1. CASE OtherClient
    <2>1. [Next]_vars /\ UNCHANGED <<call, page>>
      BY <1>1, OtherClientIsProgram DEF OtherClient, WalletInv
    <2> QED BY <2>1, ProgramMoves
  <1>2. CASE \E p \in Pages : User(p) \/ Promise(p)
    BY <1>2, UserPreserves, PromisePreserves
  <1>3. CASE UNCHANGED walletVars
    BY <1>3, ProgramMoves DEF walletVars, clientVars
  <1> QED BY <1>1, <1>2, <1>3 DEF WalletNext

-----------------------------------------------------------------------------
(* The theorems.                                                           *)

\* What a click captured is what the SDK is called with, and what a promise read
\* keeps a later version on chain, however often the page, the wallet and the
\* label change (WalletDemo.tsx:117-223).
THEOREM WalletInvariant == WalletSpec => []WalletInv
  BY WalletInitEstablishes, WalletNextPreserves, PTL DEF WalletSpec

\* A roll shown as verified is committed under a frozen authority whose key
\* verifies it, although a transaction that failed counts as confirmed, and
\* stays so (WalletDemo.tsx:191-217).
THEOREM VerifiedRollsAnchored == WalletSpec => []VerifiedRollsAreAnchored
  <1>1. WalletInv => VerifiedRollsAreAnchored
    <2> SUFFICES ASSUME WalletInv, NEW p \in Pages, NEW roll \in page[p].rolls,
                        roll.kind = "commit" /\ roll.verifyValid
                 PROVE  Anchored(roll)
      BY Zenon DEF VerifiedRollsAreAnchored, Anchored
    <2> QED BY DEF WalletInv, PageInv, Shown
  <1> QED BY <1>1, WalletInvariant, PTL
=============================================================================
