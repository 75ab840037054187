----------------------------- MODULE WalletDemo -----------------------------
(***************************************************************************)
(* The wallet demo of the website (apps/website/src/sections/              *)
(* WalletDemo.tsx and wallet/AnchorProgram.ts): pages, each with a key of  *)
(* its own, that init and freeze an authority and then commit and verify   *)
(* rolls with the connected wallet.  A click captures wallet, label and    *)
(* key; the page can be edited, and the wallet used elsewhere, while its   *)
(* promise runs.                                                           *)
(***************************************************************************)
EXTENDS VrfClient, Verification, FiniteSetsExt

CONSTANTS
    Pages,
    Elsewhere       \* whether the wallet is used in another client, too

ASSUME WalletAssumption ==
    /\ Calls \subseteq Nat
    /\ Alphas = Memos           \* the demo takes alpha = sha256(memo)
    /\ Elsewhere \in BOOLEAN

VARIABLES
    page,       \* state of the component, per page
    generated   \* keys generated so far (ghost)

walletVars == <<clientVars, page, generated>>

NoWallet == "none"

\* The promise of a click; "none" when the page is not busy.
NoOp == [step |-> "none"]

busy(p) == page[p].op # NoOp

phase(p) ==
    CASE page[p].wallet = NoWallet -> "needs-wallet"
      [] page[p].wallet # NoWallet /\ page[p].authorityExists -> "ready"
      [] OTHER -> "needs-init"

\* The next SDK call; the run ends when all are used.
IdleCalls ==
    {c \in Calls : call[c].pc = "idle"}
        \ {page[p].op.call : p \in {q \in Pages : busy(q)}}

NextCall == Min(IdleCalls)

\* A step of the page alone.
Set(p, next) ==
    /\ page' = [page EXCEPT ![p] = next]
    /\ UNCHANGED <<clientVars, generated>>

-----------------------------------------------------------------------------
(* What the user does to the page.                                         *)

\* The wallet button connects, switches or disconnects and resets nothing.
SelectWallet(p, wallet) == Set(p, [page[p] EXCEPT !.wallet = wallet])

\* The page's own button.
disconnect(p) ==
    /\ page[p].wallet # NoWallet
    /\ Set(p, [page[p] EXCEPT !.wallet = NoWallet, !.authorityExists = FALSE,
                              !.rolls = {}])

setLabel(p, label) == Set(p, [page[p] EXCEPT !.label = label])

regenerateKeypair(p, pk, label) ==
    /\ ~busy(p)
    /\ pk \notin generated
    /\ generated' = generated \cup {pk}
    /\ page' = [page EXCEPT ![p].pk = pk, ![p].label = label,
                            ![p].authorityExists = FALSE, ![p].rolls = {}]
    /\ UNCHANGED clientVars

\* A click captures what its promise will use.
Click(p, kind, memo) ==
    /\ ~busy(p)
    /\ IdleCalls # {}
    /\ Set(p, [page[p] EXCEPT !.op =
           [step |-> "building", kind |-> kind, call |-> NextCall,
            owner |-> page[p].wallet, label |-> page[p].label,
            pk |-> page[p].pk, memo |-> memo]])

ClickInit(p) ==
    /\ phase(p) = "needs-init"
    /\ Click(p, "init", CHOOSE m \in Memos : TRUE)

ClickRoll(p, memo) ==
    /\ phase(p) = "ready"
    /\ Click(p, "commit", memo)

-----------------------------------------------------------------------------
(* One instruction: built by the SDK, sent by sendIxViaWallet.             *)

InputOf(op) ==
    CASE op.kind = "init" ->
            [kind |-> "init", owner |-> op.owner, label |-> op.label,
             pk |-> op.pk, suite |-> SUITE_EDWARDS25519_SHA512_TAI]
      [] op.kind = "freeze" ->
            [kind |-> "freeze", owner |-> op.owner, label |-> op.label]
      [] op.kind = "commit" ->
            [kind |-> "commit", owner |-> op.owner, label |-> op.label,
             memo |-> op.memo, alpha |-> op.memo,
             proof |-> Vrf!proveVRF(op.pk, op.memo)]

\* The builder's reads: the authority, then the validity proof.
Build(p) ==
    LET op == page[p].op
    IN  /\ op.step = "building"
        /\ \/ StartInit(op.call, InputOf(op))
           \/ StartWithAuthority(op.call, InputOf(op))
           \/ BuildAndSubmit(op.call)      \* "submitted" to the wallet
        /\ UNCHANGED <<page, generated>>

\* The user signs, and the preflight simulation passes.
Send(p) ==
    LET op == page[p].op
    IN  /\ op.step = "building"
        /\ call[op.call].pc = "submitted"
        /\ Accepts(call[op.call].input, call[op.call].leaf)
        /\ Set(p, [page[p] EXCEPT !.op.step = "confirming"])

\* The user refuses to sign, a request fails, or the preflight simulation does.
Refuse(p) ==
    LET op == page[p].op
    IN  /\ op.step = "building"
        /\ call[op.call].pc = "submitted"
        /\ call' = [call EXCEPT ![op.call] = [pc |-> "threw"]]
        /\ UNCHANGED <<vars, page, generated>>

\* What was sent is executed or expires.
Chain(p) ==
    LET op == page[p].op
    IN  /\ op.step = "confirming"
        /\ Land(op.call) \/ Reject(op.call) \/ Expire(op.call)
        /\ UNCHANGED <<page, generated>>

\* confirmTransaction resolves for a transaction that failed, too; only expiry
\* throws.
Confirmed(op) ==
    /\ op.step = "confirming"
    /\ call[op.call].pc \in {"landed", "rejected"}

\* Mutant: a failure of the second transaction does not end the busy state.
FailOnce(p) ==
    LET op == page[p].op
    IN  /\ busy(p)
        /\ op.kind # "freeze"
        /\ call[op.call].pc \in {"threw", "expired"}
        /\ Set(p, [page[p] EXCEPT !.op = NoOp])

\* The catch of initAuthority and rollOnce.
Fail(p) ==
    LET op == page[p].op
    IN  /\ busy(p)
        /\ call[op.call].pc \in {"threw", "expired"}
        /\ Set(p, [page[p] EXCEPT !.op = NoOp])

-----------------------------------------------------------------------------
(* What follows a confirmation.                                            *)

\* initAuthority goes on to freeze.
InitConfirmed(p) ==
    LET op == page[p].op
    IN  /\ Confirmed(op) /\ op.kind = "init"
        /\ IdleCalls # {}
        /\ Set(p, [page[p] EXCEPT !.op =
               [op EXCEPT !.step = "building", !.kind = "freeze",
                          !.call = NextCall]])

\* A RecordedRoll, with the key of the click (ghost).
RecordedRoll(op, commitAddr, verifyValid) ==
    [kind |-> op.kind, memo |-> op.memo, pk |-> op.pk,
     commitAddr |-> commitAddr, verifyValid |-> verifyValid]

AuthorityOf(op) == deriveAuthorityAddress(op.owner, op.label)

\* "[init+freeze] authority ready at ...".
FreezeConfirmed(p) ==
    LET op == page[p].op
    IN  /\ Confirmed(op) /\ op.kind = "freeze"
        /\ Set(p, [page[p] EXCEPT !.op = NoOp, !.authorityExists = TRUE,
               !.rolls = @ \cup {RecordedRoll(op, AuthorityOf(op), TRUE)}])

\* rollOnce fetches the authority ...
RollConfirmed(p) ==
    LET op == page[p].op
    IN  /\ Confirmed(op) /\ op.kind = "commit"
        /\ Set(p, [page[p] EXCEPT !.op =
               [step |-> "fetching", kind |-> op.kind, owner |-> op.owner,
                label |-> op.label, pk |-> op.pk, memo |-> op.memo,
                call |-> op.call, auth |-> fetchAuthority(op.owner, op.label)]])

\* The verdict on a roll: false when authority or commit was not found.
RollIsValid(op) ==
    LET req == [mode |-> "registry", owner |-> op.owner, label |-> op.label,
                memo |-> op.memo, alpha |-> op.memo,
                proof |-> Vrf!proveVRF(op.pk, op.memo)]
    IN  \E d \in op.auth, commit \in FetchedCommit(req, CompleteScan) :
            verifyAuthorityCommitEndToEnd(d, {req.label}, req, commit).valid

RollCommitAddress(op) ==
    deriveProofCommitAddress(AuthorityOf(op), Vrf!sha256(op.memo))

\* Mutant: a confirmed roll counts as verified.
RecordConfirmed(p) ==
    LET op == page[p].op
    IN  /\ op.step = "fetching"
        /\ Set(p, [page[p] EXCEPT !.op = NoOp, !.rolls =
               @ \cup {RecordedRoll(op, RollCommitAddress(op), TRUE)}])

\* ... and the commit, and records the verdict.
FetchCommitAndRecord(p) ==
    LET op == page[p].op
    IN  /\ op.step = "fetching"
        /\ Set(p, [page[p] EXCEPT !.op = NoOp, !.rolls =
               @ \cup {RecordedRoll(op, RollCommitAddress(op),
                                    RollIsValid(op))}])

\* A read fails: the roll is committed, and its row is missing.
FetchFails(p) ==
    /\ page[p].op.step = "fetching"
    /\ Set(p, [page[p] EXCEPT !.op = NoOp])

-----------------------------------------------------------------------------
(* The system.                                                             *)

\* Another client of the same wallet (the command line, another site): it may
\* init the label first, with a key of its own, freeze or revoke.
OtherClient ==
    /\ Elsewhere
    /\ \E owner \in Pubkeys :
        \/ \E pk \in Pks \ generated, label \in Labels :
              /\ InitAuthority(owner, ADDRESS_TREE_V2, pk,
                               SUITE_EDWARDS25519_SHA512_TAI, label)
              /\ generated' = generated \cup {pk}
        \/ \E i \in Live \cap AuthorityLeaves :
            LET claim == leaves[i].data
                meta == [leaf |-> i, address |-> leaves[i].address]
            IN  /\ \/ FreezeAuthority(owner, claim, meta)
                   \/ ~claim.revoked /\ RevokeAuthority(owner, claim, meta)
                /\ UNCHANGED generated
    /\ UNCHANGED <<call, page>>

WalletInit ==
    /\ ClientInit
    /\ \E pks \in {f \in [Pages -> Pks] : IsInjective(f)},
          labels \in [Pages -> Labels] :
        /\ page = [p \in Pages |->
              [wallet |-> NoWallet, pk |-> pks[p], label |-> labels[p],
               authorityExists |-> FALSE, op |-> NoOp, rolls |-> {}]]
        /\ generated = {pks[p] : p \in Pages}

User(p) ==
    \/ \E wallet \in Pubkeys \cup {NoWallet} : SelectWallet(p, wallet)
    \/ disconnect(p)
    \/ \E label \in Labels : setLabel(p, label)
    \/ \E pk \in Pks, label \in Labels : regenerateKeypair(p, pk, label)
    \/ ClickInit(p)
    \/ \E memo \in Memos : ClickRoll(p, memo)

\* The promise of a click.  A user asked to sign does so or refuses.
Promise(p) ==
    \/ Build(p) \/ Send(p) \/ Refuse(p) \/ Chain(p) \/ Fail(p)
    \/ InitConfirmed(p) \/ FreezeConfirmed(p)
    \/ RollConfirmed(p) \/ FetchCommitAndRecord(p) \/ FetchFails(p)

WalletNext ==
    \/ OtherClient
    \/ \E p \in Pages : User(p) \/ Promise(p)

WalletSpec ==
    /\ WalletInit /\ [][WalletNext]_walletVars
    /\ \A p \in Pages : WF_walletVars(Promise(p))

-----------------------------------------------------------------------------
(* Properties.                                                             *)

\* A roll shown as verified is committed under a frozen authority whose key
\* verifies the roll's proof, whatever wallet or label the page shows by then,
\* and although transactions that failed count as confirmed
\* (WalletDemo.tsx:191-217).
VerifiedRollsAreAnchored ==
    \A p \in Pages : \A roll \in page[p].rolls :
        (roll.kind = "commit" /\ roll.verifyValid) =>
            LET proof == Vrf!proveVRF(roll.pk, roll.memo)
            IN  \E i \in Live \cap CommitLeaves :
                  /\ leaves[i].address = roll.commitAddr
                  /\ leaves[i].data.proof_hash = Vrf!sha256(proof)
                  /\ leaves[i].data.alpha_hash = Vrf!sha256(roll.memo)
                  /\ \E d \in Current(leaves[i].data.authority) :
                        d.frozen /\ Vrf!verifyVRF(d.pk, roll.memo, proof)

\* A page does not stay busy, whichever of its steps fails (WalletDemo.tsx:
\* 163-166, 219-223), unless the model ran out of calls for its freeze.
BusyEnds == \A p \in Pages : busy(p) ~> (~busy(p) \/ IdleCalls = {})
=============================================================================
