------------------------------ MODULE Verifier ------------------------------
(***************************************************************************)
(* End-to-end verification (packages/vrf-client/src/verifyEndToEnd.ts and  *)
(* apps/website/src/pages/VerifyPage.tsx) against a live chain: a consumer *)
(* reads the authority, later reads the commit, and decides, while the     *)
(* operator goes on freezing, revoking and committing.  The operator is    *)
(* not trusted: it commits any hashes it likes.                            *)
(***************************************************************************)
EXTENDS Verification

CONSTANTS
    Modes,          \* subset of {"registry", "registry-beta", "event"}
    Consumers,      \* verifying processes
    MadeProofs      \* proofs that the operator makes, commits and hands over

ASSUME VerifierAssumption ==
    /\ Modes \subseteq {"registry", "registry-beta", "event"}
    /\ MadeProofs \subseteq Vrf!Proofs

VARIABLE session    \* per consumer: progress of its one verification

verifierVars == <<vars, session>>

\* What a consumer holds: where the commitment should be, and the alpha and
\* proof the operator handed over.
Requests ==
    [mode: Modes, owner: Pubkeys, label: Labels, memo: Memos,
     alpha: Alphas, proof: MadeProofs]

Idle == [pc |-> "idle"]

-----------------------------------------------------------------------------
(* Actions.                                                                *)

\* The first await of runVerify and of the verify commands.
FetchAuthority(c, req) ==
    /\ session[c].pc = "idle"
    /\ LET found == fetchAuthority(req.owner, req.label)
       IN  \/ /\ found = {}
              /\ session' = [session EXCEPT ![c] = [pc |-> "error"]]
           \/ \E d \in found :
                session' = [session EXCEPT ![c] =
                              [pc |-> "fetched", req |-> req, auth |-> d]]
    /\ UNCHANGED vars

\* What a scan can miss: events in transactions that the node does not give, and
\* those older than its window (EventScan!MissesAreExplained).  The registry
\* modes scan nothing.
Scans(mode) == IF mode = "event" THEN SUBSET (DOMAIN events) ELSE {{}}

\* The second await, and the decision, which VerifyPage asks for without an
\* expected label (a caller that gives one accepts no more); seen and known
\* (ghosts) tell which events the scan read, of how many.
FetchCommitAndVerify(c) ==
    /\ session[c].pc = "fetched"
    /\ LET req == session[c].req
       IN  \E seen \in Scans(req.mode) :
             LET found == FetchedCommit(req, seen)
             IN  \/ /\ found = {}
                    /\ session' = [session EXCEPT ![c] = [pc |-> "error"]]
                 \/ \E commit \in found :
                      session' = [session EXCEPT ![c] =
                        [pc |-> "done", req |-> req, seen |-> seen,
                         known |-> Len(events),
                         verdict |-> verifyAuthorityCommitEndToEnd(
                                         session[c].auth, {}, req, commit)]]
    /\ UNCHANGED vars

\* The operator: any commitment over hashes and betas of its choice.  Only
\* unspent leaves are claimed; CcVrf shows that other claims are refused.
OperatorCommits(owner, claim, meta) ==
    \E m \in MemoHashes, a \in AlphaHashes, p \in {Vrf!sha256(q) : q \in MadeProofs} :
        \/ CommitProof(owner, claim, meta, ADDRESS_TREE_V2, m, p, a)
        \/ \E q \in MadeProofs :
              CommitProofWithBeta(owner, claim, meta, ADDRESS_TREE_V2, m, p, a,
                  Vrf!BetaHalf(q.gamma, 1), Vrf!BetaHalf(q.gamma, 2))
        \/ \E label \in Labels :
              CommitProofEvent(owner, claim, meta, label, m, p, a)

\* The clock stands still: a verdict only shows the slot of a commit.
OperatorActs ==
    \E owner \in Pubkeys :
        \/ \E pk \in Pks, label \in Labels :
              InitAuthority(owner, ADDRESS_TREE_V2, pk,
                            SUITE_EDWARDS25519_SHA512_TAI, label)
        \/ \E i \in Live \cap AuthorityLeaves :
            LET claim == leaves[i].data
                meta == [leaf |-> i, address |-> leaves[i].address]
            IN  \/ FreezeAuthority(owner, claim, meta)
                \/ RevokeAuthority(owner, claim, meta)
                \/ OperatorCommits(owner, claim, meta)

VerifierInit == Init /\ session = [c \in Consumers |-> Idle]

VerifierNext ==
    \/ OperatorActs /\ UNCHANGED session
    \/ \E c \in Consumers :
        \/ \E req \in Requests : FetchAuthority(c, req)
        \/ FetchCommitAndVerify(c)

VerifierSpec == VerifierInit /\ [][VerifierNext]_verifierVars

-----------------------------------------------------------------------------
(* Properties.                                                             *)

Accepted == {c \in Consumers : session[c].pc = "done" /\ session[c].verdict.valid}

\* The request would be accepted by a consumer that reads the authority and
\* these events now.
AcceptableTo(req, seen) ==
    \E d \in fetchAuthority(req.owner, req.label) :
        \E commit \in FetchedCommit(req, seen) :
            verifyAuthorityCommitEndToEnd(d, {}, req, commit).valid

\* It would be accepted on some scan, complete or not.
AcceptableNow(req) == \E seen \in Scans(req.mode) : AcceptableTo(req, seen)

\* The verdict beta of a request.
BetaOf(req) == Vrf!vrfProofToHash(req.proof)

\* An accepted outcome is anchored: the key that verified it is, and stays, the
\* key of the frozen authority at (owner, label), and that authority committed
\* this proof and this alpha for this memo, although authority and commit were
\* read at different times.
AcceptedIsAnchored ==
    \A c \in Accepted :
        LET req == session[c].req
            address == AuthorityAddress(ADDRESS_TREE_V2, req.owner, req.label)
        IN  /\ \E d \in Current(address) :
                  d.frozen /\ Vrf!verifyVRF(d.pk, req.alpha, req.proof)
            /\ \/ \E i \in CommitLeaves \cap Live :
                    /\ leaves[i].data.authority = address
                    /\ leaves[i].data.memo_hash = Vrf!sha256(req.memo)
                    /\ leaves[i].data.proof_hash = Vrf!sha256(req.proof)
                    /\ leaves[i].data.alpha_hash = Vrf!sha256(req.alpha)
               \/ /\ req.mode = "event"
                  /\ \E i \in DOMAIN events :
                    /\ events[i].owner = req.owner /\ events[i].label = req.label
                    /\ events[i].memo_hash = Vrf!sha256(req.memo)
                    /\ events[i].proof_hash = Vrf!sha256(req.proof)
                    /\ events[i].alpha_hash = Vrf!sha256(req.alpha)

\* The registry settles one outcome per memo: once a registry verification of
\* (owner, label, memo) was accepted, no other proof or alpha is ever accepted
\* for it, in either registry mode (state.rs:43-44, README.md:171).
OneRegistryOutcomePerMemo ==
    \A c \in Accepted : session[c].req.mode # "event" =>
        LET req == session[c].req
        IN  \A other \in {r \in Requests :
                  /\ r.mode # "event" /\ r.owner = req.owner
                  /\ r.label = req.label /\ r.memo = req.memo} :
              AcceptableNow(other) =>
                  other.proof = req.proof /\ other.alpha = req.alpha

\* The operator cannot choose the outcome of an input: whatever it commits, in
\* any mode and for any memo, accepted proofs for one (owner, label, alpha)
\* have one beta, on complete and incomplete scans alike (the callers of
\* fetchProofCommitEvents do not learn which they got, operations.ts:642).
OneBetaPerAlpha ==
    \A c \in Accepted :
        LET req == session[c].req
        IN  \A other \in {r \in Requests :
                  /\ r.owner = req.owner /\ r.label = req.label
                  /\ r.alpha = req.alpha} :
              AcceptableNow(other) => BetaOf(other) = session[c].verdict.beta

\* What was accepted on a scan stays acceptable, while the authority is not
\* revoked, to every scan that reads the same events and any later ones: no
\* later commit, duplicate or garbage event displaces it.
AcceptedStaysAcceptable ==
    \A c \in Accepted :
        LET s == session[c]
        IN  (\A d \in fetchAuthority(s.req.owner, s.req.label) : ~d.revoked) =>
                \A later \in SUBSET ((s.known + 1)..Len(events)) :
                    AcceptableTo(s.req, s.seen \cup later)

-----------------------------------------------------------------------------
(* A statement of the documentation that does not hold (see the violation  *)
(* run).                                                                   *)

\* "Garbage event first, then real event later: accepts real proof"
\* (README.md:114): an event that satisfies every check is found by a complete
\* scan, whatever other events precede it.
RealEventIsFound ==
    \A req \in {r \in Requests : r.mode = "event"} :
        \A d \in fetchAuthority(req.owner, req.label) :
            (\E i \in fetchProofCommitEvents(req.owner, req.label, req.memo,
                                             CompleteScan) :
                verifyAuthorityCommitEndToEnd(d, {}, req, CommitOfEvent(i)).valid)
            => AcceptableTo(req, CompleteScan)
=============================================================================
