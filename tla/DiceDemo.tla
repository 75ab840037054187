------------------------------ MODULE DiceDemo ------------------------------
(***************************************************************************)
(* The dice-demo command line (apps/dice-demo): every command loads        *)
(* ~/.cc-vrf-demo/state.json, makes one SDK call, waits for its            *)
(* confirmation, and init and the rolls write the state back.  Commands    *)
(* run in processes that do not lock the file, lose their confirmation, or *)
(* die.                                                                    *)
(***************************************************************************)
EXTENDS VrfClient, Verification

CONSTANTS
    Operator, DEFAULT_LABEL,    \* the wallet and the label of the demo
    Faults                      \* subset of {"lost", "torn", "delete"}

ASSUME DemoAssumption ==
    /\ Operator \in Pubkeys /\ DEFAULT_LABEL \in Labels
    /\ Alphas = Memos           \* the demo takes alpha = sha256(memo)
    /\ Faults \subseteq {"lost", "torn", "delete"}

VARIABLES
    file,       \* content of state.json as a set: empty when there is no file
                \* or its content does not parse
    mem,        \* per command: what its process holds
    generated   \* keys generated so far (ghost)

demoVars == <<clientVars, file, mem, generated>>

NoKey == "none"

Roll == [memo: Memos, proof: Vrf!Proofs, mode: CommitKinds]

DemoState == [vrfPk: Pks \cup {NoKey}, rolls: Seq(Roll)]

loadState ==
    IF file = {} THEN [vrfPk |-> NoKey, rolls |-> <<>>]
                 ELSE CHOOSE st \in file : TRUE

saveState(st) == file' = {st}

-----------------------------------------------------------------------------
(* Commands.                                                               *)

CanRun(kind, st) ==
    IF kind = "init" THEN st.vrfPk = NoKey ELSE st.vrfPk # NoKey

\* A command starts: init generates a fresh key, the others use the saved one.
Load(c, kind, memo) ==
    /\ mem[c].pc = "idle"
    /\ IF ~CanRun(kind, loadState)
       THEN /\ mem' = [mem EXCEPT ![c] = [pc |-> "threw"]]
            /\ UNCHANGED generated
       ELSE \E pk \in Pks :
            /\ IF kind = "init" THEN pk \notin generated
                                ELSE pk = loadState.vrfPk
            /\ generated' = generated \cup {pk}
            /\ mem' = [mem EXCEPT ![c] =
                  [pc |-> "loaded", kind |-> kind, memo |-> memo, pk |-> pk,
                   st |-> loadState]]
    /\ UNCHANGED <<clientVars, file>>

\* The SDK call of a command.
InputOf(m) ==
    CASE m.kind = "init" ->
            [kind |-> "init", owner |-> Operator, label |-> DEFAULT_LABEL,
             pk |-> m.pk, suite |-> SUITE_EDWARDS25519_SHA512_TAI]
      [] m.kind \in {"freeze", "revoke"} ->
            [kind |-> m.kind, owner |-> Operator, label |-> DEFAULT_LABEL]
      [] m.kind \in {"commit", "event"} ->
            [kind |-> m.kind, owner |-> Operator, label |-> DEFAULT_LABEL,
             memo |-> m.memo, alpha |-> m.memo,
             proof |-> Vrf!proveVRF(m.pk, m.memo)]
      [] m.kind = "commit-beta" ->
            [kind |-> m.kind, owner |-> Operator, label |-> DEFAULT_LABEL,
             memo |-> m.memo, alpha |-> m.memo,
             proof |-> Vrf!proveVRF(m.pk, m.memo),
             betaOf |-> Vrf!proveVRF(m.pk, m.memo).gamma]

Build(c) ==
    /\ mem[c].pc = "loaded"
    /\ \/ StartInit(c, InputOf(mem[c]))
       \/ StartWithAuthority(c, InputOf(mem[c]))
    /\ UNCHANGED <<file, mem, generated>>

\* What a confirmed command writes; freeze and revoke write nothing.
Recorded(m) ==
    IF m.kind = "init" THEN [m.st EXCEPT !.vrfPk = m.pk]
    ELSE [m.st EXCEPT !.rolls = Append(@,
            [memo |-> m.memo, proof |-> Vrf!proveVRF(m.pk, m.memo),
             mode |-> m.kind])]

\* Mutant: the state is saved when the transaction is sent.
SaveEarly(c) ==
    /\ mem[c].pc = "loaded"
    /\ call[c].pc = "submitted"
    /\ IF mem[c].kind \in {"freeze", "revoke"}
       THEN UNCHANGED file
       ELSE saveState(Recorded(mem[c]))
    /\ mem' = [mem EXCEPT ![c].pc = "saved"]
    /\ UNCHANGED <<clientVars, generated>>

\* sendAndConfirm returned.
Save(c) ==
    /\ mem[c].pc = "loaded"
    /\ call[c].pc = "landed"
    /\ IF mem[c].kind \in {"freeze", "revoke"}
       THEN UNCHANGED file
       ELSE saveState(Recorded(mem[c]))
    /\ mem' = [mem EXCEPT ![c].pc = "saved"]
    /\ UNCHANGED <<clientVars, generated>>

\* sendAndConfirm threw on a timeout, or the process died: the transaction may
\* have landed and may land yet.
Lose(c) ==
    /\ "lost" \in Faults
    /\ mem[c].pc = "loaded"
    /\ call[c].pc \in {"submitted", "landed"}
    /\ mem' = [mem EXCEPT ![c].pc = "lost"]
    /\ UNCHANGED <<clientVars, file, generated>>

\* The process died in writeFileSync, which truncates before it writes.
TearSave(c) ==
    /\ "torn" \in Faults
    /\ mem[c].pc = "loaded"
    /\ call[c].pc = "landed"
    /\ mem[c].kind \notin {"freeze", "revoke"}
    /\ file' = {}
    /\ mem' = [mem EXCEPT ![c].pc = "lost"]
    /\ UNCHANGED <<clientVars, generated>>

\* The user removes ~/.cc-vrf-demo.
Delete ==
    /\ "delete" \in Faults
    /\ file' = {}
    /\ UNCHANGED <<clientVars, mem, generated>>

\* The chain goes on, whatever became of the process.
Chain(c) == Progress(c) /\ UNCHANGED <<file, mem, generated>>

DemoInit ==
    /\ ClientInit
    /\ file = {}
    /\ mem = [c \in Calls |-> [pc |-> "idle"]]
    /\ generated = {}

DemoNext ==
    \/ Delete
    \/ \E c \in Calls :
        \/ \E kind \in {"init", "freeze", "revoke"} \cup CommitKinds,
              memo \in Memos : Load(c, kind, memo)
        \/ Build(c)
        \/ Chain(c)
        \/ Save(c)
        \/ Lose(c)
        \/ TearSave(c)

DemoSpec == DemoInit /\ [][DemoNext]_demoVars

-----------------------------------------------------------------------------
(* The verify commands, which change nothing.                              *)

\* The first roll recorded for the memo; empty when there is none and the
\* command throws.
StoredRoll(st, memo) ==
    LET recorded == {k \in DOMAIN st.rolls : st.rolls[k].memo = memo}
    IN  {st.rolls[k] : k \in {j \in recorded : \A i \in recorded : j <= i}}

RequestOf(mode, roll) ==
    [mode |-> mode, owner |-> Operator, label |-> DEFAULT_LABEL,
     memo |-> roll.memo, alpha |-> roll.memo, proof |-> roll.proof]

\* The verdict on it; empty when the command throws or exits before it has one.
VerdictOn(req) ==
    {verifyAuthorityCommitEndToEnd(d, {req.label}, req, commit).valid :
        d \in fetchAuthority(req.owner, req.label),
        commit \in FetchedCommit(req, CompleteScan)}

Verdict(mode, st, memo) ==
    UNION {VerdictOn(RequestOf(mode, roll)) : roll \in StoredRoll(st, memo)}

cmdVerify(st, memo) == Verdict("registry", st, memo)

cmdVerifyWithBeta(st, memo) == Verdict("registry-beta", st, memo)

cmdVerifyEvent(st, memo) == Verdict("event", st, memo)

-----------------------------------------------------------------------------
(* Properties.                                                             *)

\* The record of the demo's authority.
Authority == Current(AuthorityAddress(ADDRESS_TREE_V2, Operator, DEFAULT_LABEL))

\* A key in the file is the key on chain, although several init commands may
\* run at a time, each with a key of its own, and any of them may lose its
\* confirmation, be repeated, or tear the file (commands.ts:44-81).
SavedKeyIsAuthorityKey ==
    \A st \in file : st.vrfPk # NoKey =>
        \E d \in Authority : d.pk = st.vrfPk

\* Whatever is lost of the file, what it holds can be verified: a recorded
\* roll, looked up with the command of its mode, is valid until the authority is
\* revoked, also when a confirmation was lost or a second key was generated
\* meanwhile (commands.ts:150-164, 259-275, 363-379).
RecordedRollsVerify ==
    (\A d \in Authority : ~d.revoked) =>
        \A st \in file : \A k \in DOMAIN st.rolls :
            LET roll == st.rolls[k]
            IN  /\ roll.mode = "commit" =>
                      cmdVerify(st, roll.memo) = {TRUE}
                /\ roll.mode = "commit-beta" =>
                      cmdVerifyWithBeta(st, roll.memo) = {TRUE}
                /\ roll.mode = "event" =>
                      cmdVerifyEvent(st, roll.memo) = {TRUE}
=============================================================================
