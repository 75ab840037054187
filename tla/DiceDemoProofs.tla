--------------------------- MODULE DiceDemoProofs ---------------------------
(***************************************************************************)
(* Proofs about DiceDemo, for every number of processes and of keys: what  *)
(* state.json holds is true of the chain, whatever is lost on the way.     *)
(***************************************************************************)
EXTENDS DiceDemo, SdkProofs, WellFoundedInduction

-----------------------------------------------------------------------------
(* The inductive invariant.                                                *)

Commands == {"init", "freeze", "revoke"} \cup CommitKinds

AuthorityPk(pk) == \E d \in Authority : d.pk = pk

\* The SDK call that made a roll, when it was made with the key pk.
CallOf(roll, pk) == InputOf([kind |-> roll.mode, memo |-> roll.memo, pk |-> pk])

\* A roll was proved with the authority's key, and its commitment is there.
RollSound(roll) ==
    \E pk \in Pks :
        /\ AuthorityPk(pk)
        /\ roll.proof = Vrf!proveVRF(pk, roll.memo)
        /\ Effect(CallOf(roll, pk))

StateSound(st) ==
    /\ st \in DemoState
    /\ st.vrfPk # NoKey => AuthorityPk(st.vrfPk)
    /\ \A k \in DOMAIN st.rolls : RollSound(st.rolls[k])

\* What a process holds: a state that was read from the file and stays true, a
\* key that is fresh or read with it, and the SDK call that its command makes.
HeldBy(c, m) ==
    /\ m = [pc |-> m.pc, kind |-> m.kind, memo |-> m.memo, pk |-> m.pk,
            st |-> m.st]
    /\ m.kind \in Commands /\ m.memo \in Memos /\ m.pk \in Pks
    /\ StateSound(m.st)
    /\ m.kind # "init" => m.pk = m.st.vrfPk /\ m.pk # NoKey
    /\ call[c].pc \in {"fetched", "submitted", "landed"} =>
          call[c].input = InputOf(m)

MemInv ==
    /\ DOMAIN mem = Calls
    /\ \A c \in Calls :
        /\ mem[c].pc = "idle" => call[c].pc = "idle"
        /\ mem[c].pc = "loaded" => HeldBy(c, mem[c])

DemoInv ==
    /\ ClientInv
    /\ \A st \in file : StateSound(st)
    /\ MemInv

-----------------------------------------------------------------------------
(* The chain keeps what is recorded.                                       *)

LEMMA AuthorityPkKept ==
    ASSUME IndInv, [Next]_vars, NEW pk, AuthorityPk(pk)
    PROVE  AuthorityPk(pk)'
  <1>1. PICK a : a = AuthorityAddress(ADDRESS_TREE_V2, Operator, DEFAULT_LABEL)
    OBVIOUS
  <1>2. PICK d \in Current(a) : d.pk = pk
    BY <1>1 DEF AuthorityPk, Authority
  <1>3. PICK e \in Current(a)' : LaterVersion(d, e)
    BY HasLaterVersion
  <1>4. e.pk = pk
    BY <1>2, <1>3 DEF LaterVersion
  <1>5. Authority' = Current(a)'
    BY <1>1 DEF Authority, Current
  <1> QED BY <1>3, <1>4, <1>5 DEF AuthorityPk

LEMMA RollKept ==
    ASSUME IndInv, [Next]_vars, NEW roll, RollSound(roll)
    PROVE  RollSound(roll)'
  <1>1. PICK pk \in Pks :
            /\ AuthorityPk(pk)
            /\ roll.proof = Vrf!proveVRF(pk, roll.memo)
            /\ Effect(CallOf(roll, pk))
    BY DEF RollSound
  <1>2. PICK input : input = CallOf(roll, pk)
    OBVIOUS
  <1>3. Effect(input)'
    BY <1>1, <1>2, EffectKept
  <1>4. Effect(CallOf(roll, pk))'
    BY <1>2, <1>3
  <1>5. AuthorityPk(pk)'
    BY <1>1, AuthorityPkKept
  <1> QED BY <1>1, <1>4, <1>5 DEF RollSound

LEMMA StateKept ==
    ASSUME IndInv, [Next]_vars, NEW st, StateSound(st)
    PROVE  StateSound(st)'
  <1>1. st.vrfPk # NoKey => AuthorityPk(st.vrfPk)'
    <2>1. PICK pk : pk = st.vrfPk
      OBVIOUS
    <2> QED BY <2>1, AuthorityPkKept DEF StateSound
  <1>2. \A k \in DOMAIN st.rolls : RollSound(st.rolls[k])'
    <2> TAKE k \in DOMAIN st.rolls
    <2>1. PICK roll : roll = st.rolls[k]
      OBVIOUS
    <2>2. RollSound(roll)'
      BY <2>1, RollKept DEF StateSound
    <2> QED BY <2>1, <2>2
  <1> QED BY <1>1, <1>2 DEF StateSound

\* The SDK accepts what the commands pass to it.
LEMMA CommandInputs ==
    ASSUME NEW m, m.kind \in Commands, m.memo \in Memos, m.pk \in Pks
    PROVE  /\ InputOf(m) \in Inputs
           /\ InputOf(m).kind = m.kind
           /\ m.kind = "init" => InputOf(m).pk = m.pk
           /\ InputOf(m).owner = Operator /\ InputOf(m).label = DEFAULT_LABEL
           /\ m.kind \in CommitKinds =>
                /\ InputOf(m).memo = m.memo /\ InputOf(m).alpha = m.memo
                /\ InputOf(m).proof = Vrf!proveVRF(m.pk, m.memo)
  <1>1. Operator \in Pubkeys /\ DEFAULT_LABEL \in Labels /\ Alphas = Memos
    BY DemoAssumption
  <1>2. SUITE_EDWARDS25519_SHA512_TAI \in Suites
    BY ConstantsAssumption
  <1>3. /\ Vrf!proveVRF(m.pk, m.memo) \in Vrf!Proofs
        /\ Vrf!proveVRF(m.pk, m.memo).gamma \in Vrf!Gammas
    BY <1>1, HashesAssumption DEF Vrf!proveVRF, Vrf!Proofs, Vrf!Gammas
  <1> DEFINE p == Vrf!proveVRF(m.pk, m.memo)
  <1>4. CASE m.kind = "init"
    BY <1>1, <1>2, <1>4 DEF InputOf, Inputs, CommitKinds
  <1>5. CASE m.kind \in {"freeze", "revoke"}
    BY <1>1, <1>5 DEF InputOf, Inputs, CommitKinds
  <1>6. CASE m.kind \in {"commit", "event"}
    <2> HIDE DEF p
    <2>1. InputOf(m) = [kind |-> m.kind, owner |-> Operator,
                        label |-> DEFAULT_LABEL, memo |-> m.memo,
                        alpha |-> m.memo, proof |-> p]
      BY <1>6 DEF InputOf, p
    <2>2. p \in Vrf!Proofs
      BY <1>3 DEF p
    <2> QED BY <1>1, <1>6, <2>1, <2>2 DEF Inputs, p
  <1>7. CASE m.kind = "commit-beta"
    <2> DEFINE g == Vrf!proveVRF(m.pk, m.memo).gamma
    <2>1. InputOf(m) = [kind |-> m.kind, owner |-> Operator,
                        label |-> DEFAULT_LABEL, memo |-> m.memo,
                        alpha |-> m.memo, proof |-> p, betaOf |-> g]
      BY <1>7 DEF InputOf
    <2>2. p \in Vrf!Proofs /\ g \in Vrf!Gammas
      BY <1>3
    <2> HIDE DEF p, g
    <2> QED BY <1>1, <1>7, <2>1, <2>2 DEF Inputs, p
  <1> QED BY <1>4, <1>5, <1>6, <1>7 DEF Commands, CommitKinds

\* Only what a call does reaches the chain.
LEMMA ProgressIsProgram ==
    ASSUME ClientInv, NEW c \in Calls, Progress(c)
    PROVE  [Next]_vars
  <1>1. CASE Land(c)
    <2>1. PICK input, leaf : input = call[c].input /\ leaf = call[c].leaf
      OBVIOUS
    <2>2. IndInv /\ Built(input, leaf)
      BY <1>1, <2>1 DEF Land, ClientInv, CallInv, Held
    <2>3. Accepts(input, leaf) /\ Execute(input, leaf)
      BY <1>1, <2>1 DEF Land
    <2> QED BY <2>2, <2>3, LandIsProgram
  <1>2. CASE BuildAndSubmit(c) \/ Reject(c) \/ Expire(c)
    BY <1>2 DEF BuildAndSubmit, Reject, Expire, Step
  <1> QED BY <1>1, <1>2 DEF Progress

LEMMA BuildIsCall ==
    ASSUME DemoInv, NEW c \in Calls, Build(c)
    PROVE  /\ \E input \in Inputs :
                /\ input = InputOf(mem[c])
                /\ StartInit(c, input) \/ StartWithAuthority(c, input)
           /\ UNCHANGED vars
  <1>1. PICK m : m = mem[c]
    OBVIOUS
  <1>2. HeldBy(c, m)
    BY <1>1 DEF DemoInv, MemInv, Build
  <1>3. InputOf(m) \in Inputs
    BY <1>2, CommandInputs DEF HeldBy
  <1>4. StartInit(c, InputOf(m)) \/ StartWithAuthority(c, InputOf(m))
    BY <1>1 DEF Build
  <1>5. UNCHANGED vars
    BY <1>4 DEF StartInit, StartWithAuthority, Step
  <1> QED BY <1>1, <1>3, <1>4, <1>5

\* A command only makes SDK calls, and these are steps of the program.
LEMMA DemoSteps ==
    ASSUME DemoInv, [DemoNext]_demoVars
    PROVE  [ClientNext]_clientVars /\ [Next]_vars
  <1>1. CASE UNCHANGED clientVars
    BY <1>1 DEF clientVars
  <1>2. CASE \E c \in Calls : Build(c)
    BY <1>2, BuildIsCall DEF ClientNext
  <1>3. CASE \E c \in Calls : Chain(c)
    BY <1>3, ProgressIsProgram DEF Chain, ClientNext, DemoInv
  <1> QED BY <1>1, <1>2, <1>3 DEF DemoNext, demoVars, Delete, Load, Save, Lose,
                                 TearSave

-----------------------------------------------------------------------------
(* Steps of a process.                                                     *)

LEMMA HeldKept ==
    ASSUME IndInv, [Next]_vars, NEW c, NEW m, HeldBy(c, m),
           call'[c].pc \in {"fetched", "submitted", "landed"} =>
               call'[c].input = InputOf(m)
    PROVE  HeldBy(c, m)'
  <1>1. PICK st : st = m.st
    OBVIOUS
  <1>2. StateSound(st)'
    BY <1>1, StateKept DEF HeldBy
  <1>3. StateSound(m.st)'
    BY <1>1, <1>2
  <1>4. /\ m = [pc |-> m.pc, kind |-> m.kind, memo |-> m.memo, pk |-> m.pk,
                st |-> m.st]
        /\ m.kind \in Commands /\ m.memo \in Memos /\ m.pk \in Pks
        /\ m.kind # "init" => m.pk = m.st.vrfPk /\ m.pk # NoKey
    BY DEF HeldBy
  <1>5. InputOf(m)' = InputOf(m)
    BY DEF InputOf
  <1> QED BY <1>3, <1>4, <1>5 DEF HeldBy

\* The process of c goes on; the chain and the calls do not.
LEMMA ProcessMoves ==
    ASSUME DemoInv, NEW c \in Calls, NEW next, UNCHANGED clientVars,
           mem' = [mem EXCEPT ![c] = next], next.pc # "idle",
           next.pc = "loaded" => HeldBy(c, next),
           \A st \in file' : StateSound(st)
    PROVE  DemoInv'
  <1>1. IndInv /\ [Next]_vars /\ [ClientNext]_clientVars /\ UNCHANGED call
    BY DEF DemoInv, ClientInv, clientVars
  <1>2. ClientInv'
    BY <1>1, ClientNextPreserves DEF DemoInv
  <1>3. ASSUME NEW st \in file' PROVE StateSound(st)'
    BY <1>1, <1>3, StateKept
  <1>4. ASSUME NEW x \in Calls
        PROVE  /\ mem'[x].pc = "idle" => call'[x].pc = "idle"
               /\ mem'[x].pc = "loaded" => HeldBy(x, mem[x])'
    <2>1. PICK m : m = mem'[x]
      OBVIOUS
    <2>2. m = IF x = c THEN next ELSE mem[x]
      BY <2>1 DEF DemoInv, MemInv
    <2>3. m.pc = "idle" => call[x].pc = "idle"
      BY <2>2 DEF DemoInv, MemInv
    <2>4. m.pc = "loaded" => HeldBy(x, m)
      BY <2>2 DEF DemoInv, MemInv
    <2>5. m.pc = "loaded" => HeldBy(x, m)'
      <3>1. (/\ HeldBy(x, m)
             /\ call[x].pc \in {"fetched", "submitted", "landed"})
                => call[x].input = InputOf(m)
        BY DEF HeldBy
      <3> QED BY <1>1, <2>4, <3>1, HeldKept
    <2>6. HeldBy(x, m)' => HeldBy(x, mem[x])'
      BY <2>1, Zenon DEF HeldBy
    <2> QED BY <1>1, <2>1, <2>3, <2>5, <2>6
  <1>5. DOMAIN mem' = Calls
    BY DEF DemoInv, MemInv
  <1> QED BY <1>2, <1>3, <1>4, <1>5 DEF DemoInv, MemInv

\* The call of c goes on; the processes do not.
LEMMA CallGoesOn ==
    ASSUME DemoInv, NEW c \in Calls, [Next]_vars, ClientInv',
           UNCHANGED <<file, mem>>,
           \A x \in Calls : x # c => call'[x] = call[x],
           mem[c].pc = "idle" => call'[c].pc = "idle",
           (/\ mem[c].pc = "loaded" /\ HeldBy(c, mem[c])
            /\ call'[c].pc \in {"fetched", "submitted", "landed"})
               => call'[c].input = InputOf(mem[c])
    PROVE  DemoInv'
  <1>1. IndInv
    BY DEF DemoInv, ClientInv
  <1>2. ASSUME NEW st \in file' PROVE StateSound(st)'
    BY <1>1, <1>2, StateKept DEF DemoInv
  <1>3. ASSUME NEW x \in Calls
        PROVE  /\ mem'[x].pc = "idle" => call'[x].pc = "idle"
               /\ mem'[x].pc = "loaded" => HeldBy(x, mem[x])'
    <2>1. PICK m : m = mem[x]
      OBVIOUS
    <2>2. m.pc = "idle" => call[x].pc = "idle"
      BY <2>1 DEF DemoInv, MemInv
    <2>3. m.pc = "loaded" => HeldBy(x, m)
      BY <2>1 DEF DemoInv, MemInv
    <2>4. m.pc = "loaded" =>
            (call'[x].pc \in {"fetched", "submitted", "landed"} =>
                call'[x].input = InputOf(m))
      <3>1. CASE x = c
        BY <2>1, <2>3, <3>1
      <3>2. CASE x # c
        BY <2>1, <2>3, <3>2 DEF HeldBy
      <3> QED BY <3>1, <3>2
    <2>5. m.pc = "loaded" => HeldBy(x, m)'
      BY <1>1, <2>3, <2>4, HeldKept
    <2>6. mem'[x] = m
      BY <2>1
    <2>7. HeldBy(x, m)' => HeldBy(x, mem[x])'
      BY <2>6, Zenon DEF HeldBy
    <2>8. m.pc = "idle" => call'[x].pc = "idle"
      BY <2>1, <2>2
    <2> QED BY <2>5, <2>6, <2>7, <2>8
  <1> QED BY <1>2, <1>3 DEF DemoInv, MemInv

LEMMA LoadPreserves ==
    ASSUME DemoInv, NEW c \in Calls, NEW kind \in Commands, NEW memo \in Memos,
           Load(c, kind, memo)
    PROVE  DemoInv'
  <1>1. UNCHANGED clientVars /\ UNCHANGED file /\ call[c].pc = "idle"
    BY DEF Load, DemoInv, MemInv
  <1>2. \A st \in file' : StateSound(st)
    BY <1>1 DEF DemoInv
  <1>3. CASE mem' = [mem EXCEPT ![c] = [pc |-> "threw"]]
    <2> DEFINE next == [pc |-> "threw"]
    <2>1. next.pc = "threw" /\ mem' = [mem EXCEPT ![c] = next]
      BY <1>3
    <2> HIDE DEF next
    <2> QED BY <1>1, <1>2, <2>1, ProcessMoves
  <1>4. CASE CanRun(kind, loadState)
    <2>1. StateSound(loadState)
      <3>1. CASE file = {}
        <4>1. loadState = [vrfPk |-> NoKey, rolls |-> <<>>]
          BY <3>1 DEF loadState
        <4>2. loadState \in DemoState
          BY <4>1 DEF DemoState
        <4>3. DOMAIN loadState.rolls = {} /\ loadState.vrfPk = NoKey
          BY <4>1
        <4> QED BY <4>2, <4>3 DEF StateSound
      <3>2. CASE file # {}
        BY <3>2 DEF loadState, DemoInv
      <3> QED BY <3>1, <3>2
    <2>2. PICK st : st = loadState
      OBVIOUS
    <2>3. PICK pk \in Pks :
            /\ kind # "init" => pk = st.vrfPk
            /\ mem' = [mem EXCEPT ![c] =
                  [pc |-> "loaded", kind |-> kind, memo |-> memo, pk |-> pk,
                   st |-> st]]
      BY <1>4, <2>2 DEF Load
    <2> DEFINE next == [pc |-> "loaded", kind |-> kind, memo |-> memo,
                        pk |-> pk, st |-> st]
    <2>4. kind # "init" => pk # NoKey
      BY <1>4, <2>2, <2>3 DEF CanRun
    <2>5. HeldBy(c, next)
      BY <1>1, <2>1, <2>2, <2>3, <2>4 DEF HeldBy
    <2>6. next.pc = "loaded" /\ mem' = [mem EXCEPT ![c] = next]
      BY <2>3
    <2> HIDE DEF next
    <2> QED BY <1>1, <1>2, <2>5, <2>6, ProcessMoves
  <1> QED BY <1>3, <1>4 DEF Load

LEMMA BuildPreserves ==
    ASSUME DemoInv, NEW c \in Calls, Build(c)
    PROVE  DemoInv'
  <1>1. PICK input \in Inputs :
            /\ input = InputOf(mem[c])
            /\ StartInit(c, input) \/ StartWithAuthority(c, input)
    BY BuildIsCall
  <1>2. ClientInv' /\ UNCHANGED <<file, mem>> /\ [Next]_vars
    BY ClientNextPreserves, DemoSteps DEF DemoInv, DemoNext, Build
  <1>3. \E next : /\ call' = [call EXCEPT ![c] = next]
                  /\ next.pc = "threw" \/ next.input = input
    <2>1. ASSUME NEW leaf, Step(c, [pc |-> "fetched", input |-> input,
                                    leaf |-> leaf])
          PROVE  \E next : /\ call' = [call EXCEPT ![c] = next]
                           /\ next.input = input
      <3> DEFINE next == [pc |-> "fetched", input |-> input, leaf |-> leaf]
      <3>1. call' = [call EXCEPT ![c] = next] /\ next.input = input
        BY <2>1 DEF Step
      <3> QED BY <3>1
    <2>2. ASSUME Step(c, [pc |-> "threw"])
          PROVE  \E next : /\ call' = [call EXCEPT ![c] = next]
                           /\ next.pc = "threw"
      <3> DEFINE next == [pc |-> "threw"]
      <3>1. call' = [call EXCEPT ![c] = next] /\ next.pc = "threw"
        BY <2>2 DEF Step
      <3> QED BY <3>1
    <2>3. \/ Step(c, [pc |-> "threw"])
          \/ \E leaf : Step(c, [pc |-> "fetched", input |-> input,
                                leaf |-> leaf])
      BY <1>1, Zenon DEF StartInit, StartWithAuthority
    <2> QED BY <2>1, <2>2, <2>3
  <1>4. /\ \A x \in Calls : x # c => call'[x] = call[x]
        /\ call'[c].pc = "threw" \/ call'[c].input = input
    BY <1>3 DEF DemoInv, ClientInv, CallInv
  <1>5. mem[c].pc = "loaded"
    BY DEF Build
  <1> QED BY <1>1, <1>2, <1>4, <1>5, CallGoesOn

LEMMA ChainPreserves ==
    ASSUME DemoInv, NEW c \in Calls, Chain(c)
    PROVE  DemoInv'
  <1>1. ClientInv' /\ UNCHANGED <<file, mem>> /\ [Next]_vars
    BY ClientNextPreserves, DemoSteps DEF DemoInv, DemoNext, Chain
  <1>2. PICK s : s = call[c]
    OBVIOUS
  <1>3. /\ s.pc \in {"fetched", "submitted"}
        /\ s = [pc |-> s.pc, input |-> s.input, leaf |-> s.leaf]
    BY <1>2 DEF Chain, Progress, BuildAndSubmit, Land, Reject, Expire, DemoInv,
                ClientInv, CallInv, Held
  <1>4. \E next : /\ call' = [call EXCEPT ![c] = next]
                  /\ \/ next.pc \in {"threw", "rejected", "expired"}
                     \/ next = [s EXCEPT !.pc = "submitted"]
                     \/ next = [s EXCEPT !.pc = "landed"]
    BY <1>2, Zenon
       DEF Chain, Progress, BuildAndSubmit, Land, Reject, Expire, Step
  <1>5. /\ \A x \in Calls : x # c => call'[x] = call[x]
        /\ call'[c].pc \in {"threw", "rejected", "expired"}
             \/ call'[c].input = s.input
    BY <1>3, <1>4 DEF DemoInv, ClientInv, CallInv
  <1>6. mem[c].pc # "idle"
    BY <1>2, <1>3 DEF DemoInv, MemInv
  <1>7. HeldBy(c, mem[c]) => s.input = InputOf(mem[c])
    BY <1>2, <1>3 DEF HeldBy
  <1> QED BY <1>1, <1>5, <1>6, <1>7, CallGoesOn

\* A confirmed command writes what is true of the chain.
LEMMA RecordedSound ==
    ASSUME DemoInv, NEW c \in Calls, NEW m, m = mem[c], HeldBy(c, m),
           call[c].pc = "landed", m.kind \notin {"freeze", "revoke"}
    PROVE  StateSound(Recorded(m))
  <1>1. Effect(InputOf(m))
    BY DEF HeldBy, DemoInv, ClientInv, CallInv
  <1>2. /\ m.kind \in Commands /\ m.memo \in Memos /\ m.pk \in Pks
        /\ StateSound(m.st) /\ m.st \in DemoState
        /\ m.kind # "init" => m.pk = m.st.vrfPk /\ m.pk # NoKey
    BY DEF HeldBy, StateSound
  <1>3. CASE m.kind = "init"
    <2>1. PICK pk, rolls : pk = m.pk /\ rolls = m.st.rolls
      OBVIOUS
    <2>2. AuthorityPk(pk)
      BY <1>1, <1>2, <1>3, <2>1, CommandInputs
         DEF Effect, AuthorityPk, Authority, AddressOf
    <2>3. Recorded(m) = [vrfPk |-> pk, rolls |-> rolls]
      BY <1>2, <1>3, <2>1 DEF Recorded, DemoState
    <2>4. rolls \in Seq(Roll) /\ \A k \in DOMAIN rolls : RollSound(rolls[k])
      BY <1>2, <2>1 DEF StateSound, DemoState
    <2>5. pk \in Pks
      BY <1>2, <2>1
    <2> QED BY <2>2, <2>3, <2>4, <2>5 DEF StateSound, DemoState
  <1>4. CASE m.kind # "init"
    <2>1. PICK pk, rolls, memo, kind :
            pk = m.pk /\ rolls = m.st.rolls /\ memo = m.memo /\ kind = m.kind
      OBVIOUS
    <2>2. PICK roll : roll = [memo |-> memo, proof |-> Vrf!proveVRF(pk, memo),
                              mode |-> kind]
      OBVIOUS
    <2>3. kind \in CommitKinds
      BY <1>2, <1>4, <2>1 DEF Commands
    <2>4. AuthorityPk(pk) /\ pk \in Pks
      BY <1>2, <1>4, <2>1 DEF StateSound
    <2>5. Vrf!proveVRF(pk, memo) \in Vrf!Proofs
      BY <1>2, <2>1, <2>4, DemoAssumption, HashesAssumption
         DEF Vrf!proveVRF, Vrf!Proofs, Vrf!Gammas
    <2>6. /\ roll.memo = memo /\ roll.mode = kind
          /\ roll.proof = Vrf!proveVRF(pk, memo) /\ roll \in Roll
      BY <1>2, <2>1, <2>2, <2>3, <2>5 DEF Roll
    <2>7. CallOf(roll, pk) = InputOf(m)
      BY <2>1, <2>6 DEF CallOf, InputOf
    <2>8. Effect(CallOf(roll, pk))
      BY <1>1, <2>7
    <2>9. RollSound(roll)
      BY <2>4, <2>6, <2>8 DEF RollSound
    <2>10. rolls \in Seq(Roll) /\ \A k \in DOMAIN rolls : RollSound(rolls[k])
      BY <1>2, <2>1 DEF StateSound, DemoState
    <2>11. Recorded(m) = [vrfPk |-> pk, rolls |-> Append(rolls, roll)]
      BY <1>2, <1>4, <2>1, <2>2 DEF Recorded, DemoState
    <2>12. /\ Append(rolls, roll) \in Seq(Roll)
           /\ \A k \in DOMAIN Append(rolls, roll) :
                RollSound(Append(rolls, roll)[k])
      BY <2>6, <2>9, <2>10, AppendFacts
    <2> QED BY <2>4, <2>11, <2>12 DEF StateSound, DemoState
  <1> QED BY <1>3, <1>4

LEMMA ProcessEnds ==
    ASSUME DemoInv, NEW c \in Calls, UNCHANGED clientVars, mem[c].pc = "loaded",
           NEW end \in {"saved", "lost"}, mem' = [mem EXCEPT ![c].pc = end],
           \A st \in file' : StateSound(st)
    PROVE  DemoInv'
  <1>1. PICK m : m = mem[c]
    OBVIOUS
  <1>2. HeldBy(c, m)
    BY <1>1 DEF DemoInv, MemInv
  <1> DEFINE next == [m EXCEPT !.pc = end]
  <1>3. mem' = [mem EXCEPT ![c] = next]
    BY <1>1
  <1>4. next.pc = end
    BY <1>2 DEF HeldBy
  <1> HIDE DEF next
  <1> QED BY <1>3, <1>4, ProcessMoves

LEMMA SavePreserves ==
    ASSUME DemoInv, NEW c \in Calls, Save(c)
    PROVE  DemoInv'
  <1>1. PICK m : m = mem[c]
    OBVIOUS
  <1>2. HeldBy(c, m)
    BY <1>1 DEF Save, DemoInv, MemInv
  <1>3. \A st \in file' : StateSound(st)
    <2>1. CASE m.kind \in {"freeze", "revoke"}
      BY <1>1, <2>1 DEF Save, DemoInv
    <2>2. CASE m.kind \notin {"freeze", "revoke"}
      <3>1. StateSound(Recorded(m))
        BY <1>1, <1>2, <2>2, RecordedSound DEF Save
      <3>2. file' = {Recorded(m)}
        BY <1>1, <2>2 DEF Save, saveState
      <3> QED BY <3>1, <3>2
    <2> QED BY <2>1, <2>2
  <1> QED BY <1>3, ProcessEnds DEF Save

\* Nothing happens but, perhaps, the loss of the file.
LEMMA FileMayGo ==
    ASSUME DemoInv, file' \subseteq file, UNCHANGED <<clientVars, mem>>
    PROVE  DemoInv'
  <1>1. UNCHANGED clientVars /\ UNCHANGED mem
    OBVIOUS
  <1>2. ClientInv'
    BY <1>1, ClientNextPreserves DEF DemoInv
  <1>3. IndInv /\ [Next]_vars /\ UNCHANGED call
    BY <1>1 DEF DemoInv, ClientInv, clientVars
  <1>4. ASSUME NEW x \in Calls, mem[x].pc = "loaded" PROVE HeldBy(x, mem[x])'
    <2>1. PICK m : m = mem[x]
      OBVIOUS
    <2>2. HeldBy(x, m)
      BY <1>4, <2>1 DEF DemoInv, MemInv
    <2>3. HeldBy(x, m)'
      BY <1>3, <2>2, HeldKept DEF HeldBy
    <2>4. mem'[x] = m
      BY <1>1, <2>1
    <2> QED BY <2>3, <2>4, Zenon DEF HeldBy
  <1>5. ASSUME NEW st \in file' PROVE StateSound(st)'
    BY <1>3, StateKept DEF DemoInv
  <1> QED BY <1>1, <1>2, <1>3, <1>4, <1>5 DEF DemoInv, MemInv

LEMMA DemoNextPreserves ==
    DemoInv /\ [DemoNext]_demoVars => DemoInv'
  <1> SUFFICES ASSUME DemoInv, [DemoNext]_demoVars
               PROVE  DemoInv'
    OBVIOUS
  <1>1. CASE Delete
    BY <1>1, FileMayGo DEF Delete
  <1>2. CASE \E c \in Calls :
                \E kind \in {"init", "freeze", "revoke"} \cup CommitKinds,
                   memo \in Memos : Load(c, kind, memo)
    BY <1>2, LoadPreserves DEF Commands
  <1>3. CASE \E c \in Calls : Build(c)
    BY <1>3, BuildPreserves
  <1>4. CASE \E c \in Calls : Chain(c)
    BY <1>4, ChainPreserves
  <1>5. CASE \E c \in Calls : Save(c)
    BY <1>5, SavePreserves
  <1>6. CASE \E c \in Calls : Lose(c)
    <2>1. PICK c \in Calls : Lose(c)
      BY <1>6
    <2> QED BY <2>1, ProcessEnds DEF Lose, DemoInv
  <1>7. CASE \E c \in Calls : TearSave(c)
    <2>1. PICK c \in Calls : TearSave(c)
      BY <1>7
    <2> QED BY <2>1, ProcessEnds DEF TearSave
  <1>8. CASE UNCHANGED demoVars
    BY <1>8, FileMayGo DEF demoVars
  <1> QED BY <1>1, <1>2, <1>3, <1>4, <1>5, <1>6, <1>7, <1>8 DEF DemoNext

\* What the file and the processes hold is true of the chain, whichever
\* processes run at a time, die or lose their confirmation (commands.ts).
THEOREM DemoInvariant == DemoSpec => []DemoInv
  <1>1. DemoInit => DemoInv
    <2> SUFFICES ASSUME DemoInit PROVE DemoInv
      OBVIOUS
    <2>1. ClientInv /\ DOMAIN call = Calls /\ \A c \in Calls : call[c].pc = "idle"
      BY ClientInitEstablishes DEF DemoInit, ClientInit
    <2>2. \A c \in Calls : mem[c].pc = "idle"
      BY DEF DemoInit
    <2> QED BY <2>1, <2>2 DEF DemoInit, DemoInv, MemInv
  <1> QED BY <1>1, DemoNextPreserves, PTL DEF DemoSpec

\* A key in the file is the key on chain, also when several init commands raced
\* or one was repeated (commands.ts:44-81).
THEOREM SavedKeyOnChain == DemoSpec => []SavedKeyIsAuthorityKey
  <1>1. DemoInv => SavedKeyIsAuthorityKey
    BY DEF DemoInv, SavedKeyIsAuthorityKey, StateSound, AuthorityPk
  <1> QED BY <1>1, DemoInvariant, PTL

-----------------------------------------------------------------------------
(* Verification of a recorded roll.                                        *)

\* A nonempty set of naturals has a least element.
LEMMA LeastNatural ==
    ASSUME NEW T, T \subseteq Nat, T # {}
    PROVE  \E x \in T : \A y \in T : x <= y
  <1> DEFINE R == {ss \in Nat \X Nat : ss[1] < ss[2]}
  <1>1. IsWellFoundedOn(R, Nat)
    BY NatLessThanWellFounded, Zenon DEF OpToRel
  <1>2. \A x, y \in Nat : <<x, y>> \in R <=> x < y
    OBVIOUS
  <1> HIDE DEF R
  <1>3. PICK x \in T : \A y \in T : ~ (<<y, x>> \in R)
    BY <1>1, WFMin, Zenon
  <1>4. \A y \in T : ~(y < x)
    BY <1>2, <1>3
  <1> QED BY <1>4

\* The demo's authority and the key of its rolls, when it is not revoked.
AuthorityReady(d, pk) ==
    /\ Authority = {d}
    /\ d.pk = pk /\ d.suite = SUITE_EDWARDS25519_SHA512_TAI
    /\ d.frozen = TRUE /\ d.revoked = FALSE
    /\ d.owner = Operator /\ d.label = DEFAULT_LABEL

\* The commitment that a fetch finds for a roll is the one the roll made.
CommitMatches(roll, commit) ==
    /\ commit.proof_hash = Vrf!sha256(roll.proof)
    /\ commit.alpha_hash = Vrf!sha256(roll.memo)
    /\ commit.memo_hash = Vrf!sha256(roll.memo)
    /\ commit.authority = deriveAuthorityAddress(Operator, DEFAULT_LABEL)
    /\ commit.beta # NoBeta => commit.beta = Vrf!vrfProofToHash(roll.proof)

LEMMA MatchIsValid ==
    ASSUME NEW d, NEW roll, NEW commit, NEW mode, AuthorityReady(d, d.pk),
           Vrf!verifyVRF(d.pk, roll.memo, roll.proof),
           CommitMatches(roll, commit)
    PROVE  verifyAuthorityCommitEndToEnd(d, {RequestOf(mode, roll).label},
                               RequestOf(mode, roll), commit).valid
             = TRUE
  <1> DEFINE req == RequestOf(mode, roll)
  <1>1. /\ req.owner = Operator /\ req.label = DEFAULT_LABEL
        /\ req.memo = roll.memo /\ req.alpha = roll.memo
        /\ req.proof = roll.proof
    BY DEF RequestOf
  <1>2. Vrf!verifyVRF(d.pk, req.alpha, req.proof)
    BY <1>1
  <1> HIDE DEF req
  <1>3. verifyEndToEnd(d.pk, d.suite, req, commit)
    BY <1>1, <1>2 DEF verifyEndToEnd, AuthorityReady, CommitMatches
  <1>4. verifyAuthorityCommitEndToEnd(d, {req.label}, req, commit).valid = TRUE
    BY <1>1, <1>2, <1>3
       DEF verifyAuthorityCommitEndToEnd, AuthorityReady, CommitMatches
  <1> QED BY <1>4 DEF req

\* A roll whose commitment is fetched is valid.
LEMMA VerdictTrue ==
    ASSUME NEW d, NEW roll, NEW mode, AuthorityReady(d, d.pk),
           Vrf!verifyVRF(d.pk, roll.memo, roll.proof),
           FetchedCommit(RequestOf(mode, roll), CompleteScan) # {},
           \A commit \in FetchedCommit(RequestOf(mode, roll), CompleteScan) :
               CommitMatches(roll, commit)
    PROVE  VerdictOn(RequestOf(mode, roll)) = {TRUE}
  <1> DEFINE req == RequestOf(mode, roll)
             found == FetchedCommit(req, CompleteScan)
             valid(e, commit) == verifyAuthorityCommitEndToEnd(e, {req.label}, req, commit).valid
  <1>1. fetchAuthority(req.owner, req.label) = {d}
    BY DEF RequestOf, fetchAuthority, AuthorityReady, Authority,
           deriveAuthorityAddress
  <1>2. VerdictOn(req) = {valid(e, commit) : e \in {d}, commit \in found}
    BY <1>1 DEF VerdictOn
  <1>3. \A commit \in found : valid(d, commit) = TRUE
    BY MatchIsValid
  <1> HIDE DEF found, valid
  <1>4. found # {}
    BY DEF found
  <1>5. ASSUME NEW x \in VerdictOn(req) PROVE x = TRUE
    BY <1>2, <1>3
  <1>6. TRUE \in VerdictOn(req)
    <2>1. PICK commit \in found : TRUE
      BY <1>4
    <2>2. valid(d, commit) \in VerdictOn(req)
      BY <1>2
    <2> QED BY <1>3, <2>2
  <1> QED BY <1>5, <1>6

\* What the chain shows of the demo's authority.
LEMMA AuthorityFacts ==
    ASSUME IndInv, NEW d \in Authority
    PROVE  /\ Authority = {d} /\ d \in VrfAuthority
           /\ d.suite = SUITE_EDWARDS25519_SHA512_TAI
           /\ d.owner = Operator /\ d.label = DEFAULT_LABEL
  <1>1. PICK a : a = AuthorityAddress(ADDRESS_TREE_V2, Operator, DEFAULT_LABEL)
    OBVIOUS
  <1>2. Authority = Current(a)
    BY <1>1 DEF Authority
  <1>3. PICK i \in Live \cap AuthorityLeaves :
            leaves[i].address = a /\ d = leaves[i].data
    BY <1>2 DEF Current
  <1>4. leaves[i] \in Accounts /\ leaves[i].disc = "VrfAuthority"
    BY <1>3 DEF Live, AuthorityLeaves, IndInv, TypeOK
  <1>5. d \in VrfAuthority
    BY <1>3, <1>4, AccountShape
  <1>6. /\ AuthorityAddress(ADDRESS_TREE_V2, d.owner, d.label) = a
        /\ d.suite = SUITE_EDWARDS25519_SHA512_TAI
    BY <1>3 DEF IndInv, AuthorityAtItsSeeds, AuthorityRecordsSound
  <1>7. d.owner = Operator /\ d.label = DEFAULT_LABEL
    BY <1>1, <1>6, AddressesDiffer
  <1>8. Authority = {d}
    BY <1>2, OneCurrent
  <1> QED BY <1>5, <1>6, <1>7, <1>8

\* All keys that were ever recorded are one.
LEMMA OneKey ==
    ASSUME IndInv, NEW d \in Authority, NEW pk, AuthorityPk(pk)
    PROVE  pk = d.pk
  BY AuthorityFacts DEF AuthorityPk

\* A roll, in the terms of the chain.
LEMMA RollFacts ==
    ASSUME IndInv, NEW roll \in Roll, RollSound(roll), NEW d \in Authority
    PROVE  /\ roll.proof = Vrf!proveVRF(d.pk, roll.memo)
           /\ \E input \in Inputs :
                /\ Effect(input)
                /\ input.kind = roll.mode
                /\ input.owner = Operator /\ input.label = DEFAULT_LABEL
                /\ input.memo = roll.memo /\ input.alpha = roll.memo
                /\ input.proof = roll.proof
  <1>1. PICK pk \in Pks :
            /\ AuthorityPk(pk)
            /\ roll.proof = Vrf!proveVRF(pk, roll.memo)
            /\ Effect(CallOf(roll, pk))
    BY DEF RollSound
  <1>2. pk = d.pk
    BY <1>1, OneKey
  <1>3. PICK m : m = [kind |-> roll.mode, memo |-> roll.memo, pk |-> pk]
    OBVIOUS
  <1>4. /\ m.kind = roll.mode /\ m.memo = roll.memo /\ m.pk = pk
        /\ m.kind \in CommitKinds /\ m.memo \in Memos /\ m.kind \in Commands
    BY <1>3 DEF Roll, Commands
  <1>5. PICK input : input = InputOf(m)
    OBVIOUS
  <1>6. Effect(input)
    BY <1>1, <1>3, <1>5 DEF CallOf
  <1>7. /\ input \in Inputs /\ input.kind = m.kind
        /\ input.owner = Operator /\ input.label = DEFAULT_LABEL
        /\ input.memo = m.memo /\ input.alpha = m.memo
        /\ input.proof = Vrf!proveVRF(m.pk, m.memo)
    BY <1>4, <1>5, CommandInputs
  <1> QED BY <1>1, <1>2, <1>4, <1>6, <1>7

\* A roll of the registry is fetched as it was committed.
LEMMA RegistryRoll ==
    ASSUME DemoInv, NEW roll \in Roll, RollSound(roll), NEW d \in Authority,
           ~d.revoked, roll.mode \in {"commit", "commit-beta"}
    PROVE  /\ AuthorityReady(d, d.pk)
           /\ Vrf!verifyVRF(d.pk, roll.memo, roll.proof)
           /\ \E i \in Live :
                /\ CompressedAccounts(deriveProofCommitAddress(
                       deriveAuthorityAddress(Operator, DEFAULT_LABEL),
                       Vrf!sha256(roll.memo))) = {leaves[i]}
                /\ leaves[i].disc = IF roll.mode = "commit"
                                    THEN "VrfProofCommit"
                                    ELSE "VrfProofCommitWithBeta"
                /\ leaves[i].data.proof_hash = Vrf!sha256(roll.proof)
                /\ leaves[i].data.alpha_hash = Vrf!sha256(roll.memo)
                /\ leaves[i].data.memo_hash = Vrf!sha256(roll.memo)
                /\ leaves[i].data.authority =
                     deriveAuthorityAddress(Operator, DEFAULT_LABEL)
                /\ roll.mode = "commit-beta" =>
                     <<leaves[i].data.beta_lo, leaves[i].data.beta_hi>> =
                         Vrf!vrfProofToHash(roll.proof)
  <1> DEFINE a == deriveAuthorityAddress(Operator, DEFAULT_LABEL)
             m == Vrf!sha256(roll.memo)
             address == deriveProofCommitAddress(a, m)
  <1>1. IndInv /\ SdkCommitsVerify
    BY DEF DemoInv, ClientInv
  <1>2. PICK input \in Inputs :
            /\ Effect(input)
            /\ input.kind = roll.mode
            /\ input.owner = Operator /\ input.label = DEFAULT_LABEL
            /\ input.memo = roll.memo /\ input.alpha = roll.memo
            /\ input.proof = roll.proof
    BY <1>1, RollFacts
  <1>3. CommitAddressOf(input) = address /\ AddressOf(input) = a
    BY <1>2 DEF CommitAddressOf, AddressOf, deriveProofCommitAddress,
                deriveAuthorityAddress
  <1> HIDE DEF a, m, address
  <1>4. PICK i \in Live \cap CommitLeaves :
            /\ leaves[i].address = address
            /\ leaves[i].disc = IF roll.mode = "commit"
                                THEN "VrfProofCommit"
                                ELSE "VrfProofCommitWithBeta"
            /\ leaves[i].data.proof_hash = Vrf!sha256(roll.proof)
            /\ leaves[i].data.alpha_hash = Vrf!sha256(roll.memo)
    BY <1>2, <1>3 DEF Effect, DiscOf
  <1>5. leaves[i].data.authority = a /\ leaves[i].data.memo_hash = m
    <2>1. CommitAddress(ADDRESS_TREE_V2, leaves[i].data.authority,
                        leaves[i].data.memo_hash)
            = CommitAddress(ADDRESS_TREE_V2, a, m)
      BY <1>1, <1>4 DEF IndInv, CommitAtItsSeeds, address,
                        deriveProofCommitAddress
    <2> QED BY <2>1, AddressesDiffer
  <1>6. Authority = Current(a) /\ Authority = {d}
    BY <1>1, AuthorityFacts DEF a, Authority, deriveAuthorityAddress
  <1>7. LeafVerifies(d.pk, leaves[i])
    BY <1>1, <1>4, <1>5, <1>6, SdkCommits
  <1>8. /\ Vrf!verifyVRF(d.pk, roll.memo, roll.proof)
        /\ leaves[i].disc = "VrfProofCommitWithBeta" =>
             <<leaves[i].data.beta_lo, leaves[i].data.beta_hi>> =
                 Vrf!vrfProofToHash(roll.proof)
    <2>1. PICK alpha \in Alphas, proof \in Vrf!Proofs :
            /\ leaves[i].data.alpha_hash = Vrf!sha256(alpha)
            /\ leaves[i].data.proof_hash = Vrf!sha256(proof)
            /\ Vrf!verifyVRF(d.pk, alpha, proof)
            /\ leaves[i].disc = "VrfProofCommitWithBeta" =>
                  <<leaves[i].data.beta_lo, leaves[i].data.beta_hi>> =
                      Vrf!vrfProofToHash(proof)
      BY <1>7 DEF LeafVerifies
    <2>2. alpha = roll.memo /\ proof = roll.proof
      BY <1>4, <2>1 DEF Vrf!sha256
    <2> QED BY <2>1, <2>2
  <1>9. d.frozen
    BY <1>1, <1>4, <1>5, <1>6
       DEF IndInv, CommitsRestOnFrozenAuthority, FrozenBy
  <1>10. AuthorityReady(d, d.pk)
    BY <1>1, <1>6, <1>9, AuthorityFacts DEF AuthorityReady, VrfAuthority
  <1>11. CompressedAccounts(address) = {leaves[i]}
    BY <1>1, <1>4 DEF CompressedAccounts, IndInv, OneLiveLeaf
  <1> QED BY <1>4, <1>5, <1>8, <1>10, <1>11 DEF a, m, address

LEMMA RegistryVerdict ==
    ASSUME DemoInv, NEW roll \in Roll, RollSound(roll), NEW d \in Authority,
           ~d.revoked
    PROVE  /\ roll.mode = "commit" =>
                VerdictOn(RequestOf("registry", roll)) = {TRUE}
           /\ roll.mode = "commit-beta" =>
                VerdictOn(RequestOf("registry-beta", roll)) = {TRUE}
  <1> DEFINE a == deriveAuthorityAddress(Operator, DEFAULT_LABEL)
             m == Vrf!sha256(roll.memo)
             address == deriveProofCommitAddress(a, m)
  <1>1. ASSUME NEW mode
        PROVE  /\ RequestOf(mode, roll).mode = mode
               /\ RequestOf(mode, roll).owner = Operator
               /\ RequestOf(mode, roll).label = DEFAULT_LABEL
               /\ RequestOf(mode, roll).memo = roll.memo
    BY DEF RequestOf
  <1>2. CASE roll.mode = "commit"
    <2> DEFINE req == RequestOf("registry", roll)
    <2>1. PICK i \in Live :
            /\ CompressedAccounts(address) = {leaves[i]}
            /\ leaves[i].disc = "VrfProofCommit"
            /\ leaves[i].data.proof_hash = Vrf!sha256(roll.proof)
            /\ leaves[i].data.alpha_hash = m
            /\ leaves[i].data.memo_hash = m
            /\ leaves[i].data.authority = a
      BY <1>2, RegistryRoll
    <2>2. FetchedCommit(req, CompleteScan) = fetchProofCommit(a, roll.memo)
      BY <1>1 DEF FetchedCommit
    <2>3. fetchProofCommit(a, roll.memo) =
            {OnChainCommit(acc.data.authority, acc.data.memo_hash,
                 acc.data.proof_hash, acc.data.alpha_hash,
                 IF acc.disc = "VrfProofCommit" THEN acc.data.committed_slot
                                                ELSE SlotInBeta,
                 NoBeta) : acc \in CompressedAccounts(address)}
      BY DEF fetchProofCommit
    <2>4. PICK commit :
            /\ fetchProofCommit(a, roll.memo) = {commit}
            /\ \E s : commit = OnChainCommit(leaves[i].data.authority,
                                  leaves[i].data.memo_hash,
                                  leaves[i].data.proof_hash,
                                  leaves[i].data.alpha_hash, s, NoBeta)
      BY <2>1, <2>3
    <2>5. CommitMatches(roll, commit)
      BY <2>1, <2>4 DEF CommitMatches, OnChainCommit
    <2>6. /\ AuthorityReady(d, d.pk)
          /\ Vrf!verifyVRF(d.pk, roll.memo, roll.proof)
      BY <1>2, RegistryRoll
    <2>7. FetchedCommit(req, CompleteScan) = {commit}
      BY <2>2, <2>4
    <2> QED BY <1>2, <2>5, <2>6, <2>7, VerdictTrue
  <1>3. CASE roll.mode = "commit-beta"
    <2> DEFINE req == RequestOf("registry-beta", roll)
    <2>1. PICK i \in Live :
            /\ CompressedAccounts(address) = {leaves[i]}
            /\ leaves[i].disc = "VrfProofCommitWithBeta"
            /\ leaves[i].data.proof_hash = Vrf!sha256(roll.proof)
            /\ leaves[i].data.alpha_hash = m
            /\ leaves[i].data.memo_hash = m
            /\ leaves[i].data.authority = a
            /\ <<leaves[i].data.beta_lo, leaves[i].data.beta_hi>> =
                   Vrf!vrfProofToHash(roll.proof)
      BY <1>3, RegistryRoll
    <2>2. FetchedCommit(req, CompleteScan) =
            fetchProofCommitWithBeta(a, roll.memo)
      BY <1>1 DEF FetchedCommit
    <2> DEFINE F(acc) == OnChainCommit(acc.data.authority, acc.data.memo_hash,
                             acc.data.proof_hash, acc.data.alpha_hash,
                             acc.data.committed_slot,
                             <<acc.data.beta_lo, acc.data.beta_hi>>)
               found == {b \in CompressedAccounts(address) :
                            b.disc = "VrfProofCommitWithBeta"}
    <2>3. fetchProofCommitWithBeta(a, roll.memo) = {F(acc) : acc \in found}
      BY DEF fetchProofCommitWithBeta
    <2>4. PICK commit : /\ fetchProofCommitWithBeta(a, roll.memo) = {commit}
                        /\ commit = F(leaves[i])
      <3>1. found = {leaves[i]}
        BY <2>1
      <3> HIDE DEF F, found
      <3> QED BY <2>3, <3>1
    <2>5. CommitMatches(roll, commit)
      BY <2>1, <2>4 DEF CommitMatches, OnChainCommit
    <2>6. /\ AuthorityReady(d, d.pk)
          /\ Vrf!verifyVRF(d.pk, roll.memo, roll.proof)
      BY <1>3, RegistryRoll
    <2>7. FetchedCommit(req, CompleteScan) = {commit}
      BY <2>2, <2>4
    <2> QED BY <1>3, <2>5, <2>6, <2>7, VerdictTrue
  <1> QED BY <1>2, <1>3

\* Every entry of the log that a roll's search matches verifies, and there is
\* one.
LEMMA EventRoll ==
    ASSUME DemoInv, NEW roll \in Roll, RollSound(roll), NEW d \in Authority,
           ~d.revoked, roll.mode = "event", NEW T,
           T = Matching(fetchProofCommitEvents(Operator, DEFAULT_LABEL,
                            roll.memo, CompleteScan), roll.proof)
    PROVE  /\ AuthorityReady(d, d.pk)
           /\ Vrf!verifyVRF(d.pk, roll.memo, roll.proof)
           /\ T # {} /\ T \subseteq Nat
           /\ \A i \in T : CommitMatches(roll, CommitOfEvent(i))
  <1>1. IndInv /\ SdkCommitsVerify /\ events \in Seq(VrfProofCommitted)
    BY DEF DemoInv, ClientInv, IndInv, TypeOK
  <1>2. PICK input \in Inputs :
            /\ Effect(input)
            /\ input.kind = roll.mode
            /\ input.owner = Operator /\ input.label = DEFAULT_LABEL
            /\ input.memo = roll.memo /\ input.alpha = roll.memo
            /\ input.proof = roll.proof
    BY <1>1, RollFacts
  <1>3. roll.proof = Vrf!proveVRF(d.pk, roll.memo)
    BY <1>1, RollFacts
  <1>4. T = {i \in DOMAIN events :
                /\ events[i].owner = Operator
                /\ events[i].label = DEFAULT_LABEL
                /\ events[i].memo_hash = Vrf!sha256(roll.memo)
                /\ events[i].proof_hash = Vrf!sha256(roll.proof)}
    BY DEF Matching, fetchProofCommitEvents, CompleteScan
  <1>5. T # {}
    <2>1. PICK i \in DOMAIN events : Logs(input, events[i])
      BY <1>2 DEF Effect
    <2> QED BY <1>2, <1>4, <2>1 DEF Logs
  <1>6. T \subseteq Nat
    BY <1>1, <1>4
  <1>7. Authority = Current(AuthorityAddress(ADDRESS_TREE_V2, Operator,
                                             DEFAULT_LABEL))
    BY DEF Authority
  <1>8. ASSUME NEW i \in T
        PROVE  /\ Vrf!verifyVRF(d.pk, roll.memo, roll.proof)
               /\ events[i].alpha_hash = Vrf!sha256(roll.memo)
               /\ d.frozen
    <2>1. /\ i \in DOMAIN events
          /\ events[i].owner = Operator /\ events[i].label = DEFAULT_LABEL
          /\ events[i].proof_hash = Vrf!sha256(roll.proof)
      BY <1>4
    <2>2. HashesVerify(d.pk, events[i])
      BY <1>1, <1>7, <2>1, SdkCommits
    <2>3. PICK alpha \in Alphas, proof \in Vrf!Proofs :
            /\ events[i].alpha_hash = Vrf!sha256(alpha)
            /\ events[i].proof_hash = Vrf!sha256(proof)
            /\ Vrf!verifyVRF(d.pk, alpha, proof)
      BY <2>2 DEF HashesVerify
    <2>4. proof = roll.proof
      BY <2>1, <2>3 DEF Vrf!sha256
    <2>5. proof.gamma = [pk |-> d.pk, alpha |-> alpha]
      BY <2>3 DEF Vrf!verifyVRF
    <2>6. roll.proof.gamma = [pk |-> d.pk, alpha |-> roll.memo]
      BY <1>3 DEF Vrf!proveVRF
    <2>7. alpha = roll.memo
      BY <2>4, <2>5, <2>6
    <2>8. \E e \in Authority : e.frozen
      BY <1>1, <1>7, <2>1 DEF IndInv, CommitsRestOnFrozenAuthority, FrozenBy
    <2>9. d.frozen
      BY <1>1, <2>8, AuthorityFacts
    <2> QED BY <2>3, <2>4, <2>7, <2>9
  <1>9. AuthorityReady(d, d.pk)
    <2>1. d.frozen
      BY <1>5, <1>8
    <2> QED BY <1>1, <2>1, AuthorityFacts DEF AuthorityReady, VrfAuthority
  <1>10. ASSUME NEW i \in T
         PROVE  CommitMatches(roll, CommitOfEvent(i))
    <2>1. /\ events[i].owner = Operator /\ events[i].label = DEFAULT_LABEL
          /\ events[i].memo_hash = Vrf!sha256(roll.memo)
          /\ events[i].proof_hash = Vrf!sha256(roll.proof)
      BY <1>4
    <2> QED BY <1>8, <2>1 DEF CommitMatches, CommitOfEvent, OnChainCommit
  <1> QED BY <1>5, <1>6, <1>8, <1>9, <1>10

LEMMA EventVerdict ==
    ASSUME DemoInv, NEW roll \in Roll, RollSound(roll), NEW d \in Authority,
           ~d.revoked, roll.mode = "event"
    PROVE  VerdictOn(RequestOf("event", roll)) = {TRUE}
  <1> DEFINE req == RequestOf("event", roll)
  <1>1. PICK T : T = Matching(fetchProofCommitEvents(Operator, DEFAULT_LABEL,
                                  roll.memo, CompleteScan), roll.proof)
    OBVIOUS
  <1>2. /\ AuthorityReady(d, d.pk)
        /\ Vrf!verifyVRF(d.pk, roll.memo, roll.proof)
        /\ T # {} /\ T \subseteq Nat
        /\ \A i \in T : CommitMatches(roll, CommitOfEvent(i))
    BY <1>1, EventRoll
  <1>3. /\ req.mode = "event" /\ req.owner = Operator
        /\ req.label = DEFAULT_LABEL /\ req.memo = roll.memo
        /\ req.proof = roll.proof
    BY DEF RequestOf
  <1>4. FetchedCommit(req, CompleteScan) =
          {CommitOfEvent(i) : i \in {j \in T : \A k \in T : j <= k}}
    BY <1>1, <1>3 DEF FetchedCommit, pickCanonicalCommit
  <1>5. PICK n \in T : \A k \in T : n <= k
    BY <1>2, LeastNatural
  <1>6. /\ FetchedCommit(req, CompleteScan) # {}
        /\ \A commit \in FetchedCommit(req, CompleteScan) :
               CommitMatches(roll, commit)
    BY <1>2, <1>4, <1>5
  <1> QED BY <1>2, <1>6, VerdictTrue

\* A lookup by memo finds the roll itself or one with the same proof.
LEMMA LookupFindsRoll ==
    ASSUME IndInv, NEW st, StateSound(st), NEW k \in DOMAIN st.rolls,
           NEW d \in Authority, NEW mode
    PROVE  Verdict(mode, st, st.rolls[k].memo) =
             VerdictOn(RequestOf(mode, st.rolls[k]))
  <1>1. PICK rolls, roll : rolls = st.rolls /\ roll = rolls[k]
    OBVIOUS
  <1>2. /\ rolls \in Seq(Roll) /\ k \in DOMAIN rolls
        /\ \A j \in DOMAIN rolls : RollSound(rolls[j])
    BY <1>1 DEF StateSound, DemoState
  <1> DEFINE recorded == {j \in DOMAIN rolls : rolls[j].memo = roll.memo}
             first == {j \in recorded : \A i \in recorded : j <= i}
  <1>3. first # {}
    <2>1. recorded \subseteq Nat /\ k \in recorded
      BY <1>1, <1>2
    <2> HIDE DEF recorded
    <2> QED BY <2>1, LeastNatural
  <1>4. StoredRoll(st, roll.memo) = {rolls[j] : j \in first}
    BY <1>1, Zenon DEF StoredRoll
  <1>5. ASSUME NEW r \in StoredRoll(st, roll.memo)
        PROVE  RequestOf(mode, r) = RequestOf(mode, roll)
    <2>1. PICK j \in DOMAIN rolls : r = rolls[j] /\ rolls[j].memo = roll.memo
      BY <1>4
    <2>2. RollSound(r) /\ RollSound(roll) /\ r \in Roll /\ roll \in Roll
      BY <1>1, <1>2, <2>1
    <2>3. /\ r.proof = Vrf!proveVRF(d.pk, r.memo)
          /\ roll.proof = Vrf!proveVRF(d.pk, roll.memo)
      BY <2>2, RollFacts
    <2>4. r.memo = roll.memo /\ r.proof = roll.proof
      BY <2>1, <2>3
    <2> QED BY <2>4, Zenon DEF RequestOf
  <1>6. PICK r : r \in StoredRoll(st, roll.memo)
    BY <1>3, <1>4
  <1> DEFINE verdict(x) == VerdictOn(RequestOf(mode, x))
  <1>7. Verdict(mode, st, roll.memo) =
          UNION {verdict(x) : x \in StoredRoll(st, roll.memo)}
    BY Zenon DEF Verdict
  <1>8. \A x \in StoredRoll(st, roll.memo) : verdict(x) = verdict(roll)
    BY <1>5, Zenon
  <1> HIDE DEF verdict
  <1>9. Verdict(mode, st, roll.memo) = verdict(roll)
    BY <1>6, <1>7, <1>8
  <1> QED BY <1>1, <1>9, Zenon DEF verdict

\* Every roll that the file records is valid until the authority is revoked,
\* whatever became of the process that recorded it (commands.ts:150-164,
\* 259-275, 363-379).
THEOREM RecordedRollsAreValid == DemoSpec => []RecordedRollsVerify
  <1>1. DemoInv => RecordedRollsVerify
    <2> SUFFICES ASSUME DemoInv, \A d \in Authority : ~d.revoked,
                        NEW st \in file, NEW k \in DOMAIN st.rolls
                 PROVE  /\ st.rolls[k].mode = "commit" =>
                             cmdVerify(st, st.rolls[k].memo) = {TRUE}
                        /\ st.rolls[k].mode = "commit-beta" =>
                             cmdVerifyWithBeta(st, st.rolls[k].memo) = {TRUE}
                        /\ st.rolls[k].mode = "event" =>
                             cmdVerifyEvent(st, st.rolls[k].memo) = {TRUE}
      BY DEF RecordedRollsVerify
    <2>1. StateSound(st) /\ IndInv
      BY DEF DemoInv, ClientInv
    <2>2. PICK roll : roll = st.rolls[k]
      OBVIOUS
    <2>3. roll \in Roll /\ RollSound(roll)
      BY <2>1, <2>2 DEF StateSound, DemoState
    <2>4. PICK d \in Authority : TRUE
      BY <2>3 DEF RollSound, AuthorityPk
    <2>5. /\ cmdVerify(st, st.rolls[k].memo) =
               VerdictOn(RequestOf("registry", roll))
          /\ cmdVerifyWithBeta(st, st.rolls[k].memo) =
               VerdictOn(RequestOf("registry-beta", roll))
          /\ cmdVerifyEvent(st, st.rolls[k].memo) =
               VerdictOn(RequestOf("event", roll))
      BY <2>1, <2>2, LookupFindsRoll
         DEF cmdVerify, cmdVerifyWithBeta, cmdVerifyEvent
    <2> QED BY <2>2, <2>3, <2>5, RegistryVerdict, EventVerdict
  <1> QED BY <1>1, DemoInvariant, PTL
=============================================================================
