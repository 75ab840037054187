-------------------------- MODULE DiceBatchProofs --------------------------
(***************************************************************************)
(* Proofs about DiceBatch, for any number of processes, of rolls and of    *)
(* lamports: what a batch counts is on chain, and what it reports as cost  *)
(* was paid.                                                               *)
(***************************************************************************)
EXTENDS DiceBatch, FiniteSetTheorems, SequenceTheorems, TLAPS

-----------------------------------------------------------------------------
(* The inductive invariant.                                                *)

\* The record of a process that was started.
ProcRecord(pc, cmd, loop, i, began, snapshot, ok, fail, spent) ==
    [pc |-> pc, cmd |-> cmd, loop |-> loop, i |-> i, began |-> began,
     snapshot |-> snapshot, ok |-> ok, fail |-> fail, spent |-> spent]

LoopsOf(cmd) == 1..Len(Loops(cmd))

\* A started process r of p.
Started(p, r) ==
    /\ r = ProcRecord(r.pc, r.cmd, r.loop, r.i, r.began, r.snapshot,
                      r.ok, r.fail, r.spent)
    /\ r.pc \in {"loop", "roll", "sent", "verify", "exit", "threw"}
    /\ r.cmd \in Commands[p]
    /\ r.loop \in LoopsOf(r.cmd)
    /\ r.i \in 1..r.cmd.n + 1
    /\ r.pc \in {"sent", "verify"} => r.i <= r.cmd.n
    /\ r.pc = "exit" => r.loop = Len(Loops(r.cmd)) /\ r.i = r.cmd.n + 1
    /\ r.began \in Nat
    /\ r.ok \in [LoopsOf(r.cmd) -> Nat]
    /\ r.fail \in [LoopsOf(r.cmd) -> Nat]
    /\ r.spent \in [LoopsOf(r.cmd) -> Int]

\* Iterations of a loop that passed or failed, and those that were begun.
Ended(r, loop) ==
    IF loop < r.loop THEN r.cmd.n
    ELSE IF loop = r.loop /\ r.pc # "loop" THEN r.i - 1
    ELSE 0

Begun(r, loop) ==
    IF loop = r.loop /\ r.pc \in {"sent", "verify"} THEN r.i ELSE Ended(r, loop)

\* A commit is on chain.
Landed(m) ==
    \/ \E c \in commits : c.memo = m
    \/ \E k \in DOMAIN log : log[k].memo = m

Seen(m) == Landed(m) \/ \E tx \in pending : tx.memo = m

\* The memos of the first k iterations of a loop whose commit is on chain.
MemosOf(p, loop, k) == {MemoOf(p, loop, j) : j \in 1..k}

LandedOf(p, loop, k) == {m \in MemosOf(p, loop, k) : Landed(m)}

\* A transaction of a process is for a begun iteration, in the loop's mode.
IsTxOf(p, r, tx) ==
    \E loop \in LoopsOf(r.cmd) : \E j \in 1..Begun(r, loop) :
        tx = [memo |-> MemoOf(p, loop, j), mode |-> Loops(r.cmd)[loop]]

\* Only iterations that were begun are on chain or on their way.
OnlyBegun(p, r) ==
    \A loop, j \in Nat :
        Seen(MemoOf(p, loop, j)) => loop \in LoopsOf(r.cmd) /\ j <= Begun(r, loop)

\* Counts.
Counted(p, r) ==
    /\ \A loop \in LoopsOf(r.cmd) :
          /\ r.ok[loop] <= Cardinality(LandedOf(p, loop, Ended(r, loop)))
          /\ r.pc # "threw" => r.ok[loop] + r.fail[loop] = Ended(r, loop)
    /\ r.pc = "verify" => Landed(MemoOf(p, r.loop, r.i))

\* The price of k commits of a loop, and the loops that are over.
Price(r, loop, k) == k * Fee[Loops(r.cmd)[loop]]

Over(r) == {loop \in LoopsOf(r.cmd) : loop < r.loop \/ r.pc = "exit"}

\* What is counted was paid, since the loop began or in a loop that is over.
Priced(p, r) ==
    r.cmd.name = "cost" =>
        /\ r.pc # "verify"
        /\ r.pc \in {"roll", "sent"} =>
              paid >= r.began
                 + Price(r, r.loop, Cardinality(LandedOf(p, r.loop, r.cmd.n)))
        /\ \A loop \in Over(r) : r.spent[loop] >= Price(r, loop, r.ok[loop])

\* A process that is the only one and did not fail yet: nothing else was paid.
Alone(p) == \A q \in Processes \ {p} : proc[q].pc = "idle"

Exact(p, r) ==
    (r.cmd.name = "cost" /\ \A loop \in LoopsOf(r.cmd) : r.fail[loop] = 0) =>
        /\ r.pc \in {"loop", "roll", "exit"} => pending = {}
        /\ r.pc = "roll" => paid = r.began + Price(r, r.loop, r.ok[r.loop])
        /\ r.pc = "sent" =>
              LET m == MemoOf(p, r.loop, r.i)
              IN  \/ /\ \A tx \in pending : tx.memo = m
                     /\ ~Landed(m)
                     /\ pending # {} =>
                           paid = r.began + Price(r, r.loop, r.ok[r.loop])
                  \/ /\ pending = {} /\ Landed(m)
                     /\ paid = r.began + Price(r, r.loop, r.ok[r.loop] + 1)
        /\ \A loop \in Over(r) : r.spent[loop] = Price(r, loop, r.ok[loop])

ProcInv(p) ==
    /\ proc[p].pc # "idle" =>
          /\ Started(p, proc[p])
          /\ OnlyBegun(p, proc[p])
          /\ Counted(p, proc[p])
          /\ Priced(p, proc[p])
          /\ Alone(p) => Exact(p, proc[p])
    /\ proc[p].pc = "idle" => \A loop, j \in Nat : ~Seen(MemoOf(p, loop, j))

\* The registry's types, and every commit lands at most once.
ChainInv ==
    /\ authorities \subseteq Authority
    /\ commits \subseteq Commit
    /\ log \in Seq(Commit)
    /\ paid \in Nat
    /\ \A j, k \in DOMAIN log : log[j].memo = log[k].memo => j = k
    /\ \A tx, other \in pending : tx.memo = other.memo => tx = other
    /\ \A tx \in pending : ~Landed(tx.memo)
    /\ \A tx \in pending : \E p \in Processes :
          proc[p].pc # "idle" /\ IsTxOf(p, proc[p], tx)

BatchInv ==
    /\ DOMAIN proc = Processes
    /\ ChainInv
    /\ \A p \in Processes : ProcInv(p)

-----------------------------------------------------------------------------
(* Commands, memos and prices.                                             *)

Modes == {"pda", "pda-beta", "event"}

\* A command has one loop or three, each of a mode that has a price.
LEMMA LoopFacts ==
    ASSUME NEW p \in Processes, NEW cmd \in Commands[p]
    PROVE  /\ cmd.n \in Nat \ {0}
           /\ Len(Loops(cmd)) \in Nat \ {0}
           /\ DOMAIN Loops(cmd) = LoopsOf(cmd)
           /\ 1 \in LoopsOf(cmd)
           /\ \A loop \in LoopsOf(cmd) : /\ loop \in Nat \ {0}
                                         /\ Loops(cmd)[loop] \in Modes
                                         /\ Fee[Loops(cmd)[loop]] \in Nat
  <1>1. /\ cmd.n \in Nat \ {0}
        /\ cmd.name \in {"simulate", "simulate-event", "cost"}
    BY BatchAssumption
  <1>2. Fee \in [Modes -> Nat]
    BY BatchAssumption DEF Modes
  <1>3. \/ Loops(cmd) = <<"pda">>
        \/ Loops(cmd) = <<"event">>
        \/ Loops(cmd) = <<"pda", "pda-beta", "event">>
    BY <1>1 DEF Loops
  <1>4. PICK loops : loops = Loops(cmd)
    OBVIOUS
  <1>5. \A mode : mode \in Modes => /\ <<mode>> \in Seq(Modes)
                                    /\ Len(<<mode>>) = 1
    OBVIOUS
  <1>6. /\ <<"pda", "pda-beta", "event">> \in Seq(Modes)
        /\ Len(<<"pda", "pda-beta", "event">>) = 3
    BY DEF Modes
  <1>7. "pda" \in Modes /\ "event" \in Modes
    BY DEF Modes
  <1>8. loops \in Seq(Modes) /\ Len(loops) \in {1, 3}
    <2>1. CASE loops = <<"pda", "pda-beta", "event">>
      BY <1>6, <2>1, Zenon
    <2>2. CASE loops = <<"pda">>
      BY <1>5, <1>7, <2>2, Zenon
    <2>3. CASE loops = <<"event">>
      BY <1>5, <1>7, <2>3, Zenon
    <2> QED BY <1>3, <1>4, <2>1, <2>2, <2>3, Zenon
  <1>9. /\ Len(loops) \in Nat \ {0} /\ DOMAIN loops = 1..Len(loops)
        /\ 1 \in 1..Len(loops)
        /\ \A loop \in 1..Len(loops) : loop \in Nat \ {0} /\ loops[loop] \in Modes
    BY <1>8, ElementOfSeq, LenProperties
  <1>10. \A loop \in 1..Len(loops) : Fee[loops[loop]] \in Nat
    BY <1>2, <1>9
  <1> QED BY <1>1, <1>4, <1>9, <1>10, Zenon DEF LoopsOf

\* No two rolls share a memo.
LEMMA MemosDiffer ==
    ASSUME NEW p, NEW q, NEW loop, NEW other, NEW i, NEW j,
           MemoOf(p, loop, i) = MemoOf(q, other, j)
    PROVE  p = q /\ loop = other /\ i = j
  BY DEF MemoOf

LEMMA MoreMemos ==
    ASSUME NEW p, NEW loop, NEW k \in Nat
    PROVE  /\ MemosOf(p, loop, 0) = {}
           /\ MemosOf(p, loop, k + 1)
                = MemosOf(p, loop, k) \cup {MemoOf(p, loop, k + 1)}
           /\ MemoOf(p, loop, k + 1) \notin MemosOf(p, loop, k)
           /\ \A n \in Nat : k <= n => MemosOf(p, loop, k) \subseteq MemosOf(p, loop, n)
  <1>1. 1..k + 1 = 1..k \cup {k + 1} /\ k + 1 \notin 1..k /\ 1..0 = {}
    OBVIOUS
  <1>2. \A n \in Nat : k <= n => 1..k \subseteq 1..n
    OBVIOUS
  <1>3. MemoOf(p, loop, k + 1) \notin MemosOf(p, loop, k)
    BY <1>1, MemosDiffer DEF MemosOf
  <1>4. MemosOf(p, loop, 0) = {}
    BY <1>1 DEF MemosOf
  <1>5. MemosOf(p, loop, k + 1)
          = MemosOf(p, loop, k) \cup {MemoOf(p, loop, k + 1)}
    BY <1>1 DEF MemosOf
  <1>6. \A n \in Nat : k <= n => MemosOf(p, loop, k) \subseteq MemosOf(p, loop, n)
    BY <1>2 DEF MemosOf
  <1> QED BY <1>3, <1>4, <1>5, <1>6

\* A set of the first k memos has at most k elements.
LEMMA MemosFinite ==
    ASSUME NEW p, NEW loop, NEW k \in Nat, NEW S,
           S \subseteq MemosOf(p, loop, k)
    PROVE  IsFiniteSet(S) /\ Cardinality(S) \in Nat /\ Cardinality(S) <= k
  <1> DEFINE T == MemosOf(p, loop, k)
             f == [j \in 1..k |-> MemoOf(p, loop, j)]
  <1>1. f \in Surjection(1..k, T)
    BY Zenon DEF Surjection, MemosOf
  <1>2. IsFiniteSet(1..k) /\ Cardinality(1..k) = k
    BY FS_Interval
  <1>3. IsFiniteSet(T) /\ Cardinality(T) <= Cardinality(1..k)
    BY <1>1, <1>2, FS_Surjection, Zenon
  <1>4. IsFiniteSet(S) /\ Cardinality(S) <= Cardinality(T)
    BY <1>3, FS_Subset
  <1>5. Cardinality(S) \in Nat /\ Cardinality(T) \in Nat
    BY <1>3, <1>4, FS_CardinalityType
  <1> QED BY <1>2, <1>3, <1>4, <1>5

\* More commits cost more.
LEMMA MorePrice ==
    ASSUME NEW fee \in Nat, NEW k \in Nat
    PROVE  /\ k * fee \in Nat
           /\ (k + 1) * fee = k * fee + fee
           /\ 0 * fee = 0
           /\ \A n \in Nat : k <= n => k * fee <= n * fee
  OBVIOUS

\* OnChain is what its name says while no commit is logged twice.
LEMMA OnChainIsLanded ==
    ASSUME ChainInv, NEW m
    PROVE  OnChain(m) <=> Landed(m)
  <1> DEFINE K == {k \in DOMAIN log : log[k].memo = m}
  <1>1. \A j, k \in K : j = k
    BY DEF ChainInv
  <1>2. Cardinality(K) = 1 <=> K # {}
    <2>1. CASE K = {}
      BY <2>1, FS_EmptySet
    <2>2. CASE K # {}
      <3>1. PICK k : K = {k}
        BY <1>1, <2>2
      <3> QED BY <2>2, <3>1, FS_Singleton
    <2> QED BY <2>1, <2>2
  <1>3. K # {} <=> \E k \in DOMAIN log : log[k].memo = m
    OBVIOUS
  <1> QED BY <1>2, <1>3, Zenon DEF OnChain, Landed

-----------------------------------------------------------------------------
(* Records of processes.                                                   *)

LEMMA ProcFields ==
    ASSUME NEW pc, NEW cmd, NEW loop, NEW i, NEW began, NEW snapshot, NEW ok,
           NEW fail, NEW spent
    PROVE  LET r == ProcRecord(pc, cmd, loop, i, began, snapshot, ok, fail, spent)
           IN  /\ r.pc = pc /\ r.cmd = cmd /\ r.loop = loop /\ r.i = i
               /\ r.began = began /\ r.snapshot = snapshot /\ r.ok = ok
               /\ r.fail = fail /\ r.spent = spent
  BY DEF ProcRecord

\* The updates of a process.
WithPc(r, x) ==
    [r EXCEPT !.pc = x]
WithBegin(r, x, y, z) ==
    [r EXCEPT !.pc = x, !.i = y, !.began = z]
WithSent(r, x, y) ==
    [r EXCEPT !.pc = x, !.snapshot = y]
WithEnd(r, x, y, z) ==
    [r EXCEPT !.spent = x, !.loop = y, !.pc = z]
WithPass(r, x, y, z) ==
    [r EXCEPT !.ok = x, !.i = y, !.pc = z]
WithFail(r, x, y, z) ==
    [r EXCEPT !.fail = x, !.i = y, !.pc = z]

LEMMA ProcPc ==
    ASSUME NEW pc, NEW cmd, NEW loop, NEW i, NEW began,
           NEW snapshot, NEW ok, NEW fail, NEW spent,
           NEW x
    PROVE  WithPc(ProcRecord(pc, cmd, loop, i, began, snapshot, ok, fail, spent), x)
             = ProcRecord(x, cmd, loop, i, began, snapshot, ok, fail, spent)
  BY DEF ProcRecord, WithPc

LEMMA ProcBegin ==
    ASSUME NEW pc, NEW cmd, NEW loop, NEW i, NEW began,
           NEW snapshot, NEW ok, NEW fail, NEW spent,
           NEW x, NEW y, NEW z
    PROVE  WithBegin(ProcRecord(pc, cmd, loop, i, began, snapshot, ok, fail, spent), x, y, z)
             = ProcRecord(x, cmd, loop, y, z, snapshot, ok, fail, spent)
  <1>1. [ProcRecord(pc, cmd, loop, i, began, snapshot, ok, fail, spent) EXCEPT !.pc = x]
          = ProcRecord(x, cmd, loop, i, began, snapshot, ok, fail, spent)
    BY DEF ProcRecord
  <1>2. [ProcRecord(x, cmd, loop, i, began, snapshot, ok, fail, spent) EXCEPT !.i = y]
          = ProcRecord(x, cmd, loop, y, began, snapshot, ok, fail, spent)
    BY DEF ProcRecord
  <1>3. [ProcRecord(x, cmd, loop, y, began, snapshot, ok, fail, spent) EXCEPT !.began = z]
          = ProcRecord(x, cmd, loop, y, z, snapshot, ok, fail, spent)
    BY DEF ProcRecord
  <1> QED BY <1>1, <1>2, <1>3, Zenon DEF WithBegin

LEMMA ProcSent ==
    ASSUME NEW pc, NEW cmd, NEW loop, NEW i, NEW began,
           NEW snapshot, NEW ok, NEW fail, NEW spent,
           NEW x, NEW y
    PROVE  WithSent(ProcRecord(pc, cmd, loop, i, began, snapshot, ok, fail, spent), x, y)
             = ProcRecord(x, cmd, loop, i, began, y, ok, fail, spent)
  <1>1. [ProcRecord(pc, cmd, loop, i, began, snapshot, ok, fail, spent) EXCEPT !.pc = x]
          = ProcRecord(x, cmd, loop, i, began, snapshot, ok, fail, spent)
    BY DEF ProcRecord
  <1>2. [ProcRecord(x, cmd, loop, i, began, snapshot, ok, fail, spent) EXCEPT !.snapshot = y]
          = ProcRecord(x, cmd, loop, i, began, y, ok, fail, spent)
    BY DEF ProcRecord
  <1> QED BY <1>1, <1>2, Zenon DEF WithSent

LEMMA ProcEnd ==
    ASSUME NEW pc, NEW cmd, NEW loop, NEW i, NEW began,
           NEW snapshot, NEW ok, NEW fail, NEW spent,
           NEW x, NEW y, NEW z
    PROVE  WithEnd(ProcRecord(pc, cmd, loop, i, began, snapshot, ok, fail, spent), x, y, z)
             = ProcRecord(z, cmd, y, i, began, snapshot, ok, fail, x)
  <1>1. [ProcRecord(pc, cmd, loop, i, began, snapshot, ok, fail, spent) EXCEPT !.spent = x]
          = ProcRecord(pc, cmd, loop, i, began, snapshot, ok, fail, x)
    BY DEF ProcRecord
  <1>2. [ProcRecord(pc, cmd, loop, i, began, snapshot, ok, fail, x) EXCEPT !.loop = y]
          = ProcRecord(pc, cmd, y, i, began, snapshot, ok, fail, x)
    BY DEF ProcRecord
  <1>3. [ProcRecord(pc, cmd, y, i, began, snapshot, ok, fail, x) EXCEPT !.pc = z]
          = ProcRecord(z, cmd, y, i, began, snapshot, ok, fail, x)
    BY DEF ProcRecord
  <1> QED BY <1>1, <1>2, <1>3, Zenon DEF WithEnd

LEMMA ProcPass ==
    ASSUME NEW pc, NEW cmd, NEW loop, NEW i, NEW began,
           NEW snapshot, NEW ok, NEW fail, NEW spent,
           NEW x, NEW y, NEW z
    PROVE  WithPass(ProcRecord(pc, cmd, loop, i, began, snapshot, ok, fail, spent), x, y, z)
             = ProcRecord(z, cmd, loop, y, began, snapshot, x, fail, spent)
  <1>1. [ProcRecord(pc, cmd, loop, i, began, snapshot, ok, fail, spent) EXCEPT !.ok = x]
          = ProcRecord(pc, cmd, loop, i, began, snapshot, x, fail, spent)
    BY DEF ProcRecord
  <1>2. [ProcRecord(pc, cmd, loop, i, began, snapshot, x, fail, spent) EXCEPT !.i = y]
          = ProcRecord(pc, cmd, loop, y, began, snapshot, x, fail, spent)
    BY DEF ProcRecord
  <1>3. [ProcRecord(pc, cmd, loop, y, began, snapshot, x, fail, spent) EXCEPT !.pc = z]
          = ProcRecord(z, cmd, loop, y, began, snapshot, x, fail, spent)
    BY DEF ProcRecord
  <1> QED BY <1>1, <1>2, <1>3, Zenon DEF WithPass

LEMMA ProcFail ==
    ASSUME NEW pc, NEW cmd, NEW loop, NEW i, NEW began,
           NEW snapshot, NEW ok, NEW fail, NEW spent,
           NEW x, NEW y, NEW z
    PROVE  WithFail(ProcRecord(pc, cmd, loop, i, began, snapshot, ok, fail, spent), x, y, z)
             = ProcRecord(z, cmd, loop, y, began, snapshot, ok, x, spent)
  <1>1. [ProcRecord(pc, cmd, loop, i, began, snapshot, ok, fail, spent) EXCEPT !.fail = x]
          = ProcRecord(pc, cmd, loop, i, began, snapshot, ok, x, spent)
    BY DEF ProcRecord
  <1>2. [ProcRecord(pc, cmd, loop, i, began, snapshot, ok, x, spent) EXCEPT !.i = y]
          = ProcRecord(pc, cmd, loop, y, began, snapshot, ok, x, spent)
    BY DEF ProcRecord
  <1>3. [ProcRecord(pc, cmd, loop, y, began, snapshot, ok, x, spent) EXCEPT !.pc = z]
          = ProcRecord(z, cmd, loop, y, began, snapshot, ok, x, spent)
    BY DEF ProcRecord
  <1> QED BY <1>1, <1>2, <1>3, Zenon DEF WithFail

-----------------------------------------------------------------------------
(* A step of one process.  It may send the transaction new.                *)

\* What a step of p keeps of its own: the command and what was begun.
Continues(r, next) ==
    r.pc # "idle" =>
        /\ next.cmd = r.cmd
        /\ \A loop \in LoopsOf(r.cmd) : Begun(r, loop) <= Begun(next, loop)

Sends(p, next, new) ==
    \/ pending' = pending
    \/ /\ pending' = pending \cup {new}
       /\ ~Seen(new.memo)
       /\ IsTxOf(p, next, new)

LEMMA BegunNat ==
    ASSUME NEW p \in Processes, NEW r, Started(p, r), NEW loop \in LoopsOf(r.cmd)
    PROVE  /\ Ended(r, loop) \in 0..r.cmd.n
           /\ Begun(r, loop) \in 0..r.cmd.n
           /\ Ended(r, loop) <= Begun(r, loop)
  <1>1. r.cmd.n \in Nat /\ r.i \in 1..r.cmd.n + 1
    BY LoopFacts DEF Started
  <1>2. r.pc \in {"sent", "verify"} => r.i <= r.cmd.n
    BY DEF Started
  <1>3. loop \in Nat /\ r.loop \in Nat
    BY LoopFacts DEF Started
  <1>4. Ended(r, loop) \in 0..r.cmd.n
    BY <1>1, <1>3 DEF Ended
  <1>5. CASE loop = r.loop /\ r.pc \in {"sent", "verify"}
    <2>1. Begun(r, loop) = r.i /\ Ended(r, loop) = r.i - 1
      BY <1>3, <1>5 DEF Begun, Ended
    <2> QED BY <1>1, <1>2, <1>4, <1>5, <2>1
  <1>6. CASE ~(loop = r.loop /\ r.pc \in {"sent", "verify"})
    <2>1. Begun(r, loop) = Ended(r, loop)
      BY <1>6, Zenon DEF Begun
    <2> QED BY <1>1, <1>4, <2>1
  <1> QED BY <1>5, <1>6

LEMMA TxStays ==
    ASSUME NEW p \in Processes, NEW r, NEW next, Started(p, r), Started(p, next),
           r.pc # "idle", Continues(r, next), NEW tx, IsTxOf(p, r, tx)
    PROVE  IsTxOf(p, next, tx)
  <1>1. PICK loop \in LoopsOf(r.cmd) : \E j \in 1..Begun(r, loop) :
           tx = [memo |-> MemoOf(p, loop, j), mode |-> Loops(r.cmd)[loop]]
    BY Zenon DEF IsTxOf
  <1>2. PICK j \in 1..Begun(r, loop) :
           tx = [memo |-> MemoOf(p, loop, j), mode |-> Loops(r.cmd)[loop]]
    BY <1>1
  <1>3. next.cmd = r.cmd /\ Begun(r, loop) <= Begun(next, loop)
    BY <1>1 DEF Continues
  <1>4. Begun(r, loop) \in Nat /\ Begun(next, loop) \in Nat
    BY <1>1, <1>3, BegunNat
  <1>5. j \in 1..Begun(next, loop)
    BY <1>2, <1>3, <1>4
  <1> QED BY <1>1, <1>2, <1>3, <1>5, Zenon DEF IsTxOf

\* The memo of a transaction names its process.
LEMMA TxMemo ==
    ASSUME NEW p \in Processes, NEW r, Started(p, r), NEW tx, IsTxOf(p, r, tx)
    PROVE  \E loop \in LoopsOf(r.cmd) : \E j \in 1..Begun(r, loop) :
              /\ tx.memo = MemoOf(p, loop, j)
              /\ tx.mode = Loops(r.cmd)[loop]
              /\ tx = [memo |-> tx.memo, mode |-> tx.mode]
              /\ loop \in Nat /\ j \in Nat
  BY LoopFacts DEF IsTxOf, Started

LEMMA ProcStep ==
    ASSUME BatchInv, NEW p \in Processes, NEW r, r = proc[p],
           NEW next, Set(p, next), NEW new, Sends(p, next, new),
           UNCHANGED <<vars, paid>>,
           Continues(r, next), Started(p, next),
           OnlyBegun(p, next)', Counted(p, next), Priced(p, next),
           Alone(p) => Exact(p, next)'
    PROVE  BatchInv'
  <1>0. proc' = [proc EXCEPT ![p] = next] /\ DOMAIN proc = Processes
    BY DEF Set, BatchInv
  <1>1. /\ DOMAIN proc' = Processes
        /\ proc'[p] = next
        /\ \A q \in Processes \ {p} : proc'[q] = proc[q]
    BY <1>0
  <1>2. next.pc # "idle"
    BY DEF Started
  <1>3. \A m : Landed(m)' <=> Landed(m)
    BY DEF vars, Landed
  <1>4. \A m : Seen(m)' => Seen(m) \/ (pending' # pending /\ m = new.memo)
    <2> SUFFICES ASSUME NEW m, Seen(m)'
                 PROVE  Seen(m) \/ (pending' # pending /\ m = new.memo)
      OBVIOUS
    <2>1. CASE Landed(m)'
      BY <1>3, <2>1 DEF Seen
    <2>2. CASE \E tx \in pending' : tx.memo = m
      BY <2>2 DEF Sends, Seen
    <2> QED BY <2>1, <2>2 DEF Seen
  <1>5. ChainInv'
    <2>1. (/\ authorities \subseteq Authority
           /\ commits \subseteq Commit
           /\ log \in Seq(Commit)
           /\ paid \in Nat
           /\ \A j, k \in DOMAIN log : log[j].memo = log[k].memo => j = k)'
      <3>1. /\ authorities \subseteq Authority
            /\ commits \subseteq Commit
            /\ log \in Seq(Commit)
            /\ paid \in Nat
            /\ \A j, k \in DOMAIN log : log[j].memo = log[k].memo => j = k
        BY Zenon DEF BatchInv, ChainInv
      <3> QED BY <3>1, Zenon DEF vars
    <2>2. \A tx, other \in pending' : tx.memo = other.memo => tx = other
      <3>1. \A tx, other \in pending : tx.memo = other.memo => tx = other
        BY DEF BatchInv, ChainInv
      <3>2. \A tx \in pending : Seen(tx.memo)
        BY DEF Seen
      <3> QED BY <3>1, <3>2 DEF Sends
    <2>3. \A tx \in pending' : ~Landed(tx.memo)'
      <3>1. \A tx \in pending : ~Landed(tx.memo)
        BY DEF BatchInv, ChainInv
      <3> QED BY <1>3, <3>1 DEF Sends, Seen
    <2>4. \A tx \in pending' : \E q \in Processes :
             proc'[q].pc # "idle" /\ IsTxOf(q, proc'[q], tx)
      <3> SUFFICES ASSUME NEW tx \in pending'
                   PROVE  \E q \in Processes :
                             proc'[q].pc # "idle" /\ IsTxOf(q, proc'[q], tx)
        OBVIOUS
      <3>1. CASE tx \notin pending
        <4>1. tx = new /\ IsTxOf(p, next, new)
          BY <3>1 DEF Sends
        <4> QED BY <1>1, <1>2, <4>1
      <3>2. CASE tx \in pending
        <4>1. PICK q \in Processes : proc[q].pc # "idle" /\ IsTxOf(q, proc[q], tx)
          BY <3>2 DEF BatchInv, ChainInv
        <4>2. CASE q = p
          <5>1. Started(p, r) /\ r.pc # "idle" /\ IsTxOf(p, r, tx)
            BY <4>1, <4>2 DEF BatchInv, ProcInv
          <5>2. IsTxOf(p, next, tx)
            BY <5>1, TxStays
          <5> QED BY <1>1, <1>2, <5>2
        <4>3. CASE q # p
          BY <1>1, <4>1, <4>3
        <4> QED BY <4>2, <4>3
      <3> QED BY <3>1, <3>2
    <2>5. (\A tx, other \in pending : tx.memo = other.memo => tx = other)'
      BY <2>2
    <2>6. (\A tx \in pending : ~Landed(tx.memo))'
      BY <2>3
    <2>7. (\A tx \in pending : \E q \in Processes :
             proc[q].pc # "idle" /\ IsTxOf(q, proc[q], tx))'
      BY <2>4
    <2> QED BY <2>1, <2>5, <2>6, <2>7, Zenon DEF ChainInv
  <1>6. ASSUME NEW q \in Processes \ {p}
        PROVE  ProcInv(q)'
    <2>1. ProcInv(q) /\ proc'[q] = proc[q]
      BY <1>1 DEF BatchInv
    <2>2. \A loop, j \in Nat : Seen(MemoOf(q, loop, j))' => Seen(MemoOf(q, loop, j))
      <3>1. pending' # pending => \E loop, j : new.memo = MemoOf(p, loop, j)
        BY TxMemo DEF Sends
      <3> QED BY <1>4, <3>1, MemosDiffer
    <2>3. PICK s : s = proc[q]
      OBVIOUS
    <2>4. CASE s.pc = "idle"
      <3>1. \A loop, j \in Nat : ~Seen(MemoOf(q, loop, j))
        BY <2>1, <2>3, <2>4 DEF ProcInv
      <3>2. (\A loop, j \in Nat : ~Seen(MemoOf(q, loop, j)))'
        BY <2>2, <3>1
      <3>3. (proc[q].pc = "idle")'
        BY <2>1, <2>3, <2>4
      <3> QED BY <3>2, <3>3 DEF ProcInv
    <2>5. CASE s.pc # "idle"
      <3>1. /\ Started(q, s) /\ OnlyBegun(q, s) /\ Counted(q, s) /\ Priced(q, s)
        BY <2>1, <2>3, <2>5 DEF ProcInv
      <3>2. OnlyBegun(q, s)'
        BY <2>2, <3>1, Zenon DEF OnlyBegun
      <3>3. Counted(q, s)' /\ Priced(q, s)'
        <4>1. \A other, loop, n : LandedOf(other, loop, n)' = LandedOf(other, loop, n)
          BY <1>3 DEF LandedOf
        <4> QED BY <1>3, <3>1, <4>1, Zenon DEF Counted, Priced
      <3>4. ~Alone(q)'
        BY <1>1, <1>2 DEF Alone
      <3>5. proc'[q] = s
        BY <2>1, <2>3
      <3> QED BY <2>5, <3>1, <3>2, <3>3, <3>4, <3>5, Zenon DEF ProcInv
    <2> QED BY <2>4, <2>5
  <1>7. ProcInv(p)'
    <2>1. Counted(p, next)' /\ Priced(p, next)'
      <3>1. \A other, loop, n : LandedOf(other, loop, n)' = LandedOf(other, loop, n)
        BY <1>3 DEF LandedOf
      <3> QED BY <1>3, <3>1, Zenon DEF Counted, Priced
    <2>2. Alone(p)' => Alone(p)
      BY <1>1 DEF Alone
    <2> QED BY <1>1, <1>2, <2>1, <2>2, Zenon DEF ProcInv
  <1> QED BY <1>1, <1>5, <1>6, <1>7, Zenon DEF BatchInv

\* A step that sends nothing.
LEMMA QuietStep ==
    ASSUME BatchInv, NEW p \in Processes, NEW r, r = proc[p], r.pc # "idle",
           NEW next, Set(p, next), UNCHANGED <<vars, paid, pending>>,
           next.cmd = r.cmd,
           \A loop \in LoopsOf(r.cmd) : Begun(r, loop) <= Begun(next, loop),
           Started(p, next), Counted(p, next), Priced(p, next),
           Alone(p) => Exact(p, next)
    PROVE  BatchInv'
  <1>1. Continues(r, next)
    BY DEF Continues
  <1>2. \A m : Landed(m)' <=> Landed(m)
    BY DEF vars, Landed
  <1>3. \A m : Seen(m)' <=> Seen(m)
    BY <1>2 DEF Seen
  <1>4. OnlyBegun(p, next)'
    <2>1. OnlyBegun(p, r) /\ Started(p, r)
      BY DEF BatchInv, ProcInv
    <2>2. \A loop \in LoopsOf(r.cmd) : Begun(r, loop) \in Nat /\ Begun(next, loop) \in Nat
      BY <2>1, BegunNat
    <2>3. ASSUME NEW loop \in Nat, NEW j \in Nat, Seen(MemoOf(p, loop, j))
          PROVE  loop \in LoopsOf(next.cmd) /\ j <= Begun(next, loop)
      <3>1. loop \in LoopsOf(r.cmd) /\ j <= Begun(r, loop)
        BY <2>1, <2>3 DEF OnlyBegun
      <3>2. Begun(r, loop) <= Begun(next, loop)
        BY <3>1
      <3> QED BY <2>2, <3>1, <3>2
    <2> QED BY <1>3, <2>3, Zenon DEF OnlyBegun
  <1>5. Alone(p) => Exact(p, next)'
    BY <1>2, Zenon DEF Exact, Price
  <1>6. PICK new : Sends(p, next, new)
    BY DEF Sends
  <1> QED BY <1>1, <1>4, <1>5, <1>6, ProcStep

\* What is known of a process that was started.
LEMMA Known ==
    ASSUME BatchInv, NEW p \in Processes, proc[p].pc # "idle"
    PROVE  \E r, pc, cmd, loop, i, began, snapshot, ok, fail, spent :
             /\ r = proc[p]
             /\ r = ProcRecord(pc, cmd, loop, i, began, snapshot, ok, fail, spent)
             /\ r.pc = pc /\ r.cmd = cmd /\ r.loop = loop /\ r.i = i
             /\ r.began = began /\ r.ok = ok /\ r.fail = fail /\ r.spent = spent
             /\ Started(p, r) /\ OnlyBegun(p, r) /\ Counted(p, r) /\ Priced(p, r)
             /\ Alone(p) => Exact(p, r)
  <1>1. PICK r : r = proc[p]
    OBVIOUS
  <1>2. /\ Started(p, r) /\ OnlyBegun(p, r) /\ Counted(p, r) /\ Priced(p, r)
        /\ Alone(p) => Exact(p, r)
    BY <1>1 DEF BatchInv, ProcInv
  <1>3. r = ProcRecord(r.pc, r.cmd, r.loop, r.i, r.began, r.snapshot, r.ok,
                       r.fail, r.spent)
    BY <1>2 DEF Started
  <1> QED BY <1>1, <1>2, <1>3, Zenon

\* Nothing of a loop that did not begin is on chain.
LEMMA NothingBegun ==
    ASSUME NEW p \in Processes, NEW r, Started(p, r), OnlyBegun(p, r),
           r.pc = "loop", NEW n \in Nat
    PROVE  LandedOf(p, r.loop, n) = {}
  <1>1. r.loop \in LoopsOf(r.cmd) /\ r.loop \in Nat
    BY LoopFacts DEF Started
  <1>2. Begun(r, r.loop) = 0
    BY <1>1 DEF Begun, Ended
  <1>3. \A j \in Nat : j > 0 => ~Seen(MemoOf(p, r.loop, j))
    BY <1>1, <1>2 DEF OnlyBegun
  <1>4. \A j \in 1..n : ~Landed(MemoOf(p, r.loop, j))
    BY <1>3 DEF Seen
  <1> QED BY <1>4, Zenon DEF LandedOf, MemosOf

LEMMA BeginLoopPreserves ==
    ASSUME BatchInv, NEW p \in Processes, BeginLoop(p)
    PROVE  BatchInv'
  <1>0. proc[p].pc = "loop"
    BY DEF BeginLoop
  <1>1. PICK r, pc, cmd, loop, i, began, snapshot, ok, fail, spent :
             /\ r = proc[p]
             /\ r = ProcRecord(pc, cmd, loop, i, began, snapshot, ok, fail, spent)
             /\ r.pc = pc /\ r.cmd = cmd /\ r.loop = loop /\ r.i = i
             /\ r.began = began /\ r.ok = ok /\ r.fail = fail /\ r.spent = spent
             /\ Started(p, r) /\ OnlyBegun(p, r) /\ Counted(p, r) /\ Priced(p, r)
             /\ Alone(p) => Exact(p, r)
    BY <1>0, Known
  <1>2. r = ProcRecord(pc, cmd, loop, i, began, snapshot, ok, fail, spent)
    BY <1>1
  <1>3. PICK start : start = IF Simulates(p) THEN 0 ELSE paid
    OBVIOUS
  <1>4. paid \in Nat
    BY DEF BatchInv, ChainInv
  <1>5. start \in Nat /\ (cmd.name = "cost" => start = paid)
    BY <1>1, <1>3, <1>4 DEF Simulates
  <1>6. /\ Set(p, WithBegin(r, "roll", 1, start))
        /\ UNCHANGED <<vars, paid, pending>>
    BY <1>1, <1>3 DEF BeginLoop, WithBegin
  <1>7. PICK next : next = WithBegin(r, "roll", 1, start)
    OBVIOUS
  <1>8. next = ProcRecord("roll", cmd, loop, 1, start, snapshot, ok, fail, spent)
    BY <1>2, <1>7, ProcBegin
  <1>9. /\ next.pc = "roll" /\ next.cmd = cmd /\ next.loop = loop /\ next.i = 1
        /\ next.began = start /\ next.snapshot = snapshot /\ next.ok = ok
        /\ next.fail = fail /\ next.spent = spent
    BY <1>8, ProcFields
  <1>10. Started(p, next)
    <2>1. next = ProcRecord(next.pc, next.cmd, next.loop, next.i, next.began,
                   next.snapshot, next.ok, next.fail, next.spent)
      BY <1>8, <1>9, Zenon
    <2>2. 1 \in 1..cmd.n + 1
      BY <1>1, LoopFacts DEF Started
    <2> QED BY <1>1, <1>5, <1>9, <2>1, <2>2 DEF Started
  <1>11. loop \in LoopsOf(cmd) /\ \A l \in LoopsOf(cmd) : l \in Nat
    BY <1>1, LoopFacts DEF Started
  <1>12. \A l \in LoopsOf(cmd) : Ended(next, l) = Ended(r, l) /\ Begun(next, l) = Begun(r, l)
    BY <1>0, <1>1, <1>9, <1>11 DEF Ended, Begun
  <1>13. Counted(p, next)
    BY <1>0, <1>1, <1>9, <1>12 DEF Counted
  <1>14. Over(next) = Over(r)
    BY <1>0, <1>1, <1>9 DEF Over
  <1>15. cmd.n \in Nat /\ Fee[Loops(cmd)[loop]] \in Nat
    BY <1>1, <1>11, LoopFacts DEF Started
  <1>16. Priced(p, next)
    <2>1. LandedOf(p, loop, cmd.n) = {}
      BY <1>0, <1>1, <1>15, NothingBegun
    <2>2. Price(next, loop, Cardinality(LandedOf(p, loop, cmd.n))) = 0
      BY <1>9, <1>15, <2>1, FS_EmptySet DEF Price
    <2>3. cmd.name = "cost" => paid >= start + Price(next, loop,
             Cardinality(LandedOf(p, loop, cmd.n)))
      BY <1>4, <1>5, <2>2
    <2>4. cmd.name = "cost" => \A l \in Over(r) : spent[l] >= Price(next, l, ok[l])
      BY <1>1, <1>9 DEF Priced, Price
    <2> QED BY <1>9, <1>14, <2>3, <2>4 DEF Priced
  <1>17. Alone(p) => Exact(p, next)
    <2> SUFFICES ASSUME Alone(p), cmd.name = "cost",
                        \A l \in LoopsOf(cmd) : fail[l] = 0
                 PROVE  /\ pending = {}
                        /\ paid = start + Price(next, loop, ok[loop])
                        /\ \A l \in Over(r) : spent[l] = Price(next, l, ok[l])
      BY <1>9, <1>14 DEF Exact
    <2>1. pending = {} /\ \A l \in Over(r) : spent[l] = Price(r, l, ok[l])
      BY <1>0, <1>1 DEF Exact
    <2>2. ok[loop] = 0
      <3>1. Ended(r, loop) = 0
        BY <1>0, <1>1, <1>11 DEF Ended
      <3>2. ok[loop] + fail[loop] = 0 /\ ok[loop] \in Nat
        BY <1>0, <1>1, <1>11, <3>1 DEF Counted, Started
      <3> QED BY <1>11, <3>2
    <2>3. Price(next, loop, 0) = 0
      BY <1>9, <1>15 DEF Price
    <2> QED BY <1>1, <1>4, <1>5, <1>9, <2>1, <2>2, <2>3 DEF Price
  <1>18. \A l \in LoopsOf(r.cmd) : Begun(r, l) <= Begun(next, l)
    BY <1>1, <1>12, BegunNat
  <1> QED BY <1>0, <1>1, <1>6, <1>7, <1>9, <1>10, <1>13, <1>16, <1>17, <1>18, QuietStep

LEMMA EndLoopPreserves ==
    ASSUME BatchInv, NEW p \in Processes, EndLoop(p)
    PROVE  BatchInv'
  <1>0. proc[p].pc = "roll" /\ proc[p].pc # "idle"
    BY DEF EndLoop
  <1>1. PICK r, pc, cmd, loop, i, began, snapshot, ok, fail, spent :
             /\ r = proc[p]
             /\ r = ProcRecord(pc, cmd, loop, i, began, snapshot, ok, fail, spent)
             /\ r.pc = pc /\ r.cmd = cmd /\ r.loop = loop /\ r.i = i
             /\ r.began = began /\ r.ok = ok /\ r.fail = fail /\ r.spent = spent
             /\ Started(p, r) /\ OnlyBegun(p, r) /\ Counted(p, r) /\ Priced(p, r)
             /\ Alone(p) => Exact(p, r)
    BY <1>0, Known
  <1>2. r = ProcRecord(pc, cmd, loop, i, began, snapshot, ok, fail, spent)
    BY <1>1
  <1>3. /\ cmd \in Commands[p] /\ loop \in LoopsOf(cmd)
        /\ i \in 1..cmd.n + 1 /\ cmd.n \in Nat \ {0}
        /\ Len(Loops(cmd)) \in Nat /\ LoopsOf(cmd) = 1..Len(Loops(cmd))
        /\ \A l \in LoopsOf(cmd) : l \in Nat /\ Fee[Loops(cmd)[l]] \in Nat
        /\ began \in Nat /\ ok \in [LoopsOf(cmd) -> Nat]
        /\ fail \in [LoopsOf(cmd) -> Nat] /\ spent \in [LoopsOf(cmd) -> Int]
    BY <1>1, LoopFacts DEF Started, LoopsOf
  <1>4. paid \in Nat
    BY DEF BatchInv, ChainInv
  <1>5. pc = "roll" /\ i = cmd.n + 1
    BY <1>0, <1>1, <1>3 DEF EndLoop
  <1>6. PICK cost : cost = IF Simulates(p) THEN 0 ELSE paid - began
    OBVIOUS
  <1>7. cost \in Int /\ (cmd.name = "cost" => cost = paid - began)
    <2>1. cost = IF cmd.name # "cost" THEN 0 ELSE paid - began
      BY <1>1, <1>6, Zenon DEF Simulates
    <2>2. paid - began \in Int /\ 0 \in Int
      BY <1>3, <1>4
    <2>3. CASE cmd.name = "cost"
      BY <2>1, <2>2, <2>3, Zenon
    <2>4. CASE cmd.name # "cost"
      BY <2>1, <2>2, <2>4, Zenon
    <2> QED BY <2>3, <2>4
  <1>8. PICK loop2 : loop2 = IF loop < Len(Loops(cmd)) THEN loop + 1 ELSE loop
    OBVIOUS
  <1>9. PICK pc2 : pc2 = IF loop < Len(Loops(cmd)) THEN "loop" ELSE "exit"
    OBVIOUS
  <1>10. PICK spent2 : spent2 = [spent EXCEPT ![loop] = cost]
    OBVIOUS
  <1>11. PICK next : next = WithEnd(r, spent2, loop2, pc2)
    OBVIOUS
  <1>12. Set(p, next) /\ UNCHANGED <<vars, paid, pending>>
    BY <1>1, <1>6, <1>8, <1>9, <1>10, <1>11, Zenon DEF EndLoop, WithEnd
  <1>13. next = ProcRecord(pc2, cmd, loop2, i, began, snapshot, ok, fail, spent2)
    BY <1>2, <1>11, ProcEnd
  <1>14. /\ next.pc = pc2 /\ next.cmd = cmd /\ next.loop = loop2 /\ next.i = i
         /\ next.began = began /\ next.snapshot = snapshot /\ next.ok = ok
         /\ next.fail = fail /\ next.spent = spent2
    BY <1>13, ProcFields
  <1>15. \/ loop < Len(Loops(cmd)) /\ loop2 = loop + 1 /\ pc2 = "loop"
         \/ loop = Len(Loops(cmd)) /\ loop2 = loop /\ pc2 = "exit"
    BY <1>3, <1>8, <1>9
  <1>16. /\ spent2 \in [LoopsOf(cmd) -> Int] /\ spent2[loop] = cost
         /\ \A l \in LoopsOf(cmd) : l # loop => spent2[l] = spent[l]
    BY <1>3, <1>7, <1>10
  <1>17. Started(p, next)
    <2>1. next = ProcRecord(next.pc, next.cmd, next.loop, next.i, next.began,
                   next.snapshot, next.ok, next.fail, next.spent)
      BY <1>13, <1>14, Zenon
    <2>2. loop2 \in LoopsOf(cmd)
      BY <1>3, <1>15
    <2> QED BY <1>3, <1>5, <1>14, <1>15, <1>16, <2>1, <2>2 DEF Started
  <1>18. \A l \in LoopsOf(cmd) : Ended(next, l) = Ended(r, l) /\ Begun(next, l) = Begun(r, l)
    BY <1>1, <1>3, <1>5, <1>14, <1>15, SMTT(30) DEF Ended, Begun
  <1>19. Counted(p, next)
    BY <1>1, <1>5, <1>14, <1>15, <1>18 DEF Counted
  <1>20. \A l \in Over(next) : l \in LoopsOf(cmd) /\ (l \in Over(r) \/ l = loop)
    BY <1>1, <1>3, <1>5, <1>14, <1>15 DEF Over
  <1>21. Priced(p, next)
    <2>1. ASSUME cmd.name = "cost" PROVE cost >= Price(next, loop, ok[loop])
      <3>1. PICK c : c = Cardinality(LandedOf(p, loop, cmd.n))
        OBVIOUS
      <3>2. Ended(r, loop) = cmd.n
        BY <1>1, <1>3, <1>5 DEF Ended
      <3>3. ok[loop] <= c /\ ok[loop] \in Nat
        BY <1>1, <1>3, <3>1, <3>2 DEF Counted
      <3>4. LandedOf(p, loop, cmd.n) \subseteq MemosOf(p, loop, cmd.n)
        BY DEF LandedOf
      <3>5. c \in Nat
        BY <1>3, <3>1, <3>4, MemosFinite
      <3>6. paid >= began + Price(r, loop, c)
        BY <1>1, <1>5, <2>1, <3>1 DEF Priced
      <3>7. PICK fee \in Nat : fee = Fee[Loops(cmd)[loop]]
        BY <1>3
      <3>8. ok[loop] * fee <= c * fee /\ ok[loop] * fee \in Nat /\ c * fee \in Nat
        BY <3>3, <3>5, MorePrice
      <3>9. paid >= began + c * fee
        BY <1>1, <3>6, <3>7 DEF Price
      <3>10. cost >= ok[loop] * fee
        BY <1>3, <1>4, <1>7, <2>1, <3>8, <3>9
      <3> QED BY <1>14, <3>7, <3>10 DEF Price
    <2>2. cmd.name = "cost" => \A l \in Over(r) : spent[l] >= Price(next, l, ok[l])
      BY <1>1, <1>14 DEF Priced, Price
    <2>3. cmd.name = "cost" => \A l \in Over(next) : spent2[l] >= Price(next, l, ok[l])
      BY <1>16, <1>20, <2>1, <2>2
    <2> QED BY <1>14, <1>15, <2>3 DEF Priced
  <1>22. Alone(p) => Exact(p, next)
    <2> SUFFICES ASSUME Alone(p), cmd.name = "cost",
                        \A l \in LoopsOf(cmd) : fail[l] = 0
                 PROVE  /\ pending = {}
                        /\ \A l \in Over(next) : spent2[l] = Price(next, l, ok[l])
      BY <1>14, <1>15 DEF Exact
    <2>1. /\ pending = {} /\ paid = began + Price(r, loop, ok[loop])
          /\ \A l \in Over(r) : spent[l] = Price(r, l, ok[l])
      BY <1>1, <1>5 DEF Exact
    <2>2. PICK price : price = Price(r, loop, ok[loop])
      OBVIOUS
    <2>3. price \in Nat
      BY <1>1, <1>3, <2>2, MorePrice DEF Price
    <2>4. cost = price
      BY <1>3, <1>4, <1>7, <2>1, <2>2, <2>3
    <2>5. \A l : Price(next, l, ok[l]) = Price(r, l, ok[l])
      BY <1>1, <1>14 DEF Price
    <2> QED BY <1>16, <1>20, <2>1, <2>2, <2>4, <2>5
  <1>23. \A l \in LoopsOf(r.cmd) : Begun(r, l) <= Begun(next, l)
    BY <1>1, <1>18, BegunNat
  <1> QED BY <1>0, <1>1, <1>12, <1>14, <1>17, <1>19, <1>21, <1>22, <1>23, QuietStep

LEMMA MoreLanded ==
    ASSUME NEW p, NEW loop, NEW k \in Nat, NEW n \in Nat, k <= n
    PROVE  /\ LandedOf(p, loop, k) \subseteq LandedOf(p, loop, n)
           /\ Cardinality(LandedOf(p, loop, k)) \in Nat
           /\ Cardinality(LandedOf(p, loop, n)) \in Nat
           /\ Cardinality(LandedOf(p, loop, k)) <= Cardinality(LandedOf(p, loop, n))
  <1>1. PICK S, T : S = LandedOf(p, loop, k) /\ T = LandedOf(p, loop, n)
    OBVIOUS
  <1>2. S \subseteq T
    BY <1>1, MoreMemos DEF LandedOf
  <1>3. S \subseteq MemosOf(p, loop, k) /\ T \subseteq MemosOf(p, loop, n)
    BY <1>1 DEF LandedOf
  <1>4. IsFiniteSet(T) /\ Cardinality(T) \in Nat /\ Cardinality(S) \in Nat
    BY <1>3, MemosFinite
  <1>5. Cardinality(S) <= Cardinality(T)
    BY <1>2, <1>4, FS_Subset
  <1> QED BY <1>1, <1>2, <1>4, <1>5

LEMMA ThrowPreserves ==
    ASSUME BatchInv, NEW p \in Processes, Throw(p)
    PROVE  BatchInv'
  <1>0. proc[p].pc # "idle" /\ proc[p].pc \in {"loop", "roll"}
    BY DEF Throw
  <1>1. PICK r, pc, cmd, loop, i, began, snapshot, ok, fail, spent :
             /\ r = proc[p]
             /\ r = ProcRecord(pc, cmd, loop, i, began, snapshot, ok, fail, spent)
             /\ r.pc = pc /\ r.cmd = cmd /\ r.loop = loop /\ r.i = i
             /\ r.began = began /\ r.ok = ok /\ r.fail = fail /\ r.spent = spent
             /\ Started(p, r) /\ OnlyBegun(p, r) /\ Counted(p, r) /\ Priced(p, r)
             /\ Alone(p) => Exact(p, r)
    BY <1>0, Known
  <1>2. r = ProcRecord(pc, cmd, loop, i, began, snapshot, ok, fail, spent)
    BY <1>1
  <1>3. /\ cmd \in Commands[p] /\ loop \in LoopsOf(cmd)
        /\ i \in 1..cmd.n + 1 /\ cmd.n \in Nat \ {0}
        /\ Len(Loops(cmd)) \in Nat /\ LoopsOf(cmd) = 1..Len(Loops(cmd))
        /\ \A l \in LoopsOf(cmd) : l \in Nat /\ Fee[Loops(cmd)[l]] \in Nat
        /\ began \in Nat /\ ok \in [LoopsOf(cmd) -> Nat]
        /\ fail \in [LoopsOf(cmd) -> Nat] /\ spent \in [LoopsOf(cmd) -> Int]
    BY <1>1, LoopFacts DEF Started, LoopsOf
  <1>4. paid \in Nat
    BY DEF BatchInv, ChainInv
  <1>5. PICK next : next = WithPc(r, "threw")
    OBVIOUS
  <1>6. Set(p, next) /\ UNCHANGED <<vars, paid, pending>>
    BY <1>1, <1>5 DEF Throw, WithPc
  <1>7. next = ProcRecord("threw", cmd, loop, i, began, snapshot, ok, fail, spent)
    BY <1>2, <1>5, ProcPc
  <1>8. /\ next.pc = "threw" /\ next.cmd = cmd /\ next.loop = loop /\ next.i = i
        /\ next.began = began /\ next.snapshot = snapshot /\ next.ok = ok
        /\ next.fail = fail /\ next.spent = spent
    BY <1>7, ProcFields
  <1>9. Started(p, next)
    <2>1. next = ProcRecord(next.pc, next.cmd, next.loop, next.i, next.began,
                   next.snapshot, next.ok, next.fail, next.spent)
      BY <1>7, <1>8, Zenon
    <2> QED BY <1>3, <1>8, <2>1 DEF Started
  <1>10. \A l \in LoopsOf(cmd) : Ended(r, l) <= Ended(next, l) /\ Begun(r, l) <= Begun(next, l)
    BY <1>0, <1>1, <1>3, <1>8 DEF Ended, Begun
  <1>11. Counted(p, next)
    <2>1. ASSUME NEW l \in LoopsOf(cmd)
          PROVE  ok[l] <= Cardinality(LandedOf(p, l, Ended(next, l)))
      <3>1. Ended(r, l) \in Nat /\ Ended(next, l) \in Nat
        BY <1>1, <1>8, <1>9, <2>1, BegunNat, <1>3, SMTT(30)
      <3>2. PICK a, b : /\ a = Cardinality(LandedOf(p, l, Ended(r, l)))
                        /\ b = Cardinality(LandedOf(p, l, Ended(next, l)))
        OBVIOUS
      <3>3. a \in Nat /\ b \in Nat /\ a <= b
        BY <1>10, <3>1, <3>2, MoreLanded
      <3>4. ok[l] <= a /\ ok[l] \in Nat
        BY <1>1, <1>3, <2>1, <3>2 DEF Counted
      <3> QED BY <3>2, <3>3, <3>4
    <2> QED BY <1>8, <2>1 DEF Counted
  <1>12. Over(next) = Over(r)
    BY <1>0, <1>1, <1>8 DEF Over
  <1>13. Priced(p, next) /\ (Alone(p) => Exact(p, next))
    <2>1. \A l, n : Price(next, l, n) = Price(r, l, n)
      BY <1>1, <1>8 DEF Price
    <2>2. Priced(p, next)
      BY <1>1, <1>8, <1>12, <2>1 DEF Priced
    <2>3. Alone(p) => Exact(p, next)
      BY <1>1, <1>8, <1>12, <2>1 DEF Exact
    <2> QED BY <2>2, <2>3
  <1> QED BY <1>0, <1>1, <1>6, <1>8, <1>9, <1>10, <1>11, <1>13, QuietStep

-----------------------------------------------------------------------------
(* An iteration ends.                                                      *)

\* The set of landed memos grows by the memo of an iteration that landed.
LEMMA OneMoreLanded ==
    ASSUME NEW p, NEW loop, NEW i \in Nat \ {0}, Landed(MemoOf(p, loop, i))
    PROVE  Cardinality(LandedOf(p, loop, i))
             = Cardinality(LandedOf(p, loop, i - 1)) + 1
  <1>1. PICK k \in Nat : k + 1 = i /\ k = i - 1
    OBVIOUS
  <1>2. PICK S : S = LandedOf(p, loop, k)
    OBVIOUS
  <1>3. PICK m : m = MemoOf(p, loop, k + 1)
    OBVIOUS
  <1>4. LandedOf(p, loop, i) = S \cup {m} /\ m \notin S
    BY <1>1, <1>2, <1>3, MoreMemos DEF LandedOf
  <1>5. IsFiniteSet(S)
    BY <1>2, MemosFinite DEF LandedOf
  <1> QED BY <1>1, <1>2, <1>4, <1>5, FS_AddElement

\* The next record, if only the counters change.
LEMMA IterationInv ==
    ASSUME NEW p \in Processes, NEW r, Started(p, r), Counted(p, r), Priced(p, r),
           r.pc \in {"roll", "sent", "verify"}, r.i <= r.cmd.n, NEW next,
           next = ProcRecord("roll", r.cmd, r.loop, r.i + 1, r.began, r.snapshot,
                             next.ok, next.fail, r.spent),
           next.ok \in [LoopsOf(r.cmd) -> Nat], next.fail \in [LoopsOf(r.cmd) -> Nat],
           \A l \in LoopsOf(r.cmd) \ {r.loop} :
              next.ok[l] = r.ok[l] /\ next.fail[l] = r.fail[l],
           next.ok[r.loop] + next.fail[r.loop] = r.ok[r.loop] + r.fail[r.loop] + 1,
           \/ next.ok[r.loop] = r.ok[r.loop]
           \/ /\ next.ok[r.loop] = r.ok[r.loop] + 1
              /\ Landed(MemoOf(p, r.loop, r.i))
    PROVE  /\ Started(p, next) /\ Counted(p, next) /\ Priced(p, next)
           /\ next.cmd = r.cmd /\ next.pc = "roll" /\ Over(next) = Over(r)
           /\ next.loop = r.loop /\ next.began = r.began /\ next.spent = r.spent
           /\ \A l \in LoopsOf(r.cmd) : Begun(r, l) <= Begun(next, l)
  <1>1. /\ next.pc = "roll" /\ next.cmd = r.cmd /\ next.loop = r.loop
        /\ next.i = r.i + 1 /\ next.began = r.began /\ next.snapshot = r.snapshot
        /\ next.spent = r.spent
    BY ProcFields
  <1>2. /\ r.cmd.n \in Nat \ {0} /\ r.i \in 1..r.cmd.n /\ r.loop \in LoopsOf(r.cmd)
        /\ \A l \in LoopsOf(r.cmd) : l \in Nat
    BY LoopFacts, SMTT(30) DEF Started
  <1>3. Started(p, next)
    <2>1. next = ProcRecord(next.pc, next.cmd, next.loop, next.i, next.began,
                   next.snapshot, next.ok, next.fail, next.spent)
      BY <1>1, Zenon
    <2>2. r.i + 1 \in 1..r.cmd.n + 1
      BY <1>2
    <2> QED BY <1>1, <1>2, <2>1, <2>2 DEF Started
  <1>4. \A l \in LoopsOf(r.cmd) : l # r.loop =>
           Ended(next, l) = Ended(r, l) /\ Begun(next, l) = Begun(r, l)
    BY <1>1, <1>2 DEF Ended, Begun
  <1>5. Ended(r, r.loop) = r.i - 1 /\ Ended(next, r.loop) = r.i
    BY <1>1, <1>2 DEF Ended
  <1>6. Begun(r, r.loop) <= Begun(next, r.loop)
    BY <1>1, <1>2, <1>5 DEF Begun
  <1>7. Over(next) = Over(r)
    BY <1>1 DEF Over
  <1>8. Counted(p, next)
    <2>1. ASSUME NEW l \in LoopsOf(r.cmd)
          PROVE  /\ next.ok[l] <= Cardinality(LandedOf(p, l, Ended(next, l)))
                 /\ next.ok[l] + next.fail[l] = Ended(next, l)
      <3>1. /\ r.ok[l] <= Cardinality(LandedOf(p, l, Ended(r, l)))
            /\ r.ok[l] + r.fail[l] = Ended(r, l)
        BY DEF Counted
      <3>2. CASE l # r.loop
        BY <1>4, <3>1, <3>2
      <3>3. CASE l = r.loop
        <4>1. PICK k : k = r.i - 1
          OBVIOUS
        <4>2. k \in Nat /\ r.i \in Nat \ {0} /\ k <= r.i
          BY <1>2, <4>1
        <4>3. PICK a, b : /\ a = Cardinality(LandedOf(p, r.loop, k))
                          /\ b = Cardinality(LandedOf(p, r.loop, r.i))
          OBVIOUS
        <4>4. a \in Nat /\ b \in Nat /\ a <= b
          BY <4>2, <4>3, MoreLanded
        <4>5. Landed(MemoOf(p, r.loop, r.i)) => b = a + 1
          BY <4>1, <4>2, <4>3, OneMoreLanded
        <4>6. r.ok[r.loop] <= a /\ r.ok[r.loop] + r.fail[r.loop] = k
          BY <1>5, <3>1, <3>3, <4>1, <4>3
        <4>7. r.ok[r.loop] \in Nat /\ r.fail[r.loop] \in Nat
          BY <1>2 DEF Started
        <4>8. next.ok[r.loop] <= b
          BY <4>4, <4>5, <4>6, <4>7
        <4> QED BY <1>2, <1>5, <3>3, <4>1, <4>3, <4>6, <4>7, <4>8
      <3> QED BY <3>2, <3>3
    <2> QED BY <1>1, <2>1 DEF Counted
  <1>9. Priced(p, next)
    <2> SUFFICES ASSUME r.cmd.name = "cost"
                 PROVE  /\ paid >= r.began + Price(r, r.loop,
                              Cardinality(LandedOf(p, r.loop, r.cmd.n)))
                        /\ \A l \in Over(r) : r.spent[l] >= Price(next, l, next.ok[l])
      BY <1>1, <1>7 DEF Priced, Price
    <2>1. \A l \in Over(r) : next.ok[l] = r.ok[l]
      BY <1>2 DEF Over
    <2> QED BY <1>1, <2>1 DEF Priced, Price
  <1> QED BY <1>1, <1>3, <1>4, <1>6, <1>7, <1>8, <1>9, BegunNat

LEMMA PassedPreserves ==
    ASSUME BatchInv, NEW p \in Processes,
           proc[p].pc \in {"roll", "sent", "verify"},
           proc[p].i <= proc[p].cmd.n, UNCHANGED <<vars, paid, pending>>,
           Landed(Memo(p)), Passed(p)
    PROVE  BatchInv'
  <1>0. proc[p].pc # "idle"
    OBVIOUS
  <1>1. PICK r, pc, cmd, loop, i, began, snapshot, ok, fail, spent :
             /\ r = proc[p]
             /\ r = ProcRecord(pc, cmd, loop, i, began, snapshot, ok, fail, spent)
             /\ r.pc = pc /\ r.cmd = cmd /\ r.loop = loop /\ r.i = i
             /\ r.began = began /\ r.ok = ok /\ r.fail = fail /\ r.spent = spent
             /\ Started(p, r) /\ OnlyBegun(p, r) /\ Counted(p, r) /\ Priced(p, r)
             /\ Alone(p) => Exact(p, r)
    BY <1>0, Known
  <1>2. r = ProcRecord(pc, cmd, loop, i, began, snapshot, ok, fail, spent)
    BY <1>1
  <1>3. /\ cmd \in Commands[p] /\ loop \in LoopsOf(cmd)
        /\ i \in 1..cmd.n + 1 /\ cmd.n \in Nat \ {0}
        /\ Len(Loops(cmd)) \in Nat /\ LoopsOf(cmd) = 1..Len(Loops(cmd))
        /\ \A l \in LoopsOf(cmd) : l \in Nat /\ Fee[Loops(cmd)[l]] \in Nat
        /\ began \in Nat /\ ok \in [LoopsOf(cmd) -> Nat]
        /\ fail \in [LoopsOf(cmd) -> Nat] /\ spent \in [LoopsOf(cmd) -> Int]
    BY <1>1, LoopFacts DEF Started, LoopsOf
  <1>4. paid \in Nat
    BY DEF BatchInv, ChainInv
  <1>5. pc \in {"roll", "sent", "verify"} /\ i \in 1..cmd.n
    BY <1>1, <1>3
  <1>6. PICK ok2 : ok2 = [ok EXCEPT ![loop] = ok[loop] + 1]
    OBVIOUS
  <1>7. PICK next : next = WithPass(r, ok2, i + 1, "roll")
    OBVIOUS
  <1>8. Set(p, next)
    BY <1>1, <1>6, <1>7, Zenon DEF Passed, WithPass
  <1>9. next = ProcRecord("roll", cmd, loop, i + 1, began, snapshot, ok2, fail, spent)
    BY <1>2, <1>7, ProcPass
  <1>10. next.ok = ok2 /\ next.fail = fail
    BY <1>9, ProcFields
  <1>11. /\ ok2 \in [LoopsOf(cmd) -> Nat] /\ ok2[loop] = ok[loop] + 1
         /\ \A l \in LoopsOf(cmd) : l # loop => ok2[l] = ok[l]
    BY <1>3, <1>6
  <1>12. Landed(MemoOf(p, loop, i))
    BY <1>1 DEF Memo
  <1>13. ok2[loop] + fail[loop] = ok[loop] + fail[loop] + 1
    BY <1>3, <1>11
  <1>14. r.snapshot = snapshot
    BY <1>2, ProcFields
  <1>15. next = ProcRecord("roll", r.cmd, r.loop, r.i + 1, r.began, r.snapshot,
                           next.ok, next.fail, r.spent)
    BY <1>1, <1>9, <1>10, <1>14, Zenon
  <1>16. /\ Started(p, next) /\ Counted(p, next) /\ Priced(p, next)
         /\ next.cmd = cmd /\ next.pc = "roll" /\ Over(next) = Over(r)
         /\ next.loop = loop /\ next.began = began /\ next.spent = spent
         /\ \A l \in LoopsOf(cmd) : Begun(r, l) <= Begun(next, l)
    <2>1. Started(p, r) /\ Counted(p, r) /\ Priced(p, r)
      BY <1>1
    <2>2. r.pc \in {"roll", "sent", "verify"} /\ r.i <= r.cmd.n
      BY <1>1
    <2>3. /\ next.ok \in [LoopsOf(r.cmd) -> Nat]
          /\ next.fail \in [LoopsOf(r.cmd) -> Nat]
      BY <1>1, <1>3, <1>10, <1>11
    <2>4. \A l \in LoopsOf(r.cmd) \ {r.loop} :
             next.ok[l] = r.ok[l] /\ next.fail[l] = r.fail[l]
      BY <1>1, <1>10, <1>11
    <2>5. next.ok[r.loop] + next.fail[r.loop] = r.ok[r.loop] + r.fail[r.loop] + 1
      BY <1>1, <1>10, <1>13
    <2>6. \/ next.ok[r.loop] = r.ok[r.loop]
          \/ /\ next.ok[r.loop] = r.ok[r.loop] + 1
             /\ Landed(MemoOf(p, r.loop, r.i))
      BY <1>1, <1>10, <1>11, <1>12
    <2>7. /\ Started(p, next) /\ Counted(p, next) /\ Priced(p, next)
          /\ next.cmd = r.cmd /\ next.pc = "roll" /\ Over(next) = Over(r)
          /\ next.loop = r.loop /\ next.began = r.began /\ next.spent = r.spent
          /\ \A l \in LoopsOf(r.cmd) : Begun(r, l) <= Begun(next, l)
      BY <1>15, <2>1, <2>2, <2>3, <2>4, <2>5, <2>6, IterationInv
    <2> QED BY <1>1, <2>7
  <1>17. Alone(p) => Exact(p, next)
    <2> SUFFICES ASSUME Alone(p), cmd.name = "cost",
                        \A l \in LoopsOf(cmd) : fail[l] = 0
                 PROVE  /\ pending = {}
                        /\ paid = began + Price(next, loop, ok2[loop])
                        /\ \A l \in Over(r) : spent[l] = Price(next, l, ok2[l])
      BY <1>10, <1>16 DEF Exact
    <2>1. Exact(p, r) /\ pc # "verify"
      BY <1>1 DEF Priced
    <2>2. \A l, n : Price(next, l, n) = Price(r, l, n)
      BY <1>1, <1>16 DEF Price
    <2>3. \A l \in Over(r) : spent[l] = Price(r, l, ok2[l])
      <3>1. \A l \in Over(r) : spent[l] = Price(r, l, ok[l])
        BY <1>1, <2>1 DEF Exact
      <3>2. \A l \in Over(r) : l \in LoopsOf(cmd) /\ l # loop
        BY <1>1, <1>3, <1>5 DEF Over
      <3> QED BY <1>11, <3>1, <3>2
    <2>4. pending = {} /\ paid = began + Price(r, loop, ok[loop] + 1)
      <3>1. CASE pc = "roll"
        <4>1. ~Seen(MemoOf(p, loop, i))
          <5>1. Begun(r, loop) = i - 1
            BY <1>1, <1>3, <3>1 DEF Begun, Ended
          <5> QED BY <1>1, <1>3, <5>1 DEF OnlyBegun
        <4> QED BY <1>12, <4>1 DEF Seen
      <3>2. CASE pc = "sent"
        BY <1>1, <1>12, <2>1, <3>2 DEF Exact
      <3> QED BY <1>5, <2>1, <3>1, <3>2
    <2> QED BY <1>11, <2>2, <2>3, <2>4
  <1> QED BY <1>0, <1>1, <1>8, <1>16, <1>17, QuietStep

LEMMA FailedPreserves ==
    ASSUME BatchInv, NEW p \in Processes,
           proc[p].pc \in {"roll", "sent", "verify"},
           proc[p].i <= proc[p].cmd.n, UNCHANGED <<vars, paid, pending>>,
           Failed(p)
    PROVE  BatchInv'
  <1>0. proc[p].pc # "idle"
    OBVIOUS
  <1>1. PICK r, pc, cmd, loop, i, began, snapshot, ok, fail, spent :
             /\ r = proc[p]
             /\ r = ProcRecord(pc, cmd, loop, i, began, snapshot, ok, fail, spent)
             /\ r.pc = pc /\ r.cmd = cmd /\ r.loop = loop /\ r.i = i
             /\ r.began = began /\ r.ok = ok /\ r.fail = fail /\ r.spent = spent
             /\ Started(p, r) /\ OnlyBegun(p, r) /\ Counted(p, r) /\ Priced(p, r)
             /\ Alone(p) => Exact(p, r)
    BY <1>0, Known
  <1>2. r = ProcRecord(pc, cmd, loop, i, began, snapshot, ok, fail, spent)
    BY <1>1
  <1>3. /\ cmd \in Commands[p] /\ loop \in LoopsOf(cmd)
        /\ i \in 1..cmd.n + 1 /\ cmd.n \in Nat \ {0}
        /\ Len(Loops(cmd)) \in Nat /\ LoopsOf(cmd) = 1..Len(Loops(cmd))
        /\ \A l \in LoopsOf(cmd) : l \in Nat /\ Fee[Loops(cmd)[l]] \in Nat
        /\ began \in Nat /\ ok \in [LoopsOf(cmd) -> Nat]
        /\ fail \in [LoopsOf(cmd) -> Nat] /\ spent \in [LoopsOf(cmd) -> Int]
    BY <1>1, LoopFacts DEF Started, LoopsOf
  <1>4. paid \in Nat
    BY DEF BatchInv, ChainInv
  <1>5. pc \in {"roll", "sent", "verify"} /\ i \in 1..cmd.n
    BY <1>1, <1>3
  <1>6. PICK fail2 : fail2 = [fail EXCEPT ![loop] = fail[loop] + 1]
    OBVIOUS
  <1>7. PICK next : next = WithFail(r, fail2, i + 1, "roll")
    OBVIOUS
  <1>8. Set(p, next)
    BY <1>1, <1>6, <1>7, Zenon DEF Failed, WithFail
  <1>9. next = ProcRecord("roll", cmd, loop, i + 1, began, snapshot, ok, fail2, spent)
    BY <1>2, <1>7, ProcFail
  <1>10. next.ok = ok /\ next.fail = fail2
    BY <1>9, ProcFields
  <1>11. /\ fail2 \in [LoopsOf(cmd) -> Nat] /\ fail2[loop] = fail[loop] + 1
         /\ \A l \in LoopsOf(cmd) : l # loop => fail2[l] = fail[l]
    BY <1>3, <1>6
  <1>12. ok[loop] + fail2[loop] = ok[loop] + fail[loop] + 1
    BY <1>3, <1>11
  <1>13. r.snapshot = snapshot
    BY <1>2, ProcFields
  <1>14. next = ProcRecord("roll", r.cmd, r.loop, r.i + 1, r.began, r.snapshot,
                           next.ok, next.fail, r.spent)
    BY <1>1, <1>9, <1>10, <1>13, Zenon
  <1>15. /\ Started(p, next) /\ Counted(p, next) /\ Priced(p, next)
         /\ next.cmd = cmd
         /\ \A l \in LoopsOf(cmd) : Begun(r, l) <= Begun(next, l)
    <2>1. Started(p, r) /\ Counted(p, r) /\ Priced(p, r)
      BY <1>1
    <2>2. r.pc \in {"roll", "sent", "verify"} /\ r.i <= r.cmd.n
      BY <1>1
    <2>3. /\ next.ok \in [LoopsOf(r.cmd) -> Nat]
          /\ next.fail \in [LoopsOf(r.cmd) -> Nat]
      BY <1>1, <1>3, <1>10, <1>11
    <2>4. \A l \in LoopsOf(r.cmd) \ {r.loop} :
             next.ok[l] = r.ok[l] /\ next.fail[l] = r.fail[l]
      BY <1>1, <1>10, <1>11
    <2>5. next.ok[r.loop] + next.fail[r.loop] = r.ok[r.loop] + r.fail[r.loop] + 1
      BY <1>1, <1>10, <1>12
    <2>6. \/ next.ok[r.loop] = r.ok[r.loop]
          \/ /\ next.ok[r.loop] = r.ok[r.loop] + 1
             /\ Landed(MemoOf(p, r.loop, r.i))
      BY <1>1, <1>10, <1>11
    <2>7. /\ Started(p, next) /\ Counted(p, next) /\ Priced(p, next)
          /\ next.cmd = r.cmd /\ next.pc = "roll" /\ Over(next) = Over(r)
          /\ next.loop = r.loop /\ next.began = r.began /\ next.spent = r.spent
          /\ \A l \in LoopsOf(r.cmd) : Begun(r, l) <= Begun(next, l)
      BY <1>14, <2>1, <2>2, <2>3, <2>4, <2>5, <2>6, IterationInv
    <2> QED BY <1>1, <2>7
  <1>16. fail2[loop] # 0
    BY <1>3, <1>11
  <1>17. Exact(p, next)
    BY <1>3, <1>10, <1>15, <1>16 DEF Exact
  <1> QED BY <1>0, <1>1, <1>8, <1>15, <1>17, QuietStep

-----------------------------------------------------------------------------
(* The awaits of an iteration.                                             *)

LEMMA SendPreserves ==
    ASSUME BatchInv, NEW p \in Processes, proc[p].pc = "roll",
           proc[p].i <= proc[p].cmd.n,
           pending' = pending \cup {[memo |-> Memo(p), mode |-> Mode(p)]},
           Set(p, [proc[p] EXCEPT !.pc = "sent", !.snapshot = file]),
           UNCHANGED <<vars, paid>>
    PROVE  BatchInv'
  <1>0. proc[p].pc # "idle"
    OBVIOUS
  <1>1. PICK r, pc, cmd, loop, i, began, snapshot, ok, fail, spent :
             /\ r = proc[p]
             /\ r = ProcRecord(pc, cmd, loop, i, began, snapshot, ok, fail, spent)
             /\ r.pc = pc /\ r.cmd = cmd /\ r.loop = loop /\ r.i = i
             /\ r.began = began /\ r.ok = ok /\ r.fail = fail /\ r.spent = spent
             /\ Started(p, r) /\ OnlyBegun(p, r) /\ Counted(p, r) /\ Priced(p, r)
             /\ Alone(p) => Exact(p, r)
    BY <1>0, Known
  <1>2. r = ProcRecord(pc, cmd, loop, i, began, snapshot, ok, fail, spent)
    BY <1>1
  <1>3. /\ cmd \in Commands[p] /\ loop \in LoopsOf(cmd)
        /\ i \in 1..cmd.n + 1 /\ cmd.n \in Nat \ {0}
        /\ Len(Loops(cmd)) \in Nat /\ LoopsOf(cmd) = 1..Len(Loops(cmd))
        /\ \A l \in LoopsOf(cmd) : l \in Nat /\ Fee[Loops(cmd)[l]] \in Nat
        /\ began \in Nat /\ ok \in [LoopsOf(cmd) -> Nat]
        /\ fail \in [LoopsOf(cmd) -> Nat] /\ spent \in [LoopsOf(cmd) -> Int]
    BY <1>1, LoopFacts DEF Started, LoopsOf
  <1>4. paid \in Nat
    BY DEF BatchInv, ChainInv
  <1>5. pc = "roll" /\ i \in 1..cmd.n
    BY <1>1, <1>3
  <1>6. PICK next : next = WithSent(r, "sent", file)
    OBVIOUS
  <1>7. Set(p, next)
    BY <1>1, <1>6, Zenon DEF WithSent
  <1>8. next = ProcRecord("sent", cmd, loop, i, began, file, ok, fail, spent)
    BY <1>2, <1>6, ProcSent
  <1>9. /\ next.pc = "sent" /\ next.cmd = cmd /\ next.loop = loop /\ next.i = i
        /\ next.began = began /\ next.snapshot = file /\ next.ok = ok
        /\ next.fail = fail /\ next.spent = spent
    BY <1>8, ProcFields
  <1>10. Started(p, next)
    <2>1. next = ProcRecord(next.pc, next.cmd, next.loop, next.i, next.began,
                   next.snapshot, next.ok, next.fail, next.spent)
      BY <1>8, <1>9, Zenon
    <2> QED BY <1>3, <1>5, <1>9, <2>1 DEF Started
  <1>11. \A l \in LoopsOf(cmd) : Ended(next, l) = Ended(r, l)
    BY <1>1, <1>5, <1>9 DEF Ended
  <1>12. /\ Begun(r, loop) = i - 1 /\ Begun(next, loop) = i
         /\ \A l \in LoopsOf(cmd) : l # loop => Begun(next, l) = Begun(r, l)
    BY <1>1, <1>3, <1>5, <1>9, <1>11 DEF Begun, Ended
  <1>13. Counted(p, next)
    BY <1>1, <1>5, <1>9, <1>11 DEF Counted
  <1>14. Over(next) = Over(r)
    BY <1>1, <1>5, <1>9 DEF Over
  <1>15. \A l, n : Price(next, l, n) = Price(r, l, n)
    BY <1>1, <1>9 DEF Price
  <1>16. Priced(p, next)
    BY <1>1, <1>5, <1>9, <1>14, <1>15 DEF Priced
  <1> DEFINE m == MemoOf(p, loop, i)
  <1>17. PICK new : new = [memo |-> m, mode |-> Loops(cmd)[loop]]
    OBVIOUS
  <1>18. new.memo = m /\ pending' = pending \cup {new}
    BY <1>1, <1>17 DEF Memo, Mode
  <1>19. ~Seen(m)
    BY <1>1, <1>3, <1>12 DEF OnlyBegun
  <1>20. Sends(p, next, new)
    <2>1. IsTxOf(p, next, new)
      <3>1. i \in 1..Begun(next, loop)
        BY <1>3, <1>12
      <3> QED BY <1>3, <1>9, <1>17, <3>1 DEF IsTxOf
    <2> QED BY <1>18, <1>19, <2>1 DEF Sends
  <1>21. Continues(r, next)
    <2>1. ASSUME NEW l \in LoopsOf(r.cmd) PROVE Begun(r, l) <= Begun(next, l)
      <3>1. Begun(r, l) \in Nat
        BY <1>1, BegunNat, <1>3
      <3>2. CASE l = loop
        BY <1>3, <1>12, <3>2
      <3>3. CASE l # loop
        <4>1. Begun(next, l) = Begun(r, l)
          BY <1>1, <1>12, <3>3
        <4> QED BY <3>1, <4>1
      <3> QED BY <3>2, <3>3
    <2> QED BY <1>1, <1>9, <2>1 DEF Continues
  <1>22. \A memo : Landed(memo)' <=> Landed(memo)
    BY DEF vars, Landed
  <1>23. OnlyBegun(p, next)'
    <2>1. \A memo : Seen(memo)' => Seen(memo) \/ memo = m
      BY <1>18, <1>22 DEF Seen
    <2>2. ASSUME NEW l \in Nat, NEW j \in Nat, Seen(MemoOf(p, l, j))'
          PROVE  l \in LoopsOf(cmd) /\ j <= Begun(next, l)
      <3>1. CASE Seen(MemoOf(p, l, j))
        <4>1. l \in LoopsOf(cmd) /\ j <= Begun(r, l)
          BY <1>1, <3>1 DEF OnlyBegun
        <4>2. CASE l = loop
          BY <1>3, <1>12, <4>1, <4>2
        <4>3. CASE l # loop
          <5>1. Begun(next, l) = Begun(r, l)
            BY <1>12, <4>1, <4>3
          <5> QED BY <4>1, <5>1
        <4> QED BY <4>2, <4>3
      <3>2. CASE MemoOf(p, l, j) = m
        <4>1. l = loop /\ j = i
          BY <3>2, MemosDiffer
        <4> QED BY <1>3, <1>12, <4>1
      <3> QED BY <2>1, <2>2, <3>1, <3>2
    <2> QED BY <1>9, <2>2 DEF OnlyBegun
  <1>24. Alone(p) => Exact(p, next)'
    <2> SUFFICES ASSUME Alone(p), cmd.name = "cost",
                        \A l \in LoopsOf(cmd) : fail[l] = 0
                 PROVE  Exact(p, next)'
      BY <1>9 DEF Exact
    <2>1. /\ pending = {} /\ paid = began + Price(r, loop, ok[loop])
          /\ \A l \in Over(r) : spent[l] = Price(r, l, ok[l])
      BY <1>1, <1>5 DEF Exact
    <2>2. (\A tx \in pending : tx.memo = m)'
      BY <1>18, <2>1
    <2>3. ~Landed(m)'
      BY <1>19, <1>22 DEF Seen
    <2>4. (paid = began + Price(next, loop, ok[loop]))'
      BY <1>15, <2>1 DEF Price
    <2>5. (\A l \in Over(next) : spent[l] = Price(next, l, ok[l]))'
      BY <1>14, <1>15, <2>1 DEF Over, Price
    <2> QED BY <1>9, <2>2, <2>3, <2>4, <2>5 DEF Exact
  <1> QED BY <1>1, <1>7, <1>9, <1>10, <1>13, <1>16, <1>20, <1>21, <1>23, <1>24, ProcStep

LEMMA BuildPreserves ==
    ASSUME BatchInv, NEW p \in Processes, Build(p)
    PROVE  BatchInv'
  <1>1. /\ proc[p].pc = "roll" /\ proc[p].i <= proc[p].cmd.n
        /\ UNCHANGED <<vars, paid>>
    BY DEF Build
  <1>2. CASE /\ pending' = pending \cup {[memo |-> Memo(p), mode |-> Mode(p)]}
             /\ Set(p, [proc[p] EXCEPT !.pc = "sent", !.snapshot = file])
    BY <1>1, <1>2, SendPreserves
  <1>3. CASE Failed(p) /\ UNCHANGED pending
    BY <1>1, <1>3, FailedPreserves
  <1> QED BY <1>2, <1>3, Zenon DEF Build

LEMMA InFlight ==
    ASSUME BatchInv, NEW p \in Processes, proc[p].pc \in {"sent", "verify"}
    PROVE  proc[p].i <= proc[p].cmd.n
  BY DEF BatchInv, ProcInv, Started

LEMMA VerifyBeginPreserves ==
    ASSUME BatchInv, NEW p \in Processes, proc[p].pc = "sent", Landed(Memo(p)),
           Simulates(p), Set(p, [proc[p] EXCEPT !.pc = "verify"]),
           UNCHANGED <<vars, paid, pending>>
    PROVE  BatchInv'
  <1>0. proc[p].pc # "idle"
    OBVIOUS
  <1>1. PICK r, pc, cmd, loop, i, began, snapshot, ok, fail, spent :
             /\ r = proc[p]
             /\ r = ProcRecord(pc, cmd, loop, i, began, snapshot, ok, fail, spent)
             /\ r.pc = pc /\ r.cmd = cmd /\ r.loop = loop /\ r.i = i
             /\ r.began = began /\ r.ok = ok /\ r.fail = fail /\ r.spent = spent
             /\ Started(p, r) /\ OnlyBegun(p, r) /\ Counted(p, r) /\ Priced(p, r)
             /\ Alone(p) => Exact(p, r)
    BY <1>0, Known
  <1>2. r = ProcRecord(pc, cmd, loop, i, began, snapshot, ok, fail, spent)
    BY <1>1
  <1>3. /\ cmd \in Commands[p] /\ loop \in LoopsOf(cmd)
        /\ i \in 1..cmd.n + 1 /\ cmd.n \in Nat \ {0}
        /\ Len(Loops(cmd)) \in Nat /\ LoopsOf(cmd) = 1..Len(Loops(cmd))
        /\ \A l \in LoopsOf(cmd) : l \in Nat /\ Fee[Loops(cmd)[l]] \in Nat
        /\ began \in Nat /\ ok \in [LoopsOf(cmd) -> Nat]
        /\ fail \in [LoopsOf(cmd) -> Nat] /\ spent \in [LoopsOf(cmd) -> Int]
    BY <1>1, LoopFacts DEF Started, LoopsOf
  <1>4. paid \in Nat
    BY DEF BatchInv, ChainInv
  <1>5. pc = "sent" /\ i \in 1..cmd.n /\ cmd.name # "cost"
    <2>1. pc = "sent" /\ cmd.name # "cost"
      BY <1>1 DEF Simulates
    <2>2. i <= cmd.n
      BY <1>1, InFlight
    <2> QED BY <1>3, <2>1, <2>2
  <1>6. PICK next : next = WithPc(r, "verify")
    OBVIOUS
  <1>7. Set(p, next)
    BY <1>1, <1>6, Zenon DEF WithPc
  <1>8. next = ProcRecord("verify", cmd, loop, i, began, snapshot, ok, fail, spent)
    BY <1>2, <1>6, ProcPc
  <1>9. /\ next.pc = "verify" /\ next.cmd = cmd /\ next.loop = loop /\ next.i = i
        /\ next.began = began /\ next.snapshot = snapshot /\ next.ok = ok
        /\ next.fail = fail /\ next.spent = spent
    BY <1>8, ProcFields
  <1>10. Started(p, next)
    <2>1. next = ProcRecord(next.pc, next.cmd, next.loop, next.i, next.began,
                   next.snapshot, next.ok, next.fail, next.spent)
      BY <1>8, <1>9, Zenon
    <2> QED BY <1>3, <1>5, <1>9, <2>1 DEF Started
  <1>11. \A l \in LoopsOf(cmd) : Ended(next, l) = Ended(r, l) /\ Begun(next, l) = Begun(r, l)
    BY <1>1, <1>5, <1>9 DEF Ended, Begun
  <1>12. Landed(MemoOf(p, loop, i))
    BY <1>1 DEF Memo
  <1>13. Counted(p, next)
    BY <1>1, <1>5, <1>9, <1>11, <1>12 DEF Counted
  <1>14. Priced(p, next) /\ Exact(p, next)
    BY <1>5, <1>9 DEF Priced, Exact
  <1>15. \A l \in LoopsOf(r.cmd) : Begun(r, l) <= Begun(next, l)
    BY <1>1, <1>11, BegunNat
  <1> QED BY <1>0, <1>1, <1>7, <1>9, <1>10, <1>13, <1>14, <1>15, QuietStep

LEMMA AwaitPreserves ==
    ASSUME BatchInv, NEW p \in Processes, Confirm(p) \/ Reject(p) \/ Verify(p)
    PROVE  BatchInv'
  <1>1. /\ UNCHANGED <<vars, paid, pending>>
        /\ proc[p].pc \in {"sent", "verify"}
    BY Zenon DEF Confirm, Reject, Verify
  <1>2. proc[p].i <= proc[p].cmd.n
    BY <1>1, InFlight
  <1>3. CASE Failed(p)
    BY <1>1, <1>2, <1>3, FailedPreserves
  <1>4. CASE Confirm(p)
    <2>1. proc[p].pc = "sent" /\ Landed(Memo(p))
      BY <1>4, OnChainIsLanded DEF Confirm, BatchInv
    <2>2. CASE Simulates(p)
      BY <1>1, <1>4, <2>1, <2>2, VerifyBeginPreserves DEF Confirm
    <2>3. CASE ~Simulates(p)
      BY <1>1, <1>2, <1>4, <2>1, <2>3, PassedPreserves DEF Confirm
    <2> QED BY <2>2, <2>3
  <1>5. CASE Verify(p) /\ Passed(p)
    <2>1. Landed(Memo(p))
      BY <1>5 DEF Verify, BatchInv, ProcInv, Counted, Memo
    <2> QED BY <1>1, <1>2, <1>5, <2>1, PassedPreserves
  <1> QED BY <1>3, <1>4, <1>5, Zenon DEF Reject, Verify

LEMMA StartPreserves ==
    ASSUME BatchInv, NEW p \in Processes, NEW cmd \in Commands[p], Start(p, cmd)
    PROVE  BatchInv'
  <1>1. /\ proc[p].pc = "idle" /\ UNCHANGED <<vars, pending, paid>>
    BY DEF Start
  <1>2. PICK zeros : zeros = Zeros(cmd)
    OBVIOUS
  <1>3. PICK next : next = ProcRecord("loop", cmd, 1, 1, 0, {}, zeros, zeros, zeros)
    OBVIOUS
  <1>4. Set(p, next)
    BY <1>2, <1>3, Zenon DEF Start, ProcRecord
  <1>5. /\ next.pc = "loop" /\ next.cmd = cmd /\ next.loop = 1 /\ next.i = 1
        /\ next.began = 0 /\ next.snapshot = {} /\ next.ok = zeros
        /\ next.fail = zeros /\ next.spent = zeros
    BY <1>3, ProcFields
  <1>6. /\ cmd.n \in Nat \ {0} /\ 1 \in LoopsOf(cmd)
        /\ \A l \in LoopsOf(cmd) : l \in Nat \ {0}
        /\ DOMAIN Loops(cmd) = LoopsOf(cmd)
    BY LoopFacts
  <1>7. zeros = [l \in LoopsOf(cmd) |-> 0]
    BY <1>2, <1>6 DEF Zeros
  <1>8. Started(p, next)
    <2>1. next = ProcRecord(next.pc, next.cmd, next.loop, next.i, next.began,
                   next.snapshot, next.ok, next.fail, next.spent)
      BY <1>3, <1>5, Zenon
    <2>2. zeros \in [LoopsOf(cmd) -> Nat] /\ zeros \in [LoopsOf(cmd) -> Int]
      BY <1>7
    <2> QED BY <1>5, <1>6, <2>1, <2>2 DEF Started
  <1>9. \A l \in LoopsOf(cmd) : Ended(next, l) = 0
    BY <1>5, <1>6 DEF Ended
  <1>10. Counted(p, next)
    <2>1. \A l : Cardinality(LandedOf(p, l, 0)) = 0
      BY MoreMemos, FS_EmptySet DEF LandedOf
    <2> QED BY <1>5, <1>7, <1>9, <2>1 DEF Counted
  <1>11. Over(next) = {}
    BY <1>5, <1>6 DEF Over
  <1>12. Priced(p, next)
    BY <1>5, <1>11 DEF Priced
  <1>13. \A loop, j \in Nat : ~Seen(MemoOf(p, loop, j))
    BY <1>1 DEF BatchInv, ProcInv
  <1>14. OnlyBegun(p, next)'
    <2>1. \A m : Seen(m)' <=> Seen(m)
      BY <1>1 DEF Seen, Landed, vars
    <2> QED BY <1>13, <2>1 DEF OnlyBegun
  <1>15. Alone(p) => Exact(p, next)'
    <2>1. Alone(p) => pending = {}
      BY <1>1 DEF Alone, BatchInv, ChainInv
    <2>2. Alone(p) => pending' = {}
      BY <1>1, <2>1
    <2>3. Over(next)' = {}
      BY <1>11 DEF Over
    <2> QED BY <1>5, <2>2, <2>3 DEF Exact
  <1>16. PICK r : r = proc[p]
    OBVIOUS
  <1>17. Continues(r, next)
    BY <1>1, <1>16 DEF Continues
  <1>18. PICK new : Sends(p, next, new)
    BY <1>1 DEF Sends
  <1> QED BY <1>1, <1>4, <1>8, <1>10, <1>12, <1>14, <1>15, <1>16, <1>17, <1>18, ProcStep

-----------------------------------------------------------------------------
(* The chain.                                                              *)

\* A transaction is of a process that was started.
LEMMA Owner ==
    ASSUME BatchInv, NEW tx \in pending
    PROVE  \E q \in Processes : \E loop \in LoopsOf(proc[q].cmd) :
           \E j \in 1..Begun(proc[q], loop) :
              /\ proc[q].pc # "idle" /\ Started(q, proc[q])
              /\ tx.memo = MemoOf(q, loop, j)
              /\ tx.mode = Loops(proc[q].cmd)[loop]
              /\ tx = [memo |-> tx.memo, mode |-> tx.mode]
              /\ Fee[tx.mode] \in Nat
              /\ loop \in Nat /\ j \in Nat
              /\ tx.memo \in Memos /\ tx.mode \in Bodies
  <1>1. PICK q \in Processes : proc[q].pc # "idle" /\ IsTxOf(q, proc[q], tx)
    BY DEF BatchInv, ChainInv
  <1>2. PICK r : r = proc[q]
    OBVIOUS
  <1>3. Started(q, r)
    BY <1>1, <1>2 DEF BatchInv, ProcInv
  <1>4. PICK loop \in LoopsOf(r.cmd) : \E j \in 1..Begun(r, loop) :
              /\ tx.memo = MemoOf(q, loop, j)
              /\ tx.mode = Loops(r.cmd)[loop]
              /\ tx = [memo |-> tx.memo, mode |-> tx.mode]
              /\ loop \in Nat /\ j \in Nat
    BY <1>1, <1>2, <1>3, TxMemo
  <1>5. PICK j \in 1..Begun(r, loop) :
              /\ tx.memo = MemoOf(q, loop, j)
              /\ tx.mode = Loops(r.cmd)[loop]
              /\ tx = [memo |-> tx.memo, mode |-> tx.mode]
              /\ loop \in Nat /\ j \in Nat
    BY <1>4
  <1>6. /\ Fee[Loops(r.cmd)[loop]] \in Nat /\ Loops(r.cmd)[loop] \in Modes
        /\ DOMAIN Loops(r.cmd) = LoopsOf(r.cmd) /\ r.cmd \in Commands[q]
        /\ r.cmd.n \in Nat
    BY <1>3, LoopFacts DEF Started
  <1>7. j \in 1..r.cmd.n
    BY <1>3, <1>5, <1>6, BegunNat
  <1>8. tx.memo \in Memos
    BY <1>4, <1>5, <1>6, <1>7, BatchAssumption
  <1>9. tx.mode \in Bodies
    BY <1>5, <1>6, BatchAssumption DEF Modes
  <1> QED BY <1>1, <1>2, <1>3, <1>4, <1>5, <1>6, <1>8, <1>9

\* What a process counts and what it paid for, when a transaction settles.
LEMMA SettleCounts ==
    ASSUME BatchInv, NEW tx \in pending, paid' \in Nat,
           \/ /\ \A m : Landed(m)' <=> (Landed(m) \/ m = tx.memo)
              /\ paid' = paid + Fee[tx.mode]
           \/ /\ \A m : Landed(m)' <=> Landed(m)
              /\ paid' >= paid,
           NEW p \in Processes, NEW r, r = proc[p], r.pc # "idle"
    PROVE  Counted(p, r)' /\ Priced(p, r)'
  <1>1. Started(p, r) /\ Counted(p, r) /\ Priced(p, r) /\ OnlyBegun(p, r)
    BY DEF BatchInv, ProcInv
  <1>2. \A m : Landed(m) => Landed(m)'
    OBVIOUS
  <1>3. /\ r.cmd.n \in Nat \ {0} /\ r.loop \in LoopsOf(r.cmd)
        /\ \A l \in LoopsOf(r.cmd) : l \in Nat /\ Fee[Loops(r.cmd)[l]] \in Nat
        /\ r.ok \in [LoopsOf(r.cmd) -> Nat] /\ r.began \in Nat
    BY <1>1, LoopFacts DEF Started
  <1>4. paid \in Nat
    BY DEF BatchInv, ChainInv
  <1>5. Counted(p, r)'
    <2>1. ASSUME NEW l \in LoopsOf(r.cmd)
          PROVE  r.ok[l] <= Cardinality(LandedOf(p, l, Ended(r, l))')
      <3>1. PICK S, T, n : /\ S = LandedOf(p, l, n) /\ T = LandedOf(p, l, n)'
                           /\ n = Ended(r, l)
        OBVIOUS
      <3>2. n \in Nat
        BY <1>1, <1>3, <3>1, BegunNat
      <3>3. S \subseteq T /\ T \subseteq MemosOf(p, l, n)
        BY <1>2, <3>1 DEF LandedOf
      <3>4. IsFiniteSet(T) /\ Cardinality(T) \in Nat
        BY <3>2, <3>3, MemosFinite
      <3>5. Cardinality(S) <= Cardinality(T) /\ Cardinality(S) \in Nat
        BY <3>2, <3>3, <3>4, FS_Subset, MemosFinite
      <3>6. r.ok[l] <= Cardinality(S) /\ r.ok[l] \in Nat
        BY <1>1, <1>3, <3>1 DEF Counted
      <3>7. r.ok[l] <= Cardinality(T)
        BY <3>4, <3>5, <3>6
      <3> QED BY <3>1, <3>7
    <2> QED BY <1>1, <1>2, <2>1 DEF Counted
  <1>6. Priced(p, r)'
    <2>1. ASSUME r.cmd.name = "cost", r.pc \in {"roll", "sent"}
          PROVE  paid' >= r.began + Price(r, r.loop,
                              Cardinality(LandedOf(p, r.loop, r.cmd.n)'))
      <3>1. PICK S, T, fee : /\ S = LandedOf(p, r.loop, r.cmd.n)
                             /\ T = LandedOf(p, r.loop, r.cmd.n)'
                             /\ fee = Fee[Loops(r.cmd)[r.loop]]
        OBVIOUS
      <3>2. S \subseteq MemosOf(p, r.loop, r.cmd.n) /\ fee \in Nat
        BY <1>3, <3>1 DEF LandedOf
      <3>3. IsFiniteSet(S) /\ Cardinality(S) \in Nat
        BY <1>3, <3>2, MemosFinite
      <3>4. PICK c : c = Cardinality(S)
        OBVIOUS
      <3>5. paid >= r.began + c * fee /\ c * fee \in Nat /\ (c + 1) * fee = c * fee + fee
        BY <1>1, <2>1, <3>1, <3>2, <3>3, <3>4, MorePrice DEF Priced, Price
      <3>6. CASE T = S
        <4>1. paid' >= paid
          BY <1>4, Owner
        <4>2. paid' >= r.began + c * fee
          BY <1>3, <1>4, <3>5, <4>1
        <4> QED BY <3>1, <3>4, <3>6, <4>2 DEF Price
      <3>7. CASE T # S
        <4>1. /\ tx.memo \in MemosOf(p, r.loop, r.cmd.n) /\ T = S \cup {tx.memo}
              /\ paid' = paid + Fee[tx.mode]
          <5>1. PICK m : m \in T /\ m \notin S
            BY <1>2, <3>1, <3>7 DEF LandedOf
          <5>2. m \in MemosOf(p, r.loop, r.cmd.n) /\ Landed(m)' /\ ~Landed(m)
            BY <3>1, <5>1 DEF LandedOf
          <5>3. /\ \A n : Landed(n)' <=> (Landed(n) \/ n = tx.memo)
                /\ paid' = paid + Fee[tx.mode] /\ m = tx.memo
            BY <5>2
          <5> QED BY <3>1, <5>2, <5>3 DEF LandedOf
        <4>2. Fee[tx.mode] = fee
          <5>1. PICK q \in Processes : \E loop \in LoopsOf(proc[q].cmd) :
                  \E j \in 1..Begun(proc[q], loop) :
                    /\ tx.memo = MemoOf(q, loop, j)
                    /\ tx.mode = Loops(proc[q].cmd)[loop]
            BY Owner
          <5>2. PICK loop \in LoopsOf(proc[q].cmd) :
                  \E j \in 1..Begun(proc[q], loop) :
                    /\ tx.memo = MemoOf(q, loop, j)
                    /\ tx.mode = Loops(proc[q].cmd)[loop]
            BY <5>1
          <5>3. q = p /\ loop = r.loop
            BY <4>1, <5>2, MemosDiffer DEF MemosOf
          <5> QED BY <3>1, <5>2, <5>3
        <4>3. Cardinality(T) = c \/ Cardinality(T) = c + 1
          BY <3>3, <3>4, <4>1, FS_AddElement
        <4>4. paid' = paid + fee
          BY <4>1, <4>2
        <4>5. paid' >= r.began + Cardinality(T) * fee
          <5>1. CASE Cardinality(T) = c
            BY <1>3, <1>4, <3>2, <3>5, <4>4, <5>1
          <5>2. CASE Cardinality(T) = c + 1
            <6>1. paid' >= r.began + (c * fee + fee)
              BY <1>3, <1>4, <3>2, <3>5, <4>4
            <6> QED BY <3>5, <5>2, <6>1
          <5> QED BY <4>3, <5>1, <5>2
        <4> QED BY <3>1, <4>5 DEF Price
      <3> QED BY <3>6, <3>7
    <2> QED BY <1>1, <2>1 DEF Priced, Price
  <1> QED BY <1>5, <1>6

\* What a lone process paid exactly, when its transaction settles.
LEMMA SettleExact ==
    ASSUME BatchInv, NEW tx \in pending, pending' = pending \ {tx},
           \/ /\ \A m : Landed(m)' <=> (Landed(m) \/ m = tx.memo)
              /\ paid' = paid + Fee[tx.mode]
           \/ \A m : Landed(m)' <=> Landed(m),
           NEW p \in Processes, NEW r, r = proc[p], r.pc # "idle", Alone(p)
    PROVE  Exact(p, r)'
  <1> SUFFICES ASSUME r.cmd.name = "cost", \A l \in LoopsOf(r.cmd) : r.fail[l] = 0
               PROVE  Exact(p, r)'
    BY DEF Exact
  <1>1. Started(p, r) /\ Exact(p, r) /\ Priced(p, r)
    BY DEF BatchInv, ProcInv
  <1>2. r.pc \notin {"loop", "roll", "exit"}
    BY <1>1 DEF Exact
  <1>3. CASE r.pc = "sent"
    <2> DEFINE m == MemoOf(p, r.loop, r.i)
    <2>1. PICK fee, k : /\ fee = Fee[Loops(r.cmd)[r.loop]]
                        /\ k = r.ok[r.loop]
      OBVIOUS
    <2>2. /\ \A other \in pending : other.memo = m
          /\ ~Landed(m)
          /\ paid = r.began + Price(r, r.loop, k)
      BY <1>1, <1>3, <2>1 DEF Exact
    <2>3. tx.memo = m /\ \A other \in pending : other = tx
      BY <2>2 DEF BatchInv, ChainInv
    <2>4. pending' = {}
      BY <2>3
    <2>5. CASE Landed(m)'
      <3>1. paid' = paid + Fee[tx.mode]
        BY <2>2, <2>5
      <3>2. Fee[tx.mode] = fee
        <4>1. PICK q \in Processes : \E loop \in LoopsOf(proc[q].cmd) :
                \E j \in 1..Begun(proc[q], loop) :
                  /\ tx.memo = MemoOf(q, loop, j)
                  /\ tx.mode = Loops(proc[q].cmd)[loop]
          BY Owner
        <4>2. PICK loop \in LoopsOf(proc[q].cmd) :
                \E j \in 1..Begun(proc[q], loop) :
                  /\ tx.memo = MemoOf(q, loop, j)
                  /\ tx.mode = Loops(proc[q].cmd)[loop]
          BY <4>1
        <4>3. PICK j \in 1..Begun(proc[q], loop) : tx.memo = MemoOf(q, loop, j)
          BY <4>2
        <4>4. MemoOf(q, loop, j) = MemoOf(p, r.loop, r.i)
          BY <2>3, <4>3
        <4>5. q = p /\ loop = r.loop
          BY <4>4 DEF MemoOf
        <4> QED BY <2>1, <4>2, <4>5
      <3>3. k \in Nat /\ fee \in Nat /\ r.began \in Nat
        BY <1>1, <2>1, LoopFacts DEF Started
      <3>4. (k + 1) * fee = k * fee + fee /\ k * fee \in Nat
        BY <3>3, MorePrice
      <3>5. paid = r.began + k * fee
        BY <2>1, <2>2 DEF Price
      <3>6. paid' = r.began + (k + 1) * fee
        BY <3>1, <3>2, <3>3, <3>4, <3>5
      <3>7. paid' = r.began + Price(r, r.loop, r.ok[r.loop] + 1)
        BY <2>1, <3>6 DEF Price
      <3> QED BY <1>1, <1>3, <2>4, <2>5, <3>7 DEF Exact, Price
    <2>6. CASE ~Landed(m)'
      BY <1>1, <1>3, <2>4, <2>6 DEF Exact, Price
    <2> QED BY <2>5, <2>6
  <1>4. CASE r.pc # "sent"
    BY <1>1, <1>2, <1>4 DEF Exact, Price
  <1> QED BY <1>3, <1>4

LEMMA Settle ==
    ASSUME BatchInv, NEW tx \in pending, pending' = pending \ {tx},
           UNCHANGED proc, paid' \in Nat,
           \/ /\ \A m : Landed(m)' <=> (Landed(m) \/ m = tx.memo)
              /\ paid' = paid + Fee[tx.mode]
           \/ /\ \A m : Landed(m)' <=> Landed(m)
              /\ paid' >= paid,
           authorities' \subseteq Authority, commits' \subseteq Commit,
           log' \in Seq(Commit),
           \A j, k \in DOMAIN log' : log'[j].memo = log'[k].memo => j = k
    PROVE  BatchInv'
  <1>1. ChainInv'
    <2>1. \A other \in pending' : other.memo # tx.memo /\ ~Landed(other.memo)
      BY DEF BatchInv, ChainInv
    <2>2. (\A other \in pending : ~Landed(other.memo))'
      BY <2>1
    <2>3. (\A a, b \in pending : a.memo = b.memo => a = b)'
      BY DEF BatchInv, ChainInv
    <2>4. (\A a \in pending : \E q \in Processes :
             proc[q].pc # "idle" /\ IsTxOf(q, proc[q], a))'
      BY DEF BatchInv, ChainInv
    <2>5. (/\ authorities \subseteq Authority
           /\ commits \subseteq Commit
           /\ log \in Seq(Commit)
           /\ paid \in Nat
           /\ \A j, k \in DOMAIN log : log[j].memo = log[k].memo => j = k)'
      OBVIOUS
    <2> QED BY <2>2, <2>3, <2>4, <2>5, Zenon DEF ChainInv
  <1>2. \A m : Seen(m)' => Seen(m)
    BY DEF Seen
  <1>3. ASSUME NEW p \in Processes
        PROVE  ProcInv(p)'
    <2>1. PICK r : r = proc[p] /\ proc'[p] = r
      OBVIOUS
    <2>2. CASE r.pc = "idle"
      <3>1. (\A loop, j \in Nat : ~Seen(MemoOf(p, loop, j)))'
        BY <1>2, <2>1, <2>2 DEF BatchInv, ProcInv
      <3> QED BY <2>1, <2>2, <3>1 DEF ProcInv
    <2>3. CASE r.pc # "idle"
      <3>1. Started(p, r) /\ OnlyBegun(p, r)
        BY <2>1, <2>3 DEF BatchInv, ProcInv
      <3>2. OnlyBegun(p, r)'
        BY <1>2, <3>1, Zenon DEF OnlyBegun
      <3>3. Counted(p, r)' /\ Priced(p, r)'
        BY <2>1, <2>3, SettleCounts
      <3>4. Alone(p)' => Exact(p, r)'
        <4>1. Alone(p)' => Alone(p)
          BY DEF Alone
        <4> QED BY <2>1, <2>3, <4>1, SettleExact
      <3> QED BY <2>1, <2>3, <3>1, <3>2, <3>3, <3>4, Zenon DEF ProcInv
    <2> QED BY <2>2, <2>3
  <1>4. DOMAIN proc' = Processes
    BY DEF BatchInv
  <1> QED BY <1>1, <1>3, <1>4, Zenon DEF BatchInv

\* An authority's entry is a commit of its memo.
LEMMA EntryIsCommit ==
    ASSUME NEW a \in Authority, NEW m \in Memos, NEW b \in Bodies
    PROVE  Entry(a, m, b) \in Commit /\ Entry(a, m, b).memo = m
  BY DEF Authority, Commit, Entry

\* A transaction that lands is of a memo that did not land before.
LEMMA LandPreserves ==
    ASSUME BatchInv, NEW tx \in pending, Land(tx)
    PROVE  BatchInv'
  <1>1. PICK m, mode : m = tx.memo /\ mode = tx.mode
    OBVIOUS
  <1>2. m \in Memos /\ mode \in Bodies /\ Fee[mode] \in Nat
    BY <1>1, Owner
  <1>3. /\ authorities \subseteq Authority /\ commits \subseteq Commit
        /\ log \in Seq(Commit) /\ paid \in Nat
        /\ \A j, k \in DOMAIN log : log[j].memo = log[k].memo => j = k
        /\ ~Landed(m)
    BY <1>1 DEF BatchInv, ChainInv
  <1>4. pending' = pending \ {tx} /\ UNCHANGED proc
    BY DEF Land
  <1>5. FailedFee \in Nat
    BY BatchAssumption
  <1>6. ASSUME NEW a \in authorities, Log(a, m, mode), paid' = paid + Fee[mode]
        PROVE  BatchInv'
    <2>1. PICK e : e = Entry(a, m, mode)
      OBVIOUS
    <2>2. e \in Commit /\ e.memo = m
      BY <1>2, <1>3, <2>1, EntryIsCommit
    <2>3. log' = Append(log, e) /\ UNCHANGED <<authorities, commits>>
      BY <1>6, <2>1 DEF Log
    <2>4. PICK s : s = log
      OBVIOUS
    <2>5. PICK t : t = Append(s, e)
      OBVIOUS
    <2>6. /\ t \in Seq(Commit) /\ DOMAIN t = DOMAIN s \cup {Len(s) + 1}
          /\ \A k \in DOMAIN s : t[k] = s[k]
          /\ t[Len(s) + 1] = e /\ Len(s) + 1 \notin DOMAIN s
      BY <1>3, <2>2, <2>4, <2>5, AppendProperties, LenProperties
    <2>7. log' = t
      BY <2>3, <2>4, <2>5
    <2>8. \A k \in DOMAIN s : s[k].memo # m
      BY <1>3, <2>4 DEF Landed
    <2>9. \A j, k \in DOMAIN t : t[j].memo = t[k].memo => j = k
      BY <1>3, <2>2, <2>4, <2>6, <2>8
    <2>10. \A n : Landed(n)' <=> (Landed(n) \/ n = tx.memo)
      <3> SUFFICES ASSUME NEW n
                   PROVE  (\/ \E c \in commits : c.memo = n
                           \/ \E k \in DOMAIN t : t[k].memo = n)
                          <=> (Landed(n) \/ n = m)
        BY <1>1, <2>3, <2>7 DEF Landed
      <3>1. (\E k \in DOMAIN t : t[k].memo = n)
              <=> ((\E k \in DOMAIN s : s[k].memo = n) \/ n = m)
        BY <2>2, <2>6
      <3> QED BY <2>4, <3>1 DEF Landed
    <2>11. /\ authorities' \subseteq Authority /\ commits' \subseteq Commit
           /\ log' \in Seq(Commit) /\ paid' \in Nat /\ paid' = paid + Fee[tx.mode]
           /\ \A j, k \in DOMAIN log' : log'[j].memo = log'[k].memo => j = k
      BY <1>1, <1>2, <1>3, <1>6, <2>3, <2>6, <2>7, <2>9
    <2> QED BY <1>4, <2>10, <2>11, Settle
  <1>7. ASSUME NEW a \in authorities, Register(a, m, mode), paid' = paid + Fee[mode]
        PROVE  BatchInv'
    <2>1. PICK e : e = Entry(a, m, mode)
      OBVIOUS
    <2>2. e \in Commit /\ e.memo = m
      BY <1>2, <1>3, <2>1, EntryIsCommit
    <2>3. commits' = commits \cup {e} /\ UNCHANGED <<authorities, log>>
      BY <1>7, <2>1 DEF Register
    <2>4. \A n : Landed(n)' <=> (Landed(n) \/ n = tx.memo)
      BY <1>1, <2>2, <2>3 DEF Landed
    <2>5. /\ authorities' \subseteq Authority /\ commits' \subseteq Commit
          /\ log' \in Seq(Commit) /\ paid' \in Nat /\ paid' = paid + Fee[tx.mode]
          /\ \A j, k \in DOMAIN log' : log'[j].memo = log'[k].memo => j = k
      BY <1>1, <1>2, <1>3, <1>7, <2>2, <2>3
    <2> QED BY <1>4, <2>4, <2>5, Settle
  <1>8. ASSUME UNCHANGED vars, paid' = paid + FailedFee
        PROVE  BatchInv'
    <2>1. \A n : Landed(n)' <=> Landed(n)
      BY <1>8 DEF Landed, vars
    <2>2. /\ authorities' \subseteq Authority /\ commits' \subseteq Commit
          /\ log' \in Seq(Commit)
          /\ \A j, k \in DOMAIN log' : log'[j].memo = log'[k].memo => j = k
      BY <1>3, <1>8, Zenon DEF vars
    <2>3. paid' \in Nat /\ paid' >= paid
      BY <1>3, <1>5, <1>8
    <2> QED BY <1>4, <2>1, <2>2, <2>3, Settle
  <1> QED BY <1>1, <1>6, <1>7, <1>8 DEF Land

LEMMA DropPreserves ==
    ASSUME BatchInv, NEW tx \in pending, Drop(tx)
    PROVE  BatchInv'
  <1>1. pending' = pending \ {tx} /\ UNCHANGED <<vars, proc, paid>>
    BY DEF Drop
  <1>2. \A n : Landed(n)' <=> Landed(n)
    BY <1>1 DEF Landed, vars
  <1>3. /\ authorities \subseteq Authority /\ commits \subseteq Commit
        /\ log \in Seq(Commit) /\ paid \in Nat
        /\ \A j, k \in DOMAIN log : log[j].memo = log[k].memo => j = k
    BY DEF BatchInv, ChainInv
  <1>4. /\ authorities' \subseteq Authority /\ commits' \subseteq Commit
        /\ log' \in Seq(Commit) /\ paid' \in Nat
        /\ \A j, k \in DOMAIN log' : log'[j].memo = log'[k].memo => j = k
    BY <1>1, <1>3, Zenon DEF vars
  <1>5. paid' >= paid
    BY <1>1, <1>3
  <1> QED BY <1>1, <1>2, <1>4, <1>5, Settle

\* Authorities change; what landed and what is pending does not.
LEMMA AuthoritiesPreserve ==
    ASSUME BatchInv, authorities' \subseteq Authority,
           UNCHANGED <<commits, log, proc, pending, paid>>
    PROVE  BatchInv'
  <1>1. \A m : Landed(m)' <=> Landed(m)
    BY DEF Landed
  <1>2. \A m : Seen(m)' <=> Seen(m)
    BY <1>1 DEF Seen
  <1>3. ChainInv'
    <2>1. (/\ authorities \subseteq Authority
           /\ commits \subseteq Commit
           /\ log \in Seq(Commit)
           /\ paid \in Nat
           /\ \A j, k \in DOMAIN log : log[j].memo = log[k].memo => j = k)'
      BY Zenon DEF BatchInv, ChainInv
    <2>2. (/\ \A tx, other \in pending : tx.memo = other.memo => tx = other
           /\ \A tx \in pending : \E p \in Processes :
                 proc[p].pc # "idle" /\ IsTxOf(p, proc[p], tx))'
      BY Zenon DEF BatchInv, ChainInv
    <2>3. (\A tx \in pending : ~Landed(tx.memo))'
      BY <1>1, Zenon DEF BatchInv, ChainInv
    <2> QED BY <2>1, <2>2, <2>3, Zenon DEF ChainInv
  <1>4. ASSUME NEW p \in Processes
        PROVE  ProcInv(p)'
    <2>1. PICK r : r = proc[p] /\ proc'[p] = r
      BY Zenon
    <2>2. CASE r.pc = "idle"
      <3>1. (\A loop, j \in Nat : ~Seen(MemoOf(p, loop, j)))'
        BY <1>2, <2>1, <2>2 DEF BatchInv, ProcInv
      <3> QED BY <2>1, <2>2, <3>1 DEF ProcInv
    <2>3. CASE r.pc # "idle"
      <3>1. /\ Started(p, r) /\ OnlyBegun(p, r) /\ Counted(p, r) /\ Priced(p, r)
            /\ Alone(p) => Exact(p, r)
        BY <2>1, <2>3 DEF BatchInv, ProcInv
      <3>2. OnlyBegun(p, r)'
        BY <1>2, <3>1, Zenon DEF OnlyBegun
      <3>3. \A l, k : LandedOf(p, l, k)' = LandedOf(p, l, k)
        BY <1>1 DEF LandedOf
      <3>4. Counted(p, r)'
        BY <1>1, <3>1, <3>3, Zenon DEF Counted
      <3>5. Priced(p, r)'
        BY <3>1, <3>3, Zenon DEF Priced
      <3>6. Alone(p)' => Exact(p, r)'
        BY <1>1, <3>1, Zenon DEF Alone, Exact
      <3> QED BY <2>1, <2>3, <3>1, <3>2, <3>4, <3>5, <3>6, Zenon DEF ProcInv
    <2> QED BY <2>2, <2>3
  <1> QED BY <1>3, <1>4, Zenon DEF BatchInv

\* The operator's other commands leave the authorities authorities.
LEMMA ElsewherePreserves ==
    ASSUME BatchInv, Elsewhere
    PROVE  BatchInv'
  <1>1. UNCHANGED <<proc, pending, paid>>
    BY DEF Elsewhere
  <1>2. authorities \subseteq Authority
    BY DEF BatchInv, ChainInv
  <1>3. ASSUME NEW o \in Owners, NEW l \in Labels, NEW k \in Pks, Publish(o, l, k)
        PROVE  BatchInv'
    <2>1. \A f, r \in BOOLEAN :
             [owner |-> o, label |-> l, pk |-> k, frozen |-> f, revoked |-> r]
                \in Authority
      BY DEF Authority
    <2>2. [owner |-> o, label |-> l, pk |-> k, frozen |-> FALSE, revoked |-> FALSE]
             \in Authority
      BY <2>1, Zenon
    <2>3. authorities' \subseteq Authority /\ UNCHANGED <<commits, log>>
      BY <1>2, <1>3, <2>2, Zenon DEF Publish
    <2> QED BY <1>1, <2>3, AuthoritiesPreserve
  <1>4. ASSUME NEW a \in authorities, Freeze(a) \/ Revoke(a)
        PROVE  BatchInv'
    <2>1. \A x \in BOOLEAN : /\ [a EXCEPT !.frozen = x] \in Authority
                             /\ [a EXCEPT !.revoked = x] \in Authority
      <3> SUFFICES ASSUME NEW x \in BOOLEAN
                   PROVE  /\ [a EXCEPT !.frozen = x] \in Authority
                          /\ [a EXCEPT !.revoked = x] \in Authority
        OBVIOUS
      <3>1. a \in [owner: Owners, label: Labels, pk: Pks,
                   frozen: BOOLEAN, revoked: BOOLEAN]
        BY <1>2 DEF Authority
      <3> QED BY <3>1 DEF Authority
    <2>2. /\ [a EXCEPT !.frozen = TRUE] \in Authority
          /\ [a EXCEPT !.revoked = TRUE] \in Authority
      BY <2>1, Zenon
    <2>3. authorities' \subseteq Authority /\ UNCHANGED <<commits, log>>
      BY <1>2, <1>4, <2>2, Zenon DEF Freeze, Revoke
    <2> QED BY <1>1, <2>3, AuthoritiesPreserve
  <1> QED BY <1>3, <1>4, Zenon DEF Elsewhere

-----------------------------------------------------------------------------
(* The invariant, and the properties.                                      *)

LEMMA InitBatch == BatchInit => BatchInv
  <1> SUFFICES ASSUME BatchInit PROVE BatchInv
    OBVIOUS
  <1>1. /\ authorities = {} /\ commits = {} /\ log = <<>> /\ pending = {}
        /\ paid = 0 /\ proc = [p \in Processes |-> [pc |-> "idle"]]
    BY DEF BatchInit, Init
  <1>2. log \in Seq(Commit) /\ DOMAIN log = {}
    BY <1>1
  <1>3. \A m : ~Seen(m)
    BY <1>1, <1>2 DEF Seen, Landed
  <1>4. ChainInv
    BY <1>1, <1>2 DEF ChainInv
  <1>5. \A p \in Processes : proc[p].pc = "idle"
    BY <1>1
  <1> QED BY <1>1, <1>3, <1>4, <1>5 DEF BatchInv, ProcInv

LEMMA NextBatch == BatchInv /\ [BatchNext]_batchVars => BatchInv'
  <1> SUFFICES ASSUME BatchInv, [BatchNext]_batchVars PROVE BatchInv'
    OBVIOUS
  <1>1. CASE Elsewhere
    BY <1>1, ElsewherePreserves
  <1>2. ASSUME NEW tx \in pending, Land(tx) \/ Drop(tx)
        PROVE  BatchInv'
    BY <1>2, LandPreserves, DropPreserves
  <1>3. ASSUME NEW p \in Processes, NEW cmd \in Commands[p], Start(p, cmd)
        PROVE  BatchInv'
    BY <1>3, StartPreserves
  <1>4. ASSUME NEW p \in Processes, Step(p)
        PROVE  BatchInv'
    <2>1. CASE BeginLoop(p)
      BY <2>1, BeginLoopPreserves
    <2>2. CASE EndLoop(p)
      BY <2>2, EndLoopPreserves
    <2>3. CASE Throw(p)
      BY <2>3, ThrowPreserves
    <2>4. CASE Build(p)
      BY <2>4, BuildPreserves
    <2>5. CASE Confirm(p) \/ Reject(p) \/ Verify(p)
      BY <2>5, AwaitPreserves
    <2> QED BY <1>4, <2>1, <2>2, <2>3, <2>4, <2>5, Zenon DEF Step
  <1>5. CASE UNCHANGED batchVars
    <2>1. UNCHANGED <<authorities, commits, log, proc, pending, paid>>
      BY <1>5 DEF batchVars, vars
    <2>2. authorities' \subseteq Authority
      BY <2>1 DEF BatchInv, ChainInv
    <2> QED BY <2>1, <2>2, AuthoritiesPreserve
  <1> QED BY <1>1, <1>2, <1>3, <1>4, <1>5, Zenon DEF BatchNext

\* In every state of any number of batches, a memo that landed or is pending is
\* of an iteration that some batch began, no memo lands twice, and every batch's
\* counters agree with the chain and with the wallet (commands.ts:456-723).
THEOREM BatchInvariant == BatchSpec => []BatchInv
  <1>1. BatchInit => BatchInv
    BY InitBatch
  <1>2. BatchInv /\ [BatchNext]_batchVars => BatchInv'
    BY NextBatch
  <1> QED BY <1>1, <1>2, PTL DEF BatchSpec

LEMMA InvImpliesCounted == BatchInv => CountedRollsAreOnChain
  <1> SUFFICES ASSUME BatchInv, NEW p \in Running, NEW loop \in DOMAIN proc[p].ok
               PROVE  /\ proc[p].ok[loop] <= Cardinality(Committed(p, loop))
                      /\ ExitCode(p) = 0 =>
                            Cardinality(Committed(p, loop)) = proc[p].cmd.n
    BY DEF CountedRollsAreOnChain
  <1>1. PICK r : r = proc[p]
    OBVIOUS
  <1>2. p \in Processes /\ Started(p, r) /\ Counted(p, r)
    BY <1>1 DEF Running, BatchInv, ProcInv
  <1>3. /\ loop \in LoopsOf(r.cmd) /\ DOMAIN r.fail = LoopsOf(r.cmd)
        /\ r.ok \in [LoopsOf(r.cmd) -> Nat] /\ r.fail \in [LoopsOf(r.cmd) -> Nat]
    BY <1>1, <1>2 DEF Started
  <1>4. /\ r.cmd.n \in Nat \ {0} /\ loop \in Nat /\ r.loop \in LoopsOf(r.cmd)
        /\ r.loop \in Nat /\ Len(Loops(r.cmd)) \in Nat
        /\ loop <= Len(Loops(r.cmd))
    BY <1>2, <1>3, LoopFacts DEF Started, LoopsOf
  <1>5. PICK n, e, S, T : /\ n = r.cmd.n /\ e = Ended(r, loop)
                          /\ S = LandedOf(p, loop, e) /\ T = LandedOf(p, loop, n)
    OBVIOUS
  <1>6. n \in Nat /\ e \in Nat /\ e <= n
    BY <1>2, <1>3, <1>4, <1>5, BegunNat
  <1>7. S \subseteq T /\ T \subseteq MemosOf(p, loop, n)
    BY <1>5, <1>6, MoreMemos DEF LandedOf
  <1>8. IsFiniteSet(T) /\ Cardinality(T) \in Nat /\ Cardinality(T) <= n
    BY <1>6, <1>7, MemosFinite
  <1>9. Cardinality(S) <= Cardinality(T) /\ Cardinality(S) \in Nat
    BY <1>7, <1>8, FS_Subset, FS_CardinalityType
  <1>10. Committed(p, loop) = T
    BY <1>1, <1>5, OnChainIsLanded DEF Committed, LandedOf, MemosOf, BatchInv
  <1>11. r.ok[loop] \in Nat /\ r.ok[loop] <= Cardinality(S)
    BY <1>2, <1>3, <1>5 DEF Counted
  <1>12. r.ok[loop] <= Cardinality(T)
    BY <1>8, <1>9, <1>11
  <1>13. ASSUME ExitCode(p) = 0
         PROVE  Cardinality(T) = n
    <2>1. r.pc = "exit" /\ \A l \in LoopsOf(r.cmd) : r.fail[l] = 0
      BY <1>1, <1>3, <1>13 DEF ExitCode
    <2>2. r.loop = Len(Loops(r.cmd)) /\ r.i = r.cmd.n + 1
      BY <1>2, <2>1 DEF Started
    <2>3. e = n
      BY <1>4, <1>5, <2>1, <2>2 DEF Ended
    <2>4. r.ok[loop] + r.fail[loop] = e /\ r.fail[loop] = 0
      BY <1>2, <1>3, <1>5, <2>1 DEF Counted
    <2> QED BY <1>6, <1>8, <1>12, <1>11, <2>3, <2>4
  <1> QED BY <1>1, <1>5, <1>10, <1>12, <1>13

\* For any number of batches and rolls: a roll that is counted as passed or ok
\* is on chain, and the exit code 0 means that all rolls are.
THEOREM CountedHolds == BatchSpec => []CountedRollsAreOnChain
  BY BatchInvariant, InvImpliesCounted, PTL

LEMMA InvImpliesMeasured == BatchInv => CostIsMeasured
  <1> SUFFICES ASSUME BatchInv, NEW p \in Running, ExitCode(p) = 0, ~Simulates(p),
                      NEW loop \in DOMAIN proc[p].spent
               PROVE  LET price == proc[p].ok[loop] * Fee[Loops(proc[p].cmd)[loop]]
                      IN  /\ proc[p].spent[loop] >= price
                          /\ Running = {p} => proc[p].spent[loop] = price
    BY DEF CostIsMeasured
  <1>1. PICK r : r = proc[p]
    OBVIOUS
  <1>2. /\ p \in Processes /\ Started(p, r) /\ Priced(p, r)
        /\ Alone(p) => Exact(p, r)
    BY <1>1 DEF Running, BatchInv, ProcInv
  <1>3. /\ loop \in LoopsOf(r.cmd) /\ DOMAIN r.fail = LoopsOf(r.cmd)
        /\ r.cmd.name = "cost"
    BY <1>1, <1>2 DEF Started, Simulates
  <1>4. r.pc = "exit" /\ \A l \in LoopsOf(r.cmd) : r.fail[l] = 0
    BY <1>1, <1>3 DEF ExitCode
  <1>5. loop \in Over(r)
    BY <1>3, <1>4 DEF Over
  <1>6. r.spent[loop] >= Price(r, loop, r.ok[loop])
    BY <1>2, <1>3, <1>5 DEF Priced
  <1>7. Running = {p} => r.spent[loop] = Price(r, loop, r.ok[loop])
    <2>1. Running = {p} => Alone(p)
      BY DEF Running, Alone
    <2> QED BY <1>2, <1>3, <1>4, <1>5, <2>1 DEF Exact
  <1> QED BY <1>1, <1>6, <1>7 DEF Price

\* For any prices and any number of rolls: what cost reports for a mode covers
\* the rolls it counts, and is exactly their price when no roll failed and no
\* other batch used the wallet.
THEOREM CostHolds == BatchSpec => []CostIsMeasured
  BY BatchInvariant, InvImpliesMeasured, PTL

=============================================================================
