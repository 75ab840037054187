----------------------------- MODULE DiceBatch -----------------------------
(***************************************************************************)
(* The batch commands of dice-demo: simulate, simulate-event and cost      *)
(* (apps/dice-demo/src/commands.ts), each a loop of rolls that goes on     *)
(* after a roll that failed.  Processes share the chain, the wallet and    *)
(* the state file, and lose confirmations of transactions that land later. *)
(* The chain is the abstract registry, which the program implements        *)
(* (module CcVrfRefinement).                                               *)
(***************************************************************************)
EXTENDS CommitRegistry, Naturals, FiniteSets

CONSTANTS
    Processes,
    Commands,       \* per process: what it may run, a name and a count n
    Fee,            \* lamports that a commit of each mode costs
    FailedFee       \* lamports that a transaction that fails on chain costs

\* The modes of a command's rolls: one loop after the other.
Loops(cmd) ==
    CASE cmd.name = "simulate" -> <<"pda">>
      [] cmd.name = "simulate-event" -> <<"event">>
      [] cmd.name = "cost" -> <<"pda", "pda-beta", "event">>

\* Memos hold the mode, Date.now() and the iteration.  Assumed: no two processes
\* reach the same iteration of the same mode in the same millisecond.
MemoOf(p, loop, i) == <<p, loop, i>>

ASSUME BatchAssumption ==
    /\ \A p \in Processes : Commands[p] \subseteq
          [name: {"simulate", "simulate-event", "cost"}, n: Nat \ {0}]
    /\ Fee \in [{"pda", "pda-beta", "event"} -> Nat]
    /\ FailedFee \in Nat
    /\ \A p \in Processes : \A cmd \in Commands[p] :
          \A loop \in DOMAIN Loops(cmd), i \in 1..cmd.n : MemoOf(p, loop, i) \in Memos
    /\ Bodies = {"pda", "pda-beta", "event"}

VARIABLES
    proc,       \* per process: its loop counters and the await it is in
    pending,    \* transactions that were sent and are not settled
    paid,       \* lamports that left the wallet
    file        \* the memos recorded in state.json

batchVars == <<vars, proc, pending, paid, file>>

-----------------------------------------------------------------------------
(* A process.  Its await is "idle", "loop" (between two loops), "roll"     *)
(* (before the SDK call), "sent" (in sendAndConfirm), "verify" or "exit".  *)

Set(p, next) == proc' = [proc EXCEPT ![p] = next]

Zeros(cmd) == [loop \in DOMAIN Loops(cmd) |-> 0]

Start(p, cmd) ==
    /\ proc[p].pc = "idle"
    /\ Set(p, [pc |-> "loop", cmd |-> cmd, loop |-> 1, i |-> 1, began |-> 0,
               snapshot |-> {}, ok |-> Zeros(cmd), fail |-> Zeros(cmd),
               spent |-> Zeros(cmd)])
    /\ UNCHANGED <<vars, pending, paid, file>>

Mode(p) == Loops(proc[p].cmd)[proc[p].loop]

Memo(p) == MemoOf(p, proc[p].loop, proc[p].i)

Simulates(p) == proc[p].cmd.name # "cost"

\* Mutant: all loops are measured from the start of the first.
BeginLoopAtStart(p) ==
    /\ proc[p].pc = "loop"
    /\ Set(p, [proc[p] EXCEPT !.pc = "roll", !.i = 1,
                   !.began = IF proc[p].loop = 1 THEN paid ELSE @])
    /\ UNCHANGED <<vars, pending, paid, file>>

\* A loop begins; cost reads the balance before.
BeginLoop(p) ==
    /\ proc[p].pc = "loop"
    /\ Set(p, [proc[p] EXCEPT !.pc = "roll", !.i = 1,
                   !.began = IF Simulates(p) THEN 0 ELSE paid])
    /\ UNCHANGED <<vars, pending, paid, file>>

\* The last iteration is over: cost reads the balance again, and the next loop
\* begins or the report is printed.  Any failure makes the exit code 1.
EndLoop(p) ==
    LET r == proc[p]
    IN  /\ r.pc = "roll" /\ r.i > r.cmd.n
        /\ Set(p, [r EXCEPT
               !.spent[r.loop] = IF Simulates(p) THEN 0 ELSE paid - r.began,
               !.loop = IF @ < Len(Loops(r.cmd)) THEN @ + 1 ELSE @,
               !.pc = IF r.loop < Len(Loops(r.cmd)) THEN "loop" ELSE "exit"])
        /\ UNCHANGED <<vars, pending, paid, file>>

\* getBalance, outside the loops, rejects: main prints the error and exits with
\* 1.
Throw(p) ==
    /\ proc[p].pc = "loop" \/ (proc[p].pc = "roll" /\ proc[p].i > proc[p].cmd.n)
    /\ ~Simulates(p)
    /\ Set(p, [proc[p] EXCEPT !.pc = "threw"])
    /\ UNCHANGED <<vars, pending, paid, file>>

ExitCode(p) ==
    IF proc[p].pc = "exit" /\ \A loop \in DOMAIN proc[p].fail : proc[p].fail[loop] = 0
    THEN 0 ELSE 1

-----------------------------------------------------------------------------
(* An iteration.                                                           *)

Passed(p) ==
    LET r == proc[p]
    IN  Set(p, [r EXCEPT !.ok[r.loop] = @ + 1, !.i = @ + 1, !.pc = "roll"])

\* Mutant: a roll that failed is tried again.
FailedRetried(p) ==
    LET r == proc[p]
    IN  Set(p, [r EXCEPT !.fail[r.loop] = 1, !.pc = "roll"])

\* The catch of the loop.
Failed(p) ==
    LET r == proc[p]
    IN  Set(p, [r EXCEPT !.fail[r.loop] = @ + 1, !.i = @ + 1, !.pc = "roll"])

\* loadState, and the builder, which reads the authority and throws if the
\* program would refuse the commit.
Build(p) ==
    /\ proc[p].pc = "roll" /\ proc[p].i <= proc[p].cmd.n
    /\ \/ /\ \E a \in authorities : MayCommit(a)
          /\ pending' = pending \cup {[memo |-> Memo(p), mode |-> Mode(p)]}
          /\ Set(p, [proc[p] EXCEPT !.pc = "sent", !.snapshot = file])
       \/ /\ Failed(p)         \* also when a request fails
          /\ UNCHANGED pending
    /\ UNCHANGED <<vars, paid, file>>

\* A transaction lands: the program decides on the authority
\* there is now.
Land(tx) ==
    /\ pending' = pending \ {tx}
    /\ \/ \E a \in authorities :
            /\ IF tx.mode = "event" THEN Log(a, tx.memo, tx.mode)
                                    ELSE Register(a, tx.memo, tx.mode)
            /\ paid' = paid + Fee[tx.mode]
       \/ /\ ~\E a \in authorities : MayCommit(a)
          /\ paid' = paid + FailedFee
          /\ UNCHANGED vars
    /\ UNCHANGED <<proc, file>>

\* It is simulated and refused before it costs anything, or its blockhash
\* expires.
Drop(tx) ==
    /\ pending' = pending \ {tx}
    /\ UNCHANGED <<vars, proc, paid, file>>

\* The commit of a memo is on chain: registered, or logged exactly once.
OnChain(m) ==
    \/ \E c \in commits : c.memo = m
    \/ Cardinality({k \in DOMAIN log : log[k].memo = m}) = 1

\* Mutant: the transaction is sent and not awaited.
ConfirmUnawaited(p) ==
    /\ proc[p].pc = "sent"
    /\ IF Simulates(p)
       THEN /\ file' = proc[p].snapshot \cup {Memo(p)}
            /\ Set(p, [proc[p] EXCEPT !.pc = "verify"])
       ELSE /\ Passed(p)
            /\ UNCHANGED file
    /\ UNCHANGED <<vars, pending, paid>>

\* sendAndConfirm returns.  A roll command goes on to save what it loaded with
\* the new roll; cost only counts.
Confirm(p) ==
    /\ proc[p].pc = "sent"
    /\ OnChain(Memo(p))
    /\ IF Simulates(p)
       THEN /\ file' = proc[p].snapshot \cup {Memo(p)}
            /\ Set(p, [proc[p] EXCEPT !.pc = "verify"])
       ELSE /\ Passed(p)
            /\ UNCHANGED file
    /\ UNCHANGED <<vars, pending, paid>>

\* sendAndConfirm throws: the transaction failed, or its confirmation did not
\* arrive in time, and then it may land yet.
Reject(p) ==
    /\ proc[p].pc = "sent"
    /\ Failed(p)
    /\ UNCHANGED <<vars, pending, paid, file>>

\* The verify command of the roll: it throws if the roll was overwritten in the
\* file, or if a request fails.  It prints the verdict, valid or not, and
\* returns.  verify-event would end the whole process if the memo's events held
\* none with the recorded proof (commands.ts:426-431): not with memos of one roll
\* each, whose one event is the recorded one.
Verify(p) ==
    /\ proc[p].pc = "verify"
    /\ \/ Memo(p) \in file /\ Passed(p)
       \/ Failed(p)
    /\ UNCHANGED <<vars, pending, paid, file>>

Step(p) ==
    \/ BeginLoop(p) \/ EndLoop(p) \/ Throw(p)
    \/ Build(p) \/ Confirm(p) \/ Reject(p) \/ Verify(p)

\* The operator's other commands: init, freeze, revoke.
Elsewhere ==
    /\ \/ \E o \in Owners, l \in Labels, k \in Pks : Publish(o, l, k)
       \/ \E a \in authorities : Freeze(a) \/ Revoke(a)
    /\ UNCHANGED <<proc, pending, paid, file>>

BatchInit ==
    /\ Init
    /\ proc = [p \in Processes |-> [pc |-> "idle"]]
    /\ pending = {}
    /\ paid = 0
    /\ file = {}

BatchNext ==
    \/ Elsewhere
    \/ \E tx \in pending : Land(tx) \/ Drop(tx)
    \/ \E p \in Processes :
        \/ \E cmd \in Commands[p] : Start(p, cmd)
        \/ Step(p)

\* Requests settle, and a confirmation arrives or times out.
Fairness == \A p \in Processes : WF_batchVars(Step(p))

BatchSpec == BatchInit /\ [][BatchNext]_batchVars /\ Fairness

-----------------------------------------------------------------------------
(* Properties.                                                             *)

\* The memos of a loop whose commit is on chain.
Committed(p, loop) == {m \in {MemoOf(p, loop, i) : i \in 1..proc[p].cmd.n} : OnChain(m)}

Running == {p \in Processes : proc[p].pc # "idle"}

\* A roll that is counted as passed or ok is on chain, under races with revoke,
\* with other batches and with confirmations that were lost; the exit code 0
\* means that all rolls are (commands.ts:456-496, 723).
CountedRollsAreOnChain ==
    \A p \in Running : \A loop \in DOMAIN proc[p].ok :
        /\ proc[p].ok[loop] <= Cardinality(Committed(p, loop))
        /\ ExitCode(p) = 0 => Cardinality(Committed(p, loop)) = proc[p].cmd.n

\* "Reads the wallet's pre/post lamport balance to capture true tx fees"
\* (commands.ts:503-504): what cost reports for a mode covers its ok rolls, and
\* is exactly their price if no roll failed and nothing else used the wallet.
CostIsMeasured ==
    \A p \in Running : ExitCode(p) = 0 /\ ~Simulates(p) =>
        \A loop \in DOMAIN proc[p].spent :
            LET price == proc[p].ok[loop] * Fee[Loops(proc[p].cmd)[loop]]
            IN  /\ proc[p].spent[loop] >= price
                /\ Running = {p} => proc[p].spent[loop] = price

\* A batch ends, whatever fails: every iteration passes or fails once.
BatchEnds ==
    \A p \in Processes :
        proc[p].pc # "idle" ~> proc[p].pc \in {"exit", "threw"}
=============================================================================
