----------------------------- MODULE EventScan -----------------------------
(***************************************************************************)
(* findProofCommitEvents (packages/vrf-client/src/operations.ts): reading  *)
(* event-mode commitments back from a wallet's transaction history over    *)
(* plain RPC.  The scan is a sequence of awaits: between any two of them   *)
(* the wallet may sign further transactions, and every transaction fetch   *)
(* may fail.                                                               *)
(***************************************************************************)
EXTENDS Integers, Sequences, SequencesExt

CONSTANTS
    LogTraces,      \* what the node returns as the log of a transaction of the
                    \* wallet: a sequence of VrfProofCommitted entries, TRUE
                    \* for an entry of the requested (owner, label, memo)
    RpcAnswers,     \* answers of getTransaction: subset of {"tx", "nologs",
                    \* "missing"}, "nologs" for one without log messages
    Limit,          \* query.limit
    PageCap,        \* the 1000 of pageLimit
    MaxHistory      \* bound of the model: transactions of the wallet

ASSUME ScanAssumption ==
    /\ LogTraces \subseteq Seq(BOOLEAN)
    /\ RpcAnswers \subseteq {"tx", "nologs", "missing"}
    /\ Limit \in Nat /\ PageCap \in Nat \ {0} /\ MaxHistory \in Nat

VARIABLES
    history,    \* transactions that mention the wallet, oldest first; a
                \* signature is a position in it
    pc,         \* "idle", "page", "tx", "done", "thrown"
    mode,       \* "scan" or "signature"
    before,     \* cursor: signatures below it are still to be listed
    page,       \* listed signatures that are still to be fetched, newest first
    scanned,
    reachedEnd,
    out,        \* <<signature, position in the log>> of the events collected
    unfetchedSignatures,
    truncated,
    logless,    \* signatures answered without log messages (ghost)
    horizon     \* newest signature when the scan listed its first page (ghost)

scanVars == <<mode, before, page, scanned, reachedEnd, out,
              unfetchedSignatures, truncated, logless, horizon>>
vars == <<history, pc, scanVars>>

Transaction == [err: BOOLEAN, log: LogTraces]

\* Matching events of a log, in log order: the loop of collectFromTx skips the
\* entries of another owner, label or memo hash.
Matches(sig, log) ==
    LET found[k \in 0..Len(log)] ==
            IF k = 0 THEN <<>>
            ELSE IF log[k] THEN Append(found[k - 1], <<sig, k>>)
            ELSE found[k - 1]
    IN  found[Len(log)]

collectFromTx(sig) == Matches(sig, history[sig].log)

pageLimit == IF PageCap < Limit - scanned THEN PageCap ELSE Limit - scanned

-----------------------------------------------------------------------------
Init ==
    /\ history = <<>>
    /\ pc = "idle"
    /\ mode = "scan"
    /\ before = 0
    /\ page = <<>>
    /\ scanned = 0
    /\ reachedEnd = FALSE
    /\ out = <<>>
    /\ unfetchedSignatures = <<>>
    /\ truncated = FALSE
    /\ logless = {}
    /\ horizon = 0

\* The wallet signs a transaction (external); a failed one keeps its logs.
Sign(tx) ==
    /\ Len(history) < MaxHistory
    /\ history' = Append(history, tx)
    /\ UNCHANGED <<pc, scanVars>>

\* The call, without a signature: before is undefined, so the first page starts
\* at the newest signature the RPC node knows when it is asked.
StartScan ==
    /\ pc = "idle"
    /\ pc' = "page"
    /\ mode' = "scan"
    /\ UNCHANGED <<history, before, page, scanned, reachedEnd, out,
                   unfetchedSignatures, truncated, logless, horizon>>

\* Mutant: pages are taken by their offset from the newest signature.
ListedByOffset ==
    LET newest == Len(history) - scanned
        n == IF pageLimit < newest THEN pageLimit ELSE newest
    IN  [i \in 1..n |-> newest + 1 - i]

\* getSignaturesForAddress (external): the pageLimit newest signatures below
\* the cursor.
Listed ==
    LET newest == IF scanned = 0 THEN Len(history) ELSE before - 1
        n == IF pageLimit < newest THEN pageLimit ELSE newest
    IN  [i \in 1..n |-> newest + 1 - i]

\* Mutant: an empty page does not end the scan.
FetchPageNoEnd ==
    /\ pc = "page"
    /\ scanned < Limit /\ ~reachedEnd
    /\ horizon' = IF scanned = 0 THEN Len(history) ELSE horizon
    /\ IF Listed = <<>>
       THEN UNCHANGED <<pc, before, page, scanned>>
       ELSE /\ scanned' = scanned + Len(Listed)
            /\ before' = Last(Listed)
            /\ page' = Listed
            /\ pc' = "tx"
    /\ UNCHANGED <<history, mode, reachedEnd, out, unfetchedSignatures,
                   truncated, logless>>

FetchPage ==
    /\ pc = "page"
    /\ scanned < Limit /\ ~reachedEnd
    /\ horizon' = IF scanned = 0 THEN Len(history) ELSE horizon
    /\ IF Listed = <<>>
       THEN /\ reachedEnd' = TRUE
            /\ UNCHANGED <<pc, before, page, scanned>>
       ELSE /\ scanned' = scanned + Len(Listed)
            /\ before' = Last(Listed)
            /\ page' = Listed
            /\ pc' = "tx"
            /\ UNCHANGED reachedEnd
    /\ UNCHANGED <<history, mode, out, unfetchedSignatures, truncated, logless>>

\* Only getTransaction is guarded by a catch: a failing page request rejects
\* the whole call.
PageThrows ==
    /\ pc = "page"
    /\ scanned < Limit /\ ~reachedEnd
    /\ pc' = "thrown"
    /\ UNCHANGED <<history, scanVars>>

\* Mutant: a transaction that cannot be fetched is skipped silently.
CollectFetched(sig, answer) ==
    /\ out' = IF answer = "tx" THEN out \o collectFromTx(sig) ELSE out
    /\ logless' = IF answer = "nologs" THEN logless \cup {sig} ELSE logless
    /\ UNCHANGED unfetchedSignatures

\* What one fetched signature adds to the result: a transaction without log
\* messages nothing at all.
Collect(sig, answer) ==
    /\ out' = IF answer = "tx" THEN out \o collectFromTx(sig) ELSE out
    /\ logless' = IF answer = "nologs" THEN logless \cup {sig} ELSE logless
    /\ unfetchedSignatures' = IF answer = "missing"
                              THEN Append(unfetchedSignatures, sig)
                              ELSE unfetchedSignatures

\* Mutant: failed transactions are read like the others.
FetchTxUnchecked(answer) ==
    /\ pc = "tx"
    /\ page # <<>>
    /\ Collect(Head(page), answer)
    /\ page' = Tail(page)
    /\ pc' = IF Len(page) = 1 THEN "page" ELSE "tx"
    /\ UNCHANGED <<history, mode, before, scanned, reachedEnd, truncated,
                   horizon>>

\* A listed transaction with an error is skipped, any other is fetched.
FetchTx(answer) ==
    /\ pc = "tx"
    /\ page # <<>>
    /\ IF history[Head(page)].err
       THEN UNCHANGED <<out, unfetchedSignatures, logless>>
       ELSE Collect(Head(page), answer)
    /\ page' = Tail(page)
    /\ pc' = IF Len(page) = 1 THEN "page" ELSE "tx"
    /\ UNCHANGED <<history, mode, before, scanned, reachedEnd, truncated,
                   horizon>>

\* Mutant: the events stay newest first.
FinishNewestFirst ==
    /\ pc = "page"
    /\ scanned >= Limit \/ reachedEnd
    /\ pc' = "done"
    /\ truncated' = ~reachedEnd
    /\ UNCHANGED <<history, mode, before, page, scanned, reachedEnd, out,
                   unfetchedSignatures, logless, horizon>>

FinishScan ==
    /\ pc = "page"
    /\ scanned >= Limit \/ reachedEnd
    /\ pc' = "done"
    /\ out' = Reverse(out)
    /\ truncated' = ~reachedEnd
    /\ UNCHANGED <<history, mode, before, page, scanned, reachedEnd,
                   unfetchedSignatures, logless, horizon>>

\* The call with query.signature: one fetch, no look at the error of the
\* transaction.
FetchSignature(sig, answer) ==
    /\ pc = "idle"
    /\ pc' = "done"
    /\ mode' = "signature"
    /\ LET found == IF answer = "tx" THEN collectFromTx(sig) ELSE <<>>
       IN  out' = Reverse(found)
    /\ unfetchedSignatures' = IF answer = "missing" THEN <<sig>> ELSE <<>>
    /\ logless' = IF answer = "nologs" THEN {sig} ELSE {}
    /\ horizon' = sig
    /\ UNCHANGED <<history, before, page, scanned, reachedEnd, truncated>>

\* The calls of the SDK's user.
Call ==
    \/ StartScan
    \/ \E sig \in DOMAIN history, answer \in RpcAnswers :
          FetchSignature(sig, answer)

\* The continuations of a scan when its request was answered.
Continue ==
    \/ FetchPage
    \/ \E answer \in RpcAnswers : FetchTx(answer)
    \/ FinishScan

Next ==
    \/ \E tx \in Transaction : Sign(tx)
    \/ Call
    \/ PageThrows
    \/ Continue

\* The event loop runs the continuation of a call whose awaited RPC request has
\* settled, and every request settles: with an answer if not with an error.
Spec == Init /\ [][Next]_vars /\ WF_vars(Continue)

-----------------------------------------------------------------------------
(* Properties.                                                             *)

\* All events of successful transactions up to signature n.
Committed(n) ==
    {e \in UNION {ToSet(collectFromTx(sig)) : sig \in 1..n} :
        ~history[e[1]].err}

\* What is missing from a scan has a cause, and the result names it but for one:
\* the event is in a transaction listed as unfetched; or it is older than the
\* window of `limit` signatures and the result is marked truncated; or the node
\* answered without log messages, which the result does not tell
\* (operations.ts:453-457, 545).
MissesAreExplained ==
    (pc = "done" /\ mode = "scan") =>
        \A e \in Committed(horizon) \ ToSet(out) :
            \/ e[1] \in ToSet(unfetchedSignatures)
            \/ truncated /\ e[1] <= horizon - Limit
            \/ e[1] \in logless

\* A scan reports only what was committed before it listed its first page: no
\* event of a failed transaction, whose logs the node keeps, although a lookup
\* by signature does report those (operations.ts:584, 608).
OnlyCommitted ==
    (pc = "done" /\ mode = "scan") => ToSet(out) \subseteq Committed(horizon)

\* No event is reported twice: new transactions that arrive while pages are
\* listed do not shift the cursor.
NoEventTwice ==
    \A i, j \in DOMAIN out : out[i] = out[j] => i = j

\* The events of different transactions are ordered oldest to newest
\* (operations.ts:618-619); those of one transaction come newest first.
OldestTransactionFirst ==
    pc = "done" => \A i, j \in DOMAIN out : i < j => out[i][1] <= out[j][1]

\* A call that was started returns or rejects, although the wallet keeps
\* signing.
ScanEnds == (pc \in {"page", "tx"}) ~> (pc \in {"done", "thrown"})
=============================================================================
