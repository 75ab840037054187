-------------------------- MODULE EventScanProofs --------------------------
(***************************************************************************)
(* Proofs about EventScan, for every history, log, window and page size:   *)
(* what a scan reports, leaves out and in which order.                     *)
(***************************************************************************)
EXTENDS EventScan, WellFoundedInduction, TLAPS

-----------------------------------------------------------------------------
(* The inductive invariant.                                                *)

ScanTypeOK ==
    /\ history \in Seq(Transaction)
    /\ pc \in {"idle", "page", "tx", "done", "thrown"}
    /\ mode \in {"scan", "signature"}
    /\ before \in Nat /\ scanned \in Nat /\ horizon \in 0..Len(history)
    /\ page \in Seq(Nat)
    /\ out \in Seq(Nat \X Nat)
    /\ unfetchedSignatures \in Seq(Nat)

\* The listed signatures are before..horizon without a gap, and page holds the
\* oldest of them, newest first.
CursorIsExact ==
    \/ scanned = 0 /\ before = 0 /\ horizon = 0 /\ page = <<>>
    \/ /\ before > 0 /\ scanned > 0
       /\ scanned = horizon - before + 1
       /\ before + Len(page) <= horizon + 1
       /\ \A i \in DOMAIN page : page[i] = before + Len(page) - i

\* Signatures the scan has dealt with.
Fetched(sig) == sig \in 1..horizon /\ before + Len(page) <= sig

ReportsFetched ==
    \A i \in DOMAIN out :
        /\ Fetched(out[i][1])
        /\ ~history[out[i][1]].err
        /\ out[i] \in ToSet(collectFromTx(out[i][1]))

AccountsForFetched ==
    \A sig \in 1..horizon :
        (Fetched(sig) /\ ~history[sig].err) =>
            \/ sig \in ToSet(unfetchedSignatures)
            \/ sig \in logless
            \/ ToSet(collectFromTx(sig)) \subseteq ToSet(out)

NewestFirst == \A i, j \in DOMAIN out : i < j => out[i][1] >= out[j][1]

OldestFirst == \A i, j \in DOMAIN out : i < j => out[i][1] <= out[j][1]

\* What holds of a scan's result when its loop ends.
LoopEnded ==
    /\ page = <<>>
    /\ truncated => scanned >= Limit
    /\ ~truncated => before <= 1

ScanInv ==
    /\ ScanTypeOK
    /\ NoEventTwice
    /\ mode = "scan" => CursorIsExact /\ ReportsFetched /\ AccountsForFetched
    /\ mode = "signature" => pc = "done"
    /\ pc = "idle" => scanned = 0 /\ out = <<>>
    /\ pc \in {"page", "tx"} => NewestFirst
    /\ pc \in {"idle", "page"} => page = <<>>
    /\ reachedEnd => before <= 1
    /\ pc = "done" => OldestFirst
    /\ (pc = "done" /\ mode = "scan") => LoopEnded

-----------------------------------------------------------------------------
(* Facts about the data.                                                   *)

\* A nonempty set of naturals has a least element: the form of induction the
\* provers can use, for it is about a set and not about an operator.
LEMMA LeastNatural ==
    ASSUME NEW T, T \subseteq Nat, T # {}
    PROVE  \E x \in T : \A y \in T : x <= y
  <1> DEFINE R == {ss \in Nat \X Nat : ss[1] < ss[2]}
  <1>1. IsWellFoundedOn(R, Nat)
    BY NatLessThanWellFounded, Zenon DEF OpToRel
  <1>2. \A x, y \in Nat : <<x, y>> \in R <=> x < y
    OBVIOUS
  <1> HIDE DEF R
  <1>3. PICK x \in T : \A y \in T : ~ (<<y, x>> \in R)
    BY <1>1, WFMin, Zenon
  <1>4. \A y \in T : ~(y < x)
    BY <1>2, <1>3
  <1> QED BY <1>4

\* The body of the loop over the log, and what it means that g is its trace
\* over the first n entries.
LoopBody(sig, log, g, k) ==
    IF k = 0 THEN <<>>
    ELSE IF log[k] THEN Append(g[k - 1], <<sig, k>>)
    ELSE g[k - 1]

IsLoop(sig, log, n, g) == g = [k \in 0..n |-> LoopBody(sig, log, g, k)]

\* The loop runs over a log of any length: by induction on the length.
LEMMA LoopExists ==
    ASSUME NEW sig, NEW log
    PROVE  \A n \in Nat : \E g : IsLoop(sig, log, n, g)
  <1> DEFINE T == {n \in Nat : ~ \E g : IsLoop(sig, log, n, g)}
  <1> SUFFICES ASSUME T # {} PROVE FALSE
    OBVIOUS
  <1>1. PICK m \in T : \A y \in T : m <= y
    BY LeastNatural, T \subseteq Nat
  <1>2. CASE m = 0
    <2> DEFINE g == [k \in 0..0 |-> <<>>]
    <2>1. g = [k \in 0..0 |-> LoopBody(sig, log, g, k)]
      BY DEF LoopBody
    <2> QED BY <1>1, <1>2, <2>1 DEF IsLoop
  <1>3. CASE m # 0
    <2>1. m - 1 \in Nat /\ m - 1 \notin T
      BY <1>1, <1>3
    <2>2. PICK f : IsLoop(sig, log, m - 1, f)
      BY <2>1
    <2> DEFINE g == [k \in 0..m |->
                        IF k < m THEN f[k] ELSE LoopBody(sig, log, f, m)]
    <2>3. f = [k \in 0..(m - 1) |-> LoopBody(sig, log, f, k)]
      BY <2>2 DEF IsLoop
    <2>4. ASSUME NEW k \in 0..m
          PROVE  g[k] = LoopBody(sig, log, g, k)
      <3>1. LoopBody(sig, log, g, k) = LoopBody(sig, log, f, k)
        <4>1. k # 0 => g[k - 1] = f[k - 1]
          BY <2>1
        <4> HIDE DEF g
        <4> QED BY <4>1 DEF LoopBody
      <3>2. k < m => f[k] = LoopBody(sig, log, f, k)
        <4>1. k < m => k \in 0..(m - 1)
          BY <2>1
        <4> QED BY <2>3, <4>1, Zenon
      <3>3. k = m \/ k < m
        BY <2>1
      <3> QED BY <3>1, <3>2, <3>3
    <2>5. g = [k \in 0..m |-> g[k]]
      OBVIOUS
    <2> HIDE DEF g
    <2>6. g = [k \in 0..m |-> LoopBody(sig, log, g, k)]
      BY <2>4, <2>5, Zenon
    <2> QED BY <1>1, <2>6 DEF IsLoop
  <1> QED BY <1>2, <1>3

\* Matches is the end of such a trace.
LEMMA MatchesLoop ==
    ASSUME NEW sig, NEW log \in Seq(BOOLEAN)
    PROVE  \E g : IsLoop(sig, log, Len(log), g) /\ Matches(sig, log) = g[Len(log)]
  <1> DEFINE c == CHOOSE g : IsLoop(sig, log, Len(log), g)
  <1>1. Matches(sig, log) = c[Len(log)]
    BY Zenon DEF Matches, IsLoop, LoopBody
  <1>2. Len(log) \in Nat
    OBVIOUS
  <1>3. IsLoop(sig, log, Len(log), c)
    BY <1>2, LoopExists, Zenon
  <1> QED BY <1>1, <1>3

\* A sequence without repetitions.
Distinct(s) == \A i, j \in DOMAIN s : s[i] = s[j] => i = j

\* collectFromTx returns the matching entries of a log, each once, and nothing
\* else: by induction on the entries read.
LEMMA MatchesFacts ==
    ASSUME NEW sig \in Nat, NEW log \in Seq(BOOLEAN)
    PROVE  /\ Matches(sig, log) \in Seq(Nat \X Nat)
           /\ \A i \in DOMAIN Matches(sig, log) : Matches(sig, log)[i][1] = sig
           /\ \A k : <<sig, k>> \in ToSet(Matches(sig, log))
                        <=> k \in DOMAIN log /\ log[k]
           /\ Distinct(Matches(sig, log))
  <1>1. PICK g : /\ IsLoop(sig, log, Len(log), g)
                 /\ Matches(sig, log) = g[Len(log)]
    BY MatchesLoop
  <1> DEFINE Good(k) == /\ g[k] \in Seq({sig} \X (1..k))
                        /\ \A m \in 1..k :
                             (\E i \in DOMAIN g[k] : g[k][i] = <<sig, m>>)
                                <=> log[m]
                        /\ Distinct(g[k])
             T == {k \in 0..Len(log) : ~Good(k)}
  <1>2. \A k \in 0..Len(log) : g[k] = LoopBody(sig, log, g, k)
    BY <1>1 DEF IsLoop
  <1>3. T = {}
    <2> SUFFICES ASSUME T # {} PROVE FALSE
      OBVIOUS
    <2>1. PICK k \in T : \A y \in T : k <= y
      BY LeastNatural, T \subseteq Nat
    <2>2. CASE k = 0
      <3>1. g[0] = <<>>
        BY <1>2, <2>1, <2>2 DEF LoopBody
      <3>2. Good(0)
        BY <3>1 DEF Distinct
      <3> QED BY <2>1, <2>2, <3>2
    <2>3. CASE k # 0
      <3>1. k - 1 \in 0..Len(log) /\ k \in 1..Len(log)
        BY <2>1, <2>3
      <3>2. Good(k - 1)
        <4> HIDE DEF Good
        <4>1. k - 1 \notin T
          <5> HIDE DEF T
          <5> QED BY <2>1, <3>1
        <4> QED BY <3>1, <4>1
      <3> DEFINE s == g[k - 1]
      <3>3. /\ s \in Seq({sig} \X (1..(k - 1)))
            /\ \A m \in 1..(k - 1) :
                 (\E i \in DOMAIN s : s[i] = <<sig, m>>) <=> log[m]
            /\ Distinct(s)
        BY <3>2
      <3>4. g[k] = IF log[k] THEN Append(s, <<sig, k>>) ELSE s
        BY <1>2, <2>1, <2>3 DEF LoopBody
      <3> HIDE DEF s
      <3>5. s \in Seq({sig} \X (1..k))
        BY <3>1, <3>3
      <3>6. \A i \in DOMAIN s : s[i] # <<sig, k>>
        BY <3>1, <3>3
      <3>7. CASE log[k]
        <4>1. g[k] = Append(s, <<sig, k>>)
          BY <3>4, <3>7
        <4>2. /\ g[k] \in Seq({sig} \X (1..k))
              /\ DOMAIN g[k] = DOMAIN s \cup {Len(s) + 1}
              /\ \A i \in DOMAIN s : g[k][i] = s[i]
              /\ g[k][Len(s) + 1] = <<sig, k>>
          BY <3>1, <3>5, <4>1, SMTT(30)
        <4>3. Distinct(g[k])
          BY <3>3, <3>6, <4>2 DEF Distinct
        <4>4. ASSUME NEW m \in 1..k
              PROVE  (\E i \in DOMAIN g[k] : g[k][i] = <<sig, m>>) <=> log[m]
          <5>1. CASE m = k
            BY <3>7, <4>2, <5>1
          <5>2. CASE m # k
            <6>1. m \in 1..(k - 1) /\ <<sig, m>> # <<sig, k>>
              BY <3>1, <5>2
            <6>2. (\E i \in DOMAIN s : s[i] = <<sig, m>>) <=> log[m]
              BY <3>3, <6>1
            <6>3. (\E i \in DOMAIN g[k] : g[k][i] = <<sig, m>>)
                     <=> (\E i \in DOMAIN s : s[i] = <<sig, m>>)
              BY <4>2, <6>1, Zenon
            <6> QED BY <6>2, <6>3
          <5> QED BY <5>1, <5>2
        <4>5. Good(k)
          BY <4>2, <4>3, <4>4
        <4> QED BY <2>1, <4>5
      <3>8. CASE ~log[k]
        <4>1. g[k] = s
          BY <3>4, <3>8
        <4>2. ASSUME NEW m \in 1..k
              PROVE  (\E i \in DOMAIN g[k] : g[k][i] = <<sig, m>>) <=> log[m]
          <5>1. CASE m = k
            BY <3>6, <3>8, <4>1, <5>1
          <5>2. CASE m # k
            BY <3>1, <3>3, <4>1, <5>2
          <5> QED BY <5>1, <5>2
        <4>3. Good(k)
          BY <3>3, <3>5, <4>1, <4>2
        <4> QED BY <2>1, <4>3
      <3> QED BY <3>7, <3>8
    <2> QED BY <2>2, <2>3
  <1>4. Good(Len(log))
    <2>1. Len(log) \in 0..Len(log)
      OBVIOUS
    <2> HIDE DEF Good
    <2> QED BY <1>3, <2>1
  <1>5. /\ Matches(sig, log) \in Seq({sig} \X (1..Len(log)))
        /\ \A m \in 1..Len(log) :
             (\E i \in DOMAIN Matches(sig, log) :
                 Matches(sig, log)[i] = <<sig, m>>) <=> log[m]
        /\ Distinct(Matches(sig, log))
    BY <1>1, <1>4
  <1> DEFINE s == Matches(sig, log)
  <1> HIDE DEF s, Good, T
  <1>6. /\ s \in Seq({sig} \X (1..Len(log)))
        /\ \A m \in 1..Len(log) :
             (\E i \in DOMAIN s : s[i] = <<sig, m>>) <=> log[m]
        /\ Distinct(s)
    BY <1>5 DEF s
  <1>7. s \in Seq(Nat \X Nat) /\ \A i \in DOMAIN s : s[i][1] = sig
    BY <1>6
  <1>8. \A k : <<sig, k>> \in ToSet(s) <=> k \in DOMAIN log /\ log[k]
    BY <1>6 DEF ToSet
  <1> QED BY <1>6, <1>7, <1>8 DEF s

\* Concatenation and reversal, position by position and as sets.
LEMMA ConcatFacts ==
    ASSUME NEW S, NEW s \in Seq(S), NEW t \in Seq(S)
    PROVE  /\ s \o t \in Seq(S)
           /\ \A i \in DOMAIN s : i \in DOMAIN (s \o t) /\ (s \o t)[i] = s[i]
           /\ \A i \in DOMAIN (s \o t) :
                 \/ i \in DOMAIN s /\ (s \o t)[i] = s[i]
                 \/ /\ i - Len(s) \in DOMAIN t
                    /\ (s \o t)[i] = t[i - Len(s)]
                    /\ i \notin DOMAIN s
           /\ ToSet(s \o t) = ToSet(s) \cup ToSet(t)
  <1> DEFINE r == s \o t
  <1>1. /\ r \in Seq(S)
        /\ \A i \in DOMAIN s : i \in DOMAIN r /\ r[i] = s[i]
        /\ \A i \in DOMAIN r :
              \/ i \in DOMAIN s /\ r[i] = s[i]
              \/ /\ i - Len(s) \in DOMAIN t
                 /\ r[i] = t[i - Len(s)]
                 /\ i \notin DOMAIN s
    OBVIOUS
  <1>2. \A j \in DOMAIN t : Len(s) + j \in DOMAIN r /\ r[Len(s) + j] = t[j]
    OBVIOUS
  <1> HIDE DEF r
  <1>3. ToSet(r) = ToSet(s) \cup ToSet(t)
    BY <1>1, <1>2 DEF ToSet
  <1> QED BY <1>1, <1>3 DEF r

LEMMA ReverseFacts ==
    ASSUME NEW S, NEW s \in Seq(S)
    PROVE  /\ Reverse(s) \in Seq(S)
           /\ DOMAIN Reverse(s) = DOMAIN s
           /\ \A i \in DOMAIN s : /\ Len(s) - i + 1 \in DOMAIN s
                                  /\ Reverse(s)[i] = s[Len(s) - i + 1]
           /\ ToSet(Reverse(s)) = ToSet(s)
  <1>1. /\ Reverse(s) \in Seq(S)
        /\ DOMAIN Reverse(s) = DOMAIN s
        /\ \A i \in DOMAIN s : /\ Len(s) - i + 1 \in DOMAIN s
                               /\ Reverse(s)[i] = s[Len(s) - i + 1]
    BY DEF Reverse
  <1>2. \A i \in DOMAIN s : Len(s) - (Len(s) - i + 1) + 1 = i
    OBVIOUS
  <1>3. ToSet(Reverse(s)) = ToSet(s)
    BY <1>1, <1>2 DEF ToSet
  <1> QED BY <1>1, <1>3

LEMMA AppendSet ==
    ASSUME NEW S, NEW s \in Seq(S), NEW x \in S
    PROVE  /\ Append(s, x) \in Seq(S)
           /\ ToSet(Append(s, x)) = ToSet(s) \cup {x}
  <1> DEFINE r == Append(s, x)
  <1>1. /\ r \in Seq(S)
        /\ DOMAIN r = DOMAIN s \cup {Len(s) + 1}
        /\ \A i \in DOMAIN s : r[i] = s[i]
        /\ r[Len(s) + 1] = x
    OBVIOUS
  <1> HIDE DEF r
  <1>2. ToSet(r) = ToSet(s) \cup {x}
    BY <1>1 DEF ToSet
  <1> QED BY <1>1, <1>2 DEF r

\* Reversal keeps the events distinct and turns the order round.
LEMMA ReverseOrder ==
    ASSUME NEW s \in Seq(Nat \X Nat)
    PROVE  /\ Distinct(s) => Distinct(Reverse(s))
           /\ (\A i, j \in DOMAIN s : i < j => s[i][1] >= s[j][1]) =>
                \A i, j \in DOMAIN Reverse(s) :
                    i < j => Reverse(s)[i][1] <= Reverse(s)[j][1]
  <1> DEFINE r == Reverse(s)
             f(i) == Len(s) - i + 1
  <1>1. /\ DOMAIN r = DOMAIN s
        /\ \A i \in DOMAIN s : f(i) \in DOMAIN s /\ r[i] = s[f(i)]
    BY ReverseFacts
  <1>2. \A i, j \in DOMAIN s : /\ f(i) = f(j) => i = j
                               /\ i < j => f(j) < f(i)
    BY SMTT(30)
  <1>3. \A i \in DOMAIN s : s[i][1] \in Nat
    OBVIOUS
  <1> HIDE DEF r, f
  <1>4. Distinct(s) => Distinct(r)
    BY <1>1, <1>2 DEF Distinct
  <1>5. (\A i, j \in DOMAIN s : i < j => s[i][1] >= s[j][1]) =>
          \A i, j \in DOMAIN r : i < j => r[i][1] <= r[j][1]
    <2> SUFFICES ASSUME \A i, j \in DOMAIN s : i < j => s[i][1] >= s[j][1],
                        NEW i \in DOMAIN r, NEW j \in DOMAIN r, i < j
                 PROVE  r[i][1] <= r[j][1]
      OBVIOUS
    <2>1. s[f(j)][1] >= s[f(i)][1]
      BY <1>1, <1>2
    <2> QED BY <1>1, <1>3, <2>1
  <1> QED BY <1>4, <1>5 DEF r

\* What collectFromTx gives for a transaction of the history; a later
\* transaction does not change it.
LEMMA CollectFacts ==
    ASSUME ScanTypeOK, NEW sig \in DOMAIN history
    PROVE  /\ collectFromTx(sig) \in Seq(Nat \X Nat)
           /\ \A i \in DOMAIN collectFromTx(sig) : collectFromTx(sig)[i][1] = sig
           /\ Distinct(collectFromTx(sig))
           /\ \A k : <<sig, k>> \in ToSet(collectFromTx(sig))
                        <=> k \in DOMAIN history[sig].log /\ history[sig].log[k]
  <1>1. sig \in Nat /\ history[sig].log \in Seq(BOOLEAN)
    <2>1. sig \in Nat /\ history[sig] \in Transaction
      BY DEF ScanTypeOK
    <2>2. history[sig].log \in LogTraces
      BY <2>1 DEF Transaction
    <2>3. LogTraces \subseteq Seq(BOOLEAN)
      BY ScanAssumption
    <2> QED BY <2>1, <2>2, <2>3, Zenon
  <1> QED BY <1>1, MatchesFacts DEF collectFromTx

LEMMA HistoryGrows ==
    ASSUME ScanTypeOK, NEW tx \in Transaction, history' = Append(history, tx)
    PROVE  /\ history' \in Seq(Transaction)
           /\ Len(history') = Len(history) + 1
           /\ \A sig \in DOMAIN history :
                 /\ sig \in DOMAIN history'
                 /\ history'[sig] = history[sig]
                 /\ collectFromTx(sig)' = collectFromTx(sig)
  <1>1. /\ history' \in Seq(Transaction)
        /\ Len(history') = Len(history) + 1
        /\ \A sig \in DOMAIN history : /\ sig \in DOMAIN history'
                                       /\ history'[sig] = history[sig]
    BY DEF ScanTypeOK
  <1>2. \A sig \in DOMAIN history : collectFromTx(sig)' = collectFromTx(sig)
    BY <1>1 DEF collectFromTx
  <1> QED BY <1>1, <1>2

-----------------------------------------------------------------------------
(* One lemma per action: it preserves the invariant.                       *)

LEMMA InitScans == Init => ScanInv
  <1> SUFFICES ASSUME Init PROVE ScanInv
    OBVIOUS
  <1>1. ScanTypeOK
    BY DEF Init, ScanTypeOK
  <1>2. NoEventTwice /\ CursorIsExact /\ ReportsFetched /\ AccountsForFetched
    BY DEF Init, NoEventTwice, CursorIsExact, ReportsFetched,
           AccountsForFetched
  <1> QED BY <1>1, <1>2 DEF Init, ScanInv

\* A new transaction is above the horizon: the scan does not see it.
LEMMA SignPreserves ==
    ASSUME ScanInv, NEW tx \in Transaction, Sign(tx)
    PROVE  ScanInv'
  <1>1. /\ ScanTypeOK
        /\ history' = Append(history, tx)
        /\ UNCHANGED <<pc, mode, before, page, scanned, reachedEnd, out,
                       unfetchedSignatures, truncated, logless, horizon>>
    BY DEF ScanInv, Sign, scanVars
  <1>2. /\ history' \in Seq(Transaction)
        /\ Len(history') = Len(history) + 1
        /\ \A sig \in DOMAIN history :
              /\ sig \in DOMAIN history'
              /\ history'[sig] = history[sig]
              /\ collectFromTx(sig)' = collectFromTx(sig)
    BY <1>1, HistoryGrows
  <1>3. ScanTypeOK'
    BY <1>1, <1>2 DEF ScanTypeOK
  <1>4. \A sig \in 1..horizon : sig \in DOMAIN history
    BY <1>1 DEF ScanTypeOK
  <1>5. \A sig : Fetched(sig)' <=> Fetched(sig)
    BY <1>1 DEF Fetched
  <1>6. ReportsFetched => ReportsFetched'
    BY <1>1, <1>2, <1>4, <1>5 DEF ReportsFetched, Fetched
  <1>7. AccountsForFetched => AccountsForFetched'
    BY <1>1, <1>2, <1>4, <1>5 DEF AccountsForFetched
  <1>8. /\ NoEventTwice' <=> NoEventTwice
        /\ CursorIsExact' <=> CursorIsExact
        /\ NewestFirst' <=> NewestFirst
        /\ OldestFirst' <=> OldestFirst
        /\ LoopEnded' <=> LoopEnded
    BY <1>1 DEF NoEventTwice, CursorIsExact, NewestFirst, OldestFirst, LoopEnded
  <1> QED BY <1>1, <1>3, <1>6, <1>7, <1>8 DEF ScanInv

LEMMA StartScanPreserves ==
    ASSUME ScanInv, StartScan
    PROVE  ScanInv'
  <1>1. /\ pc = "idle" /\ pc' = "page" /\ mode' = "scan" /\ mode = "scan"
        /\ UNCHANGED <<history, before, page, scanned, reachedEnd, out,
                       unfetchedSignatures, truncated, logless, horizon>>
    BY DEF StartScan, ScanInv, ScanTypeOK
  <1>2. /\ ScanTypeOK' /\ NoEventTwice' /\ CursorIsExact' /\ ReportsFetched'
        /\ AccountsForFetched'
    BY <1>1 DEF ScanInv, ScanTypeOK, NoEventTwice, CursorIsExact,
                ReportsFetched, AccountsForFetched, Fetched, collectFromTx
  <1>3. NewestFirst'
    BY <1>1 DEF ScanInv, NewestFirst
  <1> QED BY <1>1, <1>2, <1>3 DEF ScanInv

\* The signatures of a page continue the listing below the cursor.
LEMMA FetchPagePreserves ==
    ASSUME ScanInv, FetchPage
    PROVE  ScanInv'
  <1> DEFINE newest == IF scanned = 0 THEN Len(history) ELSE before - 1
             n == IF pageLimit < newest THEN pageLimit ELSE newest
  <1>1. /\ pc = "page" /\ mode = "scan" /\ page = <<>>
        /\ scanned < Limit /\ ~reachedEnd
        /\ horizon' = IF scanned = 0 THEN Len(history) ELSE horizon
        /\ UNCHANGED <<history, mode, out, unfetchedSignatures, truncated,
                       logless>>
        /\ ScanTypeOK /\ CursorIsExact /\ NewestFirst /\ NoEventTwice
        /\ ReportsFetched /\ AccountsForFetched
    BY DEF FetchPage, ScanInv, ScanTypeOK
  <1>2. pageLimit \in Nat /\ pageLimit > 0
    BY <1>1, ScanAssumption DEF ScanTypeOK, pageLimit
  <1>3. /\ newest \in Nat /\ n \in Nat /\ n <= newest
        /\ n = 0 => newest = 0
        /\ scanned = 0 => newest = Len(history)
        /\ scanned # 0 => newest = before - 1
    BY <1>1, <1>2 DEF ScanTypeOK, CursorIsExact
  <1>4. Listed = [i \in 1..n |-> newest + 1 - i]
    BY DEF Listed
  <1> HIDE DEF newest, n
  <1>5. Len(Listed) = n /\ Listed \in Seq(Nat) /\ DOMAIN Listed = 1..n
    <2>1. \A i \in 1..n : newest + 1 - i \in Nat
      BY <1>3
    <2> QED BY <1>3, <1>4, <2>1
  <1>6. NoEventTwice' /\ NewestFirst'
    BY <1>1 DEF NoEventTwice, NewestFirst
  <1>7. \A sig : collectFromTx(sig)' = collectFromTx(sig)
    BY <1>1 DEF collectFromTx
  <1>8. scanned = 0 => out = <<>>
    <2> SUFFICES ASSUME scanned = 0 PROVE out = <<>>
      OBVIOUS
    <2>1. horizon = 0
      BY <1>1 DEF CursorIsExact
    <2>2. \A i \in DOMAIN out : FALSE
      BY <1>1, <2>1 DEF ReportsFetched, Fetched
    <2>3. out \in Seq(Nat \X Nat)
      BY <1>1 DEF ScanTypeOK
    <2>4. DOMAIN out = 1..Len(out) /\ Len(out) \in Nat
      BY <2>3
    <2>5. Len(out) = 0
      BY <2>2, <2>4
    <2> QED BY <2>3, <2>5, SMTT(30)
  <1>9. horizon' \in 0..Len(history')
    BY <1>1 DEF ScanTypeOK
  <1>10. CASE Listed = <<>>
    <2>1. n = 0 /\ newest = 0
      BY <1>3, <1>5, <1>10
    <2>2. /\ reachedEnd' = TRUE
          /\ UNCHANGED <<pc, before, page, scanned>>
      BY <1>10 DEF FetchPage
    <2>3. horizon' = horizon
      BY <1>1, <1>3, <2>1 DEF CursorIsExact, ScanTypeOK
    <2>4. ScanTypeOK' /\ CursorIsExact' /\ ReportsFetched' /\ AccountsForFetched'
      BY <1>1, <1>7, <2>2, <2>3
         DEF ScanTypeOK, CursorIsExact, ReportsFetched, AccountsForFetched,
             Fetched
    <2>5. before' <= 1
      BY <1>1, <1>3, <2>1, <2>2 DEF CursorIsExact, ScanTypeOK
    <2> QED BY <1>1, <1>6, <2>2, <2>4, <2>5 DEF ScanInv
  <1>11. CASE Listed # <<>>
    <2>1. n > 0
      BY <1>3, <1>5, <1>11
    <2>2. /\ scanned' = scanned + n
          /\ before' = Last(Listed)
          /\ page' = Listed
          /\ pc' = "tx"
          /\ reachedEnd' = reachedEnd
      BY <1>5, <1>11 DEF FetchPage
    <2>3. before' = newest + 1 - n
      BY <1>3, <1>4, <1>5, <2>1, <2>2 DEF Last
    <2>4. before' \in Nat /\ before' > 0 /\ before' + n = newest + 1
      BY <1>3, <2>3
    <2>5. Len(page') = n /\ DOMAIN page' = 1..n /\ page' \in Seq(Nat)
      BY <1>5, <2>2
    <2>6. ScanTypeOK'
      BY <1>1, <1>3, <1>9, <2>2, <2>4, <2>5 DEF ScanTypeOK
    <2>7. /\ scanned = 0 => newest = horizon'
          /\ scanned # 0 => horizon' = horizon /\ scanned = horizon - newest
                              /\ newest <= horizon
      BY <1>1, <1>3 DEF ScanTypeOK, CursorIsExact
    <2>8. CursorIsExact'
      <3>1. \A i \in DOMAIN page' : page'[i] = before' + Len(page') - i
        <4>1. \A i \in 1..n : page'[i] = newest + 1 - i
          BY <1>4, <2>2
        <4>2. ASSUME NEW i \in 1..n
              PROVE  newest + 1 - i = before' + n - i
          BY <1>3, <2>3
        <4> QED BY <2>5, <4>1, <4>2, Zenon
      <3>2. scanned' > 0
        BY <1>1, <1>3, <2>1, <2>2 DEF ScanTypeOK
      <3>3. scanned' = horizon' - before' + 1 /\ before' + n <= horizon' + 1
        <4>1. scanned \in Nat /\ horizon \in Nat
          BY <1>1 DEF ScanTypeOK
        <4>2. horizon' \in Nat
          BY <1>9
        <4> QED BY <1>3, <2>2, <2>4, <2>7, <4>1, <4>2
      <3> QED BY <2>4, <2>5, <3>1, <3>2, <3>3 DEF CursorIsExact
    <2>9. CASE scanned = 0
      <3>1. \A sig : ~Fetched(sig)'
        BY <1>3, <1>9, <2>4, <2>5, <2>7, <2>9 DEF Fetched
      <3>2. ReportsFetched' /\ AccountsForFetched'
        BY <1>1, <1>8, <2>9, <3>1 DEF ReportsFetched, AccountsForFetched
      <3> QED BY <1>1, <1>6, <2>2, <2>6, <2>8, <3>2 DEF ScanInv
    <2>10. CASE scanned # 0
      <3>1. horizon' = horizon /\ before' + Len(page') = before
        <4>1. before \in Nat
          BY <1>1 DEF ScanTypeOK
        <4>2. newest + 1 = before
          BY <1>3, <2>10, <4>1
        <4> QED BY <2>4, <2>5, <2>7, <2>10, <4>2
      <3>2. \A sig : Fetched(sig)' <=> Fetched(sig)
        BY <1>1, <3>1 DEF Fetched, ScanTypeOK
      <3>3. ReportsFetched' /\ AccountsForFetched'
        BY <1>1, <1>7, <3>1, <3>2 DEF ReportsFetched, AccountsForFetched
      <3> QED BY <1>1, <1>6, <2>2, <2>6, <2>8, <3>3 DEF ScanInv
    <2> QED BY <2>9, <2>10
  <1> QED BY <1>10, <1>11

\* The next signature of the page is below all that were dealt with, so its
\* events are new and the oldest so far.
LEMMA FetchTxPreserves ==
    ASSUME ScanInv, NEW answer \in RpcAnswers, FetchTx(answer)
    PROVE  ScanInv'
  <1> DEFINE sig == Head(page)
             found == collectFromTx(sig)
  <1>1. /\ pc = "tx" /\ page # <<>> /\ mode = "scan"
        /\ page' = Tail(page)
        /\ pc' = IF Len(page) = 1 THEN "page" ELSE "tx"
        /\ UNCHANGED <<history, mode, before, scanned, reachedEnd, truncated,
                       horizon>>
        /\ ScanTypeOK /\ CursorIsExact /\ NewestFirst /\ NoEventTwice
        /\ ReportsFetched /\ AccountsForFetched
    BY DEF FetchTx, ScanInv, ScanTypeOK
  <1>2. /\ page \in Seq(Nat) /\ Len(page) > 0
        /\ before \in Nat /\ scanned \in Nat /\ horizon \in 0..Len(history)
        /\ out \in Seq(Nat \X Nat) /\ unfetchedSignatures \in Seq(Nat)
    BY <1>1 DEF ScanTypeOK
  <1>3. /\ before > 0 /\ scanned > 0
        /\ scanned = horizon - before + 1
        /\ before + Len(page) <= horizon + 1
        /\ \A i \in DOMAIN page : page[i] = before + Len(page) - i
    BY <1>1, <1>2 DEF CursorIsExact
  <1>4. sig = before + Len(page) - 1 /\ sig \in 1..horizon
    BY <1>2, <1>3
  <1>5. sig \in DOMAIN history
    BY <1>2, <1>4 DEF ScanTypeOK
  <1> HIDE DEF sig
  <1>6. /\ found \in Seq(Nat \X Nat)
        /\ \A i \in DOMAIN found : found[i][1] = sig
        /\ Distinct(found)
    BY <1>1, <1>5, CollectFacts
  <1>7. \A x : collectFromTx(x)' = collectFromTx(x)
    BY <1>1 DEF collectFromTx
  <1>8. /\ page' \in Seq(Nat) /\ Len(page') = Len(page) - 1
        /\ \A i \in DOMAIN page' : i + 1 \in DOMAIN page /\ page'[i] = page[i + 1]
    BY <1>1, <1>2
  <1>9. CursorIsExact'
    <2>1. before + Len(page') <= horizon + 1
      BY <1>2, <1>3, <1>8
    <2>2. ASSUME NEW i \in DOMAIN page'
          PROVE  page'[i] = before + Len(page') - i
      <3>1. i \in Nat /\ page'[i] = before + Len(page) - (i + 1)
        BY <1>3, <1>8
      <3> QED BY <1>2, <1>8, <3>1
    <2> QED BY <1>1, <1>2, <1>3, <2>1, <2>2 DEF CursorIsExact
  <1>10. \A x : Fetched(x)' <=> Fetched(x) \/ x = sig
    BY <1>1, <1>2, <1>4, <1>8, SMTT(30) DEF Fetched
  <1>11. ~Fetched(sig) /\ \A x : Fetched(x) => x \in Nat /\ x > sig
    BY <1>2, <1>4 DEF Fetched
  <1>12. \/ out' = out
         \/ out' = out \o found /\ ~history[sig].err
    BY DEF FetchTx, Collect, sig
  <1>13. /\ out' \in Seq(Nat \X Nat) /\ NoEventTwice' /\ NewestFirst'
         /\ ReportsFetched' /\ ToSet(out) \subseteq ToSet(out')
    <2>1. CASE out' = out
      <3>1. NoEventTwice' /\ NewestFirst' /\ ToSet(out) \subseteq ToSet(out')
        BY <1>1, <2>1 DEF NoEventTwice, NewestFirst
      <3>2. ReportsFetched'
        BY <1>1, <1>7, <1>10, <2>1 DEF ReportsFetched
      <3> QED BY <1>2, <2>1, <3>1, <3>2
    <2>2. CASE out' = out \o found /\ ~history[sig].err
      <3> HIDE DEF found
      <3>1. /\ out' \in Seq(Nat \X Nat)
            /\ \A i \in DOMAIN out : i \in DOMAIN out' /\ out'[i] = out[i]
            /\ \A i \in DOMAIN out' :
                  \/ i \in DOMAIN out /\ out'[i] = out[i]
                  \/ /\ i - Len(out) \in DOMAIN found
                     /\ out'[i] = found[i - Len(out)]
                     /\ i \notin DOMAIN out
            /\ ToSet(out') = ToSet(out) \cup ToSet(found)
        <4>1. /\ out \o found \in Seq(Nat \X Nat)
              /\ \A i \in DOMAIN out :
                    i \in DOMAIN (out \o found) /\ (out \o found)[i] = out[i]
              /\ \A i \in DOMAIN (out \o found) :
                    \/ i \in DOMAIN out /\ (out \o found)[i] = out[i]
                    \/ /\ i - Len(out) \in DOMAIN found
                       /\ (out \o found)[i] = found[i - Len(out)]
                       /\ i \notin DOMAIN out
              /\ ToSet(out \o found) = ToSet(out) \cup ToSet(found)
          BY <1>2, <1>6, ConcatFacts
        <4> QED BY <2>2, <4>1, Zenon
      <3>2. \A i \in DOMAIN out : out[i][1] \in Nat /\ out[i][1] > sig
        BY <1>1, <1>11 DEF ReportsFetched
      <3>3. sig \in Nat
        BY <1>4
      <3>4. DOMAIN out = 1..Len(out) /\ DOMAIN out' = 1..Len(out')
            /\ Len(out) \in Nat
        BY <1>2, <3>1
      <3>5. NoEventTwice'
        <4> SUFFICES ASSUME NEW i \in DOMAIN out', NEW j \in DOMAIN out',
                            out'[i] = out'[j]
                     PROVE  i = j
          BY DEF NoEventTwice
        <4>1. CASE i \in DOMAIN out /\ j \in DOMAIN out
          BY <1>1, <3>1, <4>1 DEF NoEventTwice
        <4>2. CASE i \notin DOMAIN out /\ j \notin DOMAIN out
          <5>1. i - Len(out) = j - Len(out)
            BY <1>6, <3>1, <4>2 DEF Distinct
          <5> QED BY <3>4, <5>1
        <4>3. (i \in DOMAIN out) <=> (j \in DOMAIN out)
          BY <1>6, <3>1, <3>2, <3>3, SMTT(30)
        <4> QED BY <4>1, <4>2, <4>3
      <3>6. NewestFirst'
        <4> SUFFICES ASSUME NEW i \in DOMAIN out', NEW j \in DOMAIN out', i < j
                     PROVE  out'[i][1] >= out'[j][1]
          BY DEF NewestFirst
        <4>1. CASE j \in DOMAIN out
          <5>1. i \in DOMAIN out
            BY <3>4, <4>1
          <5> QED BY <1>1, <3>1, <4>1, <5>1 DEF NewestFirst
        <4>2. CASE j \notin DOMAIN out
          <5>1. out'[j][1] = sig
            BY <1>6, <3>1, <4>2, SMTT(30)
          <5>2. out'[i][1] \in Nat /\ out'[i][1] >= sig
            <6>1. CASE i \in DOMAIN out
              BY <3>1, <3>2, <3>3, <6>1
            <6>2. CASE i \notin DOMAIN out
              <7>1. out'[i][1] = sig
                BY <1>6, <3>1, <6>2, SMTT(30)
              <7> QED BY <3>3, <7>1
            <6> QED BY <6>1, <6>2
          <5> QED BY <3>3, <5>1, <5>2
        <4> QED BY <4>1, <4>2
      <3>7. ReportsFetched'
        <4> SUFFICES ASSUME NEW i \in DOMAIN out'
                     PROVE  /\ Fetched(out[i][1])'
                            /\ ~history'[out'[i][1]].err
                            /\ out'[i] \in
                                 ToSet(Matches(out'[i][1],
                                               history'[out'[i][1]].log))
          BY DEF ReportsFetched, collectFromTx
        <4>1. CASE i \in DOMAIN out
          <5>1. out'[i] = out[i] /\ Fetched(out[i][1])
            BY <1>1, <3>1, <4>1 DEF ReportsFetched
          <5>2. Fetched(out[i][1])'
            <6>1. out'[i][1] \in 1..horizon /\ before + Len(page) <= out'[i][1]
              BY <5>1 DEF Fetched
            <6> HIDE DEF sig
            <6>2. before + Len(page') <= out'[i][1]
              BY <1>2, <1>8, <6>1
            <6> QED BY <1>1, <6>1, <6>2 DEF Fetched
          <5> QED BY <1>1, <4>1, <5>1, <5>2 DEF ReportsFetched, collectFromTx
        <4>2. CASE i \notin DOMAIN out
          <5>1. PICK k \in DOMAIN found : out'[i] = found[k]
            BY <3>1, <4>2
          <5>2. out'[i][1] = sig /\ out'[i] \in ToSet(found)
            BY <1>6, <5>1 DEF ToSet
          <5>3. Fetched(out[i][1])'
            BY <1>1, <1>2, <1>4, <1>8, <5>2 DEF Fetched
          <5> QED BY <1>1, <2>2, <5>2, <5>3 DEF found, collectFromTx
        <4> QED BY <4>1, <4>2
      <3> QED BY <3>1, <3>5, <3>6, <3>7
    <2> QED BY <1>12, <2>1, <2>2
  <1>14. /\ unfetchedSignatures' \in Seq(Nat)
         /\ ToSet(unfetchedSignatures) \subseteq ToSet(unfetchedSignatures')
         /\ logless \subseteq logless'
         /\ history[sig].err \/ ToSet(found) \subseteq ToSet(out')
              \/ sig \in ToSet(unfetchedSignatures') \/ sig \in logless'
    <2>1. /\ Append(unfetchedSignatures, sig) \in Seq(Nat)
          /\ ToSet(Append(unfetchedSignatures, sig))
               = ToSet(unfetchedSignatures) \cup {sig}
      <3>1. sig \in Nat
        BY <1>4
      <3>2. unfetchedSignatures \in Seq(Nat)
        BY <1>2
      <3>3. \A s \in Seq(Nat), x \in Nat :
              /\ Append(s, x) \in Seq(Nat)
              /\ ToSet(Append(s, x)) = ToSet(s) \cup {x}
        BY AppendSet
      <3> QED BY <3>1, <3>2, <3>3
    <2>2. CASE history[sig].err
      BY <1>2, <2>2 DEF FetchTx, sig
    <2>3. CASE ~history[sig].err
      <3>1. Collect(sig, answer)
        BY <2>3 DEF FetchTx, sig
      <3>2. \/ unfetchedSignatures' = unfetchedSignatures
            \/ unfetchedSignatures' = Append(unfetchedSignatures, sig)
        BY <3>1 DEF Collect
      <3>3. /\ unfetchedSignatures' \in Seq(Nat)
            /\ ToSet(unfetchedSignatures) \subseteq ToSet(unfetchedSignatures')
        <4>1. CASE unfetchedSignatures' = unfetchedSignatures
          BY <1>2, <4>1
        <4>2. CASE unfetchedSignatures' = Append(unfetchedSignatures, sig)
          BY <2>1, <4>2
        <4> QED BY <3>2, <4>1, <4>2
      <3>4. logless \subseteq logless'
        BY <3>1 DEF Collect
      <3>5. CASE answer = "tx"
        <4>1. out' = out \o found
          BY <3>1, <3>5 DEF Collect
        <4>2. ToSet(out') = ToSet(out) \cup ToSet(found)
          BY <1>2, <1>6, <4>1, ConcatFacts
        <4> QED BY <3>3, <3>4, <4>2
      <3>6. CASE answer = "nologs"
        BY <3>1, <3>3, <3>4, <3>6 DEF Collect
      <3>7. CASE answer = "missing"
        <4>1. unfetchedSignatures' = Append(unfetchedSignatures, sig)
          BY <3>1, <3>7 DEF Collect
        <4>2. sig \in ToSet(unfetchedSignatures')
          BY <2>1, <4>1
        <4> QED BY <3>3, <3>4, <4>2
      <3>8. answer \in {"tx", "nologs", "missing"}
        BY ScanAssumption
      <3> QED BY <3>3, <3>4, <3>5, <3>6, <3>7, <3>8
    <2> QED BY <2>2, <2>3
  <1> HIDE DEF found
  <1>15. AccountsForFetched'
    <2> SUFFICES ASSUME NEW x \in 1..horizon, Fetched(x) \/ x = sig,
                        ~history[x].err
                 PROVE  \/ x \in ToSet(unfetchedSignatures')
                        \/ x \in logless'
                        \/ ToSet(collectFromTx(x)) \subseteq ToSet(out')
      BY <1>1, <1>7, <1>10 DEF AccountsForFetched
    <2>1. CASE x = sig
      BY <1>14, <2>1 DEF found
    <2>2. CASE Fetched(x)
      BY <1>1, <1>13, <1>14, <2>2 DEF AccountsForFetched
    <2> QED BY <2>1, <2>2
  <1>16. ScanTypeOK'
    BY <1>1, <1>8, <1>13, <1>14 DEF ScanTypeOK
  <1>17. pc' = "page" => page' = <<>>
    BY <1>1, <1>2, <1>8
  <1>18. pc' \in {"page", "tx"} /\ mode' = "scan"
    BY <1>1
  <1>19. reachedEnd' => before' <= 1
    BY <1>1 DEF ScanInv
  <1> QED
    BY <1>9, <1>13, <1>15, <1>16, <1>17, <1>18, <1>19 DEF ScanInv

LEMMA PageThrowsPreserves ==
    ASSUME ScanInv, PageThrows
    PROVE  ScanInv'
  <1>1. /\ pc = "page" /\ pc' = "thrown" /\ page = <<>>
        /\ UNCHANGED <<history, mode, before, page, scanned, reachedEnd, out,
                       unfetchedSignatures, truncated, logless, horizon>>
    BY DEF PageThrows, ScanInv, scanVars
  <1>2. /\ ScanTypeOK' /\ NoEventTwice'
        /\ mode' = "scan" => CursorIsExact' /\ ReportsFetched'
                               /\ AccountsForFetched'
    BY <1>1 DEF ScanInv, ScanTypeOK, NoEventTwice, CursorIsExact,
                ReportsFetched, AccountsForFetched, Fetched, collectFromTx
  <1> QED BY <1>1, <1>2 DEF ScanInv

\* The loop has ended: what it collected is turned round.
LEMMA FinishScanPreserves ==
    ASSUME ScanInv, FinishScan
    PROVE  ScanInv'
  <1>1. /\ pc = "page" /\ pc' = "done" /\ mode = "scan" /\ page = <<>>
        /\ scanned >= Limit \/ reachedEnd
        /\ out' = Reverse(out)
        /\ truncated' = ~reachedEnd
        /\ UNCHANGED <<history, mode, before, page, scanned, reachedEnd,
                       unfetchedSignatures, logless, horizon>>
        /\ ScanTypeOK /\ CursorIsExact /\ NewestFirst /\ NoEventTwice
        /\ ReportsFetched /\ AccountsForFetched
        /\ reachedEnd => before <= 1
    BY DEF FinishScan, ScanInv, ScanTypeOK
  <1>2. out \in Seq(Nat \X Nat)
    BY <1>1 DEF ScanTypeOK
  <1>3. /\ out' \in Seq(Nat \X Nat) /\ ToSet(out') = ToSet(out)
        /\ DOMAIN out' = DOMAIN out
        /\ \A i \in DOMAIN out : \E k \in DOMAIN out : out'[i] = out[k]
    <2>1. /\ Reverse(out) \in Seq(Nat \X Nat)
          /\ ToSet(Reverse(out)) = ToSet(out)
          /\ DOMAIN Reverse(out) = DOMAIN out
          /\ \A i \in DOMAIN out : /\ Len(out) - i + 1 \in DOMAIN out
                                   /\ Reverse(out)[i] = out[Len(out) - i + 1]
      BY <1>2, ReverseFacts, Zenon
    <2> QED BY <1>1, <2>1, Zenon
  <1>4. NoEventTwice' /\ OldestFirst'
    <2>1. Distinct(Reverse(out))
      BY <1>1, <1>2, ReverseOrder DEF NoEventTwice, Distinct
    <2>2. \A i, j \in DOMAIN Reverse(out) :
            i < j => Reverse(out)[i][1] <= Reverse(out)[j][1]
      BY <1>1, <1>2, ReverseOrder DEF NewestFirst
    <2> QED BY <1>1, <2>1, <2>2, Zenon DEF NoEventTwice, OldestFirst, Distinct
  <1>5. ScanTypeOK' /\ CursorIsExact'
    BY <1>1, <1>3 DEF ScanTypeOK, CursorIsExact
  <1>6. ReportsFetched'
    <2> SUFFICES ASSUME NEW i \in DOMAIN out'
                 PROVE  /\ Fetched(out[i][1])'
                        /\ ~history'[out'[i][1]].err
                        /\ out'[i] \in ToSet(Matches(out'[i][1],
                                                     history'[out'[i][1]].log))
      BY DEF ReportsFetched, collectFromTx
    <2>1. PICK k \in DOMAIN out : out'[i] = out[k]
      BY <1>3
    <2> QED BY <1>1, <2>1 DEF ReportsFetched, Fetched, collectFromTx
  <1>7. AccountsForFetched'
    BY <1>1, <1>3 DEF AccountsForFetched, Fetched, collectFromTx
  <1>8. LoopEnded'
    BY <1>1 DEF LoopEnded
  <1> QED BY <1>1, <1>4, <1>5, <1>6, <1>7, <1>8 DEF ScanInv

\* A lookup by signature: the events of one transaction.
LEMMA FetchSignaturePreserves ==
    ASSUME ScanInv, NEW sig \in DOMAIN history, NEW answer \in RpcAnswers,
           FetchSignature(sig, answer)
    PROVE  ScanInv'
  <1> DEFINE found == IF answer = "tx" THEN collectFromTx(sig) ELSE <<>>
  <1>1. /\ pc = "idle" /\ pc' = "done" /\ mode' = "signature"
        /\ out' = Reverse(found)
        /\ unfetchedSignatures' = IF answer = "missing" THEN <<sig>> ELSE <<>>
        /\ horizon' = sig
        /\ UNCHANGED <<history, before, page, scanned, reachedEnd, truncated>>
        /\ ScanTypeOK
        /\ page = <<>>
        /\ reachedEnd => before <= 1
    BY DEF FetchSignature, ScanInv
  <1>2. sig \in Nat /\ sig \in 0..Len(history)
    BY <1>1 DEF ScanTypeOK
  <1>3. /\ found \in Seq(Nat \X Nat)
        /\ Distinct(found)
        /\ \A i \in DOMAIN found : found[i][1] = sig
    <2>1. CASE answer = "tx"
      BY <1>1, <2>1, CollectFacts
    <2>2. CASE answer # "tx"
      BY <2>2 DEF Distinct
    <2> QED BY <2>1, <2>2
  <1> HIDE DEF found
  <1>4. Reverse(found) \in Seq(Nat \X Nat) /\ Distinct(Reverse(found))
    BY <1>3, ReverseFacts, ReverseOrder
  <1>5. \A i, j \in DOMAIN Reverse(found) :
          i < j => Reverse(found)[i][1] <= Reverse(found)[j][1]
    <2>1. \A i, j \in DOMAIN found : i < j => found[i][1] >= found[j][1]
      BY <1>2, <1>3
    <2> QED BY <1>3, <2>1, ReverseOrder
  <1>6. ScanTypeOK'
    BY <1>1, <1>2, <1>4 DEF ScanTypeOK
  <1>7. NoEventTwice' /\ OldestFirst'
    BY <1>1, <1>4, <1>5, Zenon DEF NoEventTwice, OldestFirst, Distinct
  <1> QED BY <1>1, <1>6, <1>7 DEF ScanInv

LEMMA NextPreserves == ScanInv /\ [Next]_vars => ScanInv'
  <1> SUFFICES ASSUME ScanInv, [Next]_vars PROVE ScanInv'
    OBVIOUS
  <1>1. CASE UNCHANGED vars
    BY <1>1 DEF vars, scanVars, ScanInv, ScanTypeOK, NoEventTwice,
                CursorIsExact, ReportsFetched, AccountsForFetched, Fetched,
                NewestFirst, OldestFirst, LoopEnded, collectFromTx
  <1>2. CASE \E tx \in Transaction : Sign(tx)
    BY <1>2, SignPreserves
  <1>3. CASE Call
    BY <1>3, StartScanPreserves, FetchSignaturePreserves DEF Call
  <1>4. CASE PageThrows
    BY <1>4, PageThrowsPreserves
  <1>5. CASE Continue
    BY <1>5, FetchPagePreserves, FetchTxPreserves, FinishScanPreserves
       DEF Continue
  <1> QED BY <1>1, <1>2, <1>3, <1>4, <1>5 DEF Next

\* The scan of operations.ts:556-620 keeps its invariant, whatever the wallet
\* signs meanwhile and whatever the node answers.
THEOREM ScanInvariant == Spec => []ScanInv
  <1>1. Init => ScanInv
    BY InitScans
  <1>2. ScanInv /\ [Next]_vars => ScanInv'
    BY NextPreserves
  <1> QED BY <1>1, <1>2, PTL DEF Spec

-----------------------------------------------------------------------------
(* What a finished scan tells.                                             *)

\* No event is reported twice, although new transactions push older ones down
\* the listing between two pages (operations.ts:586-606).
THEOREM NoEventReportedTwice == Spec => []NoEventTwice
  <1>1. ScanInv => NoEventTwice
    BY DEF ScanInv
  <1> QED BY <1>1, ScanInvariant, PTL

\* The events of different transactions are returned oldest first
\* (operations.ts:618-619).
THEOREM EventsInOrder == Spec => []OldestTransactionFirst
  <1>1. ScanInv => OldestTransactionFirst
    BY DEF ScanInv, OldestFirst, OldestTransactionFirst
  <1> QED BY <1>1, ScanInvariant, PTL

\* The events of successful transactions are those collectFromTx finds.
LEMMA CommittedFacts ==
    ASSUME ScanTypeOK, NEW e \in Committed(horizon)
    PROVE  /\ e[1] \in 1..horizon
           /\ ~history[e[1]].err
           /\ e \in ToSet(collectFromTx(e[1]))
  <1>1. PICK sig \in 1..horizon : e \in ToSet(collectFromTx(sig))
    BY DEF Committed
  <1>2. sig \in DOMAIN history
    BY <1>1 DEF ScanTypeOK
  <1>3. e[1] = sig
    BY <1>1, <1>2, CollectFacts DEF ToSet
  <1> QED BY <1>1, <1>3 DEF Committed

\* A scan reports only events of successful transactions that were on the chain
\* when it listed its first page (operations.ts:608).
THEOREM ScansReportOnlyCommitted == Spec => []OnlyCommitted
  <1>1. ScanInv => OnlyCommitted
    <2> SUFFICES ASSUME ScanInv, pc = "done", mode = "scan", NEW e \in ToSet(out)
                 PROVE  e \in Committed(horizon)
      BY DEF OnlyCommitted
    <2>1. ReportsFetched
      BY DEF ScanInv
    <2>2. PICK i \in DOMAIN out : e = out[i]
      BY DEF ToSet
    <2>3. /\ e[1] \in 1..horizon /\ ~history[e[1]].err
          /\ e \in ToSet(collectFromTx(e[1]))
      BY <2>1, <2>2 DEF ReportsFetched, Fetched
    <2> QED BY <2>3 DEF Committed
  <1> QED BY <1>1, ScanInvariant, PTL

\* An event that is missing from a scan's result has one of three causes; the
\* result names two of them (operations.ts:575, 610-614).
THEOREM MissesHaveACause == Spec => []MissesAreExplained
  <1>1. ScanInv => MissesAreExplained
    <2> SUFFICES ASSUME ScanInv, pc = "done", mode = "scan",
                        NEW e \in Committed(horizon), e \notin ToSet(out)
                 PROVE  \/ e[1] \in ToSet(unfetchedSignatures)
                        \/ truncated /\ e[1] <= horizon - Limit
                        \/ e[1] \in logless
      BY DEF MissesAreExplained
    <2>1. /\ ScanTypeOK /\ CursorIsExact /\ AccountsForFetched /\ LoopEnded
      BY DEF ScanInv
    <2>2. /\ e[1] \in 1..horizon
          /\ ~history[e[1]].err
          /\ e \in ToSet(collectFromTx(e[1]))
      BY <2>1, CommittedFacts
    <2>3. CASE Fetched(e[1])
      BY <2>1, <2>2, <2>3 DEF AccountsForFetched
    <2>4. CASE ~Fetched(e[1])
      <3>1. /\ before \in Nat /\ scanned \in Nat /\ horizon \in Nat
            /\ e[1] \in Nat
        BY <2>1, <2>2 DEF ScanTypeOK
      <3>2. Len(page) = 0
        BY <2>1 DEF LoopEnded
      <3>3. e[1] < before
        BY <2>2, <2>4, <3>1, <3>2 DEF Fetched
      <3>4. truncated
        BY <2>1, <2>2, <3>1, <3>3 DEF LoopEnded
      <3>5. scanned >= Limit /\ scanned = horizon - before + 1
        BY <2>1, <3>1, <3>3, <3>4 DEF LoopEnded, CursorIsExact
      <3> QED BY <3>1, <3>3, <3>4, <3>5, ScanAssumption
    <2> QED BY <2>3, <2>4
  <1> QED BY <1>1, ScanInvariant, PTL
=============================================================================
