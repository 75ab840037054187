------------------------------ MODULE Website ------------------------------
(***************************************************************************)
(* The website (apps/website) without its wallet demo: the hash router,    *)
(* the lookup and the verify page, and the client demo of the landing      *)
(* page.  Pages query two clusters, on which an operator acts meanwhile;   *)
(* the state of a page dies with the page.  A claim is what the other      *)
(* fields of a form hold: owner and label, and on the verify page mode,    *)
(* memo, proof and alpha.                                                  *)
(***************************************************************************)
EXTENDS Naturals, Sequences, SequencesExt

CONSTANTS
    Claims,         \* what people type that parses
    Genuine,        \* the claims with a proof that verifies
    Links,          \* deep links, records of a cluster, an endpoint, a claim
    Memos, Keys,    \* inputs and keys of the client demo
    HISTORY         \* rolls that the client demo keeps (5)

Clusters == {"mainnet", "devnet"}
Unset == "unset"        \* a missing parameter of a link
Blank == "blank"        \* a form that is not filled in
Malformed == "malformed"
NoLink == [cluster |-> Unset, rpc |-> Unset, claim |-> Blank]

ASSUME WebsiteAssumption ==
    /\ Genuine \subseteq Claims
    /\ Links \subseteq [cluster: Clusters \cup {Unset},
                        rpc: Clusters \cup {Unset}, claim: Claims]
    /\ HISTORY \in Nat \ {0}

VARIABLES
    authority,  \* per cluster: the operator's authority, a set of at most one
    committed,  \* the claims committed, with their cluster
    url,        \* window.location.hash: path and parameters
    page        \* the state of the mounted page, of ClientDemo on the landing

vars == <<authority, committed, url, page>>

Paths == {"#/", "#/lookup", "#/verify"}

-----------------------------------------------------------------------------
(* The operator on both clusters, as the program allows (CommitRegistry).  *)

Record(frozen, revoked) == [frozen |-> frozen, revoked |-> revoked]

Operator(c) ==
    /\ \/ /\ authority[c] = {}
          /\ authority' = [authority EXCEPT ![c] = {Record(FALSE, FALSE)}]
          /\ UNCHANGED committed
       \/ \E a \in authority[c] :
            \/ /\ ~a.frozen
               /\ authority' = [authority EXCEPT ![c] = {Record(TRUE, a.revoked)}]
               /\ UNCHANGED committed
            \/ /\ ~a.revoked
               /\ authority' = [authority EXCEPT ![c] = {Record(a.frozen, TRUE)}]
               /\ UNCHANGED committed
            \/ /\ a.frozen /\ ~a.revoked
               /\ \E claim \in Claims : committed' = committed \cup {<<c, claim>>}
               /\ UNCHANGED authority
    /\ UNCHANGED <<url, page>>

-----------------------------------------------------------------------------
(* Pages.                                                                  *)

Nothing == [kind |-> "nothing"]

defaultRpcForCluster(cluster) ==
    IF cluster = "mainnet" THEN "mainnet" ELSE "devnet"

\* The fields of a form and what is queried and shown: requests is what its
\* event handlers have in flight.
Form(cluster, rpc, claim) ==
    [cluster |-> cluster, rpc |-> rpc, claim |-> claim,
     loading |-> FALSE, requests |-> {}, shown |-> Nothing, latest |-> Nothing]

\* An event handler with what it captured when it was called.
Request(form) ==
    [kind |-> "request", rpc |-> form.rpc, claim |-> form.claim, auth |-> {}]

\* lookup() and runVerify(), up to their first await: input that does not parse
\* is an error at once.
Submitted(form) ==
    IF form.claim = Malformed
    THEN [form EXCEPT !.shown = [kind |-> "error"], !.latest = Request(form)]
    ELSE [form EXCEPT !.loading = TRUE, !.shown = Nothing,
                      !.requests = @ \cup {Request(form)},
                      !.latest = Request(form)]

LookupForm == Form("mainnet", defaultRpcForCluster("mainnet"), Blank)

\* The state that VerifyPage starts with, and the effect of its first render:
\* a link that fills the form in is verified.
VerifyForm(link) ==
    LET cluster == IF link.cluster = Unset THEN "mainnet" ELSE link.cluster
        form == Form(cluster,
                     IF link.rpc = Unset THEN defaultRpcForCluster(cluster)
                                         ELSE link.rpc,
                     link.claim)
    IN  IF link.claim = Blank THEN form ELSE Submitted(form)

\* ClientDemo before its first roll, with a key it generated.
FreshDemo(key) == [sk |-> key, pk |-> key, rolls |-> <<>>]

Mounted(u, key) ==
    CASE u.path = "#/lookup" -> LookupForm
      [] u.path = "#/verify" -> VerifyForm(u.link)
      [] u.path = "#/" -> FreshDemo(key)

\* hashchange.  React keeps the page, and its state, while the path stays.
Navigate(u) ==
    /\ url' = u
    /\ IF u.path = url.path
       THEN UNCHANGED page
       ELSE \E key \in Keys : page' = Mounted(u, key)
    /\ UNCHANGED <<authority, committed>>

OnLanding == url.path = "#/"
OnForm == url.path \in {"#/lookup", "#/verify"}

\* The controls of a form, which stay enabled while it is loading.
SelectCluster(c) ==
    /\ OnForm
    /\ page' = [page EXCEPT !.cluster = c, !.rpc = defaultRpcForCluster(c)]
    /\ UNCHANGED <<authority, committed, url>>

EditClaim(claim) ==
    /\ OnForm
    /\ page' = [page EXCEPT !.claim = claim]
    /\ UNCHANGED <<authority, committed, url>>

\* Mutant: the button is not disabled.
SubmitAgain ==
    /\ OnForm /\ page.claim # Blank
    /\ page' = Submitted(page)
    /\ UNCHANGED <<authority, committed, url>>

\* The button is disabled while loading, and fields are required.
Submit ==
    /\ OnForm /\ page.claim # Blank /\ ~page.loading
    /\ page' = Submitted(page)
    /\ UNCHANGED <<authority, committed, url>>

\* Mutant: loading is only reset with a result.
FinishUnlessMissing(req, result) ==
    page' = [page EXCEPT !.shown = result, !.requests = @ \ {req},
                         !.loading = result.kind = "missing"]

\* The handler ends: what it shows, and its finally.
Finish(req, result) ==
    page' = [page EXCEPT !.shown = result, !.requests = @ \ {req},
                         !.loading = FALSE]

Outcome(req, valid) ==
    [kind |-> "verdict", rpc |-> req.rpc, claim |-> req.claim, valid |-> valid]

Row(req, a) == [kind |-> "row", rpc |-> req.rpc, claim |-> req.claim, record |-> a]

\* fetchAuthority answers the handler of a page.
AuthorityAnswer(req) ==
    /\ req.auth = {}
    /\ \/ /\ authority[req.rpc] = {}
          /\ Finish(req, [kind |-> "missing"])
       \/ \E a \in authority[req.rpc] :
            IF url.path = "#/lookup" THEN Finish(req, Row(req, a))
            ELSE page' = [page EXCEPT !.requests =
                            (@ \ {req}) \cup {[req EXCEPT !.auth = {a}]}]
    /\ UNCHANGED <<authority, committed, url>>

\* Mutant: the fields are read again after the await.
CommitAnswerNow(req) ==
    \E a \in req.auth :
        /\ IF <<page.rpc, page.claim>> \in committed
           THEN Finish(req, Outcome(req, /\ page.claim \in Genuine
                                         /\ a.frozen /\ ~a.revoked))
           ELSE Finish(req, [kind |-> "error"])
        /\ UNCHANGED <<authority, committed, url>>

\* The commit is fetched from the same endpoint, and the verdict uses the
\* authority that was read before.
CommitAnswer(req) ==
    \E a \in req.auth :
        /\ IF <<req.rpc, req.claim>> \in committed
           THEN Finish(req, Outcome(req, /\ req.claim \in Genuine
                                         /\ a.frozen /\ ~a.revoked))
           ELSE Finish(req, [kind |-> "error"])
        /\ UNCHANGED <<authority, committed, url>>

RequestFails(req) ==
    /\ Finish(req, [kind |-> "error"])
    /\ UNCHANGED <<authority, committed, url>>

Answer ==
    /\ OnForm
    /\ \E req \in page.requests :
          AuthorityAnswer(req) \/ CommitAnswer(req) \/ RequestFails(req)

-----------------------------------------------------------------------------
(* The client demo.                                                        *)

\* Mutant: a new key leaves the rolls of the old one.
RegenerateKeepingRolls(key) ==
    /\ OnLanding
    /\ page' = [page EXCEPT !.sk = key, !.pk = key]
    /\ UNCHANGED <<authority, committed, url>>

RegenerateKeypair(key) ==
    /\ OnLanding
    /\ page' = FreshDemo(key)
    /\ UNCHANGED <<authority, committed, url>>

\* doRoll: beta is a function of the key and the memo, and the proof verifies
\* under pk if it was made with its sk.
DoRoll(memo) ==
    /\ OnLanding
    /\ LET roll == [memo |-> memo, beta |-> <<page.sk, memo>>,
                    valid |-> page.sk = page.pk]
           rolls == <<roll>> \o page.rolls
       IN  page' = [page EXCEPT !.rolls =
              SubSeq(rolls, 1, IF Len(rolls) < HISTORY THEN Len(rolls) ELSE HISTORY)]
    /\ UNCHANGED <<authority, committed, url>>

-----------------------------------------------------------------------------
Init ==
    /\ authority = [c \in Clusters |-> {}]
    /\ committed = {}
    /\ \E path \in Paths, link \in Links \cup {NoLink} :
          url = [path |-> path, link |-> link]
    /\ \E key \in Keys : page = Mounted(url, key)

Next ==
    \/ \E c \in Clusters : Operator(c) \/ SelectCluster(c)
    \/ \E path \in Paths, link \in Links \cup {NoLink} :
          Navigate([path |-> path, link |-> link])
    \/ \E claim \in Claims \cup {Malformed} : EditClaim(claim)
    \/ Submit
    \/ Answer
    \/ \E key \in Keys : RegenerateKeypair(key)
    \/ \E memo \in Memos : DoRoll(memo)

\* Every request of a mounted page settles, with an answer or an error.
Fairness == WF_vars(Answer)

Spec == Init /\ [][Next]_vars /\ Fairness

-----------------------------------------------------------------------------
(* Properties.                                                             *)

\* What a form shows belongs to its latest submission: no answer to an earlier
\* one, of this page or of one that was left, arrives after it and replaces it
\* (LookupPage.tsx:37-80, VerifyPage.tsx:59-171).
ShownIsOfLatestSubmission ==
    (OnForm /\ page.shown.kind \in {"verdict", "row"}) =>
        /\ page.shown.rpc = page.latest.rpc
        /\ page.shown.claim = page.latest.claim

\* VALID is true of the cluster whose endpoint was queried, whatever the user
\* edits and selects while the two requests run: the claim is committed there,
\* its proof verifies, and the authority is frozen (it may be revoked since).
\* A row of the lookup page that says frozen or revoked is still right.
ShownIsTrue ==
    OnForm =>
        /\ (page.shown.kind = "verdict" /\ page.shown.valid) =>
              /\ page.shown.claim \in Genuine
              /\ <<page.shown.rpc, page.shown.claim>> \in committed
              /\ \E a \in authority[page.shown.rpc] : a.frozen
        /\ page.shown.kind = "row" =>
              \E a \in authority[page.shown.rpc] :
                  /\ page.shown.record.frozen => a.frozen
                  /\ page.shown.record.revoked => a.revoked

\* "looking up..." and "verifying..." end, by a result, an error or the user
\* leaving: the button does not stay disabled (LookupPage.tsx:77-79,
\* VerifyPage.tsx:168-170).
Loading == OnForm /\ page.loading

LoadingEnds == Loading ~> ~Loading

\* A user who rolls the same memo again sees the same value, on the screen, as
\* long as the client demo shows the earlier roll, and every roll is valid
\* under the key that is shown (ClientDemo.tsx:55-91).
RollsAreReproducible ==
    OnLanding => \A i, j \in DOMAIN page.rolls :
        /\ page.rolls[i].memo = page.rolls[j].memo =>
              page.rolls[i].beta = page.rolls[j].beta
        /\ page.rolls[i].valid /\ page.rolls[i].beta[1] = page.pk
=============================================================================
