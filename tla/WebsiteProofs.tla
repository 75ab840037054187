--------------------------- MODULE WebsiteProofs ---------------------------
(***************************************************************************)
(* Proofs about Website, for every set of claims, links, memos and keys:   *)
(* what a page shows while its requests, the user and the operator run.    *)
(***************************************************************************)
EXTENDS Website, SequenceTheorems, TLAPS

-----------------------------------------------------------------------------
(* The inductive invariant.                                                *)

\* The record of a form.
FormRecord(cluster, rpc, claim, loading, requests, shown, latest) ==
    [cluster |-> cluster, rpc |-> rpc, claim |-> claim, loading |-> loading,
     requests |-> requests, shown |-> shown, latest |-> latest]

RequestRecord(rpc, claim, auth) ==
    [kind |-> "request", rpc |-> rpc, claim |-> claim, auth |-> auth]

\* A record of the authority that was read on a cluster: its flags only rise.
WasRead(a, c) ==
    \E b \in authority[c] : /\ a.frozen => b.frozen
                            /\ a.revoked => b.revoked

\* A request in flight.
RequestInv(r) ==
    /\ r = RequestRecord(r.rpc, r.claim, r.auth)
    /\ r.rpc \in Clusters
    /\ \A a \in r.auth : WasRead(a, r.rpc)

\* What is shown is of a latest submission and true of its cluster.
ShownInv(shown, latest) ==
    /\ shown.kind \in {"verdict", "row"} =>
          /\ shown.rpc = latest.rpc /\ shown.claim = latest.claim
          /\ shown.rpc \in Clusters
    /\ (shown.kind = "verdict" /\ shown.valid) =>
          /\ shown.claim \in Genuine
          /\ <<shown.rpc, shown.claim>> \in committed
          /\ \E a \in authority[shown.rpc] : a.frozen
    /\ shown.kind = "row" => WasRead(shown.record, shown.rpc)

\* A form has at most one request in flight, while it is loading, and it is of
\* the latest submission.
FormInv(p) ==
    /\ p = FormRecord(p.cluster, p.rpc, p.claim, p.loading, p.requests,
                      p.shown, p.latest)
    /\ p.rpc \in Clusters
    /\ ~p.loading => p.requests = {}
    /\ \A r \in p.requests : /\ RequestInv(r)
                             /\ r.rpc = p.latest.rpc
                             /\ r.claim = p.latest.claim
    /\ \A r, s \in p.requests : r = s
    /\ ShownInv(p.shown, p.latest)

\* The rolls that a key makes.
RollsOf(key) == {[memo |-> m, beta |-> <<key, m>>, valid |-> TRUE] : m \in Memos}

\* The rolls of the client demo are of the key it shows.
DemoInv(p) ==
    /\ p = [sk |-> p.sk, pk |-> p.pk, rolls |-> p.rolls]
    /\ p.sk = p.pk
    /\ p.rolls \in Seq(RollsOf(p.pk))

SiteInv ==
    /\ url.path \in Paths
    /\ DOMAIN authority = Clusters
    /\ \A c \in Clusters : \A a, b \in authority[c] : a = b
    /\ OnForm => FormInv(page)
    /\ OnLanding => DemoInv(page)

-----------------------------------------------------------------------------
(* Records.                                                                *)

LEMMA FormFields ==
    ASSUME NEW c, NEW r, NEW m, NEW l, NEW q, NEW s, NEW t
    PROVE  LET p == FormRecord(c, r, m, l, q, s, t)
           IN  /\ p.cluster = c /\ p.rpc = r /\ p.claim = m /\ p.loading = l
               /\ p.requests = q /\ p.shown = s /\ p.latest = t
  BY DEF FormRecord

\* The updates of a form, and what they make of its fields.
WithCluster(p, x, y) ==
    [p EXCEPT !.cluster = x, !.rpc = y]
WithClaim(p, x) ==
    [p EXCEPT !.claim = x]
WithRefused(p, x, y) ==
    [p EXCEPT !.shown = x, !.latest = y]
WithStarted(p, x, y, z, w) ==
    [p EXCEPT !.loading = x, !.shown = y, !.requests = z, !.latest = w]
WithFinished(p, x, y, z) ==
    [p EXCEPT !.shown = x, !.requests = y, !.loading = z]
WithRequests(p, x) ==
    [p EXCEPT !.requests = x]

LEMMA FormCluster ==
    ASSUME NEW c, NEW r, NEW m, NEW l, NEW q, NEW s, NEW t,
           NEW x, NEW y
    PROVE  WithCluster(FormRecord(c, r, m, l, q, s, t), x, y)
             = FormRecord(x, y, m, l, q, s, t)
  <1>1. [FormRecord(c, r, m, l, q, s, t) EXCEPT !.cluster = x]
          = FormRecord(x, r, m, l, q, s, t)
    BY DEF FormRecord
  <1>2. [FormRecord(x, r, m, l, q, s, t) EXCEPT !.rpc = y]
          = FormRecord(x, y, m, l, q, s, t)
    BY DEF FormRecord
  <1> QED BY <1>1, <1>2, Zenon DEF WithCluster

LEMMA FormClaim ==
    ASSUME NEW c, NEW r, NEW m, NEW l, NEW q, NEW s, NEW t,
           NEW x
    PROVE  WithClaim(FormRecord(c, r, m, l, q, s, t), x)
             = FormRecord(c, r, x, l, q, s, t)
  BY DEF FormRecord, WithClaim

LEMMA FormRefused ==
    ASSUME NEW c, NEW r, NEW m, NEW l, NEW q, NEW s, NEW t,
           NEW x, NEW y
    PROVE  WithRefused(FormRecord(c, r, m, l, q, s, t), x, y)
             = FormRecord(c, r, m, l, q, x, y)
  <1>1. [FormRecord(c, r, m, l, q, s, t) EXCEPT !.shown = x]
          = FormRecord(c, r, m, l, q, x, t)
    BY DEF FormRecord
  <1>2. [FormRecord(c, r, m, l, q, x, t) EXCEPT !.latest = y]
          = FormRecord(c, r, m, l, q, x, y)
    BY DEF FormRecord
  <1> QED BY <1>1, <1>2, Zenon DEF WithRefused

LEMMA FormStarted ==
    ASSUME NEW c, NEW r, NEW m, NEW l, NEW q, NEW s, NEW t,
           NEW x, NEW y, NEW z, NEW w
    PROVE  WithStarted(FormRecord(c, r, m, l, q, s, t), x, y, z, w)
             = FormRecord(c, r, m, x, z, y, w)
  <1>1. [FormRecord(c, r, m, l, q, s, t) EXCEPT !.loading = x]
          = FormRecord(c, r, m, x, q, s, t)
    BY DEF FormRecord
  <1>2. [FormRecord(c, r, m, x, q, s, t) EXCEPT !.shown = y]
          = FormRecord(c, r, m, x, q, y, t)
    BY DEF FormRecord
  <1>3. [FormRecord(c, r, m, x, q, y, t) EXCEPT !.requests = z]
          = FormRecord(c, r, m, x, z, y, t)
    BY DEF FormRecord
  <1>4. [FormRecord(c, r, m, x, z, y, t) EXCEPT !.latest = w]
          = FormRecord(c, r, m, x, z, y, w)
    BY DEF FormRecord
  <1> QED BY <1>1, <1>2, <1>3, <1>4, Zenon DEF WithStarted

LEMMA FormFinished ==
    ASSUME NEW c, NEW r, NEW m, NEW l, NEW q, NEW s, NEW t,
           NEW x, NEW y, NEW z
    PROVE  WithFinished(FormRecord(c, r, m, l, q, s, t), x, y, z)
             = FormRecord(c, r, m, z, y, x, t)
  <1>1. [FormRecord(c, r, m, l, q, s, t) EXCEPT !.shown = x]
          = FormRecord(c, r, m, l, q, x, t)
    BY DEF FormRecord
  <1>2. [FormRecord(c, r, m, l, q, x, t) EXCEPT !.requests = y]
          = FormRecord(c, r, m, l, y, x, t)
    BY DEF FormRecord
  <1>3. [FormRecord(c, r, m, l, y, x, t) EXCEPT !.loading = z]
          = FormRecord(c, r, m, z, y, x, t)
    BY DEF FormRecord
  <1> QED BY <1>1, <1>2, <1>3, Zenon DEF WithFinished

LEMMA FormRequests ==
    ASSUME NEW c, NEW r, NEW m, NEW l, NEW q, NEW s, NEW t,
           NEW x
    PROVE  WithRequests(FormRecord(c, r, m, l, q, s, t), x)
             = FormRecord(c, r, m, l, x, s, t)
  BY DEF FormRecord, WithRequests

LEMMA RequestFields ==
    ASSUME NEW r, NEW m, NEW a
    PROVE  LET q == RequestRecord(r, m, a)
           IN  /\ q.rpc = r /\ q.claim = m /\ q.auth = a
               /\ \A x : [q EXCEPT !.auth = x] = RequestRecord(r, m, x)
  BY DEF RequestRecord

\* A form whose fields satisfy the invariant.
LEMMA FormFromFields ==
    ASSUME NEW c, NEW r \in Clusters, NEW m, NEW l, NEW q, NEW s, NEW t,
           ~l => q = {},
           \A x \in q : RequestInv(x) /\ x.rpc = t.rpc /\ x.claim = t.claim,
           \A x, y \in q : x = y,
           ShownInv(s, t)
    PROVE  FormInv(FormRecord(c, r, m, l, q, s, t))
  <1> DEFINE p == FormRecord(c, r, m, l, q, s, t)
  <1>1. /\ p.cluster = c /\ p.rpc = r /\ p.claim = m /\ p.loading = l
        /\ p.requests = q /\ p.shown = s /\ p.latest = t
    BY FormFields
  <1>2. p = FormRecord(p.cluster, p.rpc, p.claim, p.loading, p.requests,
                       p.shown, p.latest)
    BY <1>1
  <1> HIDE DEF p
  <1> QED BY <1>1, <1>2, Zenon DEF FormInv, p

\* What a form is made of.
LEMMA FormParts ==
    ASSUME NEW p, FormInv(p)
    PROVE  \E c, r, m, l, q, s, t :
             /\ p = FormRecord(c, r, m, l, q, s, t)
             /\ c = p.cluster /\ r = p.rpc /\ m = p.claim /\ l = p.loading
             /\ q = p.requests /\ s = p.shown /\ t = p.latest
             /\ r \in Clusters
             /\ ~l => q = {}
             /\ \A x \in q : RequestInv(x) /\ x.rpc = t.rpc /\ x.claim = t.claim
             /\ \A x, y \in q : x = y
             /\ ShownInv(s, t)
  BY Zenon DEF FormInv

-----------------------------------------------------------------------------
(* Pages are mounted with an invariant.                                    *)

\* lookup() and runVerify(): what they start.
LEMMA SubmittedInv ==
    ASSUME NEW p, FormInv(p), ~p.loading
    PROVE  FormInv(Submitted(p))
  <1>1. PICK c, r, m, l, q, s, t :
             /\ p = FormRecord(c, r, m, l, q, s, t)
             /\ c = p.cluster /\ r = p.rpc /\ m = p.claim /\ l = p.loading
             /\ q = p.requests /\ s = p.shown /\ t = p.latest
             /\ r \in Clusters
             /\ ~l => q = {}
    BY FormParts
  <1>2. q = {}
    BY <1>1
  <1>9. p = FormRecord(c, r, m, l, q, s, t)
    BY <1>1
  <1> DEFINE new == RequestRecord(r, m, {})
  <1>3. Request(p) = new
    BY <1>1 DEF Request, RequestRecord
  <1>4. new.rpc = r /\ new.claim = m /\ new.auth = {}
    BY RequestFields
  <1>5. RequestInv(new)
    BY <1>1, <1>4 DEF RequestInv
  <1>6. ShownInv(Nothing, new) /\ ShownInv([kind |-> "error"], new)
    BY DEF ShownInv, Nothing
  <1> HIDE DEF new
  <1>7. CASE p.claim = Malformed
    <2> DEFINE e == [kind |-> "error"]
    <2>1. Submitted(p) = WithRefused(p, e, new)
      BY <1>3, <1>7, Zenon DEF Submitted, WithRefused
    <2>2. ShownInv(e, new)
      BY <1>6
    <2> HIDE DEF e
    <2>3. WithRefused(p, e, new) = FormRecord(c, r, m, l, q, e, new)
      BY <1>9, FormRefused
    <2>4. /\ ~l => q = {}
          /\ \A x \in q : RequestInv(x) /\ x.rpc = new.rpc /\ x.claim = new.claim
          /\ \A x, y \in q : x = y
      BY <1>2
    <2>5. FormInv(FormRecord(c, r, m, l, q, e, new))
      BY <1>1, <2>2, <2>4, FormFromFields, Zenon
    <2> QED BY <2>1, <2>3, <2>5, Zenon
  <1>8. CASE p.claim # Malformed
    <2>1. PICK yes : yes = TRUE
      OBVIOUS
    <2> DEFINE one == q \cup {new}
    <2>2. Submitted(p) = WithStarted(p, yes, Nothing, one, new)
      BY <1>1, <1>3, <1>8, <2>1 DEF Submitted, WithStarted
    <2>3. /\ ~yes => one = {}
          /\ \A x \in one : RequestInv(x) /\ x.rpc = new.rpc /\ x.claim = new.claim
          /\ \A x, y \in one : x = y
      BY <1>1, <1>2, <1>4, <1>5, <2>1
    <2> HIDE DEF one
    <2>4. WithStarted(p, yes, Nothing, one, new)
            = FormRecord(c, r, m, yes, one, Nothing, new)
      BY <1>9, FormStarted
    <2>5. FormInv(FormRecord(c, r, m, yes, one, Nothing, new))
      BY <1>1, <1>6, <2>3, FormFromFields, Zenon
    <2> QED BY <2>2, <2>4, <2>5, Zenon
  <1> QED BY <1>7, <1>8

LEMMA FormFresh ==
    ASSUME NEW cluster, NEW rpc \in Clusters, NEW claim
    PROVE  FormInv(Form(cluster, rpc, claim)) /\ ~Form(cluster, rpc, claim).loading
  <1>1. PICK no : no = FALSE
    OBVIOUS
  <1>2. Form(cluster, rpc, claim) =
          FormRecord(cluster, rpc, claim, no, {}, Nothing, Nothing)
    BY <1>1, Zenon DEF Form, FormRecord
  <1>3. ShownInv(Nothing, Nothing)
    BY DEF ShownInv, Nothing
  <1>4. FormInv(FormRecord(cluster, rpc, claim, no, {}, Nothing, Nothing))
    BY <1>3, FormFromFields
  <1> QED BY <1>1, <1>2, <1>4, FormFields

LEMMA FreshDemoInv ==
    ASSUME NEW key
    PROVE  DemoInv(FreshDemo(key))
  <1>1. <<>> \in Seq(RollsOf(key))
    OBVIOUS
  <1> DEFINE p == FreshDemo(key)
  <1>2. /\ p = [sk |-> key, pk |-> key, rolls |-> <<>>]
        /\ p.sk = key /\ p.pk = key /\ p.rolls = <<>>
    BY DEF FreshDemo
  <1> HIDE DEF p
  <1>3. DemoInv(p)
    BY <1>1, <1>2, Zenon DEF DemoInv
  <1> QED BY <1>3 DEF p

LEMMA MountedInv ==
    ASSUME NEW path \in Paths, NEW link \in Links \cup {NoLink}, NEW key
    PROVE  LET p == Mounted([path |-> path, link |-> link], key)
           IN  /\ path \in {"#/lookup", "#/verify"} => FormInv(p)
               /\ path = "#/" => DemoInv(p)
  <1> DEFINE u == [path |-> path, link |-> link]
             p == Mounted(u, key)
  <1>1. CASE path = "#/"
    <2>1. p = FreshDemo(key)
      BY <1>1 DEF Mounted
    <2> HIDE DEF p
    <2>2. DemoInv(p)
      BY <2>1, FreshDemoInv
    <2> QED BY <1>1, <2>2 DEF p
  <1>2. CASE path = "#/lookup"
    <2>1. p = Form("mainnet", defaultRpcForCluster("mainnet"), Blank)
      BY <1>2 DEF Mounted, LookupForm
    <2>2. defaultRpcForCluster("mainnet") \in Clusters
      BY DEF defaultRpcForCluster, Clusters
    <2> QED BY <1>2, <2>1, <2>2, FormFresh
  <1>3. CASE path = "#/verify"
    <2>1. p = VerifyForm(link)
      BY <1>3 DEF Mounted
    <2> DEFINE cluster == IF link.cluster = Unset THEN "mainnet"
                          ELSE link.cluster
               rpc == IF link.rpc = Unset THEN defaultRpcForCluster(cluster)
                      ELSE link.rpc
               form == Form(cluster, rpc, link.claim)
    <2>2. link.rpc \in Clusters \cup {Unset}
      BY WebsiteAssumption DEF NoLink
    <2>3. rpc \in Clusters
      BY <2>2 DEF defaultRpcForCluster, Clusters
    <2>4. FormInv(form) /\ ~form.loading
      BY <2>3, FormFresh
    <2>5. VerifyForm(link) = IF link.claim = Blank THEN form
                             ELSE Submitted(form)
      BY DEF VerifyForm
    <2> HIDE DEF form
    <2>6. FormInv(VerifyForm(link))
      BY <2>4, <2>5, SubmittedInv
    <2> QED BY <1>3, <2>1, <2>6
  <1> QED BY <1>1, <1>2, <1>3 DEF Paths

-----------------------------------------------------------------------------
(* What the events of a form make of it.                                   *)

\* A result replaces what is shown and ends the loading.
LEMMA FinishedInv ==
    ASSUME NEW p, FormInv(p), NEW req \in p.requests,
           NEW result, ShownInv(result, p.latest)
    PROVE  FormInv([p EXCEPT !.shown = result, !.requests = @ \ {req},
                             !.loading = FALSE])
  <1>1. PICK c, r, m, l, q, s, t :
             /\ p = FormRecord(c, r, m, l, q, s, t)
             /\ q = p.requests /\ t = p.latest
             /\ r \in Clusters
             /\ \A x, y \in q : x = y
    BY FormParts
  <1>2. p = FormRecord(c, r, m, l, q, s, t)
    BY <1>1
  <1>3. PICK no : no = FALSE
    OBVIOUS
  <1> DEFINE rest == p.requests \ {req}
  <1>4. rest = {}
    BY <1>1
  <1>5. [p EXCEPT !.shown = result, !.requests = @ \ {req}, !.loading = FALSE]
          = WithFinished(p, result, rest, no)
    BY <1>3 DEF WithFinished
  <1> HIDE DEF rest
  <1>6. WithFinished(p, result, rest, no) = FormRecord(c, r, m, no, rest, result, t)
    BY <1>2, FormFinished
  <1>7. /\ ~no => rest = {}
        /\ \A x \in rest : RequestInv(x) /\ x.rpc = t.rpc /\ x.claim = t.claim
        /\ \A x, y \in rest : x = y
    BY <1>4
  <1>8. FormInv(FormRecord(c, r, m, no, rest, result, t))
    BY <1>1, <1>7, FormFromFields, Zenon
  <1> QED BY <1>5, <1>6, <1>8, Zenon

\* The authority that arrives stays with the request.
LEMMA AuthorityInv ==
    ASSUME NEW p, FormInv(p), NEW req \in p.requests,
           NEW a, WasRead(a, req.rpc)
    PROVE  FormInv([p EXCEPT !.requests =
                      (@ \ {req}) \cup {[req EXCEPT !.auth = {a}]}])
  <1>1. PICK c, r, m, l, q, s, t :
             /\ p = FormRecord(c, r, m, l, q, s, t)
             /\ q = p.requests
             /\ r \in Clusters
             /\ ~l => q = {}
             /\ \A x \in q : RequestInv(x) /\ x.rpc = t.rpc /\ x.claim = t.claim
             /\ \A x, y \in q : x = y
             /\ ShownInv(s, t)
    BY FormParts
  <1>2. p = FormRecord(c, r, m, l, q, s, t)
    BY <1>1
  <1> DEFINE new == [req EXCEPT !.auth = {a}]
             one == (p.requests \ {req}) \cup {new}
  <1>3. new = RequestRecord(req.rpc, req.claim, {a})
    <2>1. req = RequestRecord(req.rpc, req.claim, req.auth)
      BY <1>1 DEF RequestInv
    <2>2. [RequestRecord(req.rpc, req.claim, req.auth) EXCEPT !.auth = {a}]
            = RequestRecord(req.rpc, req.claim, {a})
      BY DEF RequestRecord
    <2> QED BY <2>1, <2>2, Zenon
  <1>4. new.rpc = req.rpc /\ new.claim = req.claim /\ new.auth = {a}
    BY <1>3, RequestFields
  <1>5. RequestInv(new) /\ new.rpc = t.rpc /\ new.claim = t.claim
    <2>1. req.rpc \in Clusters /\ req.rpc = t.rpc /\ req.claim = t.claim
      BY <1>1 DEF RequestInv
    <2> HIDE DEF new
    <2> QED BY <1>3, <1>4, <2>1 DEF RequestInv
  <1>6. WithRequests(p, one) = [p EXCEPT !.requests =
                                  (@ \ {req}) \cup {[req EXCEPT !.auth = {a}]}]
    BY DEF WithRequests
  <1> HIDE DEF new
  <1>7. /\ ~l => one = {}
        /\ \A x \in one : RequestInv(x) /\ x.rpc = t.rpc /\ x.claim = t.claim
        /\ \A x, y \in one : x = y
    BY <1>1, <1>5
  <1> HIDE DEF one
  <1>8. WithRequests(p, one) = FormRecord(c, r, m, l, one, s, t)
    BY <1>2, FormRequests
  <1>9. FormInv(FormRecord(c, r, m, l, one, s, t))
    BY <1>1, <1>7, FormFromFields, Zenon
  <1> QED BY <1>6, <1>8, <1>9, Zenon DEF new

\* The controls leave what is in flight and what is shown alone.
LEMMA ControlInv ==
    ASSUME NEW p, FormInv(p), NEW cluster, NEW rpc \in Clusters, NEW claim
    PROVE  /\ FormInv([p EXCEPT !.cluster = cluster, !.rpc = rpc])
           /\ FormInv([p EXCEPT !.claim = claim])
  <1>1. PICK c, r, m, l, q, s, t :
             /\ p = FormRecord(c, r, m, l, q, s, t)
             /\ r \in Clusters
             /\ ~l => q = {}
             /\ \A x \in q : RequestInv(x) /\ x.rpc = t.rpc /\ x.claim = t.claim
             /\ \A x, y \in q : x = y
             /\ ShownInv(s, t)
    BY FormParts
  <1>2. p = FormRecord(c, r, m, l, q, s, t)
    BY <1>1
  <1>3. /\ WithCluster(p, cluster, rpc) = FormRecord(cluster, rpc, m, l, q, s, t)
        /\ WithClaim(p, claim) = FormRecord(c, r, claim, l, q, s, t)
    BY <1>2, FormCluster, FormClaim
  <1>4. FormInv(FormRecord(cluster, rpc, m, l, q, s, t))
    BY <1>1, FormFromFields, Zenon
  <1>5. FormInv(FormRecord(c, r, claim, l, q, s, t))
    BY <1>1, FormFromFields, Zenon
  <1>6. FormInv(WithCluster(p, cluster, rpc)) /\ FormInv(WithClaim(p, claim))
    BY <1>3, <1>4, <1>5, Zenon
  <1> QED BY <1>6, Zenon DEF WithCluster, WithClaim

-----------------------------------------------------------------------------
(* Steps.                                                                  *)

\* The operator takes nothing back.
LEMMA OperatorStep ==
    ASSUME SiteInv, NEW c \in Clusters, Operator(c)
    PROVE  /\ DOMAIN authority' = Clusters
           /\ \A d \in Clusters : \A a, b \in authority'[d] : a = b
           /\ committed \subseteq committed'
           /\ \A d \in Clusters : \A a \in authority[d] : \E b \in authority'[d] :
                 /\ a.frozen => b.frozen
                 /\ a.revoked => b.revoked
           /\ UNCHANGED <<url, page>>
  <1>1. UNCHANGED <<url, page>>
    BY DEF Operator
  <1>2. CASE authority' = authority /\ committed \subseteq committed'
    BY <1>1, <1>2 DEF SiteInv
  <1>3. ASSUME NEW new, authority' = [authority EXCEPT ![c] = {new}],
               committed' = committed,
               \A a \in authority[c] : /\ a.frozen => new.frozen
                                       /\ a.revoked => new.revoked
        PROVE  /\ DOMAIN authority' = Clusters
               /\ \A d \in Clusters : \A a, b \in authority'[d] : a = b
               /\ committed \subseteq committed'
               /\ \A d \in Clusters : \A a \in authority[d] :
                     \E b \in authority'[d] : /\ a.frozen => b.frozen
                                              /\ a.revoked => b.revoked
    <2>1. DOMAIN authority = Clusters
      BY DEF SiteInv
    <2>2. DOMAIN authority' = Clusters /\ committed \subseteq committed'
      BY <1>3, <2>1
    <2>3. authority'[c] = {new}
      BY <1>3, <2>1
    <2>4. \A d \in Clusters : d # c => authority'[d] = authority[d]
      BY <1>3, <2>1
    <2>5. \A d \in Clusters : \A a, b \in authority'[d] : a = b
      <3> TAKE d \in Clusters
      <3> CASE d = c
        BY <2>3
      <3> CASE d # c
        BY <2>4 DEF SiteInv
      <3> QED OBVIOUS
    <2>6. \A d \in Clusters : \A a \in authority[d] :
             \E b \in authority'[d] : /\ a.frozen => b.frozen
                                      /\ a.revoked => b.revoked
      <3> TAKE d \in Clusters
      <3> CASE d = c
        BY <1>3, <2>3
      <3> CASE d # c
        BY <2>4
      <3> QED OBVIOUS
    <2> QED BY <2>2, <2>5, <2>6
  <1>4. CASE /\ authority[c] = {}
             /\ authority' = [authority EXCEPT ![c] = {Record(FALSE, FALSE)}]
             /\ UNCHANGED committed
    <2>1. \A a \in authority[c] : /\ a.frozen => Record(FALSE, FALSE).frozen
                                  /\ a.revoked => Record(FALSE, FALSE).revoked
      BY <1>4
    <2> QED BY <1>1, <1>3, <1>4, <2>1
  <1>5. ASSUME NEW a \in authority[c],
               authority' = [authority EXCEPT ![c] = {Record(TRUE, a.revoked)}],
               UNCHANGED committed
        PROVE  \E new : /\ authority' = [authority EXCEPT ![c] = {new}]
                        /\ \A b \in authority[c] : /\ b.frozen => new.frozen
                                                   /\ b.revoked => new.revoked
    <2>1. Record(TRUE, a.revoked).frozen /\ Record(TRUE, a.revoked).revoked = a.revoked
      BY DEF Record
    <2>2. \A b \in authority[c] : b = a
      BY DEF SiteInv
    <2> HIDE DEF Record
    <2> QED BY <1>5, <2>1, <2>2
  <1>6. ASSUME NEW a \in authority[c],
               authority' = [authority EXCEPT ![c] = {Record(a.frozen, TRUE)}],
               UNCHANGED committed
        PROVE  \E new : /\ authority' = [authority EXCEPT ![c] = {new}]
                        /\ \A b \in authority[c] : /\ b.frozen => new.frozen
                                                   /\ b.revoked => new.revoked
    <2>1. Record(a.frozen, TRUE).revoked /\ Record(a.frozen, TRUE).frozen = a.frozen
      BY DEF Record
    <2>2. \A b \in authority[c] : b = a
      BY DEF SiteInv
    <2> HIDE DEF Record
    <2> QED BY <1>6, <2>1, <2>2
  <1>7. \/ authority' = authority /\ committed \subseteq committed'
        \/ /\ authority[c] = {}
           /\ authority' = [authority EXCEPT ![c] = {Record(FALSE, FALSE)}]
           /\ UNCHANGED committed
        \/ \E a \in authority[c] :
              /\ authority' = [authority EXCEPT ![c] = {Record(TRUE, a.revoked)}]
              /\ UNCHANGED committed
        \/ \E a \in authority[c] :
              /\ authority' = [authority EXCEPT ![c] = {Record(a.frozen, TRUE)}]
              /\ UNCHANGED committed
    BY DEF Operator
  <1> QED BY <1>1, <1>2, <1>3, <1>4, <1>5, <1>6, <1>7

\* What a form shows stays true when the operator acts.
LEMMA OperatorKeepsForm ==
    ASSUME SiteInv, NEW c \in Clusters, Operator(c), NEW p, FormInv(p)
    PROVE  FormInv(p)'
  <1>1. /\ committed \subseteq committed'
        /\ \A d \in Clusters : \A a \in authority[d] : \E b \in authority'[d] :
              /\ a.frozen => b.frozen
              /\ a.revoked => b.revoked
    BY OperatorStep
  <1>2. \A a : \A d \in Clusters : WasRead(a, d) => WasRead(a, d)'
    BY <1>1 DEF WasRead
  <1>3. \A r : RequestInv(r) => RequestInv(r)'
    BY <1>2 DEF RequestInv
  <1>4. \A d \in Clusters : (\E a \in authority[d] : a.frozen)
                               => \E a \in authority'[d] : a.frozen
    BY <1>1
  <1>5. ShownInv(p.shown, p.latest)
    BY DEF FormInv
  <1>6. ShownInv(p.shown, p.latest)'
    BY <1>1, <1>2, <1>4, <1>5 DEF ShownInv
  <1> QED BY <1>3, <1>6, Zenon DEF FormInv

\* A step of the page alone.
LEMMA FormStep ==
    ASSUME SiteInv, OnForm, UNCHANGED <<authority, committed, url>>,
           NEW p, page' = p, FormInv(p)
    PROVE  SiteInv'
  <1>1. FormInv(page)'
    BY Zenon DEF FormInv, ShownInv, RequestInv, WasRead
  <1>2. ~OnLanding'
    BY DEF OnForm, OnLanding
  <1> QED BY <1>1, <1>2, Zenon DEF SiteInv

LEMMA DemoStep ==
    ASSUME SiteInv, OnLanding, UNCHANGED <<authority, committed, url>>,
           DemoInv(page')
    PROVE  SiteInv'
  <1>1. ~OnForm'
    BY DEF OnForm, OnLanding
  <1> QED BY <1>1, Zenon DEF SiteInv, DemoInv

LEMMA OperatorPreserves ==
    ASSUME SiteInv, NEW c \in Clusters, Operator(c)
    PROVE  SiteInv'
  <1>1. /\ DOMAIN authority' = Clusters
        /\ \A d \in Clusters : \A a, b \in authority'[d] : a = b
        /\ UNCHANGED <<url, page>>
    BY OperatorStep
  <1>2. OnForm' => FormInv(page)'
    <2>1. PICK p : p = page
      OBVIOUS
    <2>2. OnForm' => FormInv(p)
      BY <1>1, <2>1 DEF SiteInv, OnForm
    <2>3. OnForm' => FormInv(p)'
      BY <2>2, OperatorKeepsForm
    <2>4. page' = p
      BY <1>1, <2>1
    <2> QED BY <2>3, <2>4, Zenon DEF FormInv
  <1>3. OnLanding' => DemoInv(page)'
    BY <1>1, Zenon DEF SiteInv, OnLanding, DemoInv
  <1>4. (url.path \in Paths)'
    BY <1>1 DEF SiteInv
  <1> QED BY <1>1, <1>2, <1>3, <1>4, Zenon DEF SiteInv

LEMMA NavigatePreserves ==
    ASSUME SiteInv, NEW path \in Paths, NEW link \in Links \cup {NoLink},
           Navigate([path |-> path, link |-> link])
    PROVE  SiteInv'
  <1> DEFINE u == [path |-> path, link |-> link]
  <1>1. /\ url' = u /\ u.path = path
        /\ UNCHANGED <<authority, committed>>
    BY DEF Navigate
  <1>2. CASE path = url.path
    <2>1. page' = page
      BY <1>1, <1>2 DEF Navigate
    <2>2. OnForm' => FormInv(page)'
      <3>1. OnForm' => FormInv(page)
        BY <1>1, <1>2 DEF SiteInv, OnForm
      <3>2. FormInv(page) => FormInv(page)'
        BY <1>1, <2>1, Zenon DEF FormInv, ShownInv, RequestInv, WasRead
      <3> QED BY <3>1, <3>2
    <2>3. OnLanding' => DemoInv(page)'
      BY <1>1, <1>2, <2>1 DEF SiteInv, OnLanding, DemoInv
    <2>4. (url.path \in Paths)'
      BY <1>1
    <2> QED BY <1>1, <2>2, <2>3, <2>4, Zenon DEF SiteInv
  <1>3. CASE path # url.path
    <2>1. PICK key \in Keys : page' = Mounted(u, key)
      BY <1>1, <1>3 DEF Navigate
    <2>2. PICK p : p = Mounted(u, key)
      OBVIOUS
    <2>3. /\ path \in {"#/lookup", "#/verify"} => FormInv(p)
          /\ path = "#/" => DemoInv(p)
      BY <2>2, MountedInv
    <2>4. page' = p
      BY <2>1, <2>2
    <2>5. OnForm' => FormInv(page)'
      <3>1. FormInv(p) => FormInv(page)'
        BY <1>1, <2>4, Zenon DEF FormInv, ShownInv, RequestInv, WasRead
      <3> QED BY <1>1, <2>3, <3>1 DEF OnForm
    <2>6. OnLanding' => DemoInv(page)'
      BY <1>1, <2>3, <2>4, Zenon DEF OnLanding
    <2>7. (url.path \in Paths)'
      BY <1>1
    <2> QED BY <1>1, <2>5, <2>6, <2>7, Zenon DEF SiteInv
  <1> QED BY <1>2, <1>3

LEMMA ControlPreserves ==
    ASSUME SiteInv,
           \/ \E c \in Clusters : SelectCluster(c)
           \/ \E claim \in Claims \cup {Malformed} : EditClaim(claim)
           \/ Submit
    PROVE  SiteInv'
  <1>1. OnForm /\ UNCHANGED <<authority, committed, url>>
    BY Zenon DEF SelectCluster, EditClaim, Submit
  <1>2. PICK p : p = page
    OBVIOUS
  <1>3. FormInv(p)
    BY <1>1, <1>2 DEF SiteInv
  <1>4. ASSUME NEW c \in Clusters, SelectCluster(c)
        PROVE  SiteInv'
    <2>1. defaultRpcForCluster(c) \in Clusters
      BY DEF defaultRpcForCluster, Clusters
    <2> DEFINE next == [p EXCEPT !.cluster = c, !.rpc = defaultRpcForCluster(c)]
    <2>2. FormInv(next)
      BY <1>3, <2>1, ControlInv
    <2>3. page' = next
      BY <1>2, <1>4 DEF SelectCluster
    <2> HIDE DEF next
    <2> QED BY <1>1, <2>2, <2>3, FormStep
  <1>5. ASSUME NEW claim, EditClaim(claim)
        PROVE  SiteInv'
    <2> DEFINE next == [p EXCEPT !.claim = claim]
    <2>1. Clusters # {}
      BY DEF Clusters
    <2>2. FormInv(next)
      BY <1>3, <2>1, ControlInv
    <2>3. page' = next
      BY <1>2, <1>5 DEF EditClaim
    <2> HIDE DEF next
    <2> QED BY <1>1, <2>2, <2>3, FormStep
  <1>6. ASSUME Submit
        PROVE  SiteInv'
    <2>1. FormInv(Submitted(p))
      BY <1>2, <1>3, <1>6, SubmittedInv DEF Submit
    <2>2. PICK next : next = Submitted(p)
      OBVIOUS
    <2>3. page' = next
      BY <1>2, <1>6, <2>2 DEF Submit
    <2> QED BY <1>1, <2>1, <2>2, <2>3, FormStep
  <1> QED BY <1>4, <1>5, <1>6

\* A handler that ends with a result which is of its request and true.
LEMMA FinishPreserves ==
    ASSUME SiteInv, OnForm, UNCHANGED <<authority, committed, url>>,
           NEW req \in page.requests, NEW result,
           ShownInv(result, req), Finish(req, result)
    PROVE  SiteInv'
  <1>1. PICK p : p = page
    OBVIOUS
  <1>2. FormInv(p)
    BY <1>1 DEF SiteInv
  <1>3. req \in p.requests
    BY <1>1
  <1>4. req.rpc = p.latest.rpc /\ req.claim = p.latest.claim
    BY <1>2, <1>3 DEF FormInv
  <1>5. ShownInv(result, p.latest)
    BY <1>4, Zenon DEF ShownInv
  <1> DEFINE next == [p EXCEPT !.shown = result, !.requests = @ \ {req},
                               !.loading = FALSE]
  <1>6. FormInv(next)
    BY <1>2, <1>3, <1>5, FinishedInv, Zenon
  <1>7. page' = next
    BY <1>1, Zenon DEF Finish
  <1> HIDE DEF next
  <1> QED BY <1>6, <1>7, FormStep

\* What a handler may end with.
LEMMA Results ==
    ASSUME NEW req, RequestInv(req)
    PROVE  /\ ShownInv([kind |-> "error"], req)
           /\ ShownInv([kind |-> "missing"], req)
           /\ \A a \in authority[req.rpc] : ShownInv(Row(req, a), req)
           /\ \A a \in req.auth : \A valid :
                 (valid => /\ req.claim \in Genuine /\ a.frozen
                           /\ <<req.rpc, req.claim>> \in committed)
                   => ShownInv(Outcome(req, valid), req)
  <1>1. req.rpc \in Clusters
    BY DEF RequestInv
  <1>2. /\ ShownInv([kind |-> "error"], req)
        /\ ShownInv([kind |-> "missing"], req)
    BY DEF ShownInv
  <1>3. ASSUME NEW a \in authority[req.rpc]
        PROVE  ShownInv(Row(req, a), req)
    <2>1. WasRead(a, req.rpc)
      BY DEF WasRead
    <2> DEFINE row == Row(req, a)
    <2>2. /\ row.kind = "row" /\ row.rpc = req.rpc /\ row.claim = req.claim
          /\ row.record = a
      BY DEF Row
    <2> HIDE DEF row
    <2> QED BY <1>1, <2>1, <2>2 DEF ShownInv, row
  <1>4. ASSUME NEW a \in req.auth, NEW valid,
               valid => /\ req.claim \in Genuine /\ a.frozen
                        /\ <<req.rpc, req.claim>> \in committed
        PROVE  ShownInv(Outcome(req, valid), req)
    <2>1. \E b \in authority[req.rpc] : a.frozen => b.frozen
      BY DEF RequestInv, WasRead
    <2> DEFINE out == Outcome(req, valid)
    <2>2. /\ out.kind = "verdict" /\ out.rpc = req.rpc
          /\ out.claim = req.claim /\ out.valid = valid
      BY DEF Outcome
    <2> HIDE DEF out
    <2>3. ShownInv(out, req)
      BY <1>1, <1>4, <2>1, <2>2, Zenon DEF ShownInv
    <2> QED BY <2>3 DEF out
  <1> QED BY <1>2, <1>3, <1>4

LEMMA AnswerPreserves ==
    ASSUME SiteInv, Answer
    PROVE  SiteInv'
  <1>1. PICK req \in page.requests :
           AuthorityAnswer(req) \/ CommitAnswer(req) \/ RequestFails(req)
    BY DEF Answer
  <1>2. OnForm /\ UNCHANGED <<authority, committed, url>>
    BY <1>1, Zenon DEF Answer, AuthorityAnswer, CommitAnswer, RequestFails
  <1>3. FormInv(page) /\ RequestInv(req)
    BY <1>1, <1>2 DEF SiteInv, FormInv
  <1>4. CASE AuthorityAnswer(req)
    <2>1. CASE Finish(req, [kind |-> "missing"])
      BY <1>2, <1>3, <2>1, Results, FinishPreserves
    <2>2. ASSUME NEW a \in authority[req.rpc], Finish(req, Row(req, a))
          PROVE  SiteInv'
      BY <1>2, <1>3, <2>2, Results, FinishPreserves
    <2>3. ASSUME NEW a \in authority[req.rpc],
                 page' = [page EXCEPT !.requests =
                            (@ \ {req}) \cup {[req EXCEPT !.auth = {a}]}]
          PROVE  SiteInv'
      <3>1. WasRead(a, req.rpc)
        BY <2>3 DEF WasRead
      <3>2. PICK p : p = page
        OBVIOUS
      <3> DEFINE next == [p EXCEPT !.requests =
                            (@ \ {req}) \cup {[req EXCEPT !.auth = {a}]}]
      <3>3. FormInv(p) /\ req \in p.requests
        BY <1>3, <3>2
      <3>4. FormInv(next)
        BY <3>1, <3>3, AuthorityInv, Zenon
      <3>5. page' = next
        BY <2>3, <3>2, Zenon
      <3> HIDE DEF next
      <3> QED BY <1>2, <3>4, <3>5, FormStep
    <2> QED BY <1>4, <2>1, <2>2, <2>3, Zenon DEF AuthorityAnswer
  <1>5. CASE CommitAnswer(req)
    <2>1. PICK a \in req.auth :
             IF <<req.rpc, req.claim>> \in committed
             THEN Finish(req, Outcome(req, /\ req.claim \in Genuine
                                           /\ a.frozen /\ ~a.revoked))
             ELSE Finish(req, [kind |-> "error"])
      BY <1>5, Zenon DEF CommitAnswer
    <2>2. CASE Finish(req, [kind |-> "error"])
      BY <1>2, <1>3, <2>2, Results, FinishPreserves
    <2>3. CASE /\ <<req.rpc, req.claim>> \in committed
               /\ Finish(req, Outcome(req, /\ req.claim \in Genuine
                                           /\ a.frozen /\ ~a.revoked))
      <3>1. PICK valid : valid = (/\ req.claim \in Genuine
                                  /\ a.frozen /\ ~a.revoked)
        OBVIOUS
      <3>2. Finish(req, Outcome(req, valid))
        BY <2>3, <3>1
      <3>3. valid => /\ req.claim \in Genuine /\ a.frozen
                     /\ <<req.rpc, req.claim>> \in committed
        BY <2>3, <3>1
      <3>4. ShownInv(Outcome(req, valid), req)
        BY <1>3, <2>1, <3>3, Results, Zenon
      <3> QED BY <1>2, <3>2, <3>4, FinishPreserves
    <2> QED BY <2>1, <2>2, <2>3
  <1>6. CASE RequestFails(req)
    BY <1>2, <1>3, <1>6, Results, FinishPreserves DEF RequestFails
  <1> QED BY <1>1, <1>4, <1>5, <1>6

-----------------------------------------------------------------------------
(* The client demo.                                                        *)

LEMMA RegeneratePreserves ==
    ASSUME SiteInv, NEW key, RegenerateKeypair(key)
    PROVE  SiteInv'
  <1>1. OnLanding /\ UNCHANGED <<authority, committed, url>>
    BY DEF RegenerateKeypair
  <1>2. DemoInv(page')
    BY FreshDemoInv DEF RegenerateKeypair
  <1> QED BY <1>1, <1>2, DemoStep

LEMMA DoRollPreserves ==
    ASSUME SiteInv, NEW memo \in Memos, DoRoll(memo)
    PROVE  SiteInv'
  <1>1. OnLanding /\ UNCHANGED <<authority, committed, url>>
    BY DEF DoRoll
  <1>2. DemoInv(page)
    BY <1>1 DEF SiteInv
  <1>3. PICK key, old : page = [sk |-> key, pk |-> key, rolls |-> old]
                        /\ old \in Seq(RollsOf(key))
    BY <1>2, Zenon DEF DemoInv
  <1> DEFINE roll == [memo |-> memo, beta |-> <<page.sk, memo>>,
                      valid |-> page.sk = page.pk]
             rolls == <<roll>> \o page.rolls
             n == IF Len(rolls) < HISTORY THEN Len(rolls) ELSE HISTORY
             kept == SubSeq(rolls, 1, n)
  <1>4. page.sk = key /\ page.pk = key /\ page.rolls = old
    BY <1>3
  <1>5. roll \in RollsOf(key)
    BY <1>4 DEF RollsOf
  <1> HIDE DEF roll
  <1>6. <<roll>> \in Seq(RollsOf(key))
    BY <1>5
  <1>7. rolls \in Seq(RollsOf(key))
    BY <1>3, <1>4, <1>6, ConcatProperties
  <1> HIDE DEF rolls
  <1>8. n \in Nat /\ n <= Len(rolls)
    BY <1>7, LenProperties, WebsiteAssumption
  <1> HIDE DEF n
  <1>9. \A i \in 1..n : rolls[i] \in RollsOf(key)
    BY <1>7, <1>8, ElementOfSeq
  <1>10. kept \in Seq(RollsOf(key))
    BY <1>8, <1>9, SubSeqProperties
  <1>11. page' = [page EXCEPT !.rolls = kept]
    BY Zenon DEF DoRoll, kept, n, rolls, roll
  <1> HIDE DEF kept
  <1>12. page' = [sk |-> key, pk |-> key, rolls |-> kept]
    BY <1>3, <1>11
  <1>13. page'.sk = key /\ page'.pk = key /\ page'.rolls = kept
    BY <1>12
  <1>14. DemoInv(page')
    BY <1>10, <1>12, <1>13, Zenon DEF DemoInv
  <1> QED BY <1>1, <1>14, DemoStep

-----------------------------------------------------------------------------
(* The invariant and its theorems.                                         *)

LEMMA InitSite ==
    ASSUME Init
    PROVE  SiteInv
  <1>1. PICK path \in Paths, link \in Links \cup {NoLink} :
           url = [path |-> path, link |-> link]
    BY DEF Init
  <1>2. PICK key \in Keys : page = Mounted(url, key)
    BY DEF Init
  <1>3. /\ path \in {"#/lookup", "#/verify"} => FormInv(page)
        /\ path = "#/" => DemoInv(page)
    BY <1>1, <1>2, MountedInv
  <1>4. url.path = path
    BY <1>1
  <1>5. /\ DOMAIN authority = Clusters
        /\ \A c \in Clusters : \A a, b \in authority[c] : a = b
    BY DEF Init
  <1> QED BY <1>1, <1>3, <1>4, <1>5 DEF SiteInv, OnForm, OnLanding

LEMMA NextSite ==
    ASSUME SiteInv, [Next]_vars
    PROVE  SiteInv'
  <1>1. CASE UNCHANGED vars
    BY <1>1, ZenonT(60) DEF vars, SiteInv, FormInv, ShownInv, RequestInv, WasRead,
          DemoInv, OnForm, OnLanding
  <1>2. CASE \E c \in Clusters : Operator(c)
    BY <1>2, OperatorPreserves
  <1>3. CASE \/ \E c \in Clusters : SelectCluster(c)
             \/ \E claim \in Claims \cup {Malformed} : EditClaim(claim)
             \/ Submit
    BY <1>3, ControlPreserves
  <1>4. CASE \E path \in Paths, link \in Links \cup {NoLink} :
                Navigate([path |-> path, link |-> link])
    BY <1>4, NavigatePreserves
  <1>5. CASE Answer
    BY <1>5, AnswerPreserves
  <1>6. CASE \E key \in Keys : RegenerateKeypair(key)
    BY <1>6, RegeneratePreserves
  <1>7. CASE \E memo \in Memos : DoRoll(memo)
    BY <1>7, DoRollPreserves
  <1> QED BY <1>1, <1>2, <1>3, <1>4, <1>5, <1>6, <1>7, Zenon DEF Next

\* The pages keep the inductive invariant: one request in flight at most, and
\* it is of the latest submission.
THEOREM SiteInvariant == Spec => []SiteInv
  BY InitSite, NextSite, PTL DEF Spec

\* What a form shows belongs to its latest submission, for every number of
\* claims, links and clusters' records (LookupPage.tsx:37-80,
\* VerifyPage.tsx:59-171).
THEOREM ShownIsLatest == Spec => []ShownIsOfLatestSubmission
  <1>1. SiteInv => ShownIsOfLatestSubmission
    BY DEF SiteInv, FormInv, ShownInv, ShownIsOfLatestSubmission
  <1> QED BY <1>1, SiteInvariant, PTL

\* VALID is true of the cluster that was queried, and a row is still right,
\* whatever the user and the operator do while the requests run.
THEOREM ShownHolds == Spec => []ShownIsTrue
  <1>1. SiteInv => ShownIsTrue
    BY DEF SiteInv, FormInv, ShownInv, WasRead, ShownIsTrue
  <1> QED BY <1>1, SiteInvariant, PTL

\* The rolls that the client demo shows are valid under the key it shows, and
\* equal for equal memos (ClientDemo.tsx:55-91).
THEOREM RollsReproduce == Spec => []RollsAreReproducible
  <1>1. ASSUME SiteInv PROVE RollsAreReproducible
    <2>1. SUFFICES ASSUME OnLanding,
                          NEW i \in DOMAIN page.rolls, NEW j \in DOMAIN page.rolls
                   PROVE  /\ page.rolls[i].memo = page.rolls[j].memo =>
                                page.rolls[i].beta = page.rolls[j].beta
                          /\ page.rolls[i].valid
                          /\ page.rolls[i].beta[1] = page.pk
      BY Zenon DEF RollsAreReproducible
    <2>2. PICK key, rolls : /\ key = page.pk /\ rolls = page.rolls
                            /\ rolls \in Seq(RollsOf(key))
      BY <1>1, <2>1 DEF SiteInv, DemoInv
    <2>3. rolls[i] \in RollsOf(key) /\ rolls[j] \in RollsOf(key)
      BY <2>1, <2>2, ElementOfSeq
    <2>4. \A r \in RollsOf(key) : /\ r.beta = <<key, r.memo>>
                                  /\ r.valid
                                  /\ r.beta[1] = key
      BY DEF RollsOf
    <2> QED BY <2>2, <2>3, <2>4
  <1> QED BY <1>1, SiteInvariant, PTL

=============================================================================
