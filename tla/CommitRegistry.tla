--------------------------- MODULE CommitRegistry ---------------------------
(***************************************************************************)
(* What the cc-vrf program promises, with no trees, leaves, snapshots or   *)
(* addresses: a lifecycle of authorities, a registry that is written once  *)
(* per (authority, memo), and a log.  Every operation is decided on the    *)
(* current authority.                                                      *)
(***************************************************************************)
EXTENDS Sequences

CONSTANTS Owners, Labels, Pks, Memos, Bodies

VARIABLES
    authorities,    \* current authority records
    commits,        \* registry entries
    log             \* logged commitments, oldest first

vars == <<authorities, commits, log>>

Authority == [owner: Owners, label: Labels, pk: Pks,
              frozen: BOOLEAN, revoked: BOOLEAN]

Commit == [owner: Owners, label: Labels, memo: Memos, body: Bodies]

Init ==
    /\ authorities = {}
    /\ commits = {}
    /\ log = <<>>

\* A name is published once, with one key, unfrozen.
Publish(o, l, k) ==
    /\ \A a \in authorities : ~(a.owner = o /\ a.label = l)
    /\ authorities' = authorities \cup
           {[owner |-> o, label |-> l, pk |-> k,
             frozen |-> FALSE, revoked |-> FALSE]}
    /\ UNCHANGED <<commits, log>>

Freeze(a) ==
    /\ ~a.frozen
    /\ authorities' =
           (authorities \ {a}) \cup {[a EXCEPT !.frozen = TRUE]}
    /\ UNCHANGED <<commits, log>>

Revoke(a) ==
    /\ ~a.revoked
    /\ authorities' =
           (authorities \ {a}) \cup {[a EXCEPT !.revoked = TRUE]}
    /\ UNCHANGED <<commits, log>>

MayCommit(a) == a.frozen /\ ~a.revoked

Entry(a, m, b) ==
    [owner |-> a.owner, label |-> a.label, memo |-> m, body |-> b]

\* The registry takes one entry per (authority, memo).
Register(a, m, b) ==
    /\ MayCommit(a)
    /\ \A c \in commits :
          ~(c.owner = a.owner /\ c.label = a.label /\ c.memo = m)
    /\ commits' = commits \cup {Entry(a, m, b)}
    /\ UNCHANGED <<authorities, log>>

\* The log takes any number of entries.
Log(a, m, b) ==
    /\ MayCommit(a)
    /\ log' = Append(log, Entry(a, m, b))
    /\ UNCHANGED <<authorities, commits>>

Next ==
    \/ \E o \in Owners, l \in Labels, k \in Pks : Publish(o, l, k)
    \/ \E a \in authorities :
        \/ Freeze(a)
        \/ Revoke(a)
        \/ \E m \in Memos, b \in Bodies : Register(a, m, b) \/ Log(a, m, b)

Spec == Init /\ [][Next]_vars
=============================================================================
