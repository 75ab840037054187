---------------------------- MODULE MCEventScan ----------------------------
(***************************************************************************)
(* Models of EventScan for TLC.                                            *)
(***************************************************************************)
EXTENDS EventScan

\* A transaction without a matching event, with one, with one beside the event
\* of another memo, and with two commitments of the same memo.
ShortLogs == {<<>>, <<TRUE>>, <<FALSE, TRUE>>, <<TRUE, TRUE>>}
=============================================================================
