----------------------------- MODULE MCWebsite -----------------------------
(***************************************************************************)
(* A model of Website for TLC.                                             *)
(***************************************************************************)
EXTENDS Website

\* A plain deep link, and one whose endpoint is not its cluster's.
SomeLinks ==
    {[cluster |-> Unset, rpc |-> Unset, claim |-> c] : c \in Genuine}
    \cup {[cluster |-> "mainnet", rpc |-> "devnet", claim |-> c] : c \in Genuine}
=============================================================================
