---------------------------- MODULE MCVrfClient ----------------------------
(***************************************************************************)
(* Model of VrfClient for TLC.                                             *)
(***************************************************************************)
EXTENDS VrfClient

MCMemoHashes == {Vrf!sha256(m) : m \in Memos}
MCProofHashes == {Vrf!sha256(p) : p \in Vrf!Proofs}
MCAlphaHashes == {Vrf!sha256(a) : a \in Alphas}
MCBetaHalves == {Vrf!BetaHalf(g, n) : g \in Vrf!Gammas, n \in 1..2}
=============================================================================
