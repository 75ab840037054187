----------------------------- MODULE MCDiceDemo -----------------------------
(***************************************************************************)
(* Models of DiceDemo for TLC.                                             *)
(***************************************************************************)
EXTENDS DiceDemo, TLC

\* Commands are interchangeable.
Symmetry == Permutations(Calls)

MCMemoHashes == {Vrf!sha256(m) : m \in Memos}
MCProofHashes == {Vrf!sha256(p) : p \in Vrf!Proofs}
MCAlphaHashes == {Vrf!sha256(a) : a \in Alphas}
MCBetaHalves == {Vrf!BetaHalf(g, n) : g \in Vrf!Gammas, n \in 1..2}
=============================================================================
