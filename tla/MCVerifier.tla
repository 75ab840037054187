----------------------------- MODULE MCVerifier -----------------------------
(***************************************************************************)
(* Models of Verifier for TLC.                                             *)
(***************************************************************************)
EXTENDS Verifier

CONSTANTS k1, k2, a1, a2, n1, n2

\* Two proofs of one key and input, made with different nonces, one of the other
\* input and one of the other key.
MCMadeProofs ==
    {[gamma |-> [pk |-> k1, alpha |-> a1], nonce |-> n1],
     [gamma |-> [pk |-> k1, alpha |-> a1], nonce |-> n2],
     [gamma |-> [pk |-> k1, alpha |-> a2], nonce |-> n1],
     [gamma |-> [pk |-> k2, alpha |-> a1], nonce |-> n1]}

MCAllProofs == Vrf!Proofs
MCMemoHashes == {Vrf!sha256(m) : m \in Memos}
MCProofHashes == {Vrf!sha256(p) : p \in Vrf!Proofs}
MCAlphaHashes == {Vrf!sha256(a) : a \in Alphas}
MCBetaHalves == {Vrf!BetaHalf(g, n) : g \in Vrf!Gammas, n \in 1..2}
=============================================================================
