------------------------------ MODULE VrfMath ------------------------------
(***************************************************************************)
(* What the SDK and the program's users rely on from packages/ecvrf and    *)
(* from the hashes: SHA-256 as an injective constructor, and ECVRF proofs  *)
(* by the parts that decide verification.                                  *)
(***************************************************************************)
EXTENDS Naturals

CONSTANTS
    Pks,        \* VRF public keys
    Alphas,     \* VRF inputs
    Nonces,     \* values of the nonce k behind a pair (c, s)
    RfcNonce    \* the nonce generateNonce derives from the key and the input

sha256(x) == [sha256 |-> x]

\* Gamma = x * H(pk, alpha): a point per key and input.
Gammas == [pk: Pks, alpha: Alphas]

\* A pair (c, s) that satisfies no challenge equation.
BadPair == "bad"

Proofs == [gamma: Gammas, nonce: Nonces \cup {BadPair}]

proveVRF(pk, alpha) ==
    [gamma |-> [pk |-> pk, alpha |-> alpha], nonce |-> RfcNonce]

\* The verifier recomputes the challenge from (Y, H, Gamma, U, V).  It cannot
\* see which nonce the prover used: every pair (c, s) made from some nonce and
\* the right Gamma passes.
verifyVRF(pk, alpha, proof) ==
    /\ proof.gamma = [pk |-> pk, alpha |-> alpha]
    /\ proof.nonce # BadPair

\* beta hashes Gamma alone; its 64 bytes are stored as two halves.
BetaHalf(gamma, n) == [beta |-> gamma, half |-> n]

\* Mutant: beta hashes the whole proof.
hashWholeProof(proof) == <<BetaHalf(proof, 1), BetaHalf(proof, 2)>>

vrfProofToHash(proof) == <<BetaHalf(proof.gamma, 1), BetaHalf(proof.gamma, 2)>>
=============================================================================
