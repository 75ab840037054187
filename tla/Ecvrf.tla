------------------------------- MODULE Ecvrf -------------------------------
(***************************************************************************)
(* packages/ecvrf: key derivation, proving, verification and the output    *)
(* hash, down to the bytes of keys and proofs, over a cyclic group of      *)
(* COFACTOR * CURVE_ORDER points in place of the curve.  A point is its    *)
(* index, a multiple of a generator of the whole group; fromBytes accepts  *)
(* exactly the numbers below the size of the group.  The uses of SHA-512   *)
(* are random oracles: each question is answered arbitrarily and then      *)
(* always the same.                                                        *)
(***************************************************************************)
EXTENDS Naturals, Sequences, FiniteSets

CONSTANTS
    Radix,                  \* values of a byte (256)
    PT_LEN, C_LEN, Q_LEN,   \* bytes of a point, a challenge, a scalar
    COFACTOR, CURVE_ORDER,
    MAX_CTR,                \* attempts of encodeToCurveTAI (256)
    Candidates,             \* bounds of the model: numbers hashed in it, and
    MadeKeys, MadeProofs    \* byte strings that people make up

PROOF_LEN == PT_LEN + C_LEN + Q_LEN

RadixPower[n \in Nat] == IF n = 0 THEN 1 ELSE Radix * RadixPower[n - 1]

ASSUME SuiteAssumption ==
    /\ {Radix, PT_LEN, C_LEN, Q_LEN, COFACTOR, CURVE_ORDER, MAX_CTR}
          \subseteq Nat \ {0}
    /\ Candidates \subseteq Nat
    /\ MadeKeys \cup MadeProofs \subseteq Seq(0..Radix - 1) \ {<<>>}
    /\ COFACTOR * CURVE_ORDER <= RadixPower[PT_LEN]
    /\ COFACTOR < CURVE_ORDER
    /\ RadixPower[C_LEN] < CURVE_ORDER              \* 2^128 < q
    /\ CURVE_ORDER < RadixPower[Q_LEN]
    /\ RadixPower[Q_LEN] < 2 * COFACTOR * CURVE_ORDER       \* 2^255 < 8q
    /\ (RadixPower[Q_LEN] \div 4) % COFACTOR = 0
    /\ \A p, r \in 1..CURVE_ORDER - 1 :               \* q is prime
          (p * r) % CURVE_ORDER # 0

VARIABLES
    candidates,     \* oracle: the number hashed from (pk, alpha, ctr), by ctr
    challenges,     \* oracle: challenges answered so far, by their question
    x,              \* secret scalar behind pk, 0 if there is no seed
    pk,             \* bytes of the public key
    maker,          \* who made the proof: "nobody", "proveVRF" or "forger"
    proof,          \* bytes of the proof
    verdict,        \* what verifyVRF returned: "none", "true" or "false"
    beta,           \* what vrfProofToHash returned, <<>> if nothing
    thrown          \* the functions that threw

vars == <<candidates, challenges, x, pk, maker, proof, verdict, beta, thrown>>

-----------------------------------------------------------------------------
(* Encodings and the group.                                                *)

\* From the last byte to the first.
bytesToBigIntLE(bytes) ==
    LET n[i \in 0..Len(bytes)] ==
          IF i = 0 THEN 0 ELSE n[i - 1] * Radix + bytes[Len(bytes) - i + 1]
    IN  n[Len(bytes)]

bigIntToBytesLE(n, length) == [i \in 1..length |-> (n \div RadixPower[i - 1]) % Radix]

GROUP_ORDER == COFACTOR * CURVE_ORDER

Points == 0..GROUP_ORDER - 1
ZERO == 0
BASE == COFACTOR

Decodes(bytes) == bytesToBigIntLE(bytes) \in Points

Times(n, P) == (n * P) % GROUP_ORDER

Minus(P, Q) == (P + GROUP_ORDER - Q) % GROUP_ORDER

\* multiply throws for a scalar that is out of this range.
InRange(n) == n \in 1..CURVE_ORDER - 1

isSmallOrder(P) == Times(COFACTOR, P) = ZERO
isTorsionFree(P) == Times(CURVE_ORDER, P) = ZERO

\* Mutant: only the small subgroup is refused.
InSubgroupOrMixed(P) == ~isSmallOrder(P)

\* The gates for Y and for Gamma, in verifyVRF and in vrfProofToHash.
InSubgroup(P) == ~isSmallOrder(P) /\ isTorsionFree(P)

-----------------------------------------------------------------------------
(* Hash to curve: the first candidate that decodes and that the cofactor   *)
(* does not clear to the identity.                                         *)

Usable(ctr) ==
    /\ candidates[ctr] \in Points
    /\ Times(COFACTOR, candidates[ctr]) # ZERO

\* The loop ends without a point: encodeToCurveTAI throws.
Exhausted == \A ctr \in DOMAIN candidates : ~Usable(ctr)

encodeToCurveTAI ==
    LET ctr == CHOOSE i \in DOMAIN candidates :
                  Usable(i) /\ \A j \in 1..i - 1 : ~Usable(j)
    IN  Times(COFACTOR, candidates[ctr])

\* Answers that the challenge oracle can give to a question.
Challenge(question) ==
    IF question \in DOMAIN challenges THEN {challenges[question]}
    ELSE 0..RadixPower[C_LEN] - 1

Asked(question, c) ==
    [q \in DOMAIN challenges \cup {question} |->
        IF q = question THEN c ELSE challenges[q]]

-----------------------------------------------------------------------------
(* Keys.                                                                   *)

\* The lowest bits, the highest and the second highest of the hashed seed.
Clamp(hash) ==
    LET low == hash % (RadixPower[Q_LEN] \div 4)
    IN  RadixPower[Q_LEN] \div 4 + (low - (low % COFACTOR))

deriveScalar(hash) == Clamp(hash) % CURVE_ORDER

generateKeyPair(hash) ==
    /\ pk = <<>>
    /\ InRange(deriveScalar(hash))
    /\ x' = deriveScalar(hash)
    /\ pk' = bigIntToBytesLE(Times(x', BASE), PT_LEN)
    /\ UNCHANGED <<candidates, challenges, maker, proof, verdict, beta, thrown>>

\* An operator registers bytes of its own making.
PublishKey(bytes) ==
    /\ pk = <<>>
    /\ pk' = bytes
    /\ UNCHANGED <<candidates, challenges, x, maker, proof, verdict, beta, thrown>>

-----------------------------------------------------------------------------
(* Proofs.                                                                 *)

Question(Y, H, Gamma, U, V) == <<Y, H, Gamma, U, V>>

\* Mutant: s is not reduced.
Response(k, c) == k + c * x

\* s = (k + c * x) mod q
ReducedResponse(k, c) == (k + c * x) % CURVE_ORDER

\* proveVRF with the nonce k that SHA-512 derived from the seed and H, which
\* multiply refuses if it is 0.
proveVRF(k) ==
    /\ x # 0 /\ proof = <<>>
    /\ ~Exhausted /\ InRange(k)
    /\ LET H == encodeToCurveTAI
           Gamma == Times(x, H)
           question == Question(Times(x, BASE), H, Gamma, Times(k, BASE), Times(k, H))
       IN  \E c \in Challenge(question) :
              /\ challenges' = Asked(question, c)
              /\ proof' = bigIntToBytesLE(Gamma, PT_LEN)
                          \o bigIntToBytesLE(c, C_LEN)
                          \o bigIntToBytesLE(ReducedResponse(k, c), Q_LEN)
    /\ maker' = "proveVRF"
    /\ UNCHANGED <<candidates, x, pk, verdict, beta, thrown>>

ProveThrows(k) ==
    /\ x # 0 /\ proof = <<>>
    /\ Exhausted \/ ~InRange(k)
    /\ thrown' = thrown \cup {"proveVRF"}
    /\ UNCHANGED <<candidates, challenges, x, pk, maker, proof, verdict, beta>>

\* Anybody makes up a proof.
Forge(bytes) ==
    /\ pk # <<>> /\ proof = <<>>
    /\ maker' = "forger"
    /\ proof' = bytes
    /\ UNCHANGED <<candidates, challenges, x, pk, verdict, beta, thrown>>

-----------------------------------------------------------------------------
(* Verification of the proof, cut into its three parts.                    *)

GammaBytes == SubSeq(proof, 1, PT_LEN)
Y == bytesToBigIntLE(pk)
Gamma == bytesToBigIntLE(GammaBytes)
C == bytesToBigIntLE(SubSeq(proof, PT_LEN + 1, PT_LEN + C_LEN))
S == bytesToBigIntLE(SubSeq(proof, PT_LEN + C_LEN + 1, PROOF_LEN))

\* What verifyVRF checks before it computes anything; otherwise it returns
\* false.
WellFormed ==
    /\ Len(proof) = PROOF_LEN
    /\ Len(pk) = PT_LEN
    /\ S < CURVE_ORDER
    /\ Decodes(pk) /\ Decodes(GammaBytes)
    /\ InSubgroup(Y) /\ InSubgroup(Gamma)

\* Mutant: the multiplications are not guarded.
MultipliesAny(n) == InRange(n)

\* A product with a scalar that may be 0.
Multiplies(n) == n = 0 \/ InRange(n)

\* The challenge that verifyVRF computes again: of (Y, H, Gamma, U, V) with
\* U = s*B - c*Y and V = s*H - c*Gamma.
Recomputed(c, s) ==
    LET H == encodeToCurveTAI
    IN  Question(Y, H, Gamma, Minus(Times(s, BASE), Times(c, Y)),
                 Minus(Times(s, H), Times(c, Gamma)))

verifyVRF ==
    /\ proof # <<>> /\ verdict = "none"
    /\ \/ /\ ~WellFormed
          /\ verdict' = "false"
          /\ UNCHANGED <<challenges, thrown>>
       \/ /\ WellFormed
          /\ Exhausted \/ ~Multiplies(S) \/ ~Multiplies(C)
          /\ thrown' = thrown \cup {"verifyVRF"}
          /\ UNCHANGED <<challenges, verdict>>
       \/ /\ WellFormed /\ ~Exhausted /\ Multiplies(S) /\ Multiplies(C)
          /\ \E c \in Challenge(Recomputed(C, S)) :
                /\ challenges' = Asked(Recomputed(C, S), c)
                /\ verdict' = IF c = C THEN "true" ELSE "false"
          /\ UNCHANGED thrown
    /\ UNCHANGED <<candidates, x, pk, maker, proof, beta>>

\* vrfProofToHash, which does not look at the rest of the proof.  Hashes of
\* different points differ.
vrfProofToHash ==
    /\ proof # <<>> /\ beta = <<>>
    /\ IF Len(proof) = PROOF_LEN /\ Decodes(GammaBytes) /\ InSubgroup(Gamma)
       THEN beta' = <<Times(COFACTOR, Gamma)>> /\ UNCHANGED thrown
       ELSE thrown' = thrown \cup {"vrfProofToHash"} /\ UNCHANGED beta
    /\ UNCHANGED <<candidates, challenges, x, pk, maker, proof, verdict>>

-----------------------------------------------------------------------------
Init ==
    /\ candidates \in [1..MAX_CTR -> Candidates]
    /\ challenges = <<>>
    /\ x = 0 /\ pk = <<>>
    /\ maker = "nobody" /\ proof = <<>>
    /\ verdict = "none" /\ beta = <<>> /\ thrown = {}

Next ==
    \/ \E hash \in 0..RadixPower[Q_LEN] - 1 : generateKeyPair(hash)
    \/ \E bytes \in MadeKeys : PublishKey(bytes)
    \/ \E k \in 0..CURVE_ORDER - 1 : proveVRF(k) \/ ProveThrows(k)
    \/ \E bytes \in MadeProofs : Forge(bytes)
    \/ verifyVRF
    \/ vrfProofToHash

Spec == Init /\ [][Next]_vars

-----------------------------------------------------------------------------
(* Properties.                                                             *)

\* Whatever the seed, the input, the nonce and the challenge, the proof that
\* proveVRF makes is accepted, with the beta of x * H: c = 0 and s = 0, which
\* multiply would refuse, included (prove.ts:26-48, verify.ts:53-60).
HonestProofsVerify ==
    maker = "proveVRF" =>
        /\ verdict \in {"none", "true"}
        /\ beta \in {<<>>, <<Times(COFACTOR, Times(x, encodeToCurveTAI))>>}

\* "the prover cannot bias it" (packages/ecvrf/README.md:5).  The points U and
\* V of a proof fix the question, so the prover has them before it knows the
\* challenge.  An accepted proof whose U and V leave it more than one challenge
\* to answer has Gamma = x * H for the x of its key: the key and the input
\* determine Gamma and beta.  (With one challenge the prover guessed it, which
\* has a chance of 2^-128.)
Answerable ==
    {c \in 0..RadixPower[C_LEN] - 1 :
        \E s \in 0..CURVE_ORDER - 1 : Recomputed(c, s) = Recomputed(C, S)}

GammaIsDetermined ==
    (verdict = "true" /\ Cardinality(Answerable) > 1) =>
        \E scalar \in 1..CURVE_ORDER - 1 :
            /\ Y = Times(scalar, BASE)
            /\ Gamma = Times(scalar, encodeToCurveTAI)

\* "A tampered alpha, pk, or proof returns false" (packages/ecvrf/README.md:46):
\* no bytes make verifyVRF throw, unless all counters of the input are used up
\* (hashToCurve.ts:67); and vrfProofToHash has a beta for what it accepted.
ThrowsOnlyWhenExhausted ==
    /\ "verifyVRF" \in thrown => Exhausted
    /\ verdict = "true" => "vrfProofToHash" \notin thrown
=============================================================================
