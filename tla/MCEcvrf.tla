------------------------------ MODULE MCEcvrf ------------------------------
(***************************************************************************)
(* A model of Ecvrf for TLC: ten points, a subgroup of five, four          *)
(* challenges.                                                             *)
(***************************************************************************)
EXTENDS Ecvrf

\* Not a point; the point of order two, which the cofactor clears; two points
\* with different multiples.
SomeCandidates == {15, 5, 1, 3}

\* All points and a number that is none; all scalars and one that is too large;
\* strings that are too short.
SomeKeys == {bigIntToBytesLE(n, PT_LEN) : n \in 0..10} \cup {<<1>>}

SomeProofs ==
    {bigIntToBytesLE(p, PT_LEN) \o bigIntToBytesLE(c, C_LEN) \o bigIntToBytesLE(s, Q_LEN) :
        p \in 0..10, c \in 0..3, s \in 0..5} \cup {<<1>>}
=============================================================================
