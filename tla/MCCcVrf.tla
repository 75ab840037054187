------------------------------ MODULE MCCcVrf ------------------------------
(***************************************************************************)
(* Model of CcVrf for TLC.                                                 *)
(***************************************************************************)
EXTENDS CcVrfRefinement, TLC

CONSTANTS o1, o2, k1, k2, p1, p2

\* Owners, keys and proof hashes are interchangeable.
Symmetry == Permutations({o1, o2}) \cup Permutations({k1, k2})
            \cup Permutations({p1, p2})
=============================================================================
