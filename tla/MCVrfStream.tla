---------------------------- MODULE MCVrfStream ----------------------------
(***************************************************************************)
(* Models of VrfStream for TLC: words of three bits, blocks of two, so     *)
(* that words cross block boundaries at every offset, and two paths that   *)
(* spell the same bytes.                                                   *)
(***************************************************************************)
EXTENDS VrfStream

\* Two labels each, cut differently.
SameBytes == {<< <<1>>, <<1, 1>> >>, << <<1, 1>>, <<1>> >>}

OneLabel == {<< <<1>> >>}

\* Ranges up to half of the words: powers of two, and ranges that reject words.
HalfRanges == {3, TwoPower[W - 1]}

\* All ranges that nextRange accepts.
AllRanges == 1..TwoPower[W]
=============================================================================
