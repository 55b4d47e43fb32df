---------------------------- MODULE MCStateFile ----------------------------
(***************************************************************************)
(* Three types and two packages; the set of implementers changes twice.    *)
(***************************************************************************)
EXTENDS StateFile, TLC

CONSTANTS S1, S2, S3, A, B

Symmetry == Permutations({S1, S2, S3}) \cup Permutations({A, B})
=============================================================================
