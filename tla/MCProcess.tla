----------------------------- MODULE MCProcess -----------------------------
(* Model values and symmetry for the TLC runs of Process. *)
EXTENDS Process, TLC

CONSTANTS c1, c2

ClientSymmetry == Permutations({c1, c2})
=============================================================================
