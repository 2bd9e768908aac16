------------------------- MODULE MCLivenessChecker -------------------------
(* The TLC run of LivenessChecker. *)
EXTENDS LivenessChecker
=============================================================================
