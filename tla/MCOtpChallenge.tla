--------------------------- MODULE MCOtpChallenge ---------------------------
(***************************************************************************)
(* OtpChallenge for TLC: processes are interchangeable, and so are         *)
(* sessions and destinations.                                              *)
(***************************************************************************)
EXTENDS OtpChallenge, TLC

Symmetry == Permutations(Procs) \cup Permutations(Sessions) \cup Permutations(Dests)
=============================================================================
