---------------------------- MODULE MCKycSession ----------------------------
(***************************************************************************)
(* Model-checking instances of KycSession.                                 *)
(***************************************************************************)
EXTENDS KycSession, TLC

\* Workers are interchangeable, and so are the slots of in-flight requests.
Symmetry == Permutations(Workers) \cup Permutations(Clients)
=============================================================================
