----------------------------- MODULE MCCustody -----------------------------
(***************************************************************************)
(* Custody for TLC.  A deployment with no timestamp authority and one with *)
(* two, of which only the second is qualified; Ivory Coast pins the first. *)
(***************************************************************************)
EXTENDS Custody

CI == [CI |-> [tsa_policy |-> "digisign"]]

Bare ==
  [rules |-> CI, fallback |-> "GLOBAL", vaults |-> {}, tsa_url |-> FALSE, tsas |-> <<>>,
   qualified_certificates |-> TRUE]

Two ==
  [Bare EXCEPT !.tsas = <<[name |-> "digisign", qualified |-> FALSE],
                          [name |-> "certigna", qualified |-> TRUE]>>,
               !.qualified_certificates = FALSE]

MCConfigs == {Bare, Two}
MCAsked   == {"EU", "CI"}

\* Requests differ by nothing but their name.
Symmetry == Permutations(Requests)
=============================================================================
