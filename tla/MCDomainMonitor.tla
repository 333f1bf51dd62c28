--------------------------- MODULE MCDomainMonitor ---------------------------
(* Instances of DomainMonitor for TLC. *)
EXTENDS DomainMonitor, TLC

AnswersWhole      == {Parts}
AnswersRegistrant == {Parts, {"expiry"}}   \* the registrant may be missing

Symmetry == Permutations(Checks)
=============================================================================
