--------------------------- MODULE MCAlertManager ---------------------------
(* An instance of AlertManager for TLC. *)
EXTENDS AlertManager

OneRule == SetToSeq(Rules)
=============================================================================
