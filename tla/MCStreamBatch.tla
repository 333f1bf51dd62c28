---------------------------- MODULE MCStreamBatch ----------------------------
(* Instances of StreamBatch for TLC. *)
EXTENDS StreamBatch, TLC

ThreeDomains == <<"a", "b", "c">>
FourDomains  == <<"a", "b", "c", "d">>
TwoDomains   == <<"a", "b">>

Symmetry == Permutations(Workers)
=============================================================================
