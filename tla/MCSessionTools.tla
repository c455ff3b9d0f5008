--------------------------- MODULE MCSessionTools ---------------------------
(* Instances of SessionTools for TLC.                                      *)
EXTENDS SessionTools
=============================================================================
