-------------------------- MODULE MCConfirmPipeline --------------------------
(* Instances of ConfirmPipeline for TLC.                                   *)
EXTENDS ConfirmPipeline, TLC

(* Sessions and requests are interchangeable; proposal ids are ordered.    *)
SessionSymmetry == Permutations(Sessions) \cup Permutations(Jobs)
=============================================================================
