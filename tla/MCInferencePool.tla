---------------------------- MODULE MCInferencePool ---------------------------
(***************************************************************************)
(* Instance of InferencePool for TLC.                                      *)
(***************************************************************************)
EXTENDS InferencePool, TLC
===============================================================================
