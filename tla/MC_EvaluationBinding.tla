------------------------ MODULE MC_EvaluationBinding ------------------------
(* Model-checking instance of EvaluationBinding. *)
EXTENDS EvaluationBinding
=============================================================================
