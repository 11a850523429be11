----------------------- MODULE MC_TransitionEvaluation -----------------------
(* Model-checking instance of TransitionEvaluation.  Evaluations only read,  *)
(* so that one of them against every change of the mesh is all of them.      *)
EXTENDS TransitionEvaluation
=============================================================================
