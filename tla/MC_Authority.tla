---------------------------- MODULE MC_Authority ----------------------------
(* Model-checking instances of ProductionAuthority and its refinement. *)
EXTENDS AuthorityRefinement, TLC

Symmetry == Permutations(Thread) \cup Permutations(Node) \cup Permutations(Mesh)
=============================================================================
