-------------------------- MODULE MC_FrozenPrecedence --------------------------
(* Model-checking instance of the two validators whose order of refusals the *)
(* code calls frozen: the evaluator of prerequisites and the adapter of      *)
(* experiment records.  They share nothing, so each is tried while the other *)
(* is as it was at the start.                                                *)
EXTENDS PrerequisiteAssembly, InterchangeRecord

Correlations == {<<"a">>, <<"long", "a">>}

Start == AssemblyInit /\ RecordInit

Step ==
    \/ record = <<>> /\ edits = 0 /\ AssemblyNext /\ UNCHANGED interchangeVars
    \/ prerequisites = NoPrerequisites /\ RecordNext /\ UNCHANGED prerequisites

Validators == Start /\ [][Step]_<<prerequisites, interchangeVars>>
=============================================================================
