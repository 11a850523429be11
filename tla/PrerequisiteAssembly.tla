-------------------------- MODULE PrerequisiteAssembly --------------------------
(***************************************************************************)
(* A prerequisite set while its owner fills it in, one optional member at  *)
(* a time, in any order and with any evidence, and what the evaluator says *)
(* of it meanwhile.  The evaluator is a pure function of the set, so its   *)
(* decision is a state function here.                                      *)
(***************************************************************************)
EXTENDS TransitionEligibility, Naturals

CONSTANTS
    Binding,  \* the binding that is evaluated
    Context   \* the bindings evidence may be about

ASSUME BindingAssumption == Binding \in Context

VARIABLE prerequisites

AnyEvidence == {Absent} \cup [present: {TRUE}, context: Context, satisfied: BOOLEAN]

AssemblyInit == prerequisites = NoPrerequisites

(* The assignment of one member. *)
Assign(d, evidence) ==
    /\ prerequisites[d] # evidence
    /\ prerequisites' = [prerequisites EXCEPT ![d] = evidence]

AssemblyNext == \E d \in Domain : \E evidence \in AnyEvidence : Assign(d, evidence)

AssemblySpec == AssemblyInit /\ [][AssemblyNext]_prerequisites

-----------------------------------------------------------------------------
(* The frozen precedence of the evaluator's comment, D4. *)
Precedence == [invalid_input |-> 1, missing_prerequisite |-> 2, binding_mismatch |-> 3,
               permission_not_satisfied |-> 4, invariant_not_satisfied |-> 5,
               resilience_not_satisfied |-> 6, freshness_not_satisfied |-> 7,
               revalidation_failed |-> 8, none |-> 9]

UnsatisfiedReason == [permission |-> "permission_not_satisfied",
                      invariant |-> "invariant_not_satisfied",
                      resilience |-> "resilience_not_satisfied",
                      freshness |-> "freshness_not_satisfied",
                      revalidation |-> "revalidation_failed"]

(* What is wrong with the evidence of one domain by itself. *)
Defect(d) ==
    IF prerequisites[d] = Absent THEN "missing_prerequisite"
    ELSE IF prerequisites[d].context # Binding THEN "binding_mismatch"
    ELSE IF ~prerequisites[d].satisfied THEN UnsatisfiedReason[d]
    ELSE "none"

Severity(d) == Precedence[Defect(d)]

Decision == RejectionReason(Binding, prerequisites)

(* The decision is the defect that the frozen precedence puts first among  *)
(* those of all the domains: no domain has one that comes earlier, and     *)
(* some domain has this one, unless none has any.                          *)
DecisionFollowsPrecedence ==
    /\ \A d \in Domain : Precedence[Decision] <= Severity(d)
    /\ \E d \in Domain : Decision = Defect(d)

(* Better evidence in one domain never makes the decision worse, and worse *)
(* evidence never makes it better: an owner who repairs the reported       *)
(* defect is never sent back to an earlier one.                            *)
RepairNeverSetsBack ==
    [][\A d \in Domain :
           (prerequisites' = [prerequisites EXCEPT ![d] = prerequisites'[d]]
            /\ Severity(d) <= Severity(d)')
               => Precedence[Decision] <= Precedence[Decision']]_prerequisites
=============================================================================
