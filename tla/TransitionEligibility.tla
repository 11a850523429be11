-------------------------- MODULE TransitionEligibility --------------------------
(***************************************************************************)
(* The eligibility evaluator of include/production_transition_eligibility  *)
(* .hpp: a request binding and up to five prerequisite evidences give one  *)
(* decision.  A binding is any value; an evidence names the binding it is  *)
(* about and whether the prerequisite is satisfied.                        *)
(***************************************************************************)

(* The members of ProductionTransitionPrerequisiteSet. *)
Domain == {"permission", "invariant", "resilience", "freshness", "revalidation"}

Absent == [present |-> FALSE]

Evidence(context, satisfied) ==
    [present |-> TRUE, context |-> context, satisfied |-> satisfied]

NoPrerequisites == [d \in Domain |-> Absent]

Missing(prerequisites) == \E d \in Domain : ~prerequisites[d].present

Mismatch_Permission(request, prerequisites) ==
    prerequisites["permission"].context # request

Mismatch(request, prerequisites) ==
    \E d \in Domain : prerequisites[d].context # request

Unsatisfied(prerequisites, d) == ~prerequisites[d].satisfied

RejectionReason_SatisfactionFirst(request, prerequisites) ==
    IF Missing(prerequisites) THEN "missing_prerequisite"
    ELSE IF Unsatisfied(prerequisites, "permission") THEN "permission_not_satisfied"
    ELSE IF Mismatch(request, prerequisites) THEN "binding_mismatch"
    ELSE IF Unsatisfied(prerequisites, "invariant") THEN "invariant_not_satisfied"
    ELSE IF Unsatisfied(prerequisites, "resilience") THEN "resilience_not_satisfied"
    ELSE IF Unsatisfied(prerequisites, "freshness") THEN "freshness_not_satisfied"
    ELSE IF Unsatisfied(prerequisites, "revalidation") THEN "revalidation_failed"
    ELSE "none"

(* The early returns of evaluate, in their order; "none" is the decision   *)
(* eligible_for_authority_consideration.  No request is malformed, so      *)
(* nothing answers invalid_input.                                          *)
RejectionReason(request, prerequisites) ==
    IF Missing(prerequisites) THEN "missing_prerequisite"
    ELSE IF Mismatch(request, prerequisites) THEN "binding_mismatch"
    ELSE IF Unsatisfied(prerequisites, "permission") THEN "permission_not_satisfied"
    ELSE IF Unsatisfied(prerequisites, "invariant") THEN "invariant_not_satisfied"
    ELSE IF Unsatisfied(prerequisites, "resilience") THEN "resilience_not_satisfied"
    ELSE IF Unsatisfied(prerequisites, "freshness") THEN "freshness_not_satisfied"
    ELSE IF Unsatisfied(prerequisites, "revalidation") THEN "revalidation_failed"
    ELSE "none"

Eligible(request, prerequisites) == RejectionReason(request, prerequisites) = "none"
=============================================================================
