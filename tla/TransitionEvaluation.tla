-------------------------- MODULE TransitionEvaluation --------------------------
(***************************************************************************)
(* An evaluation of a transition (ProductionTransitionEvaluationOrchestra- *)
(* tor::evaluate) against a live mesh: resolve the relationship, capture a *)
(* snapshot, derive a direction, ask four domains, revalidate the snapshot *)
(* and classify the evidence.  Each of the backend's answers is one shared *)
(* section of topologyMutex, and the mesh changes between any two of them. *)
(*                                                                         *)
(* The mesh's own backend derives no direction yet, so that against it     *)
(* every evaluation ends there (DirectionAvailable = FALSE); another       *)
(* backend over the same mesh may, and what its domains answer is free.    *)
(* Snapshots name the life of the relationship they are of.                *)
(***************************************************************************)
EXTENDS RelationshipLifecycle

CONSTANTS
    Evaluator,          \* the threads that evaluate
    DirectionAvailable  \* can the backend derive a direction?

ASSUME EvaluationAssumption == DirectionAvailable \in BOOLEAN

VARIABLES
    evaluation,  \* per thread: the evaluation in progress, or its answer
    evidence,    \* per thread: what the domains have answered
    resolvedGone,    \* history: since it was resolved, did the relationship end?
    capturedChanged  \* history: since it was captured, did its entry change?

vars == <<lifecycleVars, evaluation, evidence, resolvedGone, capturedChanged>>

evaluationVars == <<evaluation, evidence>>

K11 == INSTANCE TransitionEligibility

-----------------------------------------------------------------------------
AskedDomain == {"permission", "invariant", "resilience", "freshness"}

Answer == {"no_request", "not_eligible", "eligible"}

Phase == {"idle", "capture", "derive"} \cup AskedDomain \cup {"revalidate"} \cup Answer

Snapshots == [lineage: Nat, persistence: Nat]

NoSnapshot == [lineage |-> 0, persistence |-> 0]

Idle == [phase |-> "idle", edge |-> <<>>, generation |-> 0, snapshot |-> NoSnapshot,
         found |-> FALSE]

(* found: history, did the evaluation find a relationship where it looked? *)
Evaluation == [phase: Phase, edge: Edge \cup {<<>>}, generation: Nat,
               snapshot: Snapshots, found: BOOLEAN]

NoEvidence == [d \in AskedDomain |-> "unasked"]

(* The types of the state. *)
TypeOK ==
    /\ LifecycleTypeOK
    /\ evaluation \in [Evaluator -> Evaluation]
    /\ evidence \in [Evaluator -> [AskedDomain -> {"unasked", "satisfied", "not_satisfied"}]]
    /\ resolvedGone \in [Evaluator -> BOOLEAN]
    /\ capturedChanged \in [Evaluator -> BOOLEAN]

Init ==
    /\ LifecycleInit
    /\ evaluation = [v \in Evaluator |-> Idle]
    /\ evidence = [v \in Evaluator |-> NoEvidence]
    /\ resolvedGone = [v \in Evaluator |-> FALSE]
    /\ capturedChanged = [v \in Evaluator |-> FALSE]

-----------------------------------------------------------------------------
(* The mesh changes; the histories record for whom.                         *)

Working(v) == evaluation[v].phase \notin {"idle"} \cup Answer

About(E) == {v \in Evaluator : Working(v) /\ evaluation[v].edge \in E}

Changed(E) == capturedChanged' = [v \in Evaluator |-> capturedChanged[v] \/ v \in About(E)]

Ended(E) == resolvedGone' = [v \in Evaluator |-> resolvedGone[v] \/ v \in About(E)]

Connect(e) ==
    /\ ConnectLifecycle(e)
    /\ Changed(Pair(e))
    /\ UNCHANGED <<evaluationVars, resolvedGone>>

Prune(e) ==
    /\ Exists(e)
    /\ DiscardLifecycle(Pair(e))
    /\ Changed(Pair(e)) /\ Ended(Pair(e))
    /\ UNCHANGED evaluationVars

Evolve(e) ==
    /\ EvolvePersistence(e)
    /\ Changed({e})
    /\ UNCHANGED <<evaluationVars, resolvedGone>>

(* A transition that commits elsewhere. *)
Commit(e) ==
    /\ Exists(e)
    /\ nextAuthorityLineage[MeshOf(e)] < MaxVersion
    /\ AdvanceLineage(e)
    /\ Changed({e})
    /\ UNCHANGED <<evaluationVars, resolvedGone>>

-----------------------------------------------------------------------------
(* The evaluation. *)

meshFrame == <<lifecycleVars, resolvedGone, capturedChanged>>

Goto(v, phase) ==
    /\ evaluation' = [evaluation EXCEPT ![v].phase = phase]
    /\ UNCHANGED evidence

(* A locator that names one node twice. *)
RejectLocator(v) ==
    /\ evaluation[v].phase = "idle"
    /\ evaluation' = [evaluation EXCEPT ![v] = [Idle EXCEPT !.phase = "not_eligible"]]
    /\ UNCHANGED <<evidence, meshFrame>>

(* resolveCurrentRelationship: the generation found is the one asked about *)
(* from here on; where there is none, nothing is requested.                *)
Resolve(v, e) ==
    /\ evaluation[v].phase = "idle"
    /\ evaluation' = [evaluation EXCEPT ![v] =
           [Idle EXCEPT !.phase = IF Exists(e) THEN "capture" ELSE "no_request",
                        !.edge = e, !.generation = relationshipGeneration[e],
                        !.found = Exists(e)]]
    /\ resolvedGone' = [resolvedGone EXCEPT ![v] = FALSE]
    /\ capturedChanged' = [capturedChanged EXCEPT ![v] = FALSE]
    /\ UNCHANGED <<lifecycleVars, evidence>>

CanCapture_AnyLife(n) == Exists(n.edge)

(* findLifecycleUnlocked: the relationship that was resolved, no later one. *)
CanCapture(n) == Current(n.edge, n.generation)

(* captureSnapshot *)
Capture(v) ==
    LET n == evaluation[v]
    IN /\ n.phase = "capture"
       /\ IF CanCapture(n)
          THEN evaluation' = [evaluation EXCEPT ![v] =
                   [n EXCEPT !.phase = "derive", !.snapshot = Snapshot(n.edge)]]
          ELSE evaluation' = [evaluation EXCEPT ![v].phase = "not_eligible"]
       /\ capturedChanged' = [capturedChanged EXCEPT ![v] = FALSE]
       /\ UNCHANGED <<lifecycleVars, evidence, resolvedGone>>

(* deriveDirection fails for a relationship that is gone or was changed by *)
(* a commit; otherwise there is a direction, or nothing to request.        *)
DeriveDirection(v) ==
    LET n == evaluation[v]
    IN /\ n.phase = "derive"
       /\ \/ /\ DirectionAvailable
             /\ Current(n.edge, n.generation)
             /\ authorityLineage[n.edge] = n.snapshot.lineage
             /\ Goto(v, "permission") \/ Goto(v, "no_request")
          \/ Goto(v, "not_eligible")
       /\ UNCHANGED meshFrame

Following == [permission |-> "invariant", invariant |-> "resilience",
              resilience |-> "freshness", freshness |-> "revalidate"]

(* The validator of a domain: an unavailable domain ends the evaluation, a *)
(* negative answer is kept as evidence and does not.                       *)
Validate(v, d, outcome) ==
    /\ evaluation[v].phase = d
    /\ IF outcome = "unavailable" THEN Goto(v, "not_eligible")
       ELSE /\ evaluation' = [evaluation EXCEPT ![v].phase = Following[d]]
            /\ evidence' = [evidence EXCEPT ![v][d] = outcome]
    /\ UNCHANGED meshFrame

(* materializeRequest: what every piece of evidence is about. *)
Request(n) == [edge |-> n.edge, generation |-> n.generation, version |-> n.snapshot.lineage]

(* The evidence of the validations; a revalidation that was done counts.   *)
Prerequisites(v) ==
    [d \in K11!Domain |->
        K11!Evidence(Request(evaluation[v]),
                     d = "revalidation" \/ evidence[v][d] = "satisfied")]

StillValid_LineageOnly(n) ==
    Current(n.edge, n.generation) /\ authorityLineage[n.edge] = n.snapshot.lineage

StillValid(n) == Revalidates(n.edge, n.generation, n.snapshot)

(* revalidate, and with it the classification, which reads nothing shared. *)
RevalidateAndClassify(v) ==
    LET n == evaluation[v]
    IN /\ n.phase = "revalidate"
       /\ Goto(v, IF StillValid(n) /\ K11!Eligible(Request(n), Prerequisites(v))
                  THEN "eligible" ELSE "not_eligible")
       /\ UNCHANGED meshFrame

(* The caller has its answer and may evaluate again. *)
Return(v) ==
    /\ evaluation[v].phase \in Answer
    /\ evaluation' = [evaluation EXCEPT ![v] = Idle]
    /\ evidence' = [evidence EXCEPT ![v] = NoEvidence]
    /\ resolvedGone' = [resolvedGone EXCEPT ![v] = FALSE]
    /\ capturedChanged' = [capturedChanged EXCEPT ![v] = FALSE]
    /\ UNCHANGED lifecycleVars

Step(v) ==
    \/ RejectLocator(v)
    \/ \E e \in Edge : Resolve(v, e)
    \/ Capture(v)
    \/ DeriveDirection(v)
    \/ \E d \in AskedDomain : \E outcome \in {"satisfied", "not_satisfied", "unavailable"} :
           Validate(v, d, outcome)
    \/ RevalidateAndClassify(v)
    \/ Return(v)

Next ==
    \/ \E e \in Edge : Connect(e) \/ Prune(e) \/ Evolve(e) \/ Commit(e)
    \/ \E v \in Evaluator : Step(v)

Spec == Init /\ [][Next]_vars

-----------------------------------------------------------------------------
(* An answer "eligible" is earned: between the capture and the             *)
(* revalidation nothing of the relationship's entry changed and came back, *)
(* from the resolution on it was one life of it, and all four domains were *)
(* satisfied.  What happens after the revalidation is not the evaluation's *)
(* to say: the derivation of authority asks again.                         *)
EligibleIsEarned ==
    \A v \in Evaluator : evaluation[v].phase = "eligible" =>
        /\ ~capturedChanged[v]
        /\ ~resolvedGone[v]
        /\ \A d \in AskedDomain : evidence[v][d] = "satisfied"

(* An evaluation only goes on with one life of a relationship: a pair that *)
(* was pruned and connected again under a running evaluation is never      *)
(* captured in the place of the one that was resolved.                     *)
OneLifePerEvaluation ==
    \A v \in Evaluator :
        /\ (Working(v) /\ Exists(evaluation[v].edge)
            /\ relationshipGeneration[evaluation[v].edge] # evaluation[v].generation)
               => resolvedGone[v]
        /\ (Working(v) /\ evaluation[v].phase # "capture") =>
               \/ capturedChanged[v]
               \/ Revalidates(evaluation[v].edge, evaluation[v].generation,
                              evaluation[v].snapshot)
=============================================================================
