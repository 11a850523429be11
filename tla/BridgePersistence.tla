-------------------------- MODULE BridgePersistence --------------------------
(***************************************************************************)
(* The hysteresis that turns samples of bridge evidence into a persistent  *)
(* recommendation (include/bridge_persistence.hpp), with its two owners:   *)
(*                                                                         *)
(*   the record   of a relationship (ProductionPersistenceRecord), which   *)
(*                advances a lineage when the complete state changes, so   *)
(*                that an evaluation can tell whether the state it         *)
(*                captured was left alone; never reset,                    *)
(*   a controller of the shadow experiment, which turns the recommendation *)
(*                into an intent (bridge_transition_authorization.hpp) and *)
(*                can be reset; it keeps no lineage.                       *)
(*                                                                         *)
(* A lineage is the address of a shared object.  Advancing it allocates    *)
(* another, which may fail after the sample was observed, and which may    *)
(* reuse any address that neither the record nor a snapshot keeps alive.   *)
(*                                                                         *)
(* Compatibility and confidence are doubles of 0 .. 1 in the program; here *)
(* they are the levels of two integer scales, and evidence and thresholds  *)
(* are in units of the product of the scales.  Rounding is not modelled.   *)
(***************************************************************************)
EXTENDS Integers

CONSTANTS
    ActivationThreshold, ReleaseThreshold,
    ActivationSamples, ReleaseSamples,    \* of a controller
    CompatibilityScale, ConfidenceScale,  \* levels that stand for 1.0
    Address                               \* of lineage objects

(* The constructor throws otherwise.  Three addresses are enough to advance *)
(* while the record and a snapshot keep one each.                           *)
ASSUME ThresholdAssumption ==
    /\ CompatibilityScale \in Nat \ {0} /\ ConfidenceScale \in Nat \ {0}
    /\ ActivationThreshold \in Nat /\ ReleaseThreshold \in Nat
    /\ ReleaseThreshold < ActivationThreshold
    /\ ActivationThreshold <= CompatibilityScale * ConfidenceScale
    /\ ActivationSamples \in Nat /\ ActivationSamples >= 2
    /\ ReleaseSamples \in Nat /\ ReleaseSamples >= 2
    /\ \A a, b \in Address : Address \ {a, b} # {}

VARIABLES
    owner,               \* who holds the BridgePersistence
    recommendation,      \* recommendation_
    pendingDirection,    \* pendingDirection_
    consecutiveSamples,  \* consecutiveSamples_
    lineage,             \* ProductionPersistenceRecord::lineage_
    captured,            \* the snapshot an evaluation holds of the record, if any
    intent,              \* the last answer of the authorization policy
    lowRun, highRun,     \* history: samples in a row, met under PRESERVE, at or beyond
                         \* the negative, the positive activation threshold
    releaseRun,          \* history: samples in a row that released what they met
    changedSince,        \* history: the complete state changed since the capture
    lost                 \* history: advances that failed since then, up to two

stateVars == <<recommendation, pendingDirection, consecutiveSamples>>

recordVars == <<lineage, captured, changedSince, lost>>

runVars == <<lowRun, highRun, releaseRun>>

vars == <<owner, stateVars, recordVars, intent, runVars>>

-----------------------------------------------------------------------------
Recommendation == {"PRESERVE", "CONSTRAIN", "SUPPORT"}

PendingDirection == {"NONE", "CONSTRAIN", "SUPPORT", "PRESERVE"}

(* The part of CompleteState that is not constant. *)
State(r, p, n) == [recommendation |-> r, pending |-> p, samples |-> n]

CurrentState == State(recommendation, pendingDirection, consecutiveSamples)

Preserved == State("PRESERVE", "NONE", 0)

CompleteState == [recommendation: Recommendation, pending: PendingDirection, samples: Nat]

Snapshot == [lineage: Address, state: CompleteState]

(* The types of the state. *)
TypeOK ==
    /\ owner \in {"record", "controller"}
    /\ CurrentState \in CompleteState
    /\ lineage \in Address
    /\ captured \subseteq Snapshot
    /\ intent \in Recommendation
    /\ lowRun \in Nat /\ highRun \in Nat /\ releaseRun \in Nat
    /\ changedSince \in BOOLEAN
    /\ lost \in 0 .. 2

Init ==
    /\ owner \in {"record", "controller"}
    /\ recommendation = "PRESERVE"
    /\ pendingDirection = "NONE"
    /\ consecutiveSamples = 0
    /\ lineage \in Address
    /\ captured = {}
    /\ intent = "PRESERVE"
    /\ lowRun = 0 /\ highRun = 0 /\ releaseRun = 0
    /\ changedSince = FALSE
    /\ lost = 0

(* A record asks for two samples either way. *)
ActivationLimit == IF owner = "record" THEN 2 ELSE ActivationSamples

ReleaseLimit == IF owner = "record" THEN 2 ELSE ReleaseSamples

(* AdaptiveBridgePolicy::evaluate *)
Evidence(compatibility, confidence) == (2 * compatibility - CompatibilityScale) * confidence

-----------------------------------------------------------------------------
(* advancePending: another direction starts over. *)
AdvancePending(direction, limit) ==
    IF pendingDirection # direction THEN 1
    ELSE IF consecutiveSamples < limit THEN consecutiveSamples + 1
    ELSE consecutiveSamples

Towards_PastTheLimit(direction, target, limit) ==
    LET n == AdvancePending(direction, limit)
    IN IF n > limit THEN State(target, "NONE", 0) ELSE State(recommendation, direction, n)

Towards_OneEarly(direction, target, limit) ==
    LET n == AdvancePending(direction, limit)
    IN IF n + 1 >= limit THEN State(target, "NONE", 0) ELSE State(recommendation, direction, n)

(* Advances the pending direction, and settles in target at the limit. *)
Towards(direction, target, limit) ==
    LET n == AdvancePending(direction, limit)
    IN IF n = limit THEN State(target, "NONE", 0) ELSE State(recommendation, direction, n)

Releases_Swapped(r, value) ==
    IF r = "SUPPORT" THEN value >= -ReleaseThreshold ELSE value <= ReleaseThreshold

(* Does the sample speak for giving up the recommendation? *)
Releases(r, value) ==
    IF r = "SUPPORT" THEN value <= ReleaseThreshold ELSE value >= -ReleaseThreshold

Observed_ReleasesToOpposite(value) ==
    IF recommendation = "PRESERVE"
    THEN IF value > -ActivationThreshold /\ value < ActivationThreshold THEN Preserved
         ELSE IF value < 0 THEN Towards("CONSTRAIN", "CONSTRAIN", ActivationLimit)
         ELSE Towards("SUPPORT", "SUPPORT", ActivationLimit)
    ELSE IF ~Releases(recommendation, value) THEN State(recommendation, "NONE", 0)
         ELSE Towards("PRESERVE",
                      IF value <= -ActivationThreshold THEN "CONSTRAIN"
                      ELSE IF value >= ActivationThreshold THEN "SUPPORT"
                      ELSE "PRESERVE", ReleaseLimit)

(* BridgePersistence::observe *)
Observed(value) ==
    IF recommendation = "PRESERVE"
    THEN IF value > -ActivationThreshold /\ value < ActivationThreshold THEN Preserved
         ELSE IF value < 0 THEN Towards("CONSTRAIN", "CONSTRAIN", ActivationLimit)
         ELSE Towards("SUPPORT", "SUPPORT", ActivationLimit)
    ELSE IF ~Releases(recommendation, value) THEN State(recommendation, "NONE", 0)
         ELSE Towards("PRESERVE", "PRESERVE", ReleaseLimit)

Changed_Recommendation(state) == state.recommendation # recommendation

(* completeStateChanged *)
Changed(state) == state # CurrentState

Become(state) ==
    /\ recommendation' = state.recommendation
    /\ pendingDirection' = state.pending
    /\ consecutiveSamples' = state.samples

Counted(condition, run) == IF condition THEN run + 1 ELSE 0

(* One sample is observed. *)
Observe(value) ==
    /\ Become(Observed(value))
    /\ lowRun' = Counted(recommendation = "PRESERVE" /\ value <= -ActivationThreshold, lowRun)
    /\ highRun' = Counted(recommendation = "PRESERVE" /\ value >= ActivationThreshold, highRun)
    /\ releaseRun' = Counted(\/ recommendation = "SUPPORT" /\ value <= ReleaseThreshold
                             \/ recommendation = "CONSTRAIN" /\ value >= -ReleaseThreshold,
                             releaseRun)

(* ProductionPersistenceLineage::advance: the old object is released only   *)
(* after the new one was allocated.                                         *)
Advance == lineage' \in Address \ ({lineage} \cup {s.lineage : s \in captured})

(* ProductionPersistenceAccess::evolve of a record: it observes first and   *)
(* advances afterwards; when the allocation fails, the exception leaves the *)
(* observed state behind with the old lineage.                              *)
Evolve(compatibility, confidence, allocationFails) ==
    LET changed == Changed(Observed(Evidence(compatibility, confidence)))
    IN  /\ owner = "record"
        /\ Observe(Evidence(compatibility, confidence))
        /\ IF changed /\ ~allocationFails THEN Advance ELSE UNCHANGED lineage
        /\ lost' = IF changed /\ allocationFails /\ lost < 2 THEN lost + 1 ELSE lost
        /\ changedSince' = (changedSince \/ stateVars' # stateVars)
        /\ UNCHANGED <<owner, captured, intent>>

(* captureSnapshot copies the complete state and the lineage, which keeps   *)
(* the lineage's object alive.                                              *)
Capture ==
    /\ owner = "record"
    /\ captured' = {[lineage |-> lineage, state |-> CurrentState]}
    /\ changedSince' = FALSE
    /\ lost' = 0
    /\ UNCHANGED <<owner, stateVars, lineage, intent, runVars>>

(* BridgeTransitionAuthorizationPolicy::evaluate *)
Intent(r, constrainAllowed, supportAllowed) ==
    IF r = "CONSTRAIN" /\ constrainAllowed THEN "CONSTRAIN"
    ELSE IF r = "SUPPORT" /\ supportAllowed THEN "SUPPORT"
    ELSE "PRESERVE"

(* ShadowAdaptiveController::evaluate *)
Evaluate(compatibility, confidence, constrainAllowed, supportAllowed) ==
    /\ owner = "controller"
    /\ Observe(Evidence(compatibility, confidence))
    /\ intent' = Intent(recommendation', constrainAllowed, supportAllowed)
    /\ UNCHANGED <<owner, recordVars>>

(* ShadowAdaptiveController::reset *)
Reset ==
    /\ owner = "controller"
    /\ Become(Preserved)
    /\ lowRun' = 0 /\ highRun' = 0 /\ releaseRun' = 0
    /\ UNCHANGED <<owner, recordVars, intent>>

Next ==
    \/ \E compatibility \in 0 .. CompatibilityScale, confidence \in 0 .. ConfidenceScale :
           \/ \E allocationFails \in BOOLEAN :
                  Evolve(compatibility, confidence, allocationFails)
           \/ \E constrainAllowed, supportAllowed \in BOOLEAN :
                  Evaluate(compatibility, confidence, constrainAllowed, supportAllowed)
    \/ Capture
    \/ Reset

Spec == Init /\ [][Next]_vars

-----------------------------------------------------------------------------
(* A pending direction is earned: it fits the recommendation it would      *)
(* replace, its count is the length of the run of samples that speak for   *)
(* it, and it never rests at its limit.  A count that could reach the      *)
(* limit without settling would stay there for ever: advancePending        *)
(* saturates.                                                              *)
PendingIsEarned ==
    /\ pendingDirection = "NONE" <=> consecutiveSamples = 0
    /\ pendingDirection \in {"CONSTRAIN", "SUPPORT"} =>
           recommendation = "PRESERVE" /\ consecutiveSamples < ActivationLimit
    /\ pendingDirection = "PRESERVE" =>
           recommendation # "PRESERVE" /\ consecutiveSamples < ReleaseLimit
    /\ recommendation # "CONSTRAIN" =>
           lowRun = IF pendingDirection = "CONSTRAIN" THEN consecutiveSamples ELSE 0
    /\ recommendation # "SUPPORT" =>
           highRun = IF pendingDirection = "SUPPORT" THEN consecutiveSamples ELSE 0
    /\ recommendation # "PRESERVE" =>
           releaseRun = IF pendingDirection = "PRESERVE" THEN consecutiveSamples ELSE 0

(* The step makes r the recommendation. *)
Enters(r) == recommendation # r /\ recommendation' = r

(* Activation and release are exact: a recommendation leaves PRESERVE with *)
(* the required number of consecutive samples at or beyond the threshold   *)
(* of its side, all met under PRESERVE, and short of a reset returns with  *)
(* the required number of consecutive releasing samples; never earlier nor *)
(* later.                                                                  *)
ChangesAreExact ==
    [][~Reset /\ ~Capture =>
           /\ Enters("CONSTRAIN") <=> lowRun' = ActivationLimit
           /\ Enters("SUPPORT") <=> highRun' = ActivationLimit
           /\ Enters("PRESERVE") <=> releaseRun' = ReleaseLimit]_vars

(* Two evaluations in a row never intend opposite transitions, whatever    *)
(* the evidence and the permissions do: a bridge is not to be constrained  *)
(* and supported back to back.                                             *)
IntentsNeverFlip ==
    [][{intent, intent'} # {"CONSTRAIN", "SUPPORT"}]_vars

(* The check revalidate makes of a snapshot. *)
Revalidated(s) == s.lineage = lineage /\ s.state = CurrentState

(* A snapshot revalidates only when the record was left alone since the    *)
(* capture, also if it changed and changed back in between, and also if    *)
(* one advance of the lineage failed in between.  It takes two failed      *)
(* advances to hide a change: one on the way out and one on the way back.  *)
OneFailureHidesNothing ==
    \A s \in captured : Revalidated(s) /\ changedSince => lost = 2
=============================================================================
