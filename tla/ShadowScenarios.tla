--------------------------- MODULE ShadowScenarios ---------------------------
(***************************************************************************)
(* The harness of the shadow-adaptive experiment                           *)
(* (shadow_adaptive_scenarios.cpp): it feeds every sample to a controller  *)
(* and to a BridgePersistence of its own, and counts how often the         *)
(* recommendation and the authorized disposition changed and how often a   *)
(* permission stood in the way.  Both get the same samples from the same   *)
(* initial state and neither is ever reset, so one BridgePersistence       *)
(* stands for both.  The classification of raw evidence by its sign, which *)
(* the scenarios print beside these numbers, is left out.                  *)
(***************************************************************************)
EXTENDS BridgePersistence

CONSTANT MaxSamples  \* bound: samples a scenario observes

ASSUME MaxSamplesAssumption == MaxSamples \in Nat

VARIABLES
    measured,            \* the controller is the harness's
    samples,             \* metrics_.samples
    persistentChanges,   \* metrics_.persistentRecommendationChanges
    shadowChanges,       \* metrics_.authorizedShadowChanges
    blocked,             \* metrics_.blockedByConstraintCount
    previousPersistent,  \* previousPersistent_, {} before the first sample
    previousShadow       \* previousShadow_, likewise

metrics == <<samples, persistentChanges, shadowChanges, blocked,
             previousPersistent, previousShadow>>

scenarioVars == <<vars, measured, metrics>>

MetricsTypeOK ==
    /\ measured \in BOOLEAN
    /\ measured => owner = "controller"
    /\ samples \in Nat /\ persistentChanges \in Nat /\ shadowChanges \in Nat /\ blocked \in Nat
    /\ previousPersistent \subseteq Recommendation
    /\ previousShadow \subseteq Recommendation

ScenarioInit ==
    /\ Init
    /\ measured \in BOOLEAN
    /\ measured => owner = "controller"
    /\ samples = 0 /\ persistentChanges = 0 /\ shadowChanges = 0 /\ blocked = 0
    /\ previousPersistent = {} /\ previousShadow = {}

Tally(count, condition) == IF condition THEN count + 1 ELSE count

Blocks_OnlySupport(r, constrainAllowed, supportAllowed) ==
    r = "SUPPORT" /\ ~supportAllowed

(* Do the permissions stand in the way of recommendation r? *)
Blocks(r, constrainAllowed, supportAllowed) ==
    \/ r = "CONSTRAIN" /\ ~constrainAllowed
    \/ r = "SUPPORT" /\ ~supportAllowed

(* ScenarioHarness::observe *)
HarnessObserve(compatibility, confidence, constrainAllowed, supportAllowed) ==
    /\ measured
    /\ samples < MaxSamples
    /\ Evaluate(compatibility, confidence, constrainAllowed, supportAllowed)
    /\ samples' = samples + 1
    /\ persistentChanges' = Tally(persistentChanges,
           previousPersistent \notin {{}, {recommendation'}})
    /\ shadowChanges' = Tally(shadowChanges, previousShadow \notin {{}, {intent'}})
    /\ blocked' = Tally(blocked, Blocks(recommendation', constrainAllowed, supportAllowed))
    /\ previousPersistent' = {recommendation'}
    /\ previousShadow' = {intent'}
    /\ UNCHANGED measured

ScenarioNext ==
    \/ \E compatibility \in 0 .. CompatibilityScale, confidence \in 0 .. ConfidenceScale :
           \E constrainAllowed, supportAllowed \in BOOLEAN :
               HarnessObserve(compatibility, confidence, constrainAllowed, supportAllowed)
    \/ ~measured /\ Next /\ UNCHANGED <<measured, metrics>>

ScenarioSpec == ScenarioInit /\ [][ScenarioNext]_scenarioVars

-----------------------------------------------------------------------------
FewestSamples ==
    IF ActivationSamples < ReleaseSamples THEN ActivationSamples ELSE ReleaseSamples

(* Hysteresis damps: between two changes of the recommendation lie at      *)
(* least as many samples as the cheaper of activation and release asks     *)
(* for, whatever the noise.  The samples pending now are not yet spent.    *)
ChangesAreDamped ==
    measured => FewestSamples * persistentChanges + consecutiveSamples <= samples

(* What the harness reports adds up: a change of the disposition is a      *)
(* change of the recommendation, or one of the two edges of a stretch of   *)
(* samples the permissions blocked.                                        *)
ShadowChangesAreExplained ==
    shadowChanges <= persistentChanges + 2 * blocked
=============================================================================
