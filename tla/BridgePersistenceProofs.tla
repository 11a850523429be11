------------------------ MODULE BridgePersistenceProofs ------------------------
(***************************************************************************)
(* Theorems about BridgePersistence and ShadowScenarios, for all           *)
(* thresholds, sample counts and scales.  The inductive invariant is the   *)
(* type invariant with PendingIsEarned and what is known of a snapshot     *)
(* while its lineage is still the record's.  The second part is about the  *)
(* other experiment, InterchangeRecord, for records of any length.         *)
(***************************************************************************)
EXTENDS ShadowScenarios, InterchangeRecord, FiniteSetTheorems, SequenceTheorems,
        WellFoundedInduction, TLAPS

(* A snapshot whose lineage is still the record's: without a failed        *)
(* advance the record was left alone, and after one it is not in the       *)
(* captured state.                                                         *)
SnapshotIsKept ==
    \A s \in captured :
        s.lineage = lineage =>
            /\ lost = 0 => ~changedSince /\ s.state = CurrentState
            /\ lost = 1 => s.state # CurrentState

Inv == TypeOK /\ PendingIsEarned /\ SnapshotIsKept

(* The next complete state, as a record, when a step is taken. *)
NextState == State(recommendation', pendingDirection', consecutiveSamples')

(* The three components of a state made by State. *)
LEMMA StateFields ==
    ASSUME NEW r, NEW p, NEW n
    PROVE  /\ State(r, p, n).recommendation = r
           /\ State(r, p, n).pending = p
           /\ State(r, p, n).samples = n
BY DEF State

(* A record that became a complete state is in it. *)
LEMMA Becomes ==
    ASSUME NEW state \in CompleteState, Become(state)
    PROVE  NextState = state /\ CurrentState' = state
BY DEF Become, NextState, CurrentState, State, CompleteState

(* The parameters without their bound: thresholds in order, limits of at    *)
(* least two.                                                              *)
LEMMA Limits ==
    /\ ActivationThreshold \in Nat /\ ReleaseThreshold \in Nat
    /\ ReleaseThreshold < ActivationThreshold
    /\ ActivationLimit \in Nat /\ ActivationLimit >= 2
    /\ ReleaseLimit \in Nat /\ ReleaseLimit >= 2
BY ThresholdAssumption DEF ActivationLimit, ReleaseLimit

(* Evidence is an integer. *)
LEMMA EvidenceTyped ==
    ASSUME NEW c \in 0 .. CompatibilityScale, NEW k \in 0 .. ConfidenceScale
    PROVE  Evidence(c, k) \in Int
<1>1. 2 * c - CompatibilityScale \in Int /\ k \in Int
  BY ThresholdAssumption
<1> QED BY <1>1 DEF Evidence

(* What one sample makes of the hysteresis, as a complete state. *)
LEMMA ObservedTyped ==
    ASSUME Inv, NEW value \in Int
    PROVE  Observed(value) \in CompleteState
<1>1. recommendation \in Recommendation /\ pendingDirection \in PendingDirection
      /\ consecutiveSamples \in Nat
  BY DEF Inv, TypeOK, CurrentState, CompleteState, State
<1>2. \A d \in PendingDirection, t \in Recommendation, limit \in Nat :
          Towards(d, t, limit) \in CompleteState
  BY <1>1 DEF Towards, AdvancePending, State, CompleteState, PendingDirection
<1> QED
  BY <1>1, <1>2, Limits
     DEF Observed, Preserved, State, CompleteState, Recommendation, PendingDirection

(* The state after a sample. *)
LEMMA ObserveTyped ==
    ASSUME Inv, NEW value \in Int, Observe(value)
    PROVE  CurrentState' = Observed(value) /\ CurrentState' \in CompleteState
BY ObservedTyped, Becomes DEF Observe

(* A sample preserves the count of earned pending samples, and changes the *)
(* recommendation exactly at the limits.                                   *)
LEMMA ObserveCounts ==
    ASSUME Inv, NEW value \in Int, Observe(value), owner' = owner
    PROVE  /\ PendingIsEarned'
           /\ lowRun' \in Nat /\ highRun' \in Nat /\ releaseRun' \in Nat
           /\ Enters("CONSTRAIN") <=> lowRun' = ActivationLimit
           /\ Enters("SUPPORT") <=> highRun' = ActivationLimit
           /\ Enters("PRESERVE") <=> releaseRun' = ReleaseLimit
           /\ {recommendation, recommendation'} # {"CONSTRAIN", "SUPPORT"}
<1>1. recommendation \in Recommendation /\ pendingDirection \in PendingDirection
      /\ consecutiveSamples \in Nat /\ lowRun \in Nat /\ highRun \in Nat /\ releaseRun \in Nat
  BY DEF Inv, TypeOK, CurrentState, CompleteState, State
<1>2. NextState = Observed(value)
  BY ObservedTyped, Becomes DEF Observe
<1>3. ActivationLimit' = ActivationLimit /\ ReleaseLimit' = ReleaseLimit
  BY DEF ActivationLimit, ReleaseLimit
<1>4. CASE recommendation = "PRESERVE"
  BY <1>1, <1>2, <1>3, <1>4, Limits
     DEF Inv, PendingIsEarned, Observe, Enters, Counted, NextState, Observed, Towards,
         AdvancePending, State, Preserved, PendingDirection
<1>5. CASE recommendation = "CONSTRAIN"
  BY <1>1, <1>2, <1>3, <1>5, Limits
     DEF Inv, PendingIsEarned, Observe, Enters, Counted, NextState, Observed, Towards, Releases,
         AdvancePending, State, Preserved, PendingDirection
<1>6. CASE recommendation = "SUPPORT"
  BY <1>1, <1>2, <1>3, <1>6, Limits
     DEF Inv, PendingIsEarned, Observe, Enters, Counted, NextState, Observed, Towards, Releases,
         AdvancePending, State, Preserved, PendingDirection
<1> QED BY <1>1, <1>4, <1>5, <1>6 DEF Recommendation

-----------------------------------------------------------------------------
(* A sample of a record preserves the invariant: an advance that succeeds  *)
(* takes a lineage no snapshot has, and one that fails leaves a state that *)
(* the sample changed.                                                     *)
LEMMA EvolveKeepsInv ==
    ASSUME Inv, NEW c \in 0 .. CompatibilityScale, NEW k \in 0 .. ConfidenceScale,
           NEW fails \in BOOLEAN, Evolve(c, k, fails)
    PROVE  Inv'
<1> DEFINE value == Evidence(c, k)
           changed == Changed(Observed(value))
<1>1. value \in Int /\ Observe(value) /\ owner' = owner
  BY EvidenceTyped DEF Evolve
<1>2. CurrentState' = Observed(value) /\ CurrentState \in CompleteState
  BY <1>1, ObservedTyped, Becomes DEF Observe, Inv, TypeOK
<1>3. changed <=> CurrentState' # CurrentState
  BY <1>2 DEF Changed
<1>4. stateVars' # stateVars => changed
  BY <1>3, StateFields DEF stateVars, CurrentState
<1>5. captured' = captured /\ intent' = intent /\ lost \in 0 .. 2 /\ lost' \in 0 .. 2
      /\ changedSince \in BOOLEAN /\ changedSince' \in BOOLEAN
  BY DEF Evolve, Inv, TypeOK
<1>6. CASE ~changed
  <2>1. lineage' = lineage /\ lost' = lost /\ CurrentState' = CurrentState
    BY <1>3, <1>6 DEF Evolve
  <2>2. changedSince' = changedSince
    BY <1>4, <1>5, <1>6 DEF Evolve
  <2>3. SnapshotIsKept'
    BY <1>5, <2>1, <2>2 DEF Inv, SnapshotIsKept
  <2> QED BY <1>1, <1>5, <2>1, <2>3, ObserveCounts, ObserveTyped DEF Inv, TypeOK
<1>7. CASE changed /\ ~fails
  <2>1. lineage' \in Address /\ \A s \in captured : s.lineage # lineage'
    BY <1>7, ThresholdAssumption DEF Evolve, Advance, Inv, TypeOK
  <2>2. SnapshotIsKept'
    BY <1>5, <2>1 DEF SnapshotIsKept
  <2> QED BY <1>1, <1>5, <2>1, <2>2, ObserveCounts, ObserveTyped DEF Inv, TypeOK
<1>8. CASE changed /\ fails
  <2>1. lineage' = lineage /\ lost' = IF lost < 2 THEN lost + 1 ELSE lost
    BY <1>8 DEF Evolve
  <2>2. SnapshotIsKept'
    BY <1>3, <1>5, <1>8, <2>1 DEF Inv, SnapshotIsKept
  <2> QED BY <1>1, <1>5, <2>1, <2>2, ObserveCounts, ObserveTyped DEF Inv, TypeOK
<1> QED BY <1>6, <1>7, <1>8

(* A sample of a controller preserves the invariant. *)
LEMMA EvaluateKeepsInv ==
    ASSUME Inv, NEW c \in 0 .. CompatibilityScale, NEW k \in 0 .. ConfidenceScale,
           NEW a \in BOOLEAN, NEW b \in BOOLEAN, Evaluate(c, k, a, b),
           captured = {}
    PROVE  Inv' /\ captured' = {}
<1>1. Evidence(c, k) \in Int /\ Observe(Evidence(c, k)) /\ owner' = owner
  BY EvidenceTyped DEF Evaluate
<1>2. intent' \in Recommendation
  BY DEF Evaluate, Intent, Recommendation
<1>3. lineage' = lineage /\ captured' = {} /\ changedSince' = changedSince /\ lost' = lost
  BY DEF Evaluate, recordVars
<1> QED BY <1>1, <1>2, <1>3, ObserveCounts, ObserveTyped DEF Inv, TypeOK, SnapshotIsKept

(* A reset of a controller preserves the invariant. *)
LEMMA ResetKeepsInv ==
    ASSUME Inv, Reset, captured = {}
    PROVE  Inv' /\ captured' = {}
<1>1. recommendation' = "PRESERVE" /\ pendingDirection' = "NONE" /\ consecutiveSamples' = 0
  BY DEF Reset, Become, Preserved, State
<1>2. CurrentState' \in CompleteState
  BY <1>1 DEF CurrentState, State, CompleteState, Recommendation, PendingDirection
<1>3. lowRun' = 0 /\ highRun' = 0 /\ releaseRun' = 0 /\ intent' = intent /\ owner' = owner
      /\ lineage' = lineage /\ captured' = {} /\ changedSince' = changedSince /\ lost' = lost
  BY DEF Reset, recordVars
<1>4. PendingIsEarned'
  BY <1>1, <1>3 DEF PendingIsEarned
<1> QED BY <1>2, <1>3, <1>4 DEF Inv, TypeOK, SnapshotIsKept

(* A capture preserves the invariant. *)
LEMMA CaptureKeepsInv ==
    ASSUME Inv, Capture
    PROVE  Inv'
<1>1. CurrentState' = CurrentState /\ lineage' = lineage
  BY DEF Capture, stateVars, CurrentState
<1>2. captured' = {[lineage |-> lineage, state |-> CurrentState]} /\ changedSince' = FALSE
      /\ lost' = 0
  BY DEF Capture
<1>3. captured' \subseteq Snapshot
  BY <1>2 DEF Inv, TypeOK, Snapshot
<1>4. SnapshotIsKept'
  BY <1>1, <1>2 DEF SnapshotIsKept
<1>5. PendingIsEarned'
  BY DEF Capture, stateVars, runVars, Inv, PendingIsEarned, ActivationLimit, ReleaseLimit
<1>6. TypeOK'
  <2>1. changedSince' \in BOOLEAN
    BY <1>2
  <2> QED BY <1>1, <1>2, <1>3, <2>1 DEF Capture, runVars, Inv, TypeOK
<1> QED BY <1>4, <1>5, <1>6 DEF Inv

(* A controller has no snapshots. *)
Kept == Inv /\ (owner = "controller" => captured = {})

(* The invariant is inductive. *)
LEMMA InvStep == Kept /\ [Next]_vars => Kept'
<1> SUFFICES ASSUME Kept, [Next]_vars PROVE Kept'
  OBVIOUS
<1>1. ASSUME NEW c \in 0 .. CompatibilityScale, NEW k \in 0 .. ConfidenceScale,
             NEW fails \in BOOLEAN, Evolve(c, k, fails)
      PROVE  Kept'
  <2>1. Inv' /\ owner = "record" /\ owner' = owner
    BY <1>1, EvolveKeepsInv DEF Kept, Evolve
  <2> QED BY <2>1 DEF Kept
<1>2. ASSUME NEW c \in 0 .. CompatibilityScale, NEW k \in 0 .. ConfidenceScale,
             NEW a \in BOOLEAN, NEW b \in BOOLEAN, Evaluate(c, k, a, b)
      PROVE  Kept'
  <2>1. captured = {}
    BY <1>2 DEF Kept, Evaluate
  <2> QED BY <1>2, <2>1, EvaluateKeepsInv DEF Kept
<1>3. CASE Capture
  BY <1>3, CaptureKeepsInv DEF Kept, Capture
<1>4. CASE Reset
  BY <1>4, ResetKeepsInv DEF Kept, Reset
<1>5. CASE UNCHANGED vars
  BY <1>5 DEF vars, stateVars, recordVars, runVars, Kept, Inv, TypeOK, PendingIsEarned,
              SnapshotIsKept, CurrentState, State, ActivationLimit, ReleaseLimit
<1> QED BY <1>1, <1>2, <1>3, <1>4, <1>5 DEF Next

(* A new owner satisfies the invariant. *)
LEMMA InvInit == Init => Kept
<1> SUFFICES ASSUME Init PROVE Kept
  OBVIOUS
<1>1. CurrentState \in CompleteState
  BY DEF Init, CurrentState, State, CompleteState, Recommendation, PendingDirection
<1>2. TypeOK
  <2>1. changedSince \in BOOLEAN
    BY DEF Init
  <2> QED BY <1>1, <2>1 DEF Init, TypeOK, Recommendation
<1>3. PendingIsEarned
  BY DEF Init, PendingIsEarned
<1> QED BY <1>2, <1>3 DEF Init, Kept, Inv, SnapshotIsKept

(* The invariant holds of every execution. *)
THEOREM InvHolds == Spec => []Kept
BY InvInit, InvStep, PTL DEF Spec

(* Pending directions are always earned, for all thresholds and limits. *)
THEOREM PendingAlwaysEarned == Spec => []PendingIsEarned
<1>1. Kept => PendingIsEarned
  BY DEF Kept, Inv
<1> QED BY <1>1, InvHolds, PTL

(* One failed advance of the lineage hides no change from revalidation. *)
THEOREM FailureHidesNothing == Spec => []OneFailureHidesNothing
<1>1. Kept => OneFailureHidesNothing
  BY DEF Kept, Inv, TypeOK, SnapshotIsKept, OneFailureHidesNothing, Revalidated
<1> QED BY <1>1, InvHolds, PTL

(* What a sample taken by either owner does to the recommendation. *)
LEMMA SampleIsExact ==
    ASSUME Kept, Next, ~Reset, ~Capture
    PROVE  /\ Enters("CONSTRAIN") <=> lowRun' = ActivationLimit
           /\ Enters("SUPPORT") <=> highRun' = ActivationLimit
           /\ Enters("PRESERVE") <=> releaseRun' = ReleaseLimit
<1>1. PICK value \in Int : Observe(value) /\ owner' = owner
  BY EvidenceTyped DEF Next, Evolve, Evaluate
<1> QED BY <1>1, ObserveCounts DEF Kept

(* Recommendations are activated, and released, by exactly the required    *)
(* run of samples.                                                         *)
THEOREM ChangesExact == Spec => ChangesAreExact
<1>1. ASSUME Kept, [Next]_vars
      PROVE  [~Reset /\ ~Capture =>
                 /\ Enters("CONSTRAIN") <=> lowRun' = ActivationLimit
                 /\ Enters("SUPPORT") <=> highRun' = ActivationLimit
                 /\ Enters("PRESERVE") <=> releaseRun' = ReleaseLimit]_vars
  BY <1>1, SampleIsExact
<1> QED BY <1>1, InvHolds, PTL DEF Spec, ChangesAreExact

-----------------------------------------------------------------------------
(* An intent other than PRESERVE is the recommendation's, until a reset    *)
(* takes the recommendation back and nothing is pending for another one.   *)
IntentFollows ==
    /\ owner = "record" => intent = "PRESERVE"
    /\ intent # "PRESERVE" =>
           \/ recommendation = intent
           \/ recommendation = "PRESERVE" /\ pendingDirection = "NONE"

(* An evaluation never follows an intent by its opposite: one sample under *)
(* PRESERVE activates nothing.                                             *)
LEMMA EvaluateIntent ==
    ASSUME Kept, IntentFollows,
           NEW c \in 0 .. CompatibilityScale, NEW k \in 0 .. ConfidenceScale,
           NEW a \in BOOLEAN, NEW b \in BOOLEAN, Evaluate(c, k, a, b)
    PROVE  IntentFollows' /\ {intent, intent'} # {"CONSTRAIN", "SUPPORT"}
<1> DEFINE value == Evidence(c, k)
<1>1. value \in Int /\ Observe(value) /\ owner' = owner /\ owner = "controller"
  BY EvidenceTyped DEF Evaluate
<1>2. intent' \in {"PRESERVE", recommendation'}
  BY DEF Evaluate, Intent
<1>3. {recommendation, recommendation'} # {"CONSTRAIN", "SUPPORT"}
  BY <1>1, ObserveCounts DEF Kept
<1>4. intent \in Recommendation /\ recommendation \in Recommendation
  BY DEF Kept, Inv, TypeOK, CurrentState, CompleteState, State
<1>5. CASE recommendation = "PRESERVE" /\ pendingDirection = "NONE"
  <2>1. NextState = Observed(value)
    BY <1>1, ObservedTyped, Becomes DEF Observe, Kept
  <2>2. recommendation' = "PRESERVE"
    BY <1>1, <1>5, <2>1, Limits
       DEF Observed, Towards, AdvancePending, State, Preserved, NextState
  <2> QED BY <1>1, <1>2, <1>4, <2>2 DEF IntentFollows
<1>6. CASE intent = "PRESERVE"
  BY <1>1, <1>2, <1>6 DEF IntentFollows
<1>7. CASE recommendation = intent
  BY <1>1, <1>2, <1>3, <1>4, <1>7 DEF IntentFollows, Recommendation
<1> QED BY <1>5, <1>6, <1>7 DEF IntentFollows

(* No step makes two intents in a row opposite. *)
LEMMA IntentStep ==
    ASSUME Kept, IntentFollows, [Next]_vars
    PROVE  /\ IntentFollows'
           /\ {intent, intent'} # {"CONSTRAIN", "SUPPORT"}
<1>1. intent \in Recommendation
  BY DEF Kept, Inv, TypeOK
<1>2. ASSUME NEW c \in 0 .. CompatibilityScale, NEW k \in 0 .. ConfidenceScale,
             NEW fails \in BOOLEAN, Evolve(c, k, fails)
      PROVE  IntentFollows' /\ {intent, intent'} # {"CONSTRAIN", "SUPPORT"}
  BY <1>2 DEF Evolve, IntentFollows
<1>3. CASE Reset
  BY <1>1, <1>3 DEF Reset, Become, Preserved, State, IntentFollows
<1>4. CASE Capture
  BY <1>1, <1>4 DEF Capture, stateVars, IntentFollows
<1>5. CASE UNCHANGED vars
  BY <1>1, <1>5 DEF vars, stateVars, IntentFollows
<1> QED BY <1>2, <1>3, <1>4, <1>5, EvaluateIntent DEF Next

(* Opposite intents are never adjacent, whatever evidence and permissions. *)
THEOREM NoFlip == Spec => IntentsNeverFlip
<1>1. Init => IntentFollows
  BY DEF Init, IntentFollows
<1>2. ASSUME Kept, IntentFollows, [Next]_vars PROVE IntentFollows'
  BY <1>2, IntentStep
<1>3. ASSUME Kept, IntentFollows, [Next]_vars
      PROVE  [{intent, intent'} # {"CONSTRAIN", "SUPPORT"}]_vars
  BY <1>3, IntentStep
<1> QED BY <1>1, <1>2, <1>3, InvHolds, PTL DEF Spec, IntentsNeverFlip

-----------------------------------------------------------------------------
(* A scenario only uses the controller it measures. *)
THEOREM ScenarioUsesController == ScenarioSpec => Spec
<1>1. ScenarioInit => Init
  BY DEF ScenarioInit
<1>2. [ScenarioNext]_scenarioVars => [Next]_vars
  BY DEF ScenarioNext, HarnessObserve, Next, scenarioVars
<1> QED BY <1>1, <1>2, PTL DEF ScenarioSpec, Spec

(* What the harness counts, in terms of the controller it measures: the    *)
(* intent is the recommendation unless the last sample was blocked.        *)
MetricsInv ==
    /\ MetricsTypeOK
    /\ ~measured => shadowChanges = 0 /\ persistentChanges = 0 /\ blocked = 0
    /\ measured =>
           /\ FewestSamples * persistentChanges + consecutiveSamples <= samples
           /\ previousPersistent \in {{}, {recommendation}}
           /\ previousShadow \in {{}, {intent}}
           /\ previousPersistent = {} <=> previousShadow = {}
           /\ previousPersistent = {} =>
                  shadowChanges = 0 /\ persistentChanges = 0 /\ blocked = 0
           /\ intent \in {"PRESERVE", recommendation}
           /\ shadowChanges + (IF intent = recommendation THEN 0 ELSE 1)
                  <= persistentChanges + 2 * blocked

(* FewestSamples is at most either requirement. *)
LEMMA Fewest ==
    /\ FewestSamples \in Nat
    /\ FewestSamples <= ActivationSamples /\ FewestSamples <= ReleaseSamples
BY ThresholdAssumption DEF FewestSamples

(* A sample that changes the recommendation spends at least FewestSamples: *)
(* all but the last were pending.                                          *)
LEMMA ChangeSpends ==
    ASSUME Kept, owner = "controller", NEW value \in Int, Observe(value), owner' = owner
    PROVE  /\ consecutiveSamples \in Nat /\ consecutiveSamples' \in Nat
           /\ consecutiveSamples' <= consecutiveSamples + 1
           /\ recommendation' # recommendation =>
                  consecutiveSamples' = 0 /\ FewestSamples <= consecutiveSamples + 1
<1>1. recommendation \in Recommendation /\ pendingDirection \in PendingDirection
      /\ consecutiveSamples \in Nat
  BY DEF Kept, Inv, TypeOK, CurrentState, CompleteState, State
<1>2. NextState = Observed(value)
  BY ObservedTyped, Becomes DEF Observe, Kept
<1>3. ActivationLimit = ActivationSamples /\ ReleaseLimit = ReleaseSamples
  BY DEF ActivationLimit, ReleaseLimit
<1> QED BY <1>1, <1>2, <1>3, Fewest, Limits
           DEF NextState, Observed, Towards, AdvancePending, State, Preserved, Kept, Inv,
               PendingIsEarned

(* A measured sample preserves what the harness counts. *)
LEMMA HarnessKeepsMetrics ==
    ASSUME Kept, MetricsInv,
           NEW c \in 0 .. CompatibilityScale, NEW k \in 0 .. ConfidenceScale,
           NEW a \in BOOLEAN, NEW b \in BOOLEAN, HarnessObserve(c, k, a, b)
    PROVE  MetricsInv'
<1>1. Evidence(c, k) \in Int /\ Observe(Evidence(c, k)) /\ owner' = owner
      /\ owner = "controller" /\ measured /\ measured'
  BY EvidenceTyped DEF HarnessObserve, Evaluate
<1>2. recommendation \in Recommendation /\ recommendation' \in Recommendation
  BY <1>1, ObserveTyped DEF Kept, Inv, TypeOK, CurrentState, CompleteState, State
<1>3. intent' = Intent(recommendation', a, b)
  BY DEF HarnessObserve, Evaluate
<1>4. MetricsTypeOK'
  BY <1>1, <1>2, <1>3 DEF HarnessObserve, Tally, MetricsInv, MetricsTypeOK, Intent, Recommendation
<1>5. samples \in Nat /\ persistentChanges \in Nat /\ shadowChanges \in Nat /\ blocked \in Nat
  BY DEF MetricsInv, MetricsTypeOK
<1>6. FewestSamples * persistentChanges' + consecutiveSamples' <= samples'
  <2>1. samples' = samples + 1
    BY DEF HarnessObserve
  <2>2. FewestSamples * persistentChanges \in Nat
        /\ FewestSamples * (persistentChanges + 1)
               = FewestSamples * persistentChanges + FewestSamples
    BY <1>5, Fewest
  <2>3. FewestSamples * persistentChanges + consecutiveSamples <= samples
    BY <1>1 DEF MetricsInv
  <2>4. persistentChanges' \in {persistentChanges, persistentChanges + 1}
        /\ (persistentChanges' # persistentChanges => recommendation' # recommendation)
    BY <1>1, <1>5 DEF HarnessObserve, Tally, MetricsInv
  <2>5. CASE persistentChanges' = persistentChanges
    BY <1>1, <1>5, <2>1, <2>2, <2>3, <2>5, ChangeSpends
  <2>6. CASE persistentChanges' = persistentChanges + 1 /\ recommendation' # recommendation
    BY <1>1, <1>5, <2>1, <2>2, <2>3, <2>6, ChangeSpends, Fewest
  <2> QED BY <1>5, <2>4, <2>5, <2>6
<1>7. intent' \in {"PRESERVE", recommendation'}
      /\ (intent' # recommendation' => Blocks(recommendation', a, b))
      /\ (Blocks(recommendation', a, b) => intent' = "PRESERVE")
  BY <1>2, <1>3 DEF Intent, Blocks, Recommendation
<1>8. shadowChanges' + (IF intent' = recommendation' THEN 0 ELSE 1)
          <= persistentChanges' + 2 * blocked'
  <2>1. CASE previousPersistent = {}
    BY <1>1, <1>5, <1>7, <2>1 DEF HarnessObserve, Tally, MetricsInv
  <2>2. CASE previousPersistent = {recommendation} /\ previousShadow = {intent}
    BY <1>1, <1>5, <1>7, <2>2 DEF HarnessObserve, Tally, MetricsInv
  <2> QED BY <1>1, <2>1, <2>2 DEF MetricsInv
<1>9. previousPersistent' = {recommendation'} /\ previousShadow' = {intent'}
  BY DEF HarnessObserve
<1> QED BY <1>1, <1>4, <1>6, <1>7, <1>8, <1>9 DEF MetricsInv

(* What the harness counts is right in every scenario. *)
THEOREM MetricsHold == ScenarioSpec => []MetricsInv
<1>1. ScenarioInit => MetricsInv
  BY Fewest DEF ScenarioInit, Init, MetricsInv, MetricsTypeOK
<1>2. ASSUME Kept, MetricsInv, [ScenarioNext]_scenarioVars PROVE MetricsInv'
  <2>1. CASE ~measured /\ Next /\ UNCHANGED <<measured, metrics>>
    <3>1. owner' = owner
      BY <2>1 DEF Next, Evolve, Evaluate, Capture, Reset
    <3> QED BY <1>2, <2>1, <3>1 DEF metrics, MetricsInv, MetricsTypeOK
  <2>2. CASE UNCHANGED scenarioVars
    BY <1>2, <2>2 DEF scenarioVars, vars, stateVars, metrics, MetricsInv, MetricsTypeOK
  <2> QED BY <1>2, <2>1, <2>2, HarnessKeepsMetrics DEF ScenarioNext
<1> QED BY <1>1, <1>2, ScenarioUsesController, InvHolds, PTL DEF ScenarioSpec

(* Hysteresis damps, for all requirements and however long the scenario.   *)
THEOREM AlwaysDamped == ScenarioSpec => []ChangesAreDamped
<1>1. MetricsInv => ChangesAreDamped
  BY DEF MetricsInv, ChangesAreDamped
<1> QED BY <1>1, MetricsHold, PTL

(* Every change of the authorized disposition is accounted for. *)
THEOREM AlwaysExplained == ScenarioSpec => []ShadowChangesAreExplained
<1>1. MetricsInv => ShadowChangesAreExplained
  BY DEF MetricsInv, MetricsTypeOK, ShadowChangesAreExplained
<1> QED BY <1>1, MetricsHold, PTL

-----------------------------------------------------------------------------
(***************************************************************************)
(* The record of an external experiment: the adapter, which splits and     *)
(* then looks at field after field, and the grammar, which looks at the    *)
(* record as it stands, agree on every record.  Splitting is a fold, and   *)
(* what it returns is known by induction on how much of the record it has  *)
(* seen (Splits); then both are compared requirement by requirement.       *)
(***************************************************************************)

(* What a record consists of. *)
Symbol == Word \cup Control

LEMMA Words ==
    /\ {"1", "KIKO-EXPERIMENT"} \subseteq Word
    /\ ExternalExperimentKind \subseteq Word
    /\ ExternalExperimentalOutcome \subseteq Word
  BY DEF Word

(* A set of numbers with zero and every successor has them all. *)
LEMMA Induction ==
    ASSUME NEW S, 0 \in S, \A n \in Nat : n \in S => n + 1 \in S
    PROVE  Nat \subseteq S
  <1> SUFFICES ASSUME Nat \ S # {} PROVE FALSE
    OBVIOUS
  <1> DEFINE R == OpToRel(<, Nat)
  <1>1. \E x \in Nat \ S : \A y \in Nat \ S : <<y, x>> \notin R
    <2>1. IsWellFoundedOn(R, Nat)
      BY NatLessThanWellFounded
    <2> HIDE DEF R
    <2> QED BY <2>1, WFMin
  <1>2. PICK x \in Nat \ S : \A y \in Nat \ S : ~(y < x)
    BY <1>1 DEF OpToRel
  <1>3. x # 0 /\ x - 1 \in Nat
    OBVIOUS
  <1>4. x - 1 \in S
    BY <1>2, <1>3
  <1> QED BY <1>3, <1>4

-----------------------------------------------------------------------------
(* The fold that splits, one element at a time. *)

SplitStep(fields, word) ==
    IF word = "TAB" THEN Append(fields, <<>>)
    ELSE [fields EXCEPT ![Len(fields)] = Append(fields[Len(fields)], word)]

Folded(s, f, T) ==
    IF T = {} THEN << <<>> >> ELSE SplitStep(f[T \ {Max(T)}], s[Max(T)])

(* The function SplitFields is defined with. *)
Folds(s) == CHOOSE f : f = [T \in SUBSET DOMAIN s |-> Folded(s, f, T)]

LEMMA SplitIsFold == \A s : SplitFields(s) = Folds(s)[DOMAIN s]
  BY DEF SplitFields, FoldLeft, MapThenFoldSet, Folds, Folded, SplitStep

(* Some element of a finite set of numbers is its largest. *)
LEMMA MaxOfFinite ==
    ASSUME NEW n \in Nat, NEW T \in SUBSET (1 .. n), T # {}
    PROVE  Max(T) \in T
  <1> DEFINE Good == {k \in Nat : \A U \in SUBSET (1 .. k) :
                         U # {} => \E x \in U : \A y \in U : x >= y}
  <1>1. 0 \in Good
    <2>1. 1 .. 0 = {}
      OBVIOUS
    <2> QED BY <2>1
  <1>2. ASSUME NEW k \in Nat, k \in Good PROVE k + 1 \in Good
    <2> SUFFICES ASSUME NEW U \in SUBSET (1 .. k + 1), U # {}
                 PROVE  \E x \in U : \A y \in U : x >= y
      OBVIOUS
    <2>1. CASE k + 1 \in U
      BY <2>1
    <2>2. CASE k + 1 \notin U
      <3>1. U \in SUBSET (1 .. k)
        BY <2>2
      <3> QED BY <1>2, <3>1
    <2> QED BY <2>1, <2>2
  <1>3. n \in Good
    <2> HIDE DEF Good
    <2> QED BY <1>1, <1>2, Induction
  <1>4. \E x \in T : \A y \in T : x >= y
    BY <1>3
  <1> QED BY <1>4 DEF Max

Small(n, k) == {T \in SUBSET (1 .. n) : Cardinality(T) <= k}

LEMMA FoldDefined ==
    ASSUME NEW s, NEW n \in Nat, DOMAIN s = 1 .. n
    PROVE  \A T \in SUBSET (1 .. n) : Folds(s)[T] = Folded(s, Folds(s), T)
  <1>0. \A T \in SUBSET (1 .. n) :
            IsFiniteSet(T) /\ Cardinality(T) \in Nat /\ Cardinality(T) <= n
    <2>1. IsFiniteSet(1 .. n) /\ Cardinality(1 .. n) = n
      BY FS_Interval
    <2> QED BY <2>1, FS_Subset, FS_CardinalityType
  <1> DEFINE Good == {k \in Nat : \E f : f = [T \in Small(n, k) |-> Folded(s, f, T)]}
  <1>1. 0 \in Good
    <2> DEFINE g == [T \in Small(n, 0) |-> << <<>> >>]
    <2>1. \A T \in Small(n, 0) : T = {}
      BY <1>0, FS_EmptySet DEF Small
    <2>2. g = [T \in Small(n, 0) |-> Folded(s, g, T)]
      BY <2>1 DEF Folded
    <2> QED BY <2>2
  <1>2. ASSUME NEW k \in Nat, k \in Good PROVE k + 1 \in Good
    <2>1. PICK f : f = [T \in Small(n, k) |-> Folded(s, f, T)]
      BY <1>2
    <2>2. \A T \in Small(n, k) : f[T] = Folded(s, f, T)
      BY <2>1
    <2> DEFINE g == [T \in Small(n, k + 1) |-> Folded(s, f, T)]
    <2>3. \A T \in Small(n, k) : g[T] = f[T]
      <3>1. \A T \in Small(n, k) : T \in Small(n, k + 1)
        BY <1>0 DEF Small
      <3> QED BY <2>2, <3>1
    <2>4. \A T \in Small(n, k + 1) : T # {} => T \ {Max(T)} \in Small(n, k)
      <3> SUFFICES ASSUME NEW T \in Small(n, k + 1), T # {}
                   PROVE  T \ {Max(T)} \in Small(n, k)
        OBVIOUS
      <3>1. T \in SUBSET (1 .. n) /\ Cardinality(T) <= k + 1
        BY DEF Small
      <3>2. Max(T) \in T
        BY <3>1, MaxOfFinite
      <3>3. Cardinality(T \ {Max(T)}) = Cardinality(T) - 1
        BY <1>0, <3>1, <3>2, FS_RemoveElement
      <3>4. T \ {Max(T)} \in SUBSET (1 .. n)
        BY <3>1
      <3>5. Cardinality(T) \in Nat /\ Cardinality(T) - 1 <= k
        BY <1>0, <3>1
      <3> QED BY <3>3, <3>4, <3>5 DEF Small
    <2>5. \A T \in Small(n, k + 1) : Folded(s, g, T) = Folded(s, f, T)
      <3> HIDE DEF g
      <3> QED BY <2>3, <2>4 DEF Folded
    <2>6. g = [T \in Small(n, k + 1) |-> Folded(s, g, T)]
      BY <2>5
    <2>7. \E h : h = [T \in Small(n, k + 1) |-> Folded(s, h, T)]
      <3> HIDE DEF g
      <3> QED BY <2>6
    <2> QED BY <2>7
  <1>3. n \in Good
    <2> HIDE DEF Good
    <2> QED BY <1>1, <1>2, Induction
  <1>4. Small(n, n) = SUBSET (1 .. n)
    BY <1>0 DEF Small
  <1>5. \E f : f = [T \in SUBSET DOMAIN s |-> Folded(s, f, T)]
    BY <1>3, <1>4
  <1> DEFINE folds == Folds(s)
  <1>6. folds = [T \in SUBSET DOMAIN s |-> Folded(s, folds, T)]
    BY <1>5 DEF Folds
  <1> HIDE DEF folds
  <1>7. \A T \in SUBSET (1 .. n) : folds[T] = Folded(s, folds, T)
    BY <1>6
  <1> QED BY <1>7 DEF folds

(* The fields of the first k elements. *)
FirstFields(s, k) == Folds(s)[1 .. k]

LEMMA FieldsGrow ==
    ASSUME NEW s, NEW n \in Nat, DOMAIN s = 1 .. n
    PROVE  /\ FirstFields(s, 0) = << <<>> >>
           /\ \A k \in 0 .. n - 1 :
                  FirstFields(s, k + 1) = SplitStep(FirstFields(s, k), s[k + 1])
           /\ SplitFields(s) = FirstFields(s, n)
  <1>1. FirstFields(s, 0) = << <<>> >>
    <2>1. 1 .. 0 = {} /\ 1 .. 0 \in SUBSET (1 .. n)
      OBVIOUS
    <2>2. Folds(s)[1 .. 0] = Folded(s, Folds(s), 1 .. 0)
      BY <2>1, FoldDefined
    <2> QED BY <2>1, <2>2 DEF FirstFields, Folded
  <1>2. ASSUME NEW k \in 0 .. n - 1
        PROVE  FirstFields(s, k + 1) = SplitStep(FirstFields(s, k), s[k + 1])
    <2> DEFINE T == 1 .. k + 1
    <2>0. k + 1 \in T /\ T \subseteq 1 .. n
      OBVIOUS
    <2>1. T \in SUBSET (1 .. n) /\ T # {} /\ k + 1 \in T
      <3> HIDE DEF T
      <3> QED BY <2>0
    <2>2. Folds(s)[T] = Folded(s, Folds(s), T)
      BY <2>1, FoldDefined
    <2>3. Max(T) = k + 1
      <3>1. \A x \in T : (\A y \in T : x >= y) => x = k + 1
        OBVIOUS
      <3>2. \A y \in T : k + 1 >= y
        OBVIOUS
      <3> HIDE DEF T
      <3> QED BY <2>1, <3>1, <3>2 DEF Max
    <2>4. T \ {k + 1} = 1 .. k
      OBVIOUS
    <2>5. Folded(s, Folds(s), T) = SplitStep(Folds(s)[T \ {Max(T)}], s[Max(T)])
      BY <2>1 DEF Folded
    <2> HIDE DEF T
    <2>6. Folds(s)[T] = SplitStep(Folds(s)[1 .. k], s[k + 1])
      BY <2>2, <2>3, <2>4, <2>5, Zenon
    <2> QED BY <2>6 DEF FirstFields, T
  <1>3. SplitFields(s) = FirstFields(s, n)
    BY SplitIsFold DEF FirstFields
  <1> QED BY <1>1, <1>2, <1>3

-----------------------------------------------------------------------------
(* What splitting means: f are fields without a separator, at[j] says how   *)
(* many elements of s come before the j-th, and between two of them there   *)
(* is one separator.                                                        *)
Plain == Symbol \ {"TAB"}

Tabs(s, k) == {i \in 1 .. k : s[i] = "TAB"}

Splits(f, at, s, k) ==
    /\ f \in Seq(Seq(Plain)) /\ Len(f) \in Nat \ {0}
    /\ at \in [1 .. Len(f) -> Nat] /\ at[1] = 0
    /\ \A j \in 1 .. Len(f) - 1 :
           at[j + 1] = at[j] + Len(f[j]) + 1 /\ s[at[j + 1]] = "TAB"
    /\ at[Len(f)] + Len(f[Len(f)]) = k
    /\ \A j \in 1 .. Len(f) :
           /\ at[j] + Len(f[j]) <= k
           /\ \A i \in 1 .. Len(f[j]) : s[at[j] + i] = f[j][i]
    /\ Cardinality(Tabs(s, k)) + 1 = Len(f)

LEMMA TabsGrow ==
    ASSUME NEW s, NEW k \in Nat
    PROVE  /\ Cardinality(Tabs(s, 0)) = 0
           /\ Cardinality(Tabs(s, k)) \in Nat
           /\ Cardinality(Tabs(s, k + 1)) =
                  Cardinality(Tabs(s, k)) + (IF s[k + 1] = "TAB" THEN 1 ELSE 0)
  <1>1. Cardinality(Tabs(s, 0)) = 0
    <2>1. Tabs(s, 0) = {}
      BY DEF Tabs
    <2> QED BY <2>1, FS_EmptySet
  <1>2. IsFiniteSet(Tabs(s, k)) /\ Cardinality(Tabs(s, k)) \in Nat
    <2>1. IsFiniteSet(1 .. k)
      BY FS_Interval
    <2>2. Tabs(s, k) \in SUBSET (1 .. k)
      BY DEF Tabs
    <2> QED BY <2>1, <2>2, FS_Subset, FS_CardinalityType
  <1>3. CASE s[k + 1] = "TAB"
    <2>1. Tabs(s, k + 1) = Tabs(s, k) \cup {k + 1}
      BY <1>3 DEF Tabs
    <2>2. k + 1 \notin Tabs(s, k)
      BY DEF Tabs
    <2> QED BY <1>1, <1>2, <1>3, <2>1, <2>2, FS_AddElement
  <1>4. CASE s[k + 1] # "TAB"
    <2>1. Tabs(s, k + 1) = Tabs(s, k)
      BY <1>4 DEF Tabs
    <2> QED BY <1>1, <1>2, <1>4, <2>1
  <1> QED BY <1>3, <1>4

LEMMA SplitAtTab ==
    ASSUME NEW s, NEW k \in Nat, NEW f, NEW at, Splits(f, at, s, k), s[k + 1] = "TAB"
    PROVE  \E to : Splits(Append(f, <<>>), to, s, k + 1)
  <1> DEFINE g == Append(f, <<>>)
             to == [j \in 1 .. Len(f) + 1 |-> IF j = Len(f) + 1 THEN k + 1 ELSE at[j]]
  <1>0. f \in Seq(Seq(Plain)) /\ Len(f) \in Nat \ {0} /\ at \in [1 .. Len(f) -> Nat]
    BY DEF Splits
  <1>1. <<>> \in Seq(Plain) /\ Len(<<>>) = 0
    BY EmptySeq
  <1>2. /\ g \in Seq(Seq(Plain)) /\ Len(g) = Len(f) + 1
        /\ \A j \in 1 .. Len(f) : g[j] = f[j]
        /\ g[Len(f) + 1] = <<>>
    BY <1>0, <1>1
  <1>3. /\ to \in [1 .. Len(f) + 1 -> Nat] /\ to[1] = 0
        /\ \A j \in 1 .. Len(f) : to[j] = at[j]
        /\ to[Len(f) + 1] = k + 1
    BY <1>0 DEF Splits
  <1>4. \A j \in 1 .. Len(f) + 1 : j = Len(f) + 1 \/ j \in 1 .. Len(f)
    BY <1>0
  <1> HIDE DEF g, to
  <1>5. \A j \in 1 .. Len(f) : to[j + 1] = to[j] + Len(g[j]) + 1 /\ s[to[j + 1]] = "TAB"
    <2> SUFFICES ASSUME NEW j \in 1 .. Len(f)
                 PROVE  to[j + 1] = to[j] + Len(g[j]) + 1 /\ s[to[j + 1]] = "TAB"
      OBVIOUS
    <2>1. CASE j = Len(f)
      BY <1>0, <1>2, <1>3, <2>1 DEF Splits
    <2>2. CASE j # Len(f)
      <3>1. j \in 1 .. Len(f) - 1 /\ j + 1 \in 1 .. Len(f)
        BY <1>0, <2>2
      <3> QED BY <1>2, <1>3, <3>1 DEF Splits
    <2> QED BY <2>1, <2>2
  <1>6. \A j \in 1 .. Len(g) :
            /\ to[j] + Len(g[j]) <= k + 1
            /\ \A i \in 1 .. Len(g[j]) : s[to[j] + i] = g[j][i]
    <2> SUFFICES ASSUME NEW j \in 1 .. Len(g)
                 PROVE  /\ to[j] + Len(g[j]) <= k + 1
                        /\ \A i \in 1 .. Len(g[j]) : s[to[j] + i] = g[j][i]
      OBVIOUS
    <2>1. CASE j = Len(f) + 1
      BY <1>1, <1>2, <1>3, <2>1
    <2>2. CASE j \in 1 .. Len(f)
      <3>1. to[j] = at[j] /\ g[j] = f[j]
        BY <1>2, <1>3, <2>2
      <3>2. at[j] \in Nat /\ Len(f[j]) \in Nat
        <4>1. f[j] \in Seq(Plain)
          BY <1>0, <2>2, ElementOfSeq
        <4> QED BY <1>0, <2>2, <4>1, LenProperties
      <3>3. /\ at[j] + Len(f[j]) <= k
            /\ \A i \in 1 .. Len(f[j]) : s[at[j] + i] = f[j][i]
        BY <2>2 DEF Splits
      <3> QED BY <3>1, <3>2, <3>3
    <2> QED BY <1>2, <1>4, <2>1, <2>2
  <1>7. to[Len(g)] + Len(g[Len(g)]) = k + 1
    BY <1>1, <1>2, <1>3
  <1>8. Cardinality(Tabs(s, k + 1)) + 1 = Len(g)
    BY <1>0, <1>2, TabsGrow DEF Splits
  <1>9. Splits(g, to, s, k + 1)
    <2>1. Len(g) \in Nat \ {0} /\ 1 .. Len(g) - 1 = 1 .. Len(f)
      BY <1>0, <1>2
    <2>2. \A j \in 1 .. Len(g) - 1 :
              to[j + 1] = to[j] + Len(g[j]) + 1 /\ s[to[j + 1]] = "TAB"
      BY <1>5, <2>1
    <2> QED BY <1>2, <1>3, <1>6, <1>7, <1>8, <2>1, <2>2 DEF Splits
  <1> QED BY <1>9 DEF g

LEMMA SplitAtWord ==
    ASSUME NEW s, NEW k \in Nat, NEW f, NEW at, Splits(f, at, s, k), s[k + 1] \in Plain
    PROVE  Splits([f EXCEPT ![Len(f)] = Append(f[Len(f)], s[k + 1])], at, s, k + 1)
  <1> DEFINE l == Len(f)
             h == Append(f[l], s[k + 1])
             g == [f EXCEPT ![l] = h]
  <1>0. f \in Seq(Seq(Plain)) /\ l \in Nat \ {0} /\ at \in [1 .. l -> Nat]
    BY DEF Splits
  <1>1. f[l] \in Seq(Plain) /\ l \in 1 .. l
    BY <1>0
  <1>2. /\ h \in Seq(Plain) /\ Len(h) = Len(f[l]) + 1 /\ Len(f[l]) \in Nat
        /\ \A i \in 1 .. Len(f[l]) : h[i] = f[l][i]
        /\ h[Len(f[l]) + 1] = s[k + 1]
    BY <1>1
  <1>3. /\ g \in Seq(Seq(Plain)) /\ Len(g) = l
        /\ \A j \in 1 .. l : g[j] = IF j = l THEN h ELSE f[j]
    BY <1>0, <1>1, <1>2, ExceptSeq
  <1>4. at[l] + Len(f[l]) = k /\ at[l] \in Nat
    BY <1>0, <1>1 DEF Splits
  <1> HIDE DEF g, h
  <1>5. \A j \in 1 .. l - 1 : at[j + 1] = at[j] + Len(g[j]) + 1 /\ s[at[j + 1]] = "TAB"
    <2> SUFFICES ASSUME NEW j \in 1 .. l - 1
                 PROVE  at[j + 1] = at[j] + Len(g[j]) + 1 /\ s[at[j + 1]] = "TAB"
      OBVIOUS
    <2>1. j \in 1 .. l /\ j # l
      BY <1>0
    <2>2. g[j] = f[j]
      BY <1>3, <2>1
    <2> QED BY <2>2 DEF Splits
  <1>6. \A j \in 1 .. l :
            /\ at[j] + Len(g[j]) <= k + 1
            /\ \A i \in 1 .. Len(g[j]) : s[at[j] + i] = g[j][i]
    <2> SUFFICES ASSUME NEW j \in 1 .. l
                 PROVE  /\ at[j] + Len(g[j]) <= k + 1
                        /\ \A i \in 1 .. Len(g[j]) : s[at[j] + i] = g[j][i]
      OBVIOUS
    <2>1. CASE j = l
      <3>1. g[j] = h
        BY <1>3, <2>1
      <3>2. \A i \in 1 .. Len(h) : i \in 1 .. Len(f[l]) \/ i = Len(f[l]) + 1
        BY <1>2
      <3>3. \A i \in 1 .. Len(f[l]) : s[at[l] + i] = f[l][i]
        BY <1>1 DEF Splits
      <3>4. at[l] + (Len(f[l]) + 1) = k + 1
        BY <1>2, <1>4
      <3>5. \A i \in 1 .. Len(h) : s[at[l] + i] = h[i]
        BY <1>2, <3>2, <3>3, <3>4
      <3> QED BY <1>2, <2>1, <3>1, <3>4, <3>5
    <2>2. CASE j # l
      <3>1. g[j] = f[j]
        BY <1>3, <2>2
      <3>2. at[j] \in Nat /\ Len(f[j]) \in Nat
        BY <1>0
      <3>3. /\ at[j] + Len(f[j]) <= k
            /\ \A i \in 1 .. Len(f[j]) : s[at[j] + i] = f[j][i]
        BY DEF Splits
      <3> QED BY <3>1, <3>2, <3>3
    <2> QED BY <2>1, <2>2
  <1>7. at[l] + Len(g[l]) = k + 1
    BY <1>1, <1>2, <1>3, <1>4
  <1>8. Cardinality(Tabs(s, k + 1)) + 1 = l
    <2>1. s[k + 1] # "TAB"
      BY DEF Plain
    <2>2. Cardinality(Tabs(s, k)) + 1 = l
      BY DEF Splits
    <2>3. /\ Cardinality(Tabs(s, k)) \in Nat
          /\ Cardinality(Tabs(s, k + 1)) = Cardinality(Tabs(s, k)) + 0
      BY <2>1, TabsGrow
    <2> QED BY <2>2, <2>3
  <1>9. at[1] = 0
    BY DEF Splits
  <1>10. Splits(g, at, s, k + 1)
    BY <1>0, <1>3, <1>5, <1>6, <1>7, <1>8, <1>9 DEF Splits
  <1> QED BY <1>10 DEF g, h

(* SplitFields splits. *)
LEMMA FieldsSplit ==
    ASSUME NEW s \in Seq(Symbol)
    PROVE  \E at : Splits(SplitFields(s), at, s, Len(s))
  <1> DEFINE n == Len(s)
             Good == {k \in Nat : k <= n => \E at : Splits(FirstFields(s, k), at, s, k)}
  <1>0. n \in Nat /\ DOMAIN s = 1 .. n
    OBVIOUS
  <1>1. 0 \in Good
    <2> DEFINE f == << <<>> >>
               at == [j \in 1 .. 1 |-> 0]
    <2>1. <<>> \in Seq(Plain) /\ Len(<<>>) = 0
      BY EmptySeq
    <2>2. f \in Seq(Seq(Plain)) /\ Len(f) = 1 /\ f[1] = <<>>
      BY <2>1
    <2>3. at \in [1 .. 1 -> Nat] /\ at[1] = 0
      OBVIOUS
    <2>4. Cardinality(Tabs(s, 0)) + 1 = 1
      BY TabsGrow
    <2>5. FirstFields(s, 0) = f
      BY <1>0, FieldsGrow
    <2> HIDE DEF f, at
    <2>6. \A j \in 1 .. 1 : j = 1
      OBVIOUS
    <2>7. Splits(f, at, s, 0)
      BY <2>1, <2>2, <2>3, <2>4, <2>6 DEF Splits
    <2> QED BY <2>5, <2>7
  <1>2. ASSUME NEW k \in Nat, k \in Good PROVE k + 1 \in Good
    <2> SUFFICES ASSUME k + 1 <= n
                 PROVE  \E at : Splits(FirstFields(s, k + 1), at, s, k + 1)
      OBVIOUS
    <2>1. PICK at : Splits(FirstFields(s, k), at, s, k)
      BY <1>0, <1>2
    <2>2. k \in 0 .. n - 1 /\ k + 1 \in 1 .. n
      BY <1>0
    <2>3. FirstFields(s, k + 1) = SplitStep(FirstFields(s, k), s[k + 1])
      BY <1>0, <2>2, FieldsGrow
    <2>4. s[k + 1] \in Symbol
      BY <1>0, <2>2
    <2>5. CASE s[k + 1] = "TAB"
      <3>1. FirstFields(s, k + 1) = Append(FirstFields(s, k), <<>>)
        BY <2>3, <2>5 DEF SplitStep
      <3> QED BY <2>1, <2>5, <3>1, SplitAtTab
    <2>6. CASE s[k + 1] # "TAB"
      <3> DEFINE f == FirstFields(s, k)
      <3>1. FirstFields(s, k + 1) = [f EXCEPT ![Len(f)] = Append(f[Len(f)], s[k + 1])]
        BY <2>3, <2>6 DEF SplitStep
      <3>2. s[k + 1] \in Plain
        BY <2>4, <2>6 DEF Plain
      <3> HIDE DEF f
      <3>3. Splits([f EXCEPT ![Len(f)] = Append(f[Len(f)], s[k + 1])], at, s, k + 1)
        BY <2>1, <3>2, SplitAtWord DEF f
      <3> QED BY <3>1, <3>3
    <2> QED BY <2>5, <2>6
  <1>3. n \in Good
    <2> HIDE DEF Good
    <2> QED BY <1>0, <1>1, <1>2, Induction
  <1>4. SplitFields(s) = FirstFields(s, n)
    BY <1>0, FieldsGrow
  <1> QED BY <1>0, <1>3, <1>4

-----------------------------------------------------------------------------
(* A field that is not the last is one word exactly when a word and then a  *)
(* separator begin where it begins.                                         *)
LEMMA FieldFacts ==
    ASSUME NEW s, NEW k \in Nat, NEW f, NEW at, Splits(f, at, s, k), NEW j \in 1 .. Len(f)
    PROVE  /\ f[j] \in Seq(Plain) /\ Len(f[j]) \in Nat /\ at[j] \in Nat
           /\ at[j] + Len(f[j]) <= k
           /\ \A i \in 1 .. Len(f[j]) : s[at[j] + i] = f[j][i] /\ f[j][i] \in Plain
           /\ j < Len(f) => /\ at[j + 1] = at[j] + Len(f[j]) + 1
                            /\ s[at[j + 1]] = "TAB" /\ at[j + 1] <= k
  <1>0. f \in Seq(Seq(Plain)) /\ Len(f) \in Nat \ {0} /\ at \in [1 .. Len(f) -> Nat]
    BY DEF Splits
  <1>1. f[j] \in Seq(Plain)
    BY <1>0, ElementOfSeq
  <1>2. Len(f[j]) \in Nat /\ \A i \in 1 .. Len(f[j]) : f[j][i] \in Plain
    BY <1>1, LenProperties, ElementOfSeq
  <1>3. at[j] \in Nat
    BY <1>0
  <1>4. /\ at[j] + Len(f[j]) <= k
        /\ \A i \in 1 .. Len(f[j]) : s[at[j] + i] = f[j][i]
    BY DEF Splits
  <1>5. ASSUME j < Len(f)
        PROVE  /\ at[j + 1] = at[j] + Len(f[j]) + 1
               /\ s[at[j + 1]] = "TAB" /\ at[j + 1] <= k
    <2>1. j \in 1 .. Len(f) - 1 /\ j + 1 \in 1 .. Len(f)
      BY <1>0, <1>5
    <2>2. at[j + 1] = at[j] + Len(f[j]) + 1 /\ s[at[j + 1]] = "TAB"
      BY <2>1 DEF Splits
    <2>3. at[j + 1] + Len(f[j + 1]) <= k /\ at[j + 1] \in Nat
      BY <1>0, <2>1 DEF Splits
    <2>4. Len(f[j + 1]) \in Nat
      <3>1. f[j + 1] \in Seq(Plain)
        BY <1>0, <2>1, ElementOfSeq
      <3> QED BY <3>1, LenProperties
    <2> QED BY <2>2, <2>3, <2>4
  <1> QED BY <1>1, <1>2, <1>3, <1>4, <1>5

LEMMA FieldAlone ==
    ASSUME NEW s, NEW k \in Nat, NEW f, NEW at, Splits(f, at, s, k),
           NEW j \in 1 .. Len(f), j < Len(f), NEW W, "TAB" \notin W
    PROVE  /\ Is(f[j], W) <=> s[at[j] + 1] \in W /\ s[at[j] + 2] = "TAB"
           /\ Is(f[j], W) => /\ f[j] = <<s[at[j] + 1]>>
                             /\ at[j + 1] = at[j] + 2 /\ at[j] + 2 <= k
  <1> DEFINE q == f[j]
             a == at[j]
  <1>1. /\ q \in Seq(Plain) /\ Len(q) \in Nat /\ a \in Nat
        /\ \A i \in 1 .. Len(q) : s[a + i] = q[i] /\ q[i] \in Plain
        /\ at[j + 1] = a + Len(q) + 1
        /\ s[a + Len(q) + 1] = "TAB" /\ at[j + 1] <= k
    <2> HIDE DEF q, a
    <2> QED BY FieldFacts DEF q, a
  <1>2. "TAB" \notin Plain
    BY DEF Plain
  <1> HIDE DEF q, a
  <1>3. ASSUME NEW w \in W, q = <<w>>
        PROVE  /\ s[a + 1] = w /\ s[a + 2] = "TAB"
               /\ at[j + 1] = a + 2 /\ a + 2 <= k
    <2>1. Len(q) = 1 /\ q[1] = w
      BY <1>3
    <2>2. s[a + 1] = w
      BY <1>1, <2>1
    <2>3. a + Len(q) + 1 = a + 2
      BY <1>1, <2>1
    <2> QED BY <1>1, <2>2, <2>3
  <1>4. ASSUME s[a + 1] \in W, s[a + 2] = "TAB"
        PROVE  q = <<s[a + 1]>>
    <2>1. Len(q) # 0
      <3>1. ASSUME Len(q) = 0 PROVE FALSE
        <4>1. a + Len(q) + 1 = a + 1
          BY <1>1, <3>1
        <4> QED BY <1>1, <1>4, <4>1
      <3> QED BY <3>1
    <2>2. ~(Len(q) >= 2)
      <3>1. ASSUME Len(q) >= 2 PROVE FALSE
        <4>1. 2 \in 1 .. Len(q)
          BY <1>1, <3>1
        <4> QED BY <1>1, <1>2, <1>4, <4>1
      <3> QED BY <3>1
    <2>3. Len(q) = 1
      <3> DEFINE m == Len(q)
      <3>1. m \in Nat /\ m # 0 /\ ~(m >= 2)
        BY <1>1, <2>1, <2>2
      <3> HIDE DEF m
      <3>2. m = 1
        BY <3>1
      <3> QED BY <3>2 DEF m
    <2>4. q[1] = s[a + 1]
      BY <1>1, <2>3
    <2> QED BY <1>1, <2>3, <2>4
  <1>5. Is(q, W) <=> \E w \in W : q = <<w>>
    BY DEF Is
  <1>6. Is(q, W) <=> s[a + 1] \in W /\ s[a + 2] = "TAB"
    BY <1>3, <1>4, <1>5
  <1>7. ASSUME Is(q, W)
        PROVE  q = <<s[a + 1]>> /\ at[j + 1] = a + 2 /\ a + 2 <= k
    BY <1>3, <1>5, <1>7
  <1> QED BY <1>6, <1>7 DEF q, a

-----------------------------------------------------------------------------
(* The two descriptions of a record, side by side. *)

Typed == record \in Seq(Symbol)

LEMMA BodyFacts ==
    ASSUME Typed, record # <<>>
    PROVE  /\ Len(record) \in Nat \ {0} /\ DOMAIN record = 1 .. Len(record)
           /\ Front(record) \in Seq(Symbol)
           /\ Len(Front(record)) = Len(record) - 1
           /\ \A i \in 1 .. Len(record) - 1 : Front(record)[i] = record[i]
  <1>1. record \in Seq(Symbol) /\ Len(record) \in Nat \ {0} /\ DOMAIN record = 1 .. Len(record)
    BY EmptySeq, LenProperties DEF Typed
  <1>2. \A i \in 1 .. Len(record) - 1 : record[i] \in Symbol
    BY <1>1
  <1>3. /\ Front(record) \in Seq(Symbol)
        /\ Len(Front(record)) = IF 1 <= Len(record) - 1 THEN Len(record) - 1 - 1 + 1 ELSE 0
        /\ \A i \in 1 .. Len(record) - 1 - 1 + 1 : Front(record)[i] = record[1 + i - 1]
    BY <1>1, <1>2, SubSeqProperties DEF Front
  <1> DEFINE l == Len(record)
  <1>4. l \in Nat \ {0}
    BY <1>1
  <1>5. Len(Front(record)) = IF 1 <= l - 1 THEN l - 1 - 1 + 1 ELSE 0
    BY <1>3
  <1>6. \A i \in 1 .. l - 1 - 1 + 1 : Front(record)[i] = record[1 + i - 1]
    BY <1>3
  <1> HIDE DEF l
  <1>7. Len(Front(record)) = l - 1
    BY <1>4, <1>5
  <1>8. \A i \in 1 .. l - 1 : i \in 1 .. l - 1 - 1 + 1 /\ 1 + i - 1 = i
    BY <1>4
  <1>9. \A i \in 1 .. l - 1 : Front(record)[i] = record[i]
    BY <1>6, <1>8
  <1> QED BY <1>1, <1>3, <1>7, <1>9 DEF l

LEMMA OccurrenceFacts ==
    ASSUME Typed, NEW word
    PROVE  /\ Occurrences(word) = 0 <=> \A i \in DOMAIN record : record[i] # word
           /\ \A l \in DOMAIN record : record[l] = word =>
                  (Occurrences(word) = 1 <=>
                       \A i \in DOMAIN record : record[i] = word => i = l)
  <1> DEFINE O == {i \in DOMAIN record : record[i] = word}
  <1>1. IsFiniteSet(O)
    <2>1. DOMAIN record = 1 .. Len(record) /\ Len(record) \in Nat
      BY LenProperties DEF Typed
    <2>2. IsFiniteSet(1 .. Len(record))
      BY <2>1, FS_Interval
    <2> QED BY <2>1, <2>2, FS_Subset
  <1>2. Occurrences(word) = Cardinality(O)
    BY DEF Occurrences
  <1>3. Occurrences(word) = 0 <=> O = {}
    <2> HIDE DEF O
    <2> QED BY <1>1, <1>2, FS_EmptySet
  <1>4. Occurrences(word) = 1 <=> \E x : O = {x}
    <2> HIDE DEF O
    <2> QED BY <1>1, <1>2, FS_Singleton
  <1>5. O = {} <=> \A i \in DOMAIN record : record[i] # word
    OBVIOUS
  <1>6. ASSUME NEW l \in DOMAIN record, record[l] = word
        PROVE  (\E x : O = {x}) <=> \A i \in DOMAIN record : record[i] = word => i = l
    <2>1. l \in O
      BY <1>6
    <2>2. ASSUME NEW x, O = {x}, NEW i \in DOMAIN record, record[i] = word
          PROVE  i = l
      <3>1. i \in O
        BY <2>2
      <3> QED BY <2>1, <2>2, <3>1
    <2>3. ASSUME \A i \in DOMAIN record : record[i] = word => i = l
          PROVE  O = {l}
      BY <2>1, <2>3
    <2> QED BY <2>2, <2>3
  <1> QED BY <1>3, <1>4, <1>5, <1>6

(* The first requirement has the frame in it. *)
LEMMA FirstIsFramed ==
    ASSUME Typed, InOrder(1)
    PROVE  Framed(record)
  <1> DEFINE l == Len(record)
  <1>1. /\ Begins(1) /\ Occurrences("CR") = 0
        /\ Occurrences("LF") = 1 /\ record[l] = "LF"
    BY DEF InOrder
  <1>2. l \in Nat /\ DOMAIN record = 1 .. l
    BY LenProperties DEF Typed
  <1>3. 2 <= l
    <2>1. 1 \in 1 .. 1 /\ 2 * 1 = 2
      OBVIOUS
    <2> QED BY <1>1, <2>1 DEF Begins
  <1>4. record # <<>>
    BY <1>2, <1>3, EmptySeq
  <1>5. l \in DOMAIN record
    BY <1>2, <1>3
  <1>6. \A i \in DOMAIN record : record[i] # "CR"
    BY <1>1, OccurrenceFacts
  <1>7. \A i \in DOMAIN record : record[i] = "LF" => i = l
    BY <1>1, <1>5, OccurrenceFacts
  <1>8. \A i \in 1 .. l - 1 : i \in DOMAIN record /\ i # l
    <2>1. l \in Nat
      BY <1>2
    <2> HIDE DEF l
    <2>2. \A i \in 1 .. l - 1 : i \in 1 .. l /\ i # l
      BY <2>1
    <2> QED BY <1>2, <2>2
  <1> QED BY <1>1, <1>4, <1>6, <1>7, <1>8 DEF Framed, Last

LEMMA FirstWhenFramed ==
    ASSUME Typed, Framed(record)
    PROVE  InOrder(1) <=>
               Begins(1) /\ Cardinality(Tabs(Front(record), Len(record) - 1)) = 4
  <1> DEFINE l == Len(record)
  <1>0. record # <<>> /\ record[l] = "LF"
        /\ \A i \in 1 .. l - 1 : record[i] # "LF" /\ record[i] # "CR"
    BY DEF Framed, Last
  <1>1. l \in Nat \ {0} /\ DOMAIN record = 1 .. l
    BY <1>0, BodyFacts
  <1>2. \A i \in DOMAIN record : i = l \/ i \in 1 .. l - 1
    BY <1>1
  <1>3. l \in DOMAIN record
    BY <1>1
  <1>4. Occurrences("CR") = 0
    BY <1>0, <1>2, OccurrenceFacts
  <1>5. Occurrences("LF") = 1
    BY <1>0, <1>2, <1>3, OccurrenceFacts
  <1>6. {i \in DOMAIN record : record[i] = "TAB"} = Tabs(Front(record), l - 1)
    <2>1. \A i \in 1 .. l - 1 : Front(record)[i] = record[i] /\ i \in DOMAIN record
      BY <1>0, <1>1, BodyFacts
    <2> QED BY <1>0, <1>2, <2>1 DEF Tabs
  <1>7. Occurrences("TAB") = Cardinality(Tabs(Front(record), l - 1))
    BY <1>6 DEF Occurrences
  <1> QED BY <1>0, <1>4, <1>5, <1>7 DEF InOrder

-----------------------------------------------------------------------------
fields == SplitFields(Front(record))

LEMMA PartFacts ==
    /\ Part[1] = {"KIKO-EXPERIMENT"} /\ Part[2] = {"1"}
    /\ Part[3] = ExternalExperimentKind /\ Part[4] = ExternalExperimentalOutcome
    /\ \A j \in 1 .. 4 : "TAB" \notin Part[j]
  <1>1. \A j \in 1 .. 4 : j = 1 \/ j = 2 \/ j = 3 \/ j = 4
    OBVIOUS
  <1>2. /\ Part[1] = {"KIKO-EXPERIMENT"} /\ Part[2] = {"1"}
        /\ Part[3] = ExternalExperimentKind /\ Part[4] = ExternalExperimentalOutcome
    BY DEF Part
  <1>3. /\ "TAB" \notin {"KIKO-EXPERIMENT"} /\ "TAB" \notin {"1"}
        /\ "TAB" \notin ExternalExperimentKind /\ "TAB" \notin ExternalExperimentalOutcome
    BY DEF ExternalExperimentKind, ExternalExperimentalOutcome
  <1> QED BY <1>1, <1>2, <1>3

(* A record begins as it must exactly when its first fields are what they   *)
(* must be, and then it is known where the next field begins.               *)
Begun(at, n) ==
    /\ Begins(n) <=> \A i \in 1 .. n : Is(fields[i], Part[i])
    /\ Begins(n) => /\ at[n + 1] = 2 * n
                    /\ \A i \in 1 .. n : fields[i] = <<record[2 * i - 1]>>

LEMMA BegunNext ==
    ASSUME Typed, Framed(record), NEW at,
           Splits(fields, at, Front(record), Len(record) - 1), Len(fields) = 5,
           NEW n \in 0 .. 3, Begun(at, n)
    PROVE  Begun(at, n + 1)
  <1> DEFINE m == n + 1
             l == Len(record)
             W == Part[m]
             C == /\ 2 * m <= l
                  /\ record[2 * m - 1] \in W
                  /\ record[2 * m] = "TAB"
  <1>0. m \in 1 .. 4 /\ m \in 1 .. Len(fields) /\ m < Len(fields) /\ n \in Nat /\ m \in Nat
    OBVIOUS
  <1>1. record # <<>> /\ record[l] = "LF" /\ l \in Nat \ {0} /\ l - 1 \in Nat
    <2>1. record # <<>> /\ record[l] = "LF"
      BY DEF Framed, Last
    <2> QED BY <2>1, BodyFacts
  <1>2. "TAB" \notin W
    BY <1>0, PartFacts
  <1>3. Begins(m) <=> Begins(n) /\ C
    <2>1. \A i \in 1 .. m : i \in 1 .. n \/ i = m
      BY <1>0
    <2>2. \A i \in 1 .. n : i \in 1 .. m
      BY <1>0
    <2>3. m \in 1 .. m
      BY <1>0
    <2> HIDE DEF m, l
    <2> QED BY <2>1, <2>2, <2>3 DEF Begins, l
  <1>4. \A i \in 1 .. l - 1 : Front(record)[i] = record[i]
    BY <1>1, BodyFacts
  <1>5. ASSUME Begins(n)
        PROVE  /\ Is(fields[m], W) <=> C
               /\ C => at[m + 1] = 2 * m /\ fields[m] = <<record[2 * m - 1]>>
    <2>1. at[m] = 2 * m - 2
      <3>1. at[m] = 2 * n
        BY <1>5 DEF Begun
      <3>2. 2 * n = 2 * m - 2
        BY <1>0
      <3> QED BY <3>1, <3>2
    <2>2. at[m] + 1 = 2 * m - 1 /\ at[m] + 2 = 2 * m
      BY <1>0, <2>1
    <2>3. /\ Is(fields[m], W) <=>
                 Front(record)[at[m] + 1] \in W /\ Front(record)[at[m] + 2] = "TAB"
          /\ Is(fields[m], W) => /\ fields[m] = <<Front(record)[at[m] + 1]>>
                                 /\ at[m + 1] = at[m] + 2 /\ at[m] + 2 <= l - 1
      <3> HIDE DEF m, W, l
      <3> QED BY <1>0, <1>1, <1>2, FieldAlone DEF l
    <2>4. ASSUME 2 * m <= l - 1
          PROVE  Front(record)[2 * m - 1] = record[2 * m - 1] /\ Front(record)[2 * m] = record[2 * m]
      <3>1. 2 * m - 1 \in 1 .. l - 1 /\ 2 * m \in 1 .. l - 1
        BY <1>0, <1>1, <2>4
      <3> QED BY <1>4, <3>1
    <2>5. C => 2 * m <= l - 1
      <3>1. record[2 * m] = "TAB" => 2 * m # l
        BY <1>1
      <3>2. 2 * m <= l /\ 2 * m # l => 2 * m <= l - 1
        BY <1>0, <1>1
      <3> HIDE DEF m, l
      <3> QED BY <3>1, <3>2
    <2>6. 2 * m <= l - 1 => 2 * m <= l
      BY <1>0, <1>1
    <2> HIDE DEF m, l, W
    <2>7. Is(fields[m], W) => C
      BY <2>2, <2>3, <2>4, <2>6
    <2>8. C => Is(fields[m], W)
      BY <2>2, <2>3, <2>4, <2>5
    <2>9. C => at[m + 1] = 2 * m /\ fields[m] = <<record[2 * m - 1]>>
      BY <2>2, <2>3, <2>4, <2>5, <2>8
    <2> QED BY <2>7, <2>8, <2>9
  <1>6. \A i \in 1 .. m : i \in 1 .. n \/ i = m
    BY <1>0
  <1>7. (\A i \in 1 .. n : i \in 1 .. m) /\ m \in 1 .. m
    BY <1>0
  <1>8. /\ Begins(n) <=> \A i \in 1 .. n : Is(fields[i], Part[i])
        /\ Begins(n) => \A i \in 1 .. n : fields[i] = <<record[2 * i - 1]>>
    BY DEF Begun
  <1> HIDE DEF C, m, l
  <1>9. Begins(m) <=> \A i \in 1 .. m : Is(fields[i], Part[i])
    BY <1>3, <1>5, <1>6, <1>7, <1>8
  <1>10. Begins(m) => at[m + 1] = 2 * m /\ \A i \in 1 .. m : fields[i] = <<record[2 * i - 1]>>
    BY <1>3, <1>5, <1>6, <1>8
  <1> QED BY <1>9, <1>10 DEF Begun, m

LEMMA AllBegun ==
    ASSUME Typed, Framed(record), NEW at,
           Splits(fields, at, Front(record), Len(record) - 1), Len(fields) = 5
    PROVE  Begun(at, 1) /\ Begun(at, 2) /\ Begun(at, 3) /\ Begun(at, 4)
  <1>0. Begun(at, 0)
    <2>1. at[1] = 0
      BY DEF Splits
    <2>2. 1 .. 0 = {} /\ 0 + 1 = 1 /\ 2 * 0 = 0
      OBVIOUS
    <2> QED BY <2>1, <2>2 DEF Begun, Begins
  <1>1. Begun(at, 1)
    <2>1. Begun(at, 0 + 1)
      BY <1>0, BegunNext
    <2> QED BY <2>1
  <1>2. Begun(at, 2)
    <2>1. Begun(at, 1 + 1)
      BY <1>1, BegunNext
    <2> QED BY <2>1
  <1>3. Begun(at, 3)
    <2>1. Begun(at, 2 + 1)
      BY <1>2, BegunNext
    <2> QED BY <2>1
  <1>4. Begun(at, 4)
    <2>1. Begun(at, 3 + 1)
      BY <1>3, BegunNext
    <2> QED BY <2>1
  <1> QED BY <1>1, <1>2, <1>3, <1>4

LEMMA FieldText ==
    ASSUME NEW s, NEW k \in Nat, NEW f, NEW at, Splits(f, at, s, k), NEW j \in 1 .. Len(f)
    PROVE  /\ f[j] \in Seq(Plain) /\ Len(f[j]) \in Nat
           /\ \A i \in 1 .. Len(f[j]) : s[at[j] + i] = f[j][i]
  BY FieldFacts

(* What is left for the last field. *)
Rest == SubSeq(record, 9, Len(record) - 1)

LEMMA LastField ==
    ASSUME Typed, Framed(record), NEW at,
           Splits(fields, at, Front(record), Len(record) - 1), Len(fields) = 5, Begins(4)
    PROVE  /\ fields[5] = Rest
           /\ Rest \in Seq(Symbol) /\ Len(record) = 8 + Len(Rest) + 1
           /\ \A i \in 1 .. Len(Rest) : Rest[i] = record[8 + i]
  <1> DEFINE l == Len(record)
             q == fields[5]
             c == Len(q)
  <1>0. record # <<>> /\ l \in Nat \ {0} /\ l - 1 \in Nat
    <2>1. record # <<>>
      BY DEF Framed
    <2> QED BY <2>1, BodyFacts
  <1>1. at[5] = 8
    <2>1. at[4 + 1] = 2 * 4
      BY AllBegun DEF Begun
    <2> QED BY <2>1
  <1>2. /\ q \in Seq(Plain) /\ c \in Nat
        /\ \A i \in 1 .. c : Front(record)[at[5] + i] = q[i]
    <2> DEFINE f == fields
               s == Front(record)
               k == Len(record) - 1
    <2>1. 5 \in 1 .. Len(f) /\ k \in Nat /\ Splits(f, at, s, k)
      BY <1>0
    <2>2. f[5] \in Seq(Plain) /\ Len(f[5]) \in Nat
          /\ \A i \in 1 .. Len(f[5]) : s[at[5] + i] = f[5][i]
      <3> HIDE DEF f, s, k
      <3> QED BY <2>1, FieldText
    <2> QED BY <2>2
  <1>3. 8 + c = l - 1
    <2>1. at[Len(fields)] + Len(fields[Len(fields)]) = l - 1
      BY DEF Splits
    <2> QED BY <1>1, <2>1
  <1>4. q \in Seq(Symbol)
    BY <1>2, SeqMonotonic DEF Plain
  <1>5. record \in Seq(Symbol) /\ DOMAIN record = 1 .. l
        /\ \A i \in 1 .. l - 1 : Front(record)[i] = record[i]
    BY <1>0, BodyFacts DEF Typed
  <1> HIDE DEF q, c, l
  <1>6. \A i \in 9 .. l - 1 : record[i] \in Symbol
    <2>1. \A i \in 9 .. l - 1 : i \in 1 .. l
      BY <1>0
    <2> QED BY <1>5, <2>1 DEF l
  <1>7. /\ Rest \in Seq(Symbol)
        /\ Len(Rest) = IF 9 <= l - 1 THEN (l - 1) - 9 + 1 ELSE 0
        /\ \A i \in 1 .. (l - 1) - 9 + 1 : Rest[i] = record[9 + i - 1]
    <2>1. 9 \in Int /\ l - 1 \in Int
      BY <1>0
    <2>2. Rest = SubSeq(record, 9, l - 1)
      BY DEF Rest, l
    <2> QED BY <1>6, <2>1, <2>2, SubSeqProperties
  <1>8. Len(Rest) = c
    <2>1. l - 1 = 8 + c /\ c \in Nat /\ l \in Nat
      BY <1>0, <1>2, <1>3
    <2> QED BY <1>7, <2>1
  <1>9. \A i \in 1 .. c : Rest[i] = record[8 + i]
    <2>1. \A i \in 1 .. c : i \in 1 .. (l - 1) - 9 + 1 /\ 9 + i - 1 = 8 + i
      BY <1>0, <1>2, <1>3
    <2> QED BY <1>7, <2>1
  <1>10. \A i \in 1 .. c : q[i] = record[8 + i]
    <2>1. \A i \in 1 .. c : 8 + i \in 1 .. l - 1
      BY <1>0, <1>2, <1>3
    <2> QED BY <1>1, <1>2, <1>5, <2>1
  <1>11. q = Rest
    BY <1>4, <1>7, <1>8, <1>9, <1>10, SeqEqual DEF c
  <1>12. l = 8 + c + 1
    BY <1>0, <1>2, <1>3
  <1> QED BY <1>7, <1>8, <1>9, <1>11, <1>12 DEF q, l

(* A record that is in order is the encoding of what it says. *)
LEMMA RoundTrip ==
    ASSUME Typed, Framed(record), NEW at,
           Splits(fields, at, Front(record), Len(record) - 1), Len(fields) = 5, Begins(4)
    PROVE  record = Text(record[5], record[7], Rest)
  <1> DEFINE l == Len(record)
             head == <<"KIKO-EXPERIMENT", "TAB", "1", "TAB", record[5], "TAB", record[7], "TAB">>
             text == head \o Rest \o <<"LF">>
  <1>0. record # <<>> /\ record[l] = "LF"
    BY DEF Framed, Last
  <1>1. /\ record \in Seq(Symbol) /\ l \in Nat \ {0} /\ DOMAIN record = 1 .. l
        /\ \A i \in 1 .. l : record[i] \in Symbol
    BY <1>0, BodyFacts DEF Typed
  <1>2. /\ Rest \in Seq(Symbol) /\ l = 8 + Len(Rest) + 1
        /\ \A i \in 1 .. Len(Rest) : Rest[i] = record[8 + i]
    BY LastField
  <1>3. Len(Rest) \in Nat
    BY <1>2, LenProperties
  <1>4. /\ record[1] = "KIKO-EXPERIMENT" /\ record[2] = "TAB"
        /\ record[3] = "1" /\ record[4] = "TAB"
        /\ record[5] \in ExternalExperimentKind /\ record[6] = "TAB"
        /\ record[7] \in ExternalExperimentalOutcome /\ record[8] = "TAB"
    <2>1. \A i \in 1 .. 4 : record[2 * i - 1] \in Part[i] /\ record[2 * i] = "TAB"
      BY DEF Begins
    <2>2. record[1] \in Part[1] /\ record[2] = "TAB"
      BY <2>1
    <2>3. record[3] \in Part[2] /\ record[4] = "TAB"
      BY <2>1
    <2>4. record[5] \in Part[3] /\ record[6] = "TAB"
      BY <2>1
    <2>5. record[7] \in Part[4] /\ record[8] = "TAB"
      BY <2>1
    <2> QED BY <2>2, <2>3, <2>4, <2>5, PartFacts
  <1>5. {"KIKO-EXPERIMENT", "TAB", "1", "LF", record[5], record[7]} \subseteq Symbol
    BY <1>4, Words DEF Symbol, Control
  <1>6. head \in Seq(Symbol) /\ Len(head) = 8
    BY <1>5
  <1>7. \A i \in 1 .. 8 : head[i] = record[i]
    <2>1. \A i \in 1 .. 8 : i = 1 \/ i = 2 \/ i = 3 \/ i = 4 \/ i = 5 \/ i = 6 \/ i = 7 \/ i = 8
      OBVIOUS
    <2>2. /\ head[1] = record[1] /\ head[2] = record[2]
          /\ head[3] = record[3] /\ head[4] = record[4]
          /\ head[5] = record[5] /\ head[6] = record[6]
          /\ head[7] = record[7] /\ head[8] = record[8]
      BY <1>4
    <2> HIDE DEF head
    <2> QED BY <2>1, <2>2
  <1>8. <<"LF">> \in Seq(Symbol) /\ Len(<<"LF">>) = 1 /\ <<"LF">>[1] = "LF"
    BY <1>5
  <1> HIDE DEF head, l
  <1>9. /\ head \o Rest \in Seq(Symbol) /\ Len(head \o Rest) = 8 + Len(Rest)
        /\ \A i \in 1 .. 8 + Len(Rest) :
               (head \o Rest)[i] = IF i <= 8 THEN head[i] ELSE Rest[i - 8]
    <2>1. /\ head \o Rest \in Seq(Symbol) /\ Len(head \o Rest) = Len(head) + Len(Rest)
          /\ \A i \in 1 .. Len(head) + Len(Rest) :
                 (head \o Rest)[i] = IF i <= Len(head) THEN head[i] ELSE Rest[i - Len(head)]
      BY <1>2, <1>6, ConcatProperties
    <2> QED BY <1>6, <2>1
  <1>10. /\ text \in Seq(Symbol) /\ Len(text) = 8 + Len(Rest) + 1
         /\ \A i \in 1 .. 8 + Len(Rest) + 1 :
                text[i] = IF i <= 8 + Len(Rest) THEN (head \o Rest)[i]
                          ELSE <<"LF">>[i - (8 + Len(Rest))]
    BY <1>8, <1>9, ConcatProperties
  <1>11. \A i \in 1 .. 8 + Len(Rest) : (head \o Rest)[i] = record[i]
    <2> SUFFICES ASSUME NEW i \in 1 .. 8 + Len(Rest)
                 PROVE  (head \o Rest)[i] = record[i]
      OBVIOUS
    <2>1. CASE i <= 8
      <3>1. i \in 1 .. 8
        BY <1>3, <2>1
      <3> QED BY <1>7, <1>9, <2>1, <3>1
    <2>2. CASE ~(i <= 8)
      <3>1. i - 8 \in 1 .. Len(Rest) /\ 8 + (i - 8) = i
        BY <1>3, <2>2
      <3> QED BY <1>2, <1>9, <2>2, <3>1
    <2> QED BY <2>1, <2>2
  <1>12. \A i \in 1 .. 8 + Len(Rest) + 1 : text[i] = record[i]
    <2> SUFFICES ASSUME NEW i \in 1 .. 8 + Len(Rest) + 1
                 PROVE  text[i] = record[i]
      OBVIOUS
    <2>1. CASE i <= 8 + Len(Rest)
      <3>1. i \in 1 .. 8 + Len(Rest)
        BY <1>3, <2>1
      <3> QED BY <1>10, <1>11, <2>1, <3>1
    <2>2. CASE ~(i <= 8 + Len(Rest))
      <3>1. i = l /\ i - (8 + Len(Rest)) = 1
        BY <1>2, <1>3, <2>2
      <3> QED BY <1>0, <1>8, <1>10, <2>2, <3>1 DEF l
    <2> QED BY <2>1, <2>2
  <1>13. record = text
    <2> HIDE DEF text
    <2> QED BY <1>1, <1>2, <1>10, <1>12, SeqEqual DEF l
  <1> QED BY <1>13 DEF Text, head

-----------------------------------------------------------------------------
(* The first requirement that fails is the one the grammar names. *)
FirstWrong == CHOOSE n \in 1 .. 7 : ~InOrder(n) /\ \A k \in 1 .. n - 1 : InOrder(k)

LEMMA FirstIs ==
    ASSUME NEW n \in 1 .. 7, ~InOrder(n), \A k \in 1 .. n - 1 : InOrder(k)
    PROVE  FirstWrong = n
  <1>1. \A m \in 1 .. 7 :
            ~InOrder(m) /\ (\A k \in 1 .. m - 1 : InOrder(k)) => m = n
    <2> SUFFICES ASSUME NEW m \in 1 .. 7, ~InOrder(m), \A k \in 1 .. m - 1 : InOrder(k)
                 PROVE  m = n
      OBVIOUS
    <2>1. ~(m < n)
      BY m \in 1 .. n - 1 \/ ~(m < n)
    <2>2. ~(n < m)
      BY n \in 1 .. m - 1 \/ ~(n < m)
    <2> QED BY <2>1, <2>2
  <1> QED BY <1>1 DEF FirstWrong

(* The adapter's conditions, numbered as FrozenOrder is. *)
Condition(n) ==
    CASE n = 1 -> Framed(record) /\ Len(fields) = 5 /\ Is(fields[1], {"KIKO-EXPERIMENT"})
      [] n = 2 -> Is(fields[2], {"1"})
      [] n = 3 -> Is(fields[3], ExternalExperimentKind)
      [] n = 4 -> Is(fields[4], ExternalExperimentalOutcome)
      [] n = 5 -> ValidCorrelation(fields[5])
      [] n = 6 -> expectedKind \in ExternalExperimentKind /\ fields[3] = <<expectedKind>>
      [] n = 7 -> FALSE

(* What the adapter says is the first of its own conditions that fails. *)
LEMMA Verdict ==
    ASSUME NEW n \in 1 .. 7, ~Condition(n), \A k \in 1 .. n - 1 : Condition(k)
    PROVE  /\ Validate(record, expectedKind).error = FrozenOrder[n]
           /\ n = 7 => Validate(record, expectedKind)
                           = Observation(fields[3][1], fields[4][1], fields[5])
  <1> DEFINE v == Validate(record, expectedKind)
             G(k) == k < n => Condition(k)
  <1>1. v = IF ~Framed(record) THEN Refused("malformed_record")
            ELSE IF Len(fields) # 5 THEN Refused("malformed_record")
            ELSE IF ~Is(fields[1], {"KIKO-EXPERIMENT"}) THEN Refused("malformed_record")
            ELSE IF ~Is(fields[2], {"1"}) THEN Refused("unsupported_schema")
            ELSE IF ~Is(fields[3], ExternalExperimentKind) THEN Refused("unsupported_experiment")
            ELSE IF ~Is(fields[4], ExternalExperimentalOutcome) THEN Refused("invalid_outcome")
            ELSE IF ~ValidCorrelation(fields[5]) THEN Refused("invalid_correlation")
            ELSE IF expectedKind \notin ExternalExperimentKind \/ fields[3] # <<expectedKind>>
                 THEN Refused("context_mismatch")
            ELSE Observation(fields[3][1], fields[4][1], fields[5])
    BY DEF Validate, fields
  <1>2. /\ Condition(1) <=> Framed(record) /\ Len(fields) = 5 /\ Is(fields[1], {"KIKO-EXPERIMENT"})
        /\ Condition(2) <=> Is(fields[2], {"1"})
        /\ Condition(3) <=> Is(fields[3], ExternalExperimentKind)
        /\ Condition(4) <=> Is(fields[4], ExternalExperimentalOutcome)
        /\ Condition(5) <=> ValidCorrelation(fields[5])
        /\ Condition(6) <=> expectedKind \in ExternalExperimentKind /\ fields[3] = <<expectedKind>>
    BY DEF Condition
  <1>3. v = IF ~Condition(1) THEN Refused("malformed_record")
            ELSE IF ~Condition(2) THEN Refused("unsupported_schema")
            ELSE IF ~Condition(3) THEN Refused("unsupported_experiment")
            ELSE IF ~Condition(4) THEN Refused("invalid_outcome")
            ELSE IF ~Condition(5) THEN Refused("invalid_correlation")
            ELSE IF ~Condition(6) THEN Refused("context_mismatch")
            ELSE Observation(fields[3][1], fields[4][1], fields[5])
    <2> HIDE DEF v
    <2> QED BY <1>1, <1>2, Zenon
  <1>4. /\ \A e : Refused(e).error = e
        /\ Observation(fields[3][1], fields[4][1], fields[5]).error = "none"
    BY DEF Refused, Observation
  <1>5. /\ FrozenOrder[1] = "malformed_record" /\ FrozenOrder[2] = "unsupported_schema"
        /\ FrozenOrder[3] = "unsupported_experiment" /\ FrozenOrder[4] = "invalid_outcome"
        /\ FrozenOrder[5] = "invalid_correlation" /\ FrozenOrder[6] = "context_mismatch"
        /\ FrozenOrder[7] = "none"
    BY DEF FrozenOrder
  <1>6. G(1) /\ G(2) /\ G(3) /\ G(4) /\ G(5) /\ G(6)
    <2>1. \A k \in 1 .. 6 : k < n => k \in 1 .. n - 1
      OBVIOUS
    <2> QED BY <2>1
  <1>7. n = 1 \/ n = 2 \/ n = 3 \/ n = 4 \/ n = 5 \/ n = 6 \/ n = 7
    OBVIOUS
  <1> HIDE DEF v
  <1> QED BY <1>3, <1>4, <1>5, <1>6, <1>7 DEF v

LEMMA FirstGoodFails == \E n \in 1 .. 7 : ~Condition(n) /\ \A k \in 1 .. n - 1 : Condition(k)
  <1> DEFINE A(n) == \A k \in 1 .. n - 1 : Condition(k)
  <1>1. ~Condition(7)
    BY DEF Condition
  <1>2. \E n \in 1 .. 7 : ~Condition(n) /\ A(n)
    <2>1. A(1) /\ (A(1) /\ Condition(1) => A(2)) /\ (A(2) /\ Condition(2) => A(3))
          /\ (A(3) /\ Condition(3) => A(4)) /\ (A(4) /\ Condition(4) => A(5))
          /\ (A(5) /\ Condition(5) => A(6)) /\ (A(6) /\ Condition(6) => A(7))
      OBVIOUS
    <2>2. 1 \in 1 .. 7 /\ 2 \in 1 .. 7 /\ 3 \in 1 .. 7 /\ 4 \in 1 .. 7
          /\ 5 \in 1 .. 7 /\ 6 \in 1 .. 7 /\ 7 \in 1 .. 7
      OBVIOUS
    <2> HIDE DEF A
    <2> QED BY <1>1, <2>1, <2>2
  <1> QED BY <1>2

(* The adapter's conditions are the grammar's, each while those before it   *)
(* hold.                                                                    *)
LEMMA SameUpTo ==
    ASSUME \A n \in 1 .. 7 : (\A k \in 1 .. n - 1 : Condition(k)) => (Condition(n) <=> InOrder(n))
    PROVE  Validate(record, expectedKind).error = FrozenOrder[FirstWrong]
  <1> DEFINE A(n) == \A k \in 1 .. n - 1 : Condition(k)
  <1>2. \E n \in 1 .. 7 : ~Condition(n) /\ A(n)
    BY FirstGoodFails
  <1>3. PICK n \in 1 .. 7 : ~Condition(n) /\ A(n)
    BY <1>2
  <1>4. ~InOrder(n)
    BY <1>3
  <1>5. \A k \in 1 .. n - 1 : InOrder(k)
    <2> SUFFICES ASSUME NEW k \in 1 .. n - 1 PROVE InOrder(k)
      OBVIOUS
    <2>1. k \in 1 .. 7 /\ \A j \in 1 .. k - 1 : j \in 1 .. n - 1
      OBVIOUS
    <2> QED BY <1>3, <2>1
  <1>6. FirstWrong = n
    BY <1>4, <1>5, FirstIs
  <1>7. Validate(record, expectedKind).error = FrozenOrder[n]
    BY <1>3, Verdict
  <1> QED BY <1>6, <1>7

-----------------------------------------------------------------------------
(* A framed record splits, and has five fields when it has four TABs. *)
LEMMA FramedFields ==
    ASSUME Typed, Framed(record)
    PROVE  /\ \E at : Splits(fields, at, Front(record), Len(record) - 1)
           /\ InOrder(1) <=> Begins(1) /\ Len(fields) = 5
  <1>1. record # <<>>
    BY DEF Framed
  <1>2. Front(record) \in Seq(Symbol) /\ Len(Front(record)) = Len(record) - 1
        /\ Len(record) - 1 \in Nat
    <2>1. Len(record) \in Nat \ {0}
      BY <1>1, BodyFacts
    <2>2. Front(record) \in Seq(Symbol) /\ Len(Front(record)) = Len(record) - 1
      BY <1>1, BodyFacts
    <2> QED BY <2>1, <2>2
  <1>3. PICK at : Splits(fields, at, Front(record), Len(record) - 1)
    BY <1>2, FieldsSplit DEF fields
  <1>4. Cardinality(Tabs(Front(record), Len(record) - 1)) \in Nat
    BY <1>2, TabsGrow
  <1>5. Cardinality(Tabs(Front(record), Len(record) - 1)) + 1 = Len(fields)
    BY <1>3 DEF Splits
  <1>6. InOrder(1) <=> Begins(1) /\ Cardinality(Tabs(Front(record), Len(record) - 1)) = 4
    BY FirstWhenFramed
  <1>7. Cardinality(Tabs(Front(record), Len(record) - 1)) = 4 <=> Len(fields) = 5
    <2> DEFINE c == Cardinality(Tabs(Front(record), Len(record) - 1))
               d == Len(fields)
    <2>1. c \in Nat /\ d = c + 1
      BY <1>4, <1>5
    <2> HIDE DEF c, d
    <2>2. c = 4 => d = 5
      BY <2>1
    <2>3. d = 5 => c = 4
      BY <2>1
    <2> QED BY <2>2, <2>3 DEF c, d
  <1> QED BY <1>3, <1>6, <1>7

LEMMA BeginsIsFields ==
    ASSUME Typed, Framed(record), Len(fields) = 5, NEW n \in 1 .. 4
    PROVE  /\ Begins(n) <=> \A i \in 1 .. n : Is(fields[i], Part[i])
           /\ Begins(n) => \A i \in 1 .. n : fields[i] = <<record[2 * i - 1]>>
  <1>1. PICK at : Splits(fields, at, Front(record), Len(record) - 1)
    BY FramedFields
  <1>2. Begun(at, 1) /\ Begun(at, 2) /\ Begun(at, 3) /\ Begun(at, 4)
    BY <1>1, AllBegun
  <1>3. n = 1 \/ n = 2 \/ n = 3 \/ n = 4
    OBVIOUS
  <1>4. Begun(at, n)
    BY <1>2, <1>3
  <1> QED BY <1>4 DEF Begun

LEMMA GoodParts ==
    ASSUME Condition(1)
    PROVE  /\ Framed(record) /\ Len(fields) = 5
           /\ \A i \in 1 .. 4 : Condition(i) <=> Is(fields[i], Part[i])
  <1>1. Framed(record) /\ Len(fields) = 5 /\ Is(fields[1], {"KIKO-EXPERIMENT"})
    BY DEF Condition
  <1>2. /\ Condition(2) <=> Is(fields[2], {"1"})
        /\ Condition(3) <=> Is(fields[3], ExternalExperimentKind)
        /\ Condition(4) <=> Is(fields[4], ExternalExperimentalOutcome)
    BY DEF Condition
  <1>3. \A i \in 1 .. 4 : i = 1 \/ i = 2 \/ i = 3 \/ i = 4
    OBVIOUS
  <1>4. /\ Condition(1) <=> Is(fields[1], Part[1])
        /\ Condition(2) <=> Is(fields[2], Part[2])
        /\ Condition(3) <=> Is(fields[3], Part[3])
        /\ Condition(4) <=> Is(fields[4], Part[4])
    BY <1>1, <1>2, PartFacts
  <1> QED BY <1>1, <1>3, <1>4

(* What is known of a record whose first four fields are right. *)
LEMMA BegunWell ==
    ASSUME Typed, \A k \in 1 .. 4 : Condition(k)
    PROVE  /\ Framed(record) /\ Len(fields) = 5 /\ Begins(4)
           /\ fields[3] = <<record[5]>> /\ fields[4] = <<record[7]>> /\ fields[5] = Rest
           /\ record[5] \in ExternalExperimentKind
           /\ record = Text(record[5], record[7], Rest)
  <1>1. Framed(record) /\ Len(fields) = 5 /\ Begins(4)
    <2>1. Condition(1)
      OBVIOUS
    <2>2. Framed(record) /\ Len(fields) = 5 /\ \A i \in 1 .. 4 : Is(fields[i], Part[i])
      BY <2>1, GoodParts
    <2> QED BY <2>2, BeginsIsFields
  <1>2. \A i \in 1 .. 4 : fields[i] = <<record[2 * i - 1]>>
    BY <1>1, BeginsIsFields
  <1>3. fields[3] = <<record[5]>> /\ fields[4] = <<record[7]>>
    <2>1. fields[3] = <<record[2 * 3 - 1]>> /\ fields[4] = <<record[2 * 4 - 1]>>
      BY <1>2
    <2>2. 2 * 3 - 1 = 5 /\ 2 * 4 - 1 = 7
      OBVIOUS
    <2> QED BY <2>1, <2>2
  <1>4. PICK at : Splits(fields, at, Front(record), Len(record) - 1)
    BY <1>1, FramedFields
  <1>5. fields[5] = Rest
    BY <1>1, <1>4, LastField
  <1>6. record[5] \in ExternalExperimentKind
    <2>1. record[2 * 3 - 1] \in Part[3]
      BY <1>1 DEF Begins
    <2>2. 2 * 3 - 1 = 5
      OBVIOUS
    <2> QED BY <2>1, <2>2, PartFacts
  <1>7. record = Text(record[5], record[7], Rest)
    BY <1>1, <1>4, RoundTrip
  <1> QED BY <1>1, <1>3, <1>5, <1>6, <1>7

LEMMA SameConditions ==
    ASSUME Typed, NEW n \in 1 .. 7, \A k \in 1 .. n - 1 : Condition(k)
    PROVE  Condition(n) <=> InOrder(n)
  <1>1. CASE n = 1
    <2>1. CASE ~Framed(record)
      <3>1. ~InOrder(1)
        BY <2>1, FirstIsFramed
      <3>2. ~Condition(1)
        BY <2>1 DEF Condition
      <3> QED BY <1>1, <3>1, <3>2
    <2>2. CASE Framed(record) /\ Len(fields) # 5
      <3>1. ~InOrder(1)
        BY <2>2, FramedFields
      <3>2. ~Condition(1)
        BY <2>2 DEF Condition
      <3> QED BY <1>1, <3>1, <3>2
    <2>3. CASE Framed(record) /\ Len(fields) = 5
      <3>1. InOrder(1) <=> Begins(1)
        BY <2>3, FramedFields
      <3>2. Begins(1) <=> \A i \in 1 .. 1 : Is(fields[i], Part[i])
        BY <2>3, BeginsIsFields
      <3>3. \A i \in 1 .. 1 : i = 1
        OBVIOUS
      <3>4. Begins(1) <=> Is(fields[1], {"KIKO-EXPERIMENT"})
        BY <3>2, <3>3, PartFacts
      <3>5. Condition(1) <=> Is(fields[1], {"KIKO-EXPERIMENT"})
        BY <2>3 DEF Condition
      <3> QED BY <1>1, <3>1, <3>4, <3>5
    <2> QED BY <2>1, <2>2, <2>3
  <1>2. CASE n \in 2 .. 4
    <2>1. Condition(1) /\ \A k \in 1 .. n - 1 : k \in 1 .. 4
      BY <1>2
    <2>2. Framed(record) /\ Len(fields) = 5
          /\ \A i \in 1 .. 4 : Condition(i) <=> Is(fields[i], Part[i])
      BY <2>1, GoodParts
    <2>3. Begins(n) <=> \A i \in 1 .. n : Is(fields[i], Part[i])
      BY <1>2, <2>2, BeginsIsFields
    <2>4. \A i \in 1 .. n : i \in 1 .. n - 1 \/ i = n
      OBVIOUS
    <2>5. n \in 1 .. n /\ n \in 1 .. 4
      BY <1>2
    <2>6. Begins(n) <=> Condition(n)
      BY <2>1, <2>2, <2>3, <2>4, <2>5
    <2>7. InOrder(n) <=> Begins(n)
      <3>1. /\ InOrder(2) <=> Begins(2)
            /\ InOrder(3) <=> Begins(3)
            /\ InOrder(4) <=> Begins(4)
        BY DEF InOrder
      <3>2. n = 2 \/ n = 3 \/ n = 4
        BY <1>2
      <3> QED BY <3>1, <3>2
    <2> QED BY <2>6, <2>7
  <1>3. CASE n = 5
    <2>1. \A k \in 1 .. 4 : Condition(k)
      BY <1>3
    <2>2. fields[5] = Rest
      BY <2>1, BegunWell
    <2>3. InOrder(5) <=> ValidCorrelation(Rest)
      BY DEF InOrder, Rest
    <2>4. Condition(5) <=> ValidCorrelation(fields[5])
      BY DEF Condition
    <2> QED BY <1>3, <2>2, <2>3, <2>4
  <1>4. CASE n = 6
    <2>1. \A k \in 1 .. 4 : Condition(k)
      BY <1>4
    <2>2. fields[3] = <<record[5]>> /\ record[5] \in ExternalExperimentKind
      BY <2>1, BegunWell
    <2>3. InOrder(6) <=> record[5] = expectedKind
      BY DEF InOrder
    <2>4. Condition(6) <=> expectedKind \in ExternalExperimentKind /\ fields[3] = <<expectedKind>>
      BY DEF Condition
    <2>5. <<record[5]>> = <<expectedKind>> <=> record[5] = expectedKind
      OBVIOUS
    <2> QED BY <1>4, <2>2, <2>3, <2>4, <2>5
  <1>5. CASE n = 7
    BY <1>5 DEF Condition, InOrder
  <1> QED BY <1>1, <1>2, <1>3, <1>4, <1>5

(* The two descriptions agree on every record. *)
LEMMA RecordExact ==
    ASSUME Typed
    PROVE  ValidationIsExact
  <1> DEFINE v == Validate(record, expectedKind)
  <1>1. v.error = FrozenOrder[FirstWrong]
    BY SameConditions, SameUpTo
  <1>2. ASSUME v.error = "none"
        PROVE  record = Text(v.kind, v.outcome, v.correlation) /\ v.kind = expectedKind
    <2>1. \E n \in 1 .. 7 : ~Condition(n) /\ \A k \in 1 .. n - 1 : Condition(k)
      BY FirstGoodFails
    <2>2. PICK n \in 1 .. 7 : ~Condition(n) /\ \A k \in 1 .. n - 1 : Condition(k)
      BY <2>1
    <2>3. v.error = FrozenOrder[n] /\ (n = 7 => v = Observation(fields[3][1], fields[4][1], fields[5]))
      BY <2>2, Verdict
    <2>4. \A m \in 1 .. 7 : FrozenOrder[m] = "none" => m = 7
      <3>1. \A m \in 1 .. 7 : m = 1 \/ m = 2 \/ m = 3 \/ m = 4 \/ m = 5 \/ m = 6 \/ m = 7
        OBVIOUS
      <3> QED BY <3>1 DEF FrozenOrder
    <2>5. n = 7
      BY <1>2, <2>3, <2>4
    <2>6. \A k \in 1 .. 6 : Condition(k)
      BY <2>2, <2>5
    <2>7. /\ fields[3] = <<record[5]>> /\ fields[4] = <<record[7]>> /\ fields[5] = Rest
          /\ record = Text(record[5], record[7], Rest)
      <3>1. \A k \in 1 .. 4 : Condition(k)
        BY <2>6
      <3> QED BY <3>1, BegunWell
    <2>8. fields[3] = <<expectedKind>>
      <3>1. Condition(6)
        BY <2>6
      <3> QED BY <3>1 DEF Condition
    <2>9. v.kind = record[5] /\ v.outcome = record[7] /\ v.correlation = Rest
      <3>1. v = Observation(record[5], record[7], Rest)
        BY <2>3, <2>5, <2>7
      <3> HIDE DEF v
      <3> QED BY <3>1 DEF Observation
    <2>10. record[5] = expectedKind
      <3>1. <<record[5]>> = <<expectedKind>>
        BY <2>7, <2>8
      <3> QED BY <3>1
    <2> QED BY <2>7, <2>9, <2>10
  <1> QED BY <1>1, <1>2 DEF ValidationIsExact, FirstWrong

-----------------------------------------------------------------------------
(* Whatever is written and however it is changed, a record stays one. *)
LEMMA TextTyped ==
    ASSUME NEW kind \in ExternalExperimentKind, NEW outcome \in ExternalExperimentalOutcome,
           NEW correlation \in Correlation
    PROVE  Text(kind, outcome, correlation) \in Seq(Symbol)
  <1>1. {"KIKO-EXPERIMENT", "TAB", "1", "LF", kind, outcome} \subseteq Symbol
    BY Words DEF Symbol, Control
  <1>2. <<"KIKO-EXPERIMENT", "TAB", "1", "TAB", kind, "TAB", outcome, "TAB">> \in Seq(Symbol)
        /\ <<"LF">> \in Seq(Symbol)
    BY <1>1
  <1>3. correlation \in Seq(Symbol)
    BY RecordAssumption, SeqMonotonic DEF Symbol
  <1> QED BY <1>2, <1>3, ConcatProperties DEF Text

LEMMA PieceTyped ==
    ASSUME NEW s \in Seq(Symbol), NEW m \in Int, NEW n \in Int, m >= 1, n <= Len(s)
    PROVE  SubSeq(s, m, n) \in Seq(Symbol)
  <1>1. \A i \in m .. n : s[i] \in Symbol
    <2>1. \A i \in m .. n : i \in 1 .. Len(s)
      BY LenProperties
    <2> QED BY <2>1, ElementOfSeq
  <1> QED BY <1>1, SubSeqProperties

LEMMA TypedKept ==
    ASSUME Typed, [RecordNext]_interchangeVars
    PROVE  Typed'
  <1>0. record \in Seq(Symbol) /\ Len(record) \in Nat /\ DOMAIN record = 1 .. Len(record)
    BY LenProperties DEF Typed
  <1>1. CASE Write
    BY <1>1, TextTyped DEF Write, Typed
  <1>2. CASE \E i \in 1 .. Len(record) + 1, word \in Word \cup Control : Insert(i, word)
    <2>1. PICK i \in 1 .. Len(record) + 1, word \in Symbol : Insert(i, word)
      BY <1>2 DEF Symbol
    <2>2. record' = SubSeq(record, 1, i - 1) \o <<word>> \o SubSeq(record, i, Len(record))
      BY <2>1 DEF Insert, InsertAt
    <2>3. /\ SubSeq(record, 1, i - 1) \in Seq(Symbol)
          /\ SubSeq(record, i, Len(record)) \in Seq(Symbol)
      BY <1>0, PieceTyped
    <2>4. <<word>> \in Seq(Symbol)
      OBVIOUS
    <2> QED BY <2>2, <2>3, <2>4, ConcatProperties DEF Typed
  <1>3. CASE \E i \in DOMAIN record : Delete(i)
    <2>1. PICK i \in 1 .. Len(record) : Delete(i)
      BY <1>0, <1>3
    <2>2. record' = SubSeq(record, 1, i - 1) \o SubSeq(record, i + 1, Len(record))
      BY <2>1 DEF Delete, RemoveAt
    <2>3. /\ SubSeq(record, 1, i - 1) \in Seq(Symbol)
          /\ SubSeq(record, i + 1, Len(record)) \in Seq(Symbol)
      BY <1>0, PieceTyped
    <2> QED BY <2>2, <2>3, ConcatProperties DEF Typed
  <1>4. CASE UNCHANGED interchangeVars
    BY <1>4 DEF interchangeVars, Typed
  <1> QED BY <1>1, <1>2, <1>3, <1>4 DEF RecordNext

(* The adapter's verdict, which it reaches by splitting and looking at one  *)
(* field after the other, is the grammar's on every record any number of    *)
(* changes can make of one a writer encoded: it accepts exactly what        *)
(* encodes to the same bytes, and refuses for the first thing wrong.        *)
THEOREM ValidationExact == RecordSpec => []ValidationIsExact
  <1>1. RecordInit => Typed
    BY EmptySeq DEF RecordInit, Typed
  <1>2. Typed /\ [RecordNext]_interchangeVars => Typed'
    BY TypedKept
  <1>3. Typed => ValidationIsExact
    BY RecordExact
  <1> QED BY <1>1, <1>2, <1>3, PTL DEF RecordSpec
================================================================================
