# Verification of the adaptive mesh

TLA+ models of the C++ library in this repository, the TLC configurations that
check them on small instances, and theorems about them that TLAPS proves for
every value of the constants. `PROJECT.json` names, for every definition that
models code, the lines it models; this file says what the parts are, how the
models correspond to them, and what the checks and the proofs show.

Paths below are relative to the repository. `impl.hpp` is
`src/detail/spatial_adaptive_mesh_impl.hpp`, `evaluation.hpp` is
`src/detail/production_transition_evaluation_internal.hpp` and `authority.hpp`
is `src/detail/production_authority_internal.hpp`.

## 1. The system

A `SpatialAdaptiveMesh` is a set of nodes joined by pairs of directed bridges.
Each simulation step lets the bridges of a node adapt to its neighbours and
moves the node towards the admissible ones. Around that sits a chain of
evidence and authority by which a caller may, at the end, make one *production
transition* of one bridge: samples become a persistent recommendation, the
recommendation becomes an intent, an evaluation of the intent becomes an
eligibility decision, a decision becomes a one-use capability, and committing
the capability rewrites the bridge.

| Component | State | Operations | Talks to |
|---|---|---|---|
| Mesh topology (`impl.hpp:217-330`, `510-800`) | nodes, bridge vectors, lifecycle entries, `alpha`, buffer shape and its flags | addNode, connectNodes, connectNodePairs, autoConnectNearbyNodes, pruneIsolatedBridges, enforceStabilityCondition, simulationStep | every other part, under `topologyMutex` |
| Relationship lifecycle (`impl.hpp:52-60`, `171-180`) | generation, authority lineage, persistence lineage of a directed edge; two counters per mesh | connect, prune, evolve, commit | read by evaluation and authority |
| Node and bridge dynamics (`system_architecture.cpp`, `impl.hpp:330-420`) | state and health of nodes, capacity and status of bridges | injectExternalShock, simulationStep, the rewrite of a commit | commit, prune |
| Worker pool (`impl.hpp:425-500`, `833-930`) | generations, ranges, the remaining count, the pending exception, worker threads | ensure, dispatch, compute, acknowledge, wait, publish, stop | the caller of simulationStep; the threads |
| Bridge persistence, authorization policy (`bridge_persistence.hpp`, `bridge_transition_authorization.hpp`) | recommendation, pending direction, sample count; the lineage of a production record | observe, reset, evaluate, evolve | evaluation |
| Eligibility evaluator K11 (`production_transition_eligibility.hpp`) | none | assemble prerequisites, evaluate | evaluation |
| Evaluation orchestrator K12, live backend (`evaluation.hpp`, `impl.hpp:70-170`) | the evaluation in progress | resolve, capture, derive direction, validate four domains, revalidate, classify | lifecycle, K11 |
| Evaluation binding (`evaluation.hpp:440-600`) | `acceptingLeases_`, `activeLeases_`, the backend pointer, a condition variable | acquire, release, invalidate and drain, destroy | evaluators, the destructor of the mesh |
| Production authority: derivation, policy, ledger, commit (`authority.hpp`, `impl.hpp:960-1100`) | the derivation in progress, ledger records, the process-wide capability counter | request, five reads, policy, registerIssued, expire, invalidate, commit | lifecycle, bridges |
| Observation, confidence, policy values | plain values | range checks, evidence of a sample | persistence |
| Shadow-adaptive experiment (`experiments/shadow_adaptive`) | a controller's persistence, the metrics of a scenario | observe, reset, count | persistence, authorization policy |
| Validated access helpers (`api_access.hpp`) | a node and a bridge the caller owns | set, snapshot, update, copy | threads that share the node, through `nodeMutex` or past it |
| K9 interchange experiment (`experiments/kiko`) | none | validate one record | – |
| Geometry, examples, benchmarks, build | none of their own | – | – |

What is hard here:

* **Stale reads.** A derivation and an evaluation take the topology lock once
  per question and let it go between questions. Everything they rely on must be
  caught again by the revalidation or, after it, by the commit.
* **ABA.** A relationship can end and begin again between two reads, with equal
  nodes and equal state. Generations, lineages and incarnations are what is
  supposed to tell the two apart.
* **Races to use something up.** Two capabilities of one version, a commit and
  an expiry, a foreign mesh and the right one.
* **Lifetime.** Evaluators outlive the mesh. Its destructor waits, with no
  timeout, for those that still read it.
* **A step spread over threads.** Workers start lazily, fail to start, throw,
  and are woken by generation numbers.
* **Failures halfway.** Allocations fail in the middle of a batch, or between
  observing a sample and drawing the lineage that says so; an exception leaves a
  snapshot that holds the lock of a node.
* **Two writers of one number.** Steps and commits each have their own formula
  for the capacity and the status of a bridge, and prunes act on both.
* **Locks that not everybody takes.** Setters and snapshots of a node lock it,
  `updateHealth` and the copy constructor do not.

`PROJECT.json` lists these hazards line by line, each with the properties that
cover it or with the reason why none does.

## 2. The modules

| Module | Models | Used by |
|---|---|---|
| `RelationshipLifecycle` | lifecycle entries and their counters, one operator per way of changing them | `ProductionAuthority`, `TransitionEvaluation` |
| `ProductionAuthority` | derivation, policy, ledger and commit, against a changing mesh | `AuthorityRefinement`, `MC_Authority` |
| `OneUseToken` | abstract: what a capability promises | `AuthorityRefinement` |
| `AuthorityRefinement` | the refinement mapping of the former to the latter | `MC_Authority` |
| `EvaluationBinding` | the leases and the destructor | `MC_EvaluationBinding` |
| `ReaderGate` | abstract: what a binding promises | `EvaluationBinding` |
| `TransitionEligibility` | K11's decision, as a function of evidence | `TransitionEvaluation`, `PrerequisiteAssembly` |
| `PrerequisiteAssembly` | a prerequisite set changed one domain at a time | `MC_FrozenPrecedence` |
| `InterchangeRecord` | the K9 adapter, fed with records that were changed on the way | `MC_FrozenPrecedence` |
| `TransitionEvaluation` | K12 against a changing mesh | `MC_TransitionEvaluation` |
| `BridgePersistence` | hysteresis as a production record and as a controller hold it, the lineage of the record, snapshots of it, intents | `ShadowScenarios` |
| `ShadowScenarios` | the harness that measures a controller | run with `MC_BridgePersistence.cfg` |
| `WorkerPool` | threads of the simulation step | `MC_WorkerPool` |
| `MeshTopology` | topology, batches, failures, buffers | `MC_MeshTopology` |
| `SpatialBridge` | what a signal does to the capacity and the status of one bridge | `BridgeDynamics`, `ApiAccess` |
| `BridgeDynamics` | the numbers of nodes and bridges, while pairs are pruned and connected | `MC_BridgeDynamics` |
| `ApiAccess` | threads at one node, with and without its lock | `MC_ApiAccess` |
| `*Proofs` | theorems about the modules they extend; `BridgePersistenceProofs` has those of `ShadowScenarios` and `InterchangeRecord` too, `TransitionEvaluationProofs` those of `PrerequisiteAssembly`, `ProductionAuthorityProofs` those of `AuthorityRefinement` | – |

### Steps are critical sections

An action is what one critical section does. Operations that hold
`topologyMutex` exclusively from beginning to end (connect, prune, step, commit,
shock) are one action each. A derivation or an evaluation is one action per
section, and its registers (`derivation`, `evaluation`, `evidence`) hold what the
code keeps in locals between them. The binding has one action per critical
section of its own mutex, and the time between giving a lease up and dropping
the pointer to the backend is a phase of its own (`"dropping"`), because the
owner is notified before the pointer is dropped. In the pool, a worker taking
its range, computing one node, throwing and acknowledging are separate actions.

### ProductionAuthority

`Request`, `Resolve`, `Capture`, `DeriveDirection`, `ValidateFreshness`,
`Revalidate`, `EvaluatePolicy` and `RegisterIssued` are the consecutive parts of
one derivation; each may leave with the rejection the policy's precedence gives.
`Commit` and `RefuseCommit` are `commitProductionTransition`, with `CommitResult`
naming the first check that fails, in the order of the code, and
`LedgerAfterRefusal` what that refusal does to the record. `LeaveIssued` is
expiry and invalidation. `Connect`, `Prune`, `Evolve` and `SimulationStep` are
the mesh. A bridge is its status only; a step publishes one of
`PublishedStatus` for a bridge. History variables record what changed on an
edge since a request captured it (`changedRequest`, `changedCapability`), the
commits that took effect (`effects`) and the answers a capability got
(`answers`); no guard reads them.

The mesh's own backend derives no direction yet, so that with it no authority
can be issued: that is the theorem `LiveBackendFailsClosed`. The runs set
`DirectionAvailable = TRUE`, which is the derivation over another backend (the
tests have one); everything after that question is reached only then.

### TransitionEvaluation and TransitionEligibility

One action per backend question, in the order of the orchestrator, with the
early return of each. What the four domains answer is free. The decision is
`TransitionEligibility`'s, the same operators that `PrerequisiteAssembly` checks
and proves against an independent statement of the frozen precedence.

### BridgePersistence and ShadowScenarios

`Observed` is the hysteresis with its three branches. A `BridgePersistence` is held
by a production record, which has a lineage and asks for two samples either way, or
by a controller, which has configured limits, an authorization policy (`Intent`) and
a reset. Evidence is what `AdaptiveBridgePolicy` makes of a compatibility and a
confidence, `(2C - 1)Q`, on integer scales: `(2c - CompatibilityScale) * k`.

A lineage is the address of an allocation, so `Evolve` may draw any address but the
one it replaces, which is still alive then; and it may fail to draw one, after the
sample was observed, which leaves a changed state under its old lineage. `captured`
holds the snapshot of an evaluation, whose revalidation compares lineage and
complete state. What `OneFailureHidesNothing` says is therefore exact: one failed
advance is caught by the comparison of states, two can hide a change that was taken
back. A new address may be one that was freed meanwhile; the snapshot's own lineage
cannot, because the snapshot keeps it alive.

`ShadowScenarios` adds the counters of the harness, fed with every sequence of samples
instead of the six scripted ones.

### EvaluationBinding, WorkerPool, MeshTopology

The waits are modelled as the code writes them. The destructor's
`drained_.wait(lock, predicate)` is `"asleep"` and `"awake"`: it can only leave
`"asleep"` when notified, or spuriously. The pool's dispatch counter counts the
workers of the pool, each acknowledges the generation it took, and a worker that
starts takes the current generation as completed. In `MeshTopology`
every call that can fail has the steps of its failure. For a batch, `k` is how many
lifecycle entries were inserted before an allocation failed, and `Rollback` takes
them out again. For a node, memory may run out at the reservation, at the insertion
into the nodes or at the one into the incarnations; the last allocates only when
`incarnationCapacity` leaves no room, which is what `ReservedCapacity` prevents. A
simulation step may end early: after its validation has cleared
`topologyValidationRequired` (`StepUnprepared`: a state that is not finite, a worker
that does not start), while its buffers are being fitted (`StepHalfPrepared`), or in
the computation (`SimulationStep` that throws).

### BridgeDynamics and SpatialBridge

Doubles are fixed-point integers: states, baselines and epsilons in hundredths,
health and capacity in thousandths, the weight of a bridge (attenuation times
orientation, which the code derives from positions) in hundredths. Products and
quotients are cut off towards zero where the code would round in the 53rd bit.
The properties compare orders, thresholds and statuses, and use no equality a
cut-off could create or break; `StatusTellsCapacity` is at the granularity of
thousandths, and the hull of `StepsStayInHull` is closed under cutting off towards
the node's own state.

The bridges of a state are the domain of `capacity`: a prune restricts it to the pairs
no direction of which is weak or isolated, by the capacities that steps and commits
made; a connection extends it. `Alpha` is computed from the bridges there are, which is
what `AlphaFitsDegree` of `MeshTopology` says of the cached one.

### ApiAccess

A call is the list of its accesses to the node (`Program`), taken one at a time: lock,
the words of the position, the atomics, unlock. What
`docs/production-mutation-surface.md` leaves to the caller is a guard: no copy overlaps
a write of the position (it would be a data race), and public fields are written while
nobody uses the node. Through those fields values enter that validation refuses, and
`snapshotNode` then throws while it holds the lock. Bridge and node share nothing and
are used one at a time.

### InterchangeRecord

A record is a sequence of words and separators; `Size` gives each word its length in
characters, so that the limit of 128 is the code's. A writer encodes a record, up to two
insertions and deletions change it, and `Validate` is the code. `ValidationIsExact`
compares it with a grammar that splits nothing: it looks at the words a record begins
with and counts separators.

## 3. What the runs check

| Run | Instance | States | Asks |
|---|---|---|---|
| `authority_threads` | 1 mesh, 2 nodes, 2 threads, 2 capabilities, 7 versions, requests that constrain | 1 165 479 | `NoInterveningChange`: does a commit ever take effect on a relationship something reconnected, pruned or committed to since the request? `VersionsAreUnique`; `OneEffectPerVersion` and `ConsumedIffEffect`: when threads and holders race for one version; and `ImplementsContract`: the whole implements `OneUseToken` |
| `authority_meshes` | 2 meshes, 1 thread, 1 capability in the process, 6 versions each, steps that isolate, 1 evolution, two transition classes, both directions | 1 102 102 | `RefusalIsFinal`: also when capabilities are shown to the wrong mesh in between; `BridgeIffRelationship` |
| `authority_drift` | 1 mesh, 1 thread, 1 capability, 5 versions, steps that isolate | counterexample | see section 7 |
| `evaluation_binding` | 4 evaluators | 275 | `NoReaderOutlivesDrain`, `SleeperHasWaker`, `NoLeaseAfterInvalidation`, `DestructionEnds`, `ImplementsGate` (`ReaderGate`) |
| `worker_pool` | 4 nodes, 3 steps, 3 workers | 50 287 | `WorkersOnlyDuringWait`, `StepsAreAtomic`, `RangesAreDisjoint`, `FailedStepsPublishNothing`, `CallsReturn` |
| `bridge_persistence` | scales 4, thresholds 8 and 4, samples 2 and 3, 3 addresses, scenarios of 14 samples | 24 543 | `PendingIsEarned`, `ChangesAreExact`, `OneFailureHidesNothing`, `IntentsNeverFlip`, and of the harness `ChangesAreDamped`, `ShadowChangesAreExplained` |
| `frozen_precedence` | every prerequisite set for a request and a foreign one; records two changes away from 8 encoded ones, for 3 expected kinds | 245 496 | `DecisionFollowsPrecedence`, `RepairNeverSetsBack`, `ValidationIsExact` |
| `transition_evaluation` | 2 nodes, 1 evaluator, 7 versions, 2 evolutions | 918 204 | `EligibleIsEarned`, `OneLifePerEvaluation` |
| `mesh_topology` | 3 nodes on a line, 8 generations, radii 1 and 2, 10 batches, failures at every insertion | 73 991 | `LifecycleMatchesBridges`, `AlphaFitsDegree`, `BuffersFit`, `GuardsNeverFire`, `FailedCallsChangeNothing` |
| `bridge_dynamics` | up to 3 nodes in a row, 2 shocks, 2 commits, 2 prunes or connections, 4 steps | 1 980 137 | `StatusTellsCapacity`, `HealthTellsState`, `StepsStayInHull` |
| `api_access` | 3 threads of one call each, 2 positions of 2 words, 2 states; 4 capacities of the bridge | 411 415 | `SnapshotsAreInstants`, `CallsReturn`, `UpdateRestoresStatus` |
| `weights_symmetry` | the same row, no commits, no prunes | counterexample | see section 7 |

The types of the authority, of evaluations, of the binding, of persistence and of the
worker pool are proved (section 4) and need no run.
Every property of a passing run has a mutant in `PROJECT.json`: a definition of the
model changed the way a plausible mistake in the code would change it, under which the
property fails.

### Bounds, and why they are enough

* **Two nodes, one pair** in the authority and evaluation runs: every read and
  every check concerns one directed edge; its reverse is the only other edge an
  operation changes with it. Two edges with separate entries are there. Topologies
  with more are `mesh_topology`'s.
* **Versions.** `MaxVersion` is `numeric_limits<uint64_t>::max()` made small: the
  commit's refusal at the limit is reached, and it means that no commit takes effect
  once the counter stands there. A connection draws two of each number, a commit one,
  and the counters start at 1. Seven are therefore the least for a commit to take
  effect in each of two lives of a relationship: connect (3), commit (4), prune,
  connect (6), commit (7). `authority_threads` has seven, so that a capability of the
  first life meets the second one while that one can be committed to; a mutant whose
  commit does not ask whether the relationship is stale fails there by way of a
  reconnection. Six, in `authority_meshes`, are enough for one commit after a
  reconnection. `authority_drift` needs no second life.
* **Directions.** A direction decides the status a commit leaves (`PreparedStatus`),
  which nothing in `authority_threads` reads: no step runs there and no bridge is
  isolated. That run takes one direction and spends the states on versions;
  `authority_meshes` takes both directions. The proofs are for any set of them.
* **Two capabilities, two threads** are what a race for one version needs. A third
  holder would race against the survivor of the first race.
* **One evaluator** in `transition_evaluation`: evaluations only read, so that
  none can tell whether another exists.
* **Four nodes, three workers, three steps**: more nodes than workers and as many
  (a pool never has more workers than the mesh has nodes), ranges of unequal
  length, a pool that grows between steps with a node added, a failed start
  followed by a step that starts the rest, and an exception followed by a step
  without one.
* **Batches** name every pair in either order, two pairs, and each way of being
  refused (self, out of range, duplicate, reversed duplicate, defect in second place).
* **Steps and evolutions** are left out of `authority_threads`, which is about races
  for versions, and in `authority_meshes`, which is about refusals: an isolated bridge
  and an unknown transition class (99) are refused there.
* **Dynamics.** Baseline 800 of the last node lies beyond `Omega` of its
  neighbour after one shock, so that its signal is destructive, a bridge isolates,
  and a later commit brings the capacity back above 0. Two prunes or connections are
  enough for a pair to be pruned because of what a step left of it, and connected again.
* **Persistence.** Scales of 4 give evidence from -16 to 16, below, at and above both
  thresholds. Two samples to activate and three to release tell the two counters apart.
  Three addresses are a lineage, its successor and one more, so that a freed one is drawn
  again. Fourteen samples are more than two complete changes there and back.
* **Access.** Three threads with one call each, of any kind: enough for a reader, a writer
  and a second writer or an `updateHealth` at once. A position of two words is the least
  that can be torn; one public field at a time holds a value that validation refuses.
* **Records.** Two edits replace a word, or break two fields of a valid record: every answer
  is reached, and pairs of defects between which the order of the checks decides.

`CHECK_DEADLOCK FALSE` stands where a bound (versions, lineages, samples, edits, calls,
shocks) or the end of the program (a destroyed mesh) really stops the system.

### Fairness

`EvaluationBinding`: weak fairness of every evaluator's release and drop, and of
the destructor's next step. An evaluation runs to its end without a lock of the
caller's and a destructor that is awake goes on. No fairness is given to
`Acquire`, `Invalidate` or `SpuriousWakeup`: nobody has to evaluate, destroy or
wake by accident, and `DestructionEnds` holds without them.

`WorkerPool`: weak fairness of the caller inside a call and of each worker's next
step. A computation takes no lock, and both waits re-evaluate a predicate that
stays true until its waiter acts on it. Nothing forces another call.

`ApiAccess`: weak fairness of each thread's next access. The lock of a node needs no
stronger fairness: a thread makes finitely many calls, so that those that compete for it
come to an end. Nothing forces a call to begin.

## 4. What is proved

All theorems are in the `*Proofs` modules and hold for every value of the
constants that satisfies the named assumptions: `BoundsAssumption`,
`AuthorityAssumption`, `EvaluatorAssumption` (the evaluators are finitely many, so
that a counter can count them), `PoolAssumption`, `EvaluationAssumption`, `ThresholdAssumption`
(what the constructor of the policy enforces), `MaxSamplesAssumption`,
`DynamicsAssumption` (a mesh has finitely many nodes: they are a `std::vector`),
`TopologyAssumption`, `AccessAssumption` (a coordinate of the
position is none of the other accesses), `RecordAssumption` (what a writer uses as a
correlation is a sequence of words) and `BindingAssumption`.

Sums and splits are folds of the community modules, which are defined by a function on
sets chosen to satisfy a recursive equation. That such a function exists is proved where
it is needed (`FoldDefined`, `SumsDefined`), by induction over the size of the set, and the
induction itself (`Induction`) comes from the least-number principle: the library's
theorems that take an operator as their parameter are not used.

**ProductionAuthorityProofs.** `Inv` is inductive. Its parts: `TypeOK`;
`LifecycleInv` (entries exist in pairs with bridges, no number repeats, none is
at or above its counter); `RequestInv` (what a derivation captured was
current then, and if it is no longer, a change is on record); `CapabilityInv` and
`RegisterInv` (the same for what was registered, and how ledger and capability
agree); `EffectInv` (an effect's version is behind the counter and no longer
current, so that nothing can match it again); `LiveInv`. The argument for
`OneEffectPerVersion` is that a commit advances the lineage in the step in which it
takes effect, and that lineages are never drawn twice; the ledger alone would not
give it, because it knows a capability, not a version. From `Inv`: `TypeCorrect`,
`CommitsAreFresh`, `OneEffect`, `LedgerAgreesWithEffects`,
`NumbersNameOneRelationship`, `BridgesHaveRelationships`,
`LiveBackendFailsClosed`, and the action property `TerminalRecords`.

Its second half follows a capability through the ledger of its own mesh.
`AnswersInv` says that what its holders were told `Fits` the record's state: committed
exactly when it is consumed, refused only if it is terminal otherwise. Every step keeps it,
because each refusal by the issuing mesh leaves a terminal record before it answers; from
it `RefusalsAreFinal`. `AuthorityImplementsContract` is the refinement in full: the mesh's
operations map to `Change` (a version stays, becomes 0, or is drawn from the counter), a
registration to `Issue`, a commit to `Use`, a refusal that invalidates and an expiry to
`Void`, every other step to a stutter. It rests on `TypeOK` and `Inv`: uniqueness of the
versions bounds each by its clock, and `RequestInv` dates the token.

**EvaluationBindingProofs.** `Inv` adds to the properties that the counter is the
number of readers (`CounterIsExact`) and that a sleeping owner has lowered the
flag. From it: `DrainIsSafe`, `NoLostWakeup`, `NobodyEntersLate`, and
`BindingImplementsGate`, a full refinement proof: a release maps to `Leave`, the
last one after the invalidation leaves the owner to `Close`, a drop stutters.

**WorkerPoolProofs.** `Inv` adds to the types three parts. `SlotsInv`: the remaining count is
the number of workers that owe an acknowledgement, only workers of the pool owe one, and
only while a step waits. `WorkersInv`: a busy worker owes one, computes the range of this
generation and has computed what lies behind it, unless it threw. `WaitInv`: the range of
whoever acknowledged without an error is computed, and an error is either noted or its
owner still busy. That the early return of `acknowledgeWorkerCompletion` is never taken
follows. When the count is 0 the ranges are all computed, and lemmas about quotients show
that they follow one another and cover the nodes (`RangesOrdered`, `RangesCover`), for
numbers that do not divide one another too. From it `NoStraggler`, `AtomicSteps`,
`NodesDivided` and `FailuresPublishNothing`.

**BridgePersistenceProofs.** `Inv` is `TypeOK`, `PendingIsEarned` and `SnapshotIsKept`:
a snapshot whose lineage is still the record's was either left alone since, or one failed
advance lies between and the record is in another state now. `PendingIsEarned` ties the
counter of the code to the histories of samples, and is what makes `ChangesExact` true:
without it a counter might have been filled by samples of another kind. From the same
invariant `FailureHidesNothing` and `NoFlip`. `ScenarioUsesController` shows that the
harness takes only steps of the controller it measures, so that the invariant holds in
it; `MetricsInv` adds that a change of the recommendation spends `FewestSamples` samples
and a change of the disposition is a change of the recommendation or the beginning or end
of a block, from which `AlwaysDamped` and `AlwaysExplained`.

The second part of the module is about `InterchangeRecord`. Its invariant is only that a
record is a sequence of words and separators, because `ValidationExact` holds of every
such record. `Splits` says what splitting means (the fields, where each begins, a
separator between two of them, and one field more than there are separators) and `FieldsSplit`
shows by induction over the prefixes that `SplitFields` does that. `BegunNext` goes from
one field to the next: while the fields so far are the words they must be, the next one
begins where the grammar looks. `LastField` finds the correlation, `SameConditions` puts
the adapter's conditions side by side with the grammar's, and `RoundTrip` encodes what was
accepted. The length of the correlation is the same expression on both sides; its
limit is checked by the run.

**TransitionEvaluationProofs.** For every evaluation `Sound(v)`: what was resolved is
still current or `resolvedGone` is set, what was captured is still the entry or
`capturedChanged` is set. From it `EligibilityIsEarned` and `OneLife`. The step
lemmas go through `Writes`, the set of edges an operation of the mesh rewrites.

Its last part is about the decision an evaluation ends with: it is the defect that comes
first in the precedence stated as a rank (`PrecedenceHolds`), and `RepairMonotone`.

**MeshTopologyProofs.** `Inv` is `NewNodesAreBare`, `IncarnationsFit` (the room reserved for
incarnations is never exceeded, so that entering one cannot fail after its node went in) and
the four invariants of the run, which need each other: a connection finds no entry of an edge it validated (`GuardsNeverFire`)
because entries and bridges match, and they match afterwards because it finds none. The
bulk of the proof is what the operations do to vectors. `Selected`, the filter behind
publication, prunes and nearby pairs, is recursive, and its facts (it keeps exactly the
elements of the set, in their order, and twice none that was there once) are proved by
induction over its prefixes. `Pending` lists an edge at most once when the batch validated,
so that publication adds one bridge per edge and the generations it draws are all
different; a prune takes both directions of a pair or none, so that what is left is paired.
`MaxDegreeIsLargest` gives `NoDegreeExceedsAlpha`, the CFL condition in the form the
diffusion needs it. `FailuresChangeNothing` rests on the invariant too: a rollback sets
entries to 0 and is no change only because none of them was there before, and a node is
never without its incarnation only because room was made first. That a step which ends
while its buffers are half fitted does no harm is that it leaves them marked dirty
(`UnpreparedStepKeeps`).

**ApiAccessProofs.** For any number of threads and coordinates. `Inv` says where a call is
(`TodoIsRest`: what is left is the end of its program, so the number of accesses made names
the next one), that the mutex is held from the first access of a locking call to its last
(`LockIsHeld`), that only a holder has the position half written (`PositionIsWhole`), and
what a snapshot in progress has read (`SnapshotSoFar`). The last is the argument for
`SnapshotsAreAlwaysInstants`: position and state are what the node still is, because every
writer of them needs the mutex; the health is not, because `updateHealth` stores it without,
but the node with that health existed when it was read. `OthersGood` is the lemma that
keeps a thread's part of the invariant through every step of another one. `LockIsAlwaysHeld`
includes a call that throws under the lock. `UpdatesRestoreStatus` is arithmetic.

**BridgeDynamicsProofs.** For every topology and every way of changing it, every weight,
baseline and bound. `StatusAgrees` and `HealthAgrees` are arithmetic on the two capacity
formulas. `Typed` adds that the states are integers and the bridges among the edges
(`TypeCorrect`), and is what `HullKept` rests on: a node pulls no further than the
extremes `a` and `b` of the differences to its pullers, a bridge couples with at most
1000 thousandths, so that the sum over `d` bridges lies between `1000 * d * a` and
`1000 * d * b` (`SumBounds`, by induction over the bridges); `AlphaBound`, alpha times the
degree at most 0.8, brings that back between `a` and `b` (`SumScaled`), and cutting off
towards 0 leaves it there (`QuotientBounds`). A bridge to a node outside Omega adds
nothing, because its capacity is 0 in the step that finds it there.

Proved and in no run, being consequences of proofs already needed:
`LiveBackendFailsClosed`, `TerminalRecords`, `CounterIsExact`, and that the variables of
authority, of evaluations, of the pool and of the dynamics have their types (`TypeCorrect`).

## 5. What is only model-checked

* Liveness: `DestructionEnds`, and `CallsReturn` of the pool and of the access to nodes.
  Fairness speaks of what is enabled, about which nothing can be proved here.
* That the two runs of section 7 violate what they check: a counterexample is their proof.

Every invariant and every action property of the passing runs is the subject of a theorem.

## 6. What is not modelled, and why

* **Decisions of another mesh.** The derivation's only caller passes decisions of its
  own mesh, and so does `Request`. Capabilities, which name their domain, are
  presented to any mesh.
* **Three refusals of a commit** that nothing reaches: a node index out of range
  (`impl.hpp:1031`; nodes are never removed), a direction that is neither of the two
  (`impl.hpp:1065`), and a prepared capacity outside 0 and 1 (`impl.hpp:1070`; that it
  stays within is part of `TypeCorrect` in `BridgeDynamicsProofs`). `CommitResult` has
  the others, in their order.
* **Backends that throw**, in the middle of an evaluation. The live one allocates
  nothing between its reads that a caller could observe.
* **Wrap of a counter at 2^64**, except where the code checks for it.
* **Rounding, infinities and NaN** of doubles, and the trigonometry of orientation:
  weights are given.
* **Rounding of evidence**: `(2C - 1)Q` is exact on the integer scales. That changes of
  the rounded value at a threshold agree with the unrounded one is not claimed.
* **`rawDispositionChanges` of the harness**, which counts signs of single samples and
  depends on nothing that is kept.
* **Geometry of a mesh's bridges**: attenuation and orientation are weights, given by a
  constant. The geometry of a bridge on its own is a member of a set.
* **Range checks of value types** (compatibility, confidence, coordinates): constructors
  that throw or return.
* **Examples, benchmarks, build and packaging**: callers that keep no state.

## 7. Where the code and its documents differ

* `authority_drift`. `docs/k12-production-transition-evaluator.md:67` says that
  relevant state changes advance lineage even when visible values return.
  A simulation step publishes new capacities and statuses (`impl.hpp:916`), the
  very state a production transition rewrites, and advances no lineage: the run
  finds a request captured, a step that changes the bridge, and a
  commit that takes effect all the same.
* `weights_symmetry`. `docs/mathematics.md:21` assumes that edge weights stay
  symmetric. Each direction of a pair is updated from its own source node's point of
  view (`impl.hpp:399`), and after one shock the two weights part in one step, also on
  a level pair.

## 8. Plan

Done in this order, the most important behaviour first: lifecycle and authority;
the binding; the worker pool; persistence, K11 and K12; topology; dynamics; the
proofs of each as soon as its runs agreed; evolutions that fail to allocate and the
shadow experiment; access to nodes; dynamics over a changing topology; K9; the proofs
of the worker pool and of the authority's refinement; the proofs of the topology and of the
access to nodes; the proofs of the hull of a simulation step and the record of an experiment.

Next: the topology's lifecycle as a refinement of the one `ProductionAuthority` keeps.
