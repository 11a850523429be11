-------------------------- MODULE EvaluationBinding --------------------------
(***************************************************************************)
(* The lifetime protocol between a mesh and the evaluators that outlive it *)
(* (BindingState, EvaluationLease and ProductionTransitionEvaluationBinding*)
(* in production_transition_evaluation_internal.hpp, and the destructor of *)
(* SpatialAdaptiveMesh::Impl).                                             *)
(*                                                                         *)
(* An evaluator takes a lease, reads the mesh through the leased backend   *)
(* and releases: it decrements the counter under the binding's mutex, and  *)
(* only after that drops its pointer to the backend.  The destructor stops *)
(* new leases, sleeps on the condition variable drained_ until the counter *)
(* is 0, stops the workers, and destroys the binding, which drains again.  *)
(* Each critical section of the mutex is one step.  The wait has no        *)
(* timeout: the destructor wakes when it is notified, or spuriously.       *)
(***************************************************************************)
EXTENDS Naturals, FiniteSets

CONSTANT Evaluator  \* threads that hold an evaluator of this mesh

ASSUME EvaluatorAssumption == IsFiniteSet(Evaluator)

VARIABLES
    acceptingLeases,  \* BindingState
    activeLeases,     \* BindingState
    backendBound,     \* is BindingState::backend_ non-null?
    evaluation,       \* per evaluator: what ProductionTransitionEvaluator::evaluate does
    owner             \* what the mesh's destructor does

vars == <<acceptingLeases, activeLeases, backendBound, evaluation, owner>>

(* "reading": holds a lease and may read the mesh at any moment;            *)
(* "dropping": counted out, still holding backend_ and state_.              *)
Evaluation == {"idle", "reading", "dropping"}

(* "asleep" and "awake" are inside drained_.wait. *)
Owner == {"alive", "asleep", "awake", "stop_workers", "destroy_binding", "gone"}

(* The destructor is past its drain: what comes next destroys the mesh. *)
Drained == {"stop_workers", "destroy_binding", "gone"}

Readers == {t \in Evaluator : evaluation[t] = "reading"}

(* The backend object lives while the binding or a lease points to it. *)
BackendAlive == backendBound \/ \E t \in Evaluator : evaluation[t] # "idle"

(* The types of the state. *)
TypeOK ==
    /\ acceptingLeases \in BOOLEAN
    /\ activeLeases \in Nat
    /\ backendBound \in BOOLEAN
    /\ evaluation \in [Evaluator -> Evaluation]
    /\ owner \in Owner

Init ==
    /\ acceptingLeases = TRUE
    /\ activeLeases = 0
    /\ backendBound = TRUE
    /\ evaluation = [t \in Evaluator |-> "idle"]
    /\ owner = "alive"

-----------------------------------------------------------------------------
Refuses_BackendOnly == ~backendBound

Refuses == ~acceptingLeases \/ ~backendBound

(* acquireEvaluationLease.  A refused evaluation answers not_eligible and   *)
(* leaves everything as it was.                                             *)
Acquire(t) ==
    /\ evaluation[t] = "idle"
    /\ ~Refuses
    /\ activeLeases' = activeLeases + 1
    /\ evaluation' = [evaluation EXCEPT ![t] = "reading"]
    /\ UNCHANGED <<acceptingLeases, backendBound, owner>>

Decrement_Twice(n) == n - 2

Decrement(n) == IF n > 0 THEN n - 1 ELSE n

OwnerAfterRelease_WhileAccepting(leases) ==
    IF acceptingLeases /\ leases = 0 /\ owner = "asleep" THEN "awake" ELSE owner

(* drained_.notify_all, by the last lease of a binding that is invalidated. *)
OwnerAfterRelease(leases) ==
    IF ~acceptingLeases /\ leases = 0 /\ owner = "asleep" THEN "awake" ELSE owner

(* The critical section of EvaluationLease::release. *)
Release(t) ==
    /\ evaluation[t] = "reading"
    /\ activeLeases' = Decrement(activeLeases)
    /\ evaluation' = [evaluation EXCEPT ![t] = "dropping"]
    /\ owner' = OwnerAfterRelease(activeLeases')
    /\ UNCHANGED <<acceptingLeases, backendBound>>

(* backend_.reset() and state_.reset(), after the mutex is free. *)
Drop(t) ==
    /\ evaluation[t] = "dropping"
    /\ evaluation' = [evaluation EXCEPT ![t] = "idle"]
    /\ UNCHANGED <<acceptingLeases, activeLeases, backendBound, owner>>

-----------------------------------------------------------------------------
NoLeases_Unchecked == TRUE

(* The predicate of drained_.wait. *)
NoLeases == activeLeases = 0

(* From the predicate to the end of invalidateAndDrain, or back to sleep. *)
WaitOrPass(next) ==
    IF NoLeases
    THEN owner' = next /\ backendBound' = FALSE
    ELSE owner' = "asleep" /\ UNCHANGED backendBound

(* ~Impl begins.  No other member function runs any more. *)
Invalidate ==
    /\ owner = "alive"
    /\ acceptingLeases' = FALSE
    /\ WaitOrPass("stop_workers")
    /\ UNCHANGED <<activeLeases, evaluation>>

(* A wake-up that no notification caused. *)
SpuriousWakeup ==
    /\ owner = "asleep"
    /\ owner' = "awake"
    /\ UNCHANGED <<acceptingLeases, activeLeases, backendBound, evaluation>>

Recheck ==
    /\ owner = "awake"
    /\ WaitOrPass("stop_workers")
    /\ UNCHANGED <<acceptingLeases, activeLeases, evaluation>>

(* stopWorkerPool returns: WorkerPool models it. *)
WorkersStopped ==
    /\ owner = "stop_workers"
    /\ owner' = "destroy_binding"
    /\ UNCHANGED <<acceptingLeases, activeLeases, backendBound, evaluation>>

(* The members of Impl are destroyed, the binding first: its destructor     *)
(* drains once more and never sleeps, because no lease can exist.           *)
DestroyMembers ==
    /\ owner = "destroy_binding"
    /\ WaitOrPass("gone")
    /\ UNCHANGED <<acceptingLeases, activeLeases, evaluation>>

-----------------------------------------------------------------------------
EvaluatorStep(t) == Release(t) \/ Drop(t)

OwnerStep == Recheck \/ WorkersStopped \/ DestroyMembers

Next ==
    \/ \E t \in Evaluator : Acquire(t) \/ EvaluatorStep(t)
    \/ Invalidate \/ SpuriousWakeup \/ OwnerStep

Spec == Init /\ [][Next]_vars

(* An evaluation reads a fixed number of times and ends, and a destructor   *)
(* that was entered keeps running when it can.  Nobody has to evaluate,     *)
(* nobody has to destroy, and no spurious wake-up is counted on.            *)
Fairness ==
    /\ \A t \in Evaluator : WF_vars(EvaluatorStep(t))
    /\ WF_vars(OwnerStep)

FairSpec == Spec /\ Fairness

-----------------------------------------------------------------------------
(* Properties. *)

(* Once the destructor is past its drain no evaluator holds a lease, and    *)
(* none can get one: the mesh is never read while it is being destroyed.    *)
NoReaderOutlivesDrain == owner \in Drained => Readers = {} /\ Refuses

(* Every lease is counted exactly once, however releases and the drain      *)
(* interleave: the guard of the decrement never hides a lost lease.         *)
LeasesCounted == activeLeases = Cardinality(Readers)

(* From the moment the binding is invalidated no evaluator starts to read.  *)
NoLeaseAfterInvalidation ==
    [][\A t \in Evaluator :
          ~acceptingLeases /\ evaluation[t] # "reading" => evaluation'[t] # "reading"]_vars

(* The destructor never sleeps with nobody left to wake it ...              *)
SleeperHasWaker == owner = "asleep" => ~acceptingLeases /\ Readers # {}

(* ... so that once invalidated, the mesh is destroyed in the end, and the  *)
(* backend with it.                                                         *)
DestructionEnds == ~acceptingLeases ~> owner = "gone" /\ ~BackendAlive

Gate == INSTANCE ReaderGate WITH
    Reader <- Evaluator,
    inside <- Readers,
    gate <- IF acceptingLeases THEN "open" ELSE IF backendBound THEN "closing" ELSE "closed"

(* The binding is a reader gate: nobody enters after closing began, and it  *)
(* closes only when everyone has left.                                      *)
ImplementsGate == Gate!Spec

(* The inductive invariant. *)
Inv ==
    /\ LeasesCounted
    /\ owner = "alive" <=> acceptingLeases
    /\ backendBound <=> owner \notin Drained
    /\ owner \in Drained => Readers = {}
    /\ SleeperHasWaker
=============================================================================
