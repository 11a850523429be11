----------------------------- MODULE WorkerPool -----------------------------
(***************************************************************************)
(* The worker pool behind SpatialAdaptiveMesh::simulationStep: the caller  *)
(* holds topologyMutex exclusively, hands every worker a range of nodes,   *)
(* waits until all of them acknowledged, and publishes the computed states *)
(* or throws.  The workers read and write the mesh without topologyMutex:  *)
(* nothing but this protocol keeps them away from it between two steps.    *)
(*                                                                         *)
(* A critical section of workMutex is one step, and so is the computation  *)
(* of one node, outside every mutex.  Both waits recheck their condition   *)
(* every coordinationRecheckInterval, so no wake-up is counted on.  Every  *)
(* member function takes topologyMutex, so the callers are one sequence of *)
(* calls; the destructor is the last.                                      *)
(***************************************************************************)
EXTENDS Integers, FiniteSets

CONSTANTS
    MaxNode,     \* bound: nodes added
    MaxStep,     \* bound: simulation steps begun
    WorkerLimit  \* requested workers: the constructor's maxWorkers or the hardware's

ASSUME PoolAssumption == MaxNode \in Nat /\ MaxStep \in Nat /\ WorkerLimit \in Nat \ {0}

Node == 0 .. MaxNode - 1

Worker == 0 .. WorkerLimit - 1

VARIABLES
    nodeCount,             \* nodes.size()
    published,             \* per node: the step whose result its state is
    caller,                \* where the caller of the mesh is
    workerCount,           \* workers.size()
    worker,                \* per worker: what its thread does
    assignedGeneration,    \* WorkerSlot
    completedGeneration,   \* WorkerSlot
    workGeneration,
    activeNodeCount,
    activeWorkerCount,
    remainingWorkerCount,
    workerException,       \* is an exception pending for the caller?
    computed,              \* computedStates: the step that wrote each entry
    stoppingWorkers,
    step,                  \* history: the steps begun
    committedStep,         \* history: the last step that published
    failed                 \* history: did a computation of this step throw?

slotVars == <<assignedGeneration, completedGeneration>>

dispatchVars == <<workGeneration, activeNodeCount, activeWorkerCount>>

publicVars == <<nodeCount, published, committedStep>>

vars == <<publicVars, caller, workerCount, worker, slotVars, dispatchVars,
          remainingWorkerCount, workerException, computed, stoppingWorkers, step, failed>>

-----------------------------------------------------------------------------
(* "ready": between two member functions; "pool": in simulationStep, with   *)
(* enough workers; "waiting": for the workers; "computed": the results are  *)
(* in; "joining": in stopWorkerPool.                                        *)
Caller == {"ready", "pool", "waiting", "computed", "joining", "gone"}

(* A thread: not started, waiting for work, computing the nodes next ..     *)
(* last - 1 for a generation, about to acknowledge it, or returned.         *)
WorkerState == [phase: {"none", "waiting", "computing", "acknowledging", "returned"},
                generation: Nat, next: Nat, last: Nat, error: BOOLEAN]

Idle(phase) == [phase |-> phase, generation |-> 0, next |-> 0, last |-> 0, error |-> FALSE]

Busy == {w \in Worker : worker[w].phase \in {"computing", "acknowledging"}}

(* The types of the state. *)
TypeOK ==
    /\ nodeCount \in 0 .. MaxNode
    /\ published \in [Node -> 0 .. MaxStep]
    /\ caller \in Caller
    /\ workerCount \in 0 .. WorkerLimit
    /\ worker \in [Worker -> WorkerState]
    /\ assignedGeneration \in [Worker -> 0 .. MaxStep]
    /\ completedGeneration \in [Worker -> 0 .. MaxStep]
    /\ workGeneration \in 0 .. MaxStep
    /\ activeNodeCount \in 0 .. MaxNode
    /\ activeWorkerCount \in 0 .. WorkerLimit
    /\ remainingWorkerCount \in 0 .. WorkerLimit
    /\ workerException \in BOOLEAN
    /\ computed \in [Node -> 0 .. MaxStep]
    /\ stoppingWorkers \in BOOLEAN
    /\ step \in 0 .. MaxStep
    /\ committedStep \in 0 .. MaxStep
    /\ failed \in BOOLEAN

Init ==
    /\ nodeCount = 0
    /\ published = [i \in Node |-> 0]
    /\ caller = "ready"
    /\ workerCount = 0
    /\ worker = [w \in Worker |-> Idle("none")]
    /\ assignedGeneration = [w \in Worker |-> 0]
    /\ completedGeneration = [w \in Worker |-> 0]
    /\ workGeneration = 0
    /\ activeNodeCount = 0
    /\ activeWorkerCount = 0
    /\ remainingWorkerCount = 0
    /\ workerException = FALSE
    /\ computed = [i \in Node |-> 0]
    /\ stoppingWorkers = FALSE
    /\ step = 0
    /\ committedStep = 0
    /\ failed = FALSE

-----------------------------------------------------------------------------
(* The caller. *)

AddNode ==
    /\ caller = "ready"
    /\ nodeCount < MaxNode
    /\ nodeCount' = nodeCount + 1
    /\ published' = [published EXCEPT ![nodeCount] = committedStep]
    /\ UNCHANGED <<caller, workerCount, worker, slotVars, dispatchVars, remainingWorkerCount,
                   workerException, computed, stoppingWorkers, step, committedStep, failed>>

(* resolveWorkerCountUnlocked *)
RequiredWorkers == IF WorkerLimit < nodeCount THEN WorkerLimit ELSE nodeCount

(* A new slot owes nothing: it is born at the current generation. *)
NewSlotCompleted == workGeneration

(* ensureWorkerPoolUnlocked: the pool grows to the required size, and the   *)
(* step goes on, unless there is no node; or a thread cannot be started,    *)
(* the workers before it stay, and the exception leaves simulationStep.     *)
BeginStep(count) ==
    LET started == workerCount .. count - 1
    IN /\ caller = "ready"
       /\ step < MaxStep
       /\ count \in workerCount .. RequiredWorkers
       /\ workerCount' = count
       /\ worker' = [w \in Worker |-> IF w \in started THEN Idle("waiting") ELSE worker[w]]
       /\ assignedGeneration' = [w \in Worker |->
              IF w \in started THEN workGeneration ELSE assignedGeneration[w]]
       /\ completedGeneration' = [w \in Worker |->
              IF w \in started THEN NewSlotCompleted ELSE completedGeneration[w]]
       /\ caller' = IF count = RequiredWorkers /\ nodeCount > 0 THEN "pool" ELSE "ready"
       /\ step' = step + 1
       /\ failed' = FALSE
       /\ UNCHANGED <<publicVars, dispatchVars, remainingWorkerCount, workerException,
                      computed, stoppingWorkers>>

(* With one worker in the pool the caller computes every node itself; the   *)
(* computation of node count throws, if it is a node.                       *)
ComputeAlone(count) ==
    /\ caller = "pool"
    /\ workerCount = 1
    /\ count \in 0 .. nodeCount
    /\ computed' = [i \in Node |-> IF i < count THEN step ELSE computed[i]]
    /\ caller' = IF count = nodeCount THEN "computed" ELSE "ready"
    /\ failed' = (count # nodeCount)
    /\ UNCHANGED <<publicVars, workerCount, worker, slotVars, dispatchVars,
                   remainingWorkerCount, workerException, stoppingWorkers, step>>

RemainingAtDispatch == workerCount

Dispatch ==
    /\ caller = "pool"
    /\ workerCount > 1
    /\ activeNodeCount' = nodeCount
    /\ activeWorkerCount' = workerCount
    /\ remainingWorkerCount' = RemainingAtDispatch
    /\ workerException' = FALSE
    /\ workGeneration' = workGeneration + 1
    /\ assignedGeneration' = [w \in Worker |->
           IF w < workerCount THEN workGeneration + 1 ELSE assignedGeneration[w]]
    /\ caller' = "waiting"
    /\ UNCHANGED <<publicVars, workerCount, worker, completedGeneration, computed,
                   stoppingWorkers, step, failed>>

WaitIsOver_OnException == remainingWorkerCount = 0 \/ workerException

WaitIsOver == remainingWorkerCount = 0

(* The end of the wait: the exception of a worker leaves simulationStep. *)
EndWait ==
    /\ caller = "waiting"
    /\ WaitIsOver
    /\ workerException' = FALSE
    /\ caller' = IF workerException THEN "ready" ELSE "computed"
    /\ UNCHANGED <<publicVars, workerCount, worker, slotVars, dispatchVars,
                   remainingWorkerCount, computed, stoppingWorkers, step, failed>>

(* Every computed state is finite: all of them are published. *)
Publish ==
    /\ caller = "computed"
    /\ published' = [i \in Node |-> IF i < nodeCount THEN computed[i] ELSE published[i]]
    /\ committedStep' = step
    /\ caller' = "ready"
    /\ UNCHANGED <<nodeCount, workerCount, worker, slotVars, dispatchVars,
                   remainingWorkerCount, workerException, computed, stoppingWorkers, step,
                   failed>>

(* Some computed state is not finite: simulationStep throws. *)
RejectResults ==
    /\ caller = "computed"
    /\ caller' = "ready"
    /\ UNCHANGED <<publicVars, workerCount, worker, slotVars, dispatchVars,
                   remainingWorkerCount, workerException, computed, stoppingWorkers, step,
                   failed>>

(* ~Impl, after the drain of EvaluationBinding: stopWorkerPool begins ... *)
StopWorkers ==
    /\ caller = "ready"
    /\ stoppingWorkers' = TRUE
    /\ caller' = "joining"
    /\ UNCHANGED <<publicVars, workerCount, worker, slotVars, dispatchVars,
                   remainingWorkerCount, workerException, computed, step, failed>>

(* ... and workers.clear() has joined every thread. *)
Joined ==
    /\ caller = "joining"
    /\ \A w \in Worker : w < workerCount => worker[w].phase = "returned"
    /\ caller' = "gone"
    /\ workerCount' = 0
    /\ UNCHANGED <<publicVars, worker, slotVars, dispatchVars, remainingWorkerCount,
                   workerException, computed, stoppingWorkers, step, failed>>

-----------------------------------------------------------------------------
(* The workers. *)

RangeStart_Even(w) == w * (activeNodeCount \div activeWorkerCount)

RangeStart(w) == (w * activeNodeCount) \div activeWorkerCount

RangeEnd_Inclusive(w) ==
    LET last == RangeStart(w + 1)
    IN IF last < activeNodeCount THEN last + 1 ELSE last

RangeEnd(w) == RangeStart(w + 1)

workerFrame == <<publicVars, caller, workerCount, dispatchVars, stoppingWorkers, step>>

TakeWork(w) ==
    LET first == RangeStart(w)
        last == RangeEnd(w)
    IN /\ worker[w].phase = "waiting"
       /\ assignedGeneration[w] > completedGeneration[w]
       /\ worker' = [worker EXCEPT ![w] =
              [phase |-> IF first < last THEN "computing" ELSE "acknowledging",
               generation |-> assignedGeneration[w], next |-> first, last |-> last,
               error |-> FALSE]]
       /\ UNCHANGED <<workerFrame, slotVars, remainingWorkerCount, workerException,
                      computed, failed>>

(* Worker w further in the same range. *)
Advanced(w, phase, next, error) ==
    [phase |-> phase, generation |-> worker[w].generation, next |-> next,
     last |-> worker[w].last, error |-> error]

(* One node of runNodeRange: an entry of every buffer is written ... *)
ComputeNode(w) ==
    LET i == worker[w].next
    IN /\ worker[w].phase = "computing"
       /\ computed' = [computed EXCEPT ![i] = step]
       /\ worker' = [worker EXCEPT ![w] =
              Advanced(w, IF i + 1 < worker[w].last THEN "computing" ELSE "acknowledging",
                       i + 1, worker[w].error)]
       /\ UNCHANGED <<workerFrame, slotVars, remainingWorkerCount, workerException, failed>>

(* ... or the computation throws, and the rest of the range is left. *)
ComputationThrows(w) ==
    /\ worker[w].phase = "computing"
    /\ worker' = [worker EXCEPT ![w] =
           Advanced(w, "acknowledging", worker[w].next, TRUE)]
    /\ failed' = TRUE
    /\ UNCHANGED <<workerFrame, slotVars, remainingWorkerCount, workerException, computed>>

ExceptionAfter_LastWins(w) == worker[w].error

(* The first exception of a step is kept. *)
ExceptionAfter(w) == workerException \/ worker[w].error

Acknowledges_WithoutError(w) == ~worker[w].error

(* The early return of acknowledgeWorkerCompletion does not happen. *)
Acknowledges(w) ==
    LET generation == worker[w].generation
    IN /\ generation = workGeneration
       /\ w < activeWorkerCount
       /\ generation = assignedGeneration[w]
       /\ completedGeneration[w] < generation
       /\ remainingWorkerCount # 0

(* The critical section after the computation. *)
Acknowledge(w) ==
    /\ worker[w].phase = "acknowledging"
    /\ workerException' = ExceptionAfter(w)
    /\ IF Acknowledges(w)
       THEN /\ completedGeneration' =
                   [completedGeneration EXCEPT ![w] = worker[w].generation]
            /\ remainingWorkerCount' = remainingWorkerCount - 1
       ELSE UNCHANGED <<completedGeneration, remainingWorkerCount>>
    /\ worker' = [worker EXCEPT ![w] = Idle("waiting")]
    /\ UNCHANGED <<workerFrame, assignedGeneration, computed, failed>>

Return(w) ==
    /\ worker[w].phase = "waiting"
    /\ assignedGeneration[w] <= completedGeneration[w]
    /\ stoppingWorkers
    /\ worker' = [worker EXCEPT ![w] = Idle("returned")]
    /\ UNCHANGED <<workerFrame, slotVars, remainingWorkerCount, workerException, computed,
                   failed>>

-----------------------------------------------------------------------------
CallerContinues ==
    \/ \E count \in 0 .. MaxNode : ComputeAlone(count)
    \/ Dispatch \/ EndWait \/ Publish \/ RejectResults \/ Joined

WorkerStep(w) ==
    TakeWork(w) \/ ComputeNode(w) \/ ComputationThrows(w) \/ Acknowledge(w) \/ Return(w)

Next ==
    \/ AddNode \/ StopWorkers
    \/ \E count \in 0 .. MaxNode : BeginStep(count)
    \/ CallerContinues
    \/ \E w \in Worker : WorkerStep(w)

Spec == Init /\ [][Next]_vars

(* A member function that was entered and a thread that was started go on   *)
(* when they can: computing a node takes no lock and ends, and both waits   *)
(* recheck their condition periodically.                                    *)
Fairness == WF_vars(CallerContinues) /\ \A w \in Worker : WF_vars(WorkerStep(w))

FairSpec == Spec /\ Fairness

-----------------------------------------------------------------------------
(* Properties. *)

(* A worker is in its computation only while a simulation step waits for it *)
(* with the topology locked: no straggler reads the mesh or writes a buffer *)
(* after the step published, threw or the pool stopped.                     *)
WorkersOnlyDuringWait == Busy # {} => caller = "waiting"

(* Between two calls every node's state is the result of the same step, or  *)
(* the node is newer: a step is published as a whole or not at all, and no  *)
(* stale entry of the buffers is ever published.                            *)
StepsAreAtomic ==
    caller = "ready" => \A i \in 0 .. nodeCount - 1 : published[i] = committedStep

(* A step of which any computation threw publishes nothing. *)
FailedStepsPublishNothing == [][published' # published /\ nodeCount' = nodeCount => ~failed]_vars

(* No two workers have a node in common, and none a node that is not there: *)
(* the buffers need no lock.                                                *)
RangesAreDisjoint ==
    \A u, v \in Busy :
        /\ worker[u].last <= nodeCount
        /\ u # v => worker[u].next .. worker[u].last - 1 \cap
                    worker[v].next .. worker[v].last - 1 = {}

(* Every call returns, whatever the workers throw: simulationStep does not  *)
(* wait for ever and the destructor joins every thread.                     *)
CallsReturn == caller \notin {"ready", "gone"} ~> caller \in {"ready", "gone"}
=============================================================================
