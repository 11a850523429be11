---------------------------- MODULE WorkerPoolProofs ----------------------------
(***************************************************************************)
(* Theorems about WorkerPool, for any number of nodes, steps and workers.  *)
(* The inductive invariant says who owes an acknowledgement, what a busy   *)
(* worker has computed, and what the caller may conclude when the counter  *)
(* is 0: that the ranges cover the nodes is arithmetic of quotients.       *)
(***************************************************************************)
EXTENDS WorkerPool, FiniteSetTheorems, TLAPS

-----------------------------------------------------------------------------
(* Arithmetic of the ranges. *)

(* What integer division means. *)
LEMMA Division ==
    ASSUME NEW a \in Nat, NEW b \in Nat \ {0}
    PROVE  /\ a \div b \in Nat
           /\ (a \div b) * b <= a
           /\ a < (a \div b) * b + b
OBVIOUS

(* A quotient is the only number between its bounds. *)
LEMMA QuotientsOrdered ==
    ASSUME NEW a \in Nat, NEW b \in Nat \ {0}, NEW q \in Nat
    PROVE  /\ q * b <= a => q <= a \div b
           /\ a < q * b => a \div b < q
<1> DEFINE d == a \div b
<1>1. d \in Nat /\ d * b <= a /\ a < d * b + b
  BY Division
<1> HIDE DEF d
<1>2. ASSUME q > d PROVE q * b >= d * b + b
  <2>1. PICK k \in Nat : q = d + 1 + k
    <3>1. q - d - 1 \in Nat /\ q = d + 1 + (q - d - 1)
      BY <1>1, <1>2
    <3> QED BY <3>1
  <2>2. q * b = d * b + b + k * b /\ k * b >= 0
    BY <1>1, <2>1
  <2>3. q * b \in Nat /\ d * b \in Nat /\ k * b \in Nat
    BY <1>1, <2>1
  <2> QED BY <2>2, <2>3
<1>3. ASSUME q <= d PROVE q * b <= d * b
  <2>1. PICK k \in Nat : d = q + k
    <3>1. d - q \in Nat /\ d = q + (d - q)
      BY <1>1, <1>3
    <3> QED BY <3>1
  <2>2. d * b = q * b + k * b /\ k * b >= 0
    BY <1>1, <2>1
  <2>3. q * b \in Nat /\ d * b \in Nat /\ k * b \in Nat
    BY <1>1, <2>1
  <2> QED BY <2>2, <2>3
<1>4. q * b \in Nat /\ d * b \in Nat
  BY <1>1
<1>5. q * b <= a => q <= d
  BY <1>1, <1>2, <1>4
<1>6. a < q * b => d < q
  BY <1>1, <1>3, <1>4
<1> QED BY <1>5, <1>6 DEF d

(* While a step is computed: how the nodes are cut. *)
Cut == /\ activeNodeCount \in Nat
       /\ activeWorkerCount \in Nat \ {0}

(* The bounds of a range are numbers of nodes. *)
LEMMA RangeType ==
    ASSUME Cut, NEW w \in Nat
    PROVE  RangeStart(w) \in Nat /\ RangeEnd(w) \in Nat
<1>1. w * activeNodeCount \in Nat /\ (w + 1) * activeNodeCount \in Nat
  BY DEF Cut
<1> QED BY <1>1, Division DEF Cut, RangeStart, RangeEnd

(* The ranges follow one another, ... *)
LEMMA RangesOrdered ==
    ASSUME Cut, NEW u \in Nat, NEW v \in Nat, u <= v
    PROVE  RangeStart(u) <= RangeStart(v)
<1> DEFINE n == activeNodeCount
           b == activeWorkerCount
<1>1. n \in Nat /\ b \in Nat \ {0} /\ u * n \in Nat /\ v * n \in Nat
  BY DEF Cut
<1>2. PICK k \in Nat : v = u + k
  <2>1. v - u \in Nat /\ v = u + (v - u)
    OBVIOUS
  <2> QED BY <2>1
<1>3. v * n = u * n + k * n /\ k * n \in Nat
  BY <1>1, <1>2
<1>4. RangeStart(u) \in Nat /\ RangeStart(u) * b <= u * n
  BY <1>1, Division DEF RangeStart
<1>5. RangeStart(u) * b \in Nat
  BY <1>1, <1>4
<1>6. RangeStart(u) * b <= v * n
  BY <1>1, <1>3, <1>4, <1>5
<1> HIDE DEF n, b
<1>7. RangeStart(u) <= (v * n) \div b
  BY <1>1, <1>4, <1>6, QuotientsOrdered
<1> QED BY <1>7 DEF RangeStart, n, b

(* ... the last one ends with the last node, ... *)
LEMMA LastRangeEnds ==
    ASSUME Cut
    PROVE  RangeStart(activeWorkerCount) = activeNodeCount
<1> DEFINE n == activeNodeCount
           b == activeWorkerCount
           q == (b * n) \div b
<1>1. n \in Nat /\ b \in Nat \ {0} /\ b * n \in Nat /\ n * b = b * n /\ n + 1 \in Nat
  BY DEF Cut
<1>2. q \in Nat
  BY <1>1, Division
<1>3. b * n < (n + 1) * b
  BY <1>1
<1> HIDE DEF n, b
<1>4. n <= q
  BY <1>1, QuotientsOrdered
<1>5. q < n + 1
  BY <1>1, <1>3, QuotientsOrdered
<1>6. q = n
  BY <1>1, <1>2, <1>4, <1>5
<1> QED BY <1>6 DEF RangeStart, n, b, q

(* ... and every node is in the range of a worker. *)
LEMMA RangesCover ==
    ASSUME Cut, NEW i \in Nat, i < activeNodeCount
    PROVE  \E w \in Nat : w < activeWorkerCount /\ RangeStart(w) <= i /\ i < RangeEnd(w)
<1> DEFINE n == activeNodeCount
           b == activeWorkerCount
           a == (i + 1) * b - 1
           w == a \div n
<1>1. n \in Nat \ {0} /\ b \in Nat \ {0} /\ i + 1 \in Nat
  BY DEF Cut
<1>2. (i + 1) * b = i * b + b /\ i * b \in Nat
  BY <1>1
<1>3. a \in Nat /\ a < (i + 1) * b
  BY <1>1, <1>2
<1>4. w \in Nat /\ w * n <= a /\ a < w * n + n
  BY <1>1, <1>3, Division
<1>5. w * n \in Nat /\ (w + 1) * n = w * n + n /\ (w + 1) * n \in Nat
  BY <1>1, <1>4
<1>6. (i + 1) * b <= n * b /\ n * b = b * n /\ b * n \in Nat
  <2>1. PICK k \in Nat : n = i + 1 + k
    <3>1. n - i - 1 \in Nat /\ n = i + 1 + (n - i - 1)
      BY <1>1
    <3> QED BY <3>1
  <2>2. n * b = (i + 1) * b + k * b /\ k * b \in Nat
    BY <1>1, <2>1
  <2> QED BY <1>1, <1>2, <2>2
<1> HIDE DEF n, b, a
<1>7. a < b * n
  BY <1>1, <1>2, <1>3, <1>6
<1>8. w < b
  BY <1>1, <1>3, <1>7, QuotientsOrdered
<1> HIDE DEF w
<1>9. (w * n) \div b < i + 1
  BY <1>1, <1>3, <1>4, <1>5, <1>2, QuotientsOrdered
<1>10. (w * n) \div b <= i
  <2>1. (w * n) \div b \in Nat
    BY <1>1, <1>5, Division
  <2> QED BY <1>9, <2>1
<1>11. (i + 1) * b <= (w + 1) * n
  BY <1>1, <1>2, <1>3, <1>4, <1>5 DEF a
<1>12. i + 1 <= ((w + 1) * n) \div b
  BY <1>1, <1>5, <1>11, QuotientsOrdered
<1>13. i < ((w + 1) * n) \div b
  <2>1. ((w + 1) * n) \div b \in Nat
    BY <1>1, <1>5, Division
  <2> QED BY <1>12, <2>1
<1> QED BY <1>4, <1>8, <1>10, <1>13 DEF RangeStart, RangeEnd, n, b

-----------------------------------------------------------------------------
(* The inductive invariant. *)

(* The workers that owe an acknowledgement. *)
Pending == {w \in Worker : completedGeneration[w] < assignedGeneration[w]}

(* Slots: the counter counts the pending workers, only workers of the pool  *)
(* are pending, and only while a step waits for them.                       *)
SlotsInv ==
    /\ remainingWorkerCount = Cardinality(Pending)
    /\ caller # "waiting" => Pending = {}
    /\ workGeneration <= step
    /\ caller = "pool" => workGeneration < step
    /\ \A w \in Worker :
           /\ completedGeneration[w] <= assignedGeneration[w]
           /\ w \in Pending => w < workerCount
           /\ w < workerCount => assignedGeneration[w] = workGeneration

(* What worker w has computed of its range. *)
ComputedUpTo(w, end) ==
    \A i \in Node : RangeStart(w) <= i /\ i < end => computed[i] = step

(* A busy worker: it is pending, computes the range of this generation, and *)
(* has computed what lies behind it.                                        *)
WorkersInv ==
    \A w \in Busy :
        /\ w \in Pending
        /\ worker[w].generation = workGeneration
        /\ worker[w].last = RangeEnd(w)
        /\ RangeStart(w) <= worker[w].next
        /\ worker[w].phase = "computing" => worker[w].next < worker[w].last
        /\ worker[w].error => failed
        /\ ~worker[w].error => ComputedUpTo(w, worker[w].next)
        /\ worker[w].phase = "acknowledging" /\ ~worker[w].error
               => worker[w].last <= worker[w].next

(* The wait: what is no longer pending is computed, or some error is known  *)
(* and its owner still busy or the exception noted.                         *)
WaitInv ==
    caller = "waiting" =>
        /\ activeNodeCount = nodeCount
        /\ activeWorkerCount = workerCount
        /\ workerCount > 0
        /\ workerException => failed
        /\ failed => workerException \/ \E w \in Busy : worker[w].error
        /\ ~failed => \A w \in Worker \ Pending :
                          w < workerCount => ComputedUpTo(w, RangeEnd(w))

Indices == 0 .. nodeCount - 1

(* The rest of a step: no exception is left over, and what is published is  *)
(* what the step computed.                                                  *)
CallerInv ==
    /\ caller # "waiting" => ~workerException
    /\ caller \in {"pool", "computed"} => ~failed
    /\ caller = "computed" => \A i \in Indices : computed[i] = step
    /\ \A i \in Indices : published[i] = committedStep

Inv == TypeOK /\ SlotsInv /\ WorkersInv /\ WaitInv /\ CallerInv

-----------------------------------------------------------------------------
(* Facts about one state. *)

(* The counter can count the pending workers. *)
LEMMA PendingIsFinite ==
    /\ IsFiniteSet(Pending)
    /\ Cardinality(Pending) \in 0 .. WorkerLimit
    /\ Cardinality(Pending) = 0 <=> Pending = {}
<1>1. Pending \in SUBSET Worker
  BY DEF Pending
<1>2. IsFiniteSet(Worker) /\ Cardinality(Worker) = WorkerLimit
  BY PoolAssumption, FS_Interval DEF Worker
<1>3. IsFiniteSet(Pending) /\ Cardinality(Pending) <= WorkerLimit
  BY <1>1, <1>2, FS_Subset
<1>4. Cardinality(Pending) \in Nat
  BY <1>3, FS_CardinalityType
<1>5. Cardinality(Pending) = 0 <=> Pending = {}
  BY <1>3, FS_EmptySet
<1> QED BY <1>3, <1>4, <1>5, PoolAssumption

(* A worker that owes something is of the pool, and a step waits for it. *)
LEMMA PendingIsAwaited ==
    ASSUME Inv, NEW w \in Pending
    PROVE  /\ caller = "waiting"
           /\ Cut
           /\ w \in Worker /\ w \in Nat /\ w + 1 <= activeWorkerCount
           /\ assignedGeneration[w] = workGeneration
<1>1. w \in Worker /\ w \in Nat
  BY DEF Pending, Worker
<1>2. caller = "waiting" /\ w < workerCount
  BY <1>1 DEF Inv, SlotsInv
<1>3. activeNodeCount \in Nat /\ activeWorkerCount \in Nat /\ activeWorkerCount = workerCount
  BY <1>2 DEF Inv, TypeOK, WaitInv
<1>4. assignedGeneration[w] = workGeneration
  BY <1>1, <1>2 DEF Inv, SlotsInv
<1> QED BY <1>1, <1>2, <1>3, <1>4 DEF Cut

(* Nobody is busy unless a step waits. *)
LEMMA NobodyBusy ==
    ASSUME Inv, caller # "waiting"
    PROVE  Busy = {} /\ Pending = {}
BY DEF Inv, SlotsInv, WorkersInv

-----------------------------------------------------------------------------
(* The steps. *)

(* A worker that computes nothing is in a state of WorkerState. *)
LEMMA IdleTyped ==
    \A phase \in {"none", "waiting", "returned"} : Idle(phase) \in WorkerState
BY DEF Idle, WorkerState

(* A mesh that was just made. *)
LEMMA InitInv == Init => Inv
<1> SUFFICES ASSUME Init PROVE Inv
  OBVIOUS
<1>1. TypeOK
  <2>1. worker \in [Worker -> WorkerState]
    BY IdleTyped DEF Init
  <2>2. /\ published \in [Node -> 0 .. MaxStep] /\ computed \in [Node -> 0 .. MaxStep]
        /\ assignedGeneration \in [Worker -> 0 .. MaxStep]
        /\ completedGeneration \in [Worker -> 0 .. MaxStep]
    BY PoolAssumption DEF Init
  <2>3. caller \in Caller /\ workerException \in BOOLEAN /\ stoppingWorkers \in BOOLEAN
        /\ failed \in BOOLEAN
    BY DEF Init, Caller
  <2> QED BY <2>1, <2>2, <2>3, PoolAssumption DEF Init, TypeOK
<1>2. Pending = {}
  BY DEF Init, Pending
<1>3. Busy = {}
  BY DEF Init, Busy, Idle
<1>4. SlotsInv
  BY <1>2, PendingIsFinite DEF Init, SlotsInv
<1> QED BY <1>1, <1>3, <1>4 DEF Init, Inv, WorkersInv, WaitInv, CallerInv, Indices

(* Every step keeps the types. *)
LEMMA StepTyped == ASSUME Inv, [Next]_vars PROVE TypeOK'
<1> USE PoolAssumption DEF Inv, TypeOK
<1>1. CASE AddNode
  <2>1. published' \in [Node -> 0 .. MaxStep]
    BY <1>1 DEF AddNode
  <2> QED BY <1>1, <2>1 DEF AddNode, slotVars, dispatchVars
<1>2. CASE StopWorkers
  BY <1>2 DEF StopWorkers, slotVars, dispatchVars, publicVars, Caller
<1>3. ASSUME NEW count \in 0 .. MaxNode, BeginStep(count) PROVE TypeOK'
  <2>1. count \in 0 .. WorkerLimit
    BY <1>3 DEF BeginStep, RequiredWorkers
  <2>2. worker' \in [Worker -> WorkerState]
    BY <1>3, IdleTyped DEF BeginStep
  <2>3. /\ assignedGeneration' \in [Worker -> 0 .. MaxStep]
        /\ completedGeneration' \in [Worker -> 0 .. MaxStep]
    BY <1>3 DEF BeginStep, NewSlotCompleted
  <2>4. caller' \in Caller /\ failed' \in BOOLEAN
    BY <1>3 DEF BeginStep, Caller
  <2>5. workerCount' \in 0 .. WorkerLimit
    BY <1>3, <2>1 DEF BeginStep
  <2>6. UNCHANGED <<publicVars, dispatchVars, remainingWorkerCount, workerException,
                    computed, stoppingWorkers>>
    BY <1>3 DEF BeginStep
  <2>7. step' \in 0 .. MaxStep
    BY <1>3 DEF BeginStep
  <2> QED BY <2>2, <2>3, <2>4, <2>5, <2>6, <2>7 DEF dispatchVars, publicVars
<1>4. ASSUME NEW count \in 0 .. MaxNode, ComputeAlone(count) PROVE TypeOK'
  BY <1>4 DEF ComputeAlone, slotVars, dispatchVars, publicVars, Caller
<1>5. CASE Dispatch
  <2>1. workGeneration + 1 \in 0 .. MaxStep
    BY <1>5 DEF Dispatch, SlotsInv
  <2> QED BY <1>5, <2>1 DEF Dispatch, RemainingAtDispatch, publicVars, Caller
<1>6. CASE EndWait
  BY <1>6 DEF EndWait, slotVars, dispatchVars, publicVars, Caller
<1>7. CASE Publish
  BY <1>7 DEF Publish, slotVars, dispatchVars, Caller
<1>8. CASE RejectResults
  BY <1>8 DEF RejectResults, slotVars, dispatchVars, publicVars, Caller
<1>9. CASE Joined
  BY <1>9 DEF Joined, slotVars, dispatchVars, publicVars, Caller
<1>10. ASSUME NEW w \in Worker, TakeWork(w) PROVE TypeOK'
  <2>1. w \in Pending
    BY <1>10 DEF TakeWork, Pending
  <2>2. RangeStart(w) \in Nat /\ RangeEnd(w) \in Nat
    BY <2>1, PendingIsAwaited, RangeType
  <2>3. worker' \in [Worker -> WorkerState]
    BY <1>10, <2>2 DEF TakeWork, WorkerState
  <2> QED BY <1>10, <2>3 DEF TakeWork, workerFrame, slotVars, dispatchVars, publicVars
<1>11. ASSUME NEW w \in Worker, ComputeNode(w) PROVE TypeOK'
  <2>1. \A phase \in {"computing", "acknowledging"} : \A next \in Nat :
            Advanced(w, phase, next, worker[w].error) \in WorkerState
    BY DEF Advanced, WorkerState
  <2>2. worker[w].next + 1 \in Nat
    BY DEF WorkerState
  <2>3. worker' \in [Worker -> WorkerState]
    BY <1>11, <2>1, <2>2 DEF ComputeNode
  <2>4. computed' \in [Node -> 0 .. MaxStep]
    BY <1>11 DEF ComputeNode
  <2> QED BY <1>11, <2>3, <2>4 DEF ComputeNode, workerFrame, slotVars, dispatchVars, publicVars
<1>12. ASSUME NEW w \in Worker, ComputationThrows(w) PROVE TypeOK'
  <2>1. worker' \in [Worker -> WorkerState]
    BY <1>12 DEF ComputationThrows, Advanced, WorkerState
  <2> QED BY <1>12, <2>1 DEF ComputationThrows, workerFrame, slotVars, dispatchVars, publicVars
<1>13. ASSUME NEW w \in Worker, Acknowledge(w) PROVE TypeOK'
  <2>1. worker' \in [Worker -> WorkerState]
    BY <1>13, IdleTyped DEF Acknowledge
  <2>2. ExceptionAfter(w) \in BOOLEAN
    BY DEF ExceptionAfter, WorkerState
  <2>3. /\ completedGeneration' \in [Worker -> 0 .. MaxStep]
        /\ remainingWorkerCount' \in 0 .. WorkerLimit
    BY <1>13 DEF Acknowledge, Acknowledges
  <2> QED BY <1>13, <2>1, <2>2, <2>3
          DEF Acknowledge, workerFrame, dispatchVars, publicVars
<1>14. ASSUME NEW w \in Worker, Return(w) PROVE TypeOK'
  <2>1. worker' \in [Worker -> WorkerState]
    BY <1>14, IdleTyped DEF Return
  <2> QED BY <1>14, <2>1 DEF Return, workerFrame, slotVars, dispatchVars, publicVars
<1>15. CASE UNCHANGED vars
  BY <1>15 DEF vars, slotVars, dispatchVars, publicVars
<1> QED BY <1>1, <1>2, <1>3, <1>4, <1>5, <1>6, <1>7, <1>8, <1>9, <1>10, <1>11, <1>12,
           <1>13, <1>14, <1>15 DEF Next, CallerContinues, WorkerStep

-----------------------------------------------------------------------------
(* Steps of the caller. *)

(* Between two waits a step that touches no slot and starts no wait leaves  *)
(* nobody pending and nobody busy.                                          *)
LEMMA CallerSteps ==
    ASSUME Inv, caller # "waiting", caller' # "waiting",
           UNCHANGED <<worker, slotVars, remainingWorkerCount>>,
           workGeneration' = workGeneration,
           step' = step, caller' # "pool",
           workerCount' \in {workerCount, 0}
    PROVE  SlotsInv' /\ WorkersInv' /\ WaitInv'
<1>1. Pending' = {} /\ Busy' = {}
  BY NobodyBusy DEF Pending, Busy, slotVars
<1>2. Cardinality(Pending) = Cardinality(Pending')
  BY <1>1, NobodyBusy
<1>3. \A w \in Worker : ~(w < 0)
  BY DEF Worker
<1>4. SlotsInv'
  BY <1>1, <1>2, <1>3 DEF Inv, SlotsInv, slotVars
<1> QED BY <1>1, <1>4 DEF WorkersInv, WaitInv

(* A node added between two steps takes the state of the last one. *)
LEMMA AddNodeKeeps == ASSUME Inv, AddNode PROVE SlotsInv' /\ WorkersInv' /\ WaitInv' /\ CallerInv'
<1>1. SlotsInv' /\ WorkersInv' /\ WaitInv'
  BY CallerSteps DEF AddNode, dispatchVars
<1>2. \A i \in Indices' : published'[i] = committedStep'
  <2> SUFFICES ASSUME NEW i \in Indices' PROVE published'[i] = committedStep'
    OBVIOUS
  <2>1. i \in Node /\ (i = nodeCount \/ i \in Indices)
    BY PoolAssumption DEF AddNode, Indices, Node, Inv, TypeOK
  <2> QED BY <2>1 DEF AddNode, Inv, TypeOK, CallerInv
<1> QED BY <1>1, <1>2 DEF AddNode, Inv, CallerInv

(* Slots that are born owe nothing, whether the pool became complete or not. *)
LEMMA BeginStepKeeps ==
    ASSUME Inv, NEW count \in 0 .. MaxNode, BeginStep(count)
    PROVE  SlotsInv' /\ WorkersInv' /\ WaitInv' /\ CallerInv'
<1>1. caller = "ready" /\ Busy = {} /\ Pending = {}
  BY NobodyBusy DEF BeginStep
<1>2. Busy' = {}
  BY <1>1 DEF BeginStep, Busy, Idle
<1>3. Pending' = {}
  BY <1>1 DEF BeginStep, Pending, NewSlotCompleted, Inv, TypeOK
<1>4. caller' \in {"pool", "ready"}
  BY DEF BeginStep
<1>5. \A w \in Worker : w < workerCount' => assignedGeneration'[w] = workGeneration'
  <2> SUFFICES ASSUME NEW w \in Worker, w < workerCount'
               PROVE  assignedGeneration'[w] = workGeneration'
    OBVIOUS
  <2>1. w \in workerCount .. count - 1 \/ w < workerCount
    BY DEF BeginStep, Worker, Inv, TypeOK
  <2> QED BY <2>1 DEF BeginStep, dispatchVars, Inv, SlotsInv
<1>6. \A w \in Worker : completedGeneration'[w] <= assignedGeneration'[w]
  BY DEF BeginStep, NewSlotCompleted, Inv, SlotsInv, TypeOK
<1>7. workGeneration' < step'
  BY DEF BeginStep, dispatchVars, Inv, SlotsInv, TypeOK
<1>8. remainingWorkerCount' = Cardinality(Pending')
  BY <1>1, <1>3 DEF BeginStep, Inv, SlotsInv
<1>9. workGeneration' <= step'
  BY <1>7 DEF BeginStep, dispatchVars, Inv, TypeOK
<1>10. SlotsInv'
  BY <1>3, <1>5, <1>6, <1>7, <1>8, <1>9 DEF SlotsInv
<1>11. CallerInv'
  BY <1>1, <1>4 DEF BeginStep, publicVars, Inv, CallerInv, Indices
<1> QED BY <1>2, <1>4, <1>10, <1>11 DEF WorkersInv, WaitInv

(* One worker or none: the caller computes, all nodes or not all. *)
LEMMA ComputeAloneKeeps ==
    ASSUME Inv, NEW count \in 0 .. MaxNode, ComputeAlone(count)
    PROVE  SlotsInv' /\ WorkersInv' /\ WaitInv' /\ CallerInv'
<1>1. SlotsInv' /\ WorkersInv' /\ WaitInv'
  BY CallerSteps DEF ComputeAlone, dispatchVars
<1>2. caller' = "computed" => \A i \in Indices' : computed'[i] = step'
  BY PoolAssumption DEF ComputeAlone, Indices, Node, publicVars, Inv, TypeOK
<1> QED BY <1>1, <1>2 DEF ComputeAlone, publicVars, Inv, CallerInv, Indices

(* Every worker of the pool owes an acknowledgement, and no other does. *)
LEMMA DispatchKeeps ==
    ASSUME Inv, Dispatch
    PROVE  SlotsInv' /\ WorkersInv' /\ WaitInv' /\ CallerInv'
<1>1. Busy = {} /\ Pending = {} /\ caller = "pool" /\ workerCount > 1
  BY NobodyBusy DEF Dispatch
<1>2. Busy' = {}
  BY <1>1 DEF Dispatch, Busy
<1>3. Pending' = 0 .. workerCount - 1
  <2>1. ASSUME NEW w \in Worker
        PROVE  completedGeneration'[w] < assignedGeneration'[w] <=> w < workerCount
    BY <1>1 DEF Dispatch, Pending, Inv, TypeOK, SlotsInv, Worker
  <2>2. Pending' = {w \in Worker : w < workerCount}
    BY <2>1 DEF Pending
  <2> QED BY <2>2, PoolAssumption DEF Worker, Inv, TypeOK
<1>4. remainingWorkerCount' = Cardinality(Pending')
  BY <1>1, <1>3, FS_Interval DEF Dispatch, RemainingAtDispatch, Inv, TypeOK
<1>5. SlotsInv'
  <2>1. workGeneration' <= step'
    BY <1>1 DEF Dispatch, Inv, TypeOK, SlotsInv
  <2>2. \A w \in Worker :
            /\ completedGeneration'[w] <= assignedGeneration'[w]
            /\ w < workerCount' => assignedGeneration'[w] = workGeneration'
    BY DEF Dispatch, Inv, TypeOK, SlotsInv
  <2>3. \A w \in Worker : w \in Pending' => w < workerCount'
    BY <1>3 DEF Dispatch, Inv, TypeOK
  <2>4. caller' = "waiting"
    BY DEF Dispatch
  <2> QED BY <1>4, <2>1, <2>2, <2>3, <2>4 DEF SlotsInv
<1>6. WaitInv'
  <2>1. ~failed' /\ ~workerException'
    BY <1>1 DEF Dispatch, Inv, CallerInv
  <2>2. \A w \in Worker : w < workerCount' => w \in Pending'
    BY <1>3 DEF Dispatch, Worker, Inv, TypeOK
  <2>3. activeNodeCount' = nodeCount' /\ activeWorkerCount' = workerCount' /\ workerCount' > 0
    BY <1>1 DEF Dispatch, publicVars, Inv, TypeOK
  <2> QED BY <2>1, <2>2, <2>3 DEF WaitInv
<1> QED BY <1>2, <1>5, <1>6 DEF Dispatch, publicVars, WorkersInv, Inv, CallerInv, Indices

(* Nobody owes one any more: all ranges are computed, or one failed. *)
LEMMA EndWaitKeeps ==
    ASSUME Inv, EndWait
    PROVE  SlotsInv' /\ WorkersInv' /\ WaitInv' /\ CallerInv'
<1>1. caller = "waiting" /\ remainingWorkerCount = 0
  BY DEF EndWait, WaitIsOver
<1>2. Pending = {}
  BY <1>1, PendingIsFinite DEF Inv, SlotsInv
<1>3. Busy = {}
  BY <1>2 DEF Inv, WorkersInv
<1>4. Pending' = {} /\ Busy' = {}
  BY <1>2, <1>3 DEF EndWait, Pending, Busy, slotVars
<1>5. caller' \in {"ready", "computed"} /\ ~workerException'
  BY DEF EndWait
<1>6. SlotsInv'
  BY <1>2, <1>4, <1>5 DEF EndWait, Inv, SlotsInv, slotVars, dispatchVars
<1>7. ASSUME caller' = "computed"
      PROVE  ~failed /\ \A i \in Indices : computed[i] = step
  <2>1. ~failed
    BY <1>1, <1>3, <1>7 DEF EndWait, Inv, WaitInv
  <2>2. Cut
    BY <1>1 DEF Cut, Inv, TypeOK, WaitInv
  <2> SUFFICES ASSUME NEW i \in Indices PROVE computed[i] = step
    BY <2>1
  <2>3. i \in Nat /\ i \in Node /\ i < activeNodeCount
    BY <1>1, PoolAssumption DEF Indices, Node, Inv, TypeOK, WaitInv
  <2>4. PICK w \in Nat : w < activeWorkerCount /\ RangeStart(w) <= i /\ i < RangeEnd(w)
    BY <2>2, <2>3, RangesCover
  <2>5. w \in Worker /\ w < workerCount
    BY <1>1, <2>4, PoolAssumption DEF Worker, Inv, TypeOK, WaitInv
  <2> QED BY <1>1, <1>2, <2>1, <2>3, <2>4, <2>5 DEF Inv, WaitInv, ComputedUpTo
<1>8. CallerInv'
  BY <1>5, <1>7 DEF EndWait, publicVars, Inv, CallerInv, Indices
<1> QED BY <1>4, <1>5, <1>6, <1>8 DEF WorkersInv, WaitInv

(* Every node gets the result of this step. *)
LEMMA PublishKeeps ==
    ASSUME Inv, Publish
    PROVE  SlotsInv' /\ WorkersInv' /\ WaitInv' /\ CallerInv'
<1>1. SlotsInv' /\ WorkersInv' /\ WaitInv'
  BY CallerSteps DEF Publish, dispatchVars
<1>2. \A i \in Indices' : published'[i] = committedStep'
  BY PoolAssumption DEF Publish, Inv, CallerInv, Indices, Node, TypeOK
<1> QED BY <1>1, <1>2 DEF Publish, Inv, CallerInv

(* The other steps of the caller publish nothing. *)
LEMMA OthersKeep ==
    ASSUME Inv, RejectResults \/ StopWorkers \/ Joined
    PROVE  SlotsInv' /\ WorkersInv' /\ WaitInv' /\ CallerInv'
<1>1. SlotsInv' /\ WorkersInv' /\ WaitInv'
  BY CallerSteps DEF RejectResults, StopWorkers, Joined, dispatchVars, Inv, TypeOK
<1> QED BY <1>1 DEF RejectResults, StopWorkers, Joined, publicVars, Inv, CallerInv, Indices

(* A step of nobody. *)
LEMMA StutterKeeps ==
    ASSUME Inv, UNCHANGED vars
    PROVE  SlotsInv' /\ WorkersInv' /\ WaitInv' /\ CallerInv'
<1> USE DEF vars, publicVars, slotVars, dispatchVars
<1>1. Pending' = Pending /\ Busy' = Busy
  BY DEF Pending, Busy
<1>2. \A w \in Worker : RangeStart(w)' = RangeStart(w) /\ RangeEnd(w)' = RangeEnd(w)
  BY DEF RangeStart, RangeEnd
<1>3. SlotsInv'
  BY <1>1 DEF Inv, SlotsInv
<1>4. WorkersInv'
  BY <1>1, <1>2 DEF Inv, WorkersInv, ComputedUpTo, Busy
<1>5. WaitInv'
  BY <1>1, <1>2 DEF Inv, WaitInv, ComputedUpTo
<1> QED BY <1>3, <1>4, <1>5 DEF Inv, CallerInv, Indices

-----------------------------------------------------------------------------
(* Steps of the workers. *)

(* What a worker leaves alone. *)
LEMMA WorkerFrame ==
    ASSUME UNCHANGED workerFrame
    PROVE  /\ \A w \in Worker : RangeStart(w)' = RangeStart(w) /\ RangeEnd(w)' = RangeEnd(w)
           /\ UNCHANGED <<nodeCount, published, committedStep, caller, workerCount,
                          workGeneration, activeNodeCount, activeWorkerCount, step>>
BY DEF workerFrame, publicVars, dispatchVars, RangeStart, RangeEnd

(* A worker that changes no slot. *)
LEMMA SlotsUntouched ==
    ASSUME Inv, UNCHANGED <<workerFrame, slotVars, remainingWorkerCount>>
    PROVE  SlotsInv' /\ Pending' = Pending
<1>1. Pending' = Pending
  BY DEF Pending, slotVars
<1>2. UNCHANGED <<assignedGeneration, completedGeneration>>
  BY DEF slotVars
<1> QED BY <1>1, <1>2, WorkerFrame DEF Inv, SlotsInv

(* A worker takes the range of the generation it was assigned. *)
LEMMA TakeWorkKeeps ==
    ASSUME Inv, NEW w \in Worker, TakeWork(w)
    PROVE  SlotsInv' /\ WorkersInv' /\ WaitInv' /\ CallerInv'
<1> DEFINE first == RangeStart(w)
           last == RangeEnd(w)
           phase == IF first < last THEN "computing" ELSE "acknowledging"
           taken == [phase |-> phase, generation |-> assignedGeneration[w],
                     next |-> first, last |-> last, error |-> FALSE]
<1>1. SlotsInv' /\ Pending' = Pending
  BY SlotsUntouched DEF TakeWork
<1>2. w \in Pending /\ w \notin Busy
  BY DEF TakeWork, Pending, Busy
<1>3. Cut /\ caller = "waiting" /\ assignedGeneration[w] = workGeneration
  BY <1>2, PendingIsAwaited
<1>4. first \in Nat /\ last \in Nat
  BY <1>2, <1>3, PendingIsAwaited, RangeType
<1>5. /\ worker' = [worker EXCEPT ![w] = taken]
      /\ UNCHANGED <<workerFrame, slotVars, remainingWorkerCount, workerException,
                     computed, failed>>
  BY DEF TakeWork
<1>6. /\ taken.phase = phase /\ taken.generation = workGeneration
      /\ taken.next = first /\ taken.last = last /\ taken.error = FALSE
  BY <1>3
<1>7. phase \in {"computing", "acknowledging"} /\ (phase = "computing" <=> first < last)
  OBVIOUS
<1> HIDE DEF taken, phase
<1>8. worker'[w] = taken /\ \A u \in Worker \ {w} : worker'[u] = worker[u]
  BY <1>5 DEF Inv, TypeOK
<1>9. Busy' = Busy \cup {w}
  BY <1>6, <1>7, <1>8 DEF Busy
<1>10. WorkersInv'
  <2> SUFFICES ASSUME NEW u \in Busy'
               PROVE  /\ u \in Pending'
                      /\ worker'[u].generation = workGeneration'
                      /\ worker'[u].last = RangeEnd(u)'
                      /\ RangeStart(u)' <= worker'[u].next
                      /\ worker'[u].phase = "computing" => worker'[u].next < worker'[u].last
                      /\ worker'[u].error => failed'
                      /\ ~worker'[u].error => ComputedUpTo(u, worker[u].next)'
                      /\ worker'[u].phase = "acknowledging" /\ ~worker'[u].error
                             => worker'[u].last <= worker'[u].next
    BY DEF WorkersInv
  <2>1. u \in Worker
    BY DEF Busy
  <2>2. CASE u = w
    <3>1. ComputedUpTo(w, worker[w].next)'
      BY <1>4, <1>5, <1>6, <1>8, WorkerFrame DEF ComputedUpTo, Node
    <3> QED BY <1>1, <1>2, <1>4, <1>5, <1>6, <1>7, <1>8, <2>2, <3>1, WorkerFrame
  <2>3. CASE u # w
    <3>1. u \in Busy /\ worker'[u] = worker[u]
      BY <1>8, <1>9, <2>1, <2>3
    <3> QED BY <1>1, <1>5, <2>1, <3>1, WorkerFrame DEF Inv, WorkersInv, ComputedUpTo
  <2> QED BY <2>2, <2>3
<1>11. WaitInv'
  <2>1. (\E u \in Busy : worker[u].error) => \E u \in Busy' : worker'[u].error
    BY <1>2, <1>8, <1>9 DEF Busy
  <2> QED BY <1>1, <1>5, <2>1, WorkerFrame DEF Inv, WaitInv, ComputedUpTo
<1> QED BY <1>1, <1>5, <1>10, <1>11, WorkerFrame DEF Inv, CallerInv, Indices

(* A worker goes on in its range: the rest of the invariant follows from    *)
(* what is said of that worker.                                             *)
LEMMA OneWorkerGoesOn ==
    ASSUME Inv, NEW w \in Busy,
           UNCHANGED <<workerFrame, slotVars, remainingWorkerCount, workerException>>,
           NEW r, worker' = [worker EXCEPT ![w] = r],
           r.phase \in {"computing", "acknowledging"},
           r.generation = worker[w].generation,
           r.last = worker[w].last,
           RangeStart(w) <= r.next,
           r.phase = "computing" => r.next < r.last,
           r.error => failed',
           r.phase = "acknowledging" /\ ~r.error => r.last <= r.next,
           ~r.error => \A i \in Node : RangeStart(w) <= i /\ i < r.next => computed'[i] = step,
           \A i \in Node : computed'[i] \in {computed[i], step},
           failed => failed' /\ (worker[w].error => r.error),
           failed' => failed \/ r.error
    PROVE  SlotsInv' /\ WorkersInv' /\ WaitInv' /\ CallerInv'
<1>1. SlotsInv' /\ Pending' = Pending
  BY SlotsUntouched
<1>2. w \in Worker /\ w \in Pending /\ caller = "waiting"
  BY PendingIsAwaited DEF Busy, Inv, WorkersInv
<1>3. worker'[w] = r /\ \A u \in Worker \ {w} : worker'[u] = worker[u]
  BY <1>2 DEF Inv, TypeOK
<1>4. Busy' = Busy
  BY <1>2, <1>3 DEF Busy
<1>5. WorkersInv'
  <2> SUFFICES ASSUME NEW u \in Busy'
               PROVE  /\ u \in Pending'
                      /\ worker'[u].generation = workGeneration'
                      /\ worker'[u].last = RangeEnd(u)'
                      /\ RangeStart(u)' <= worker'[u].next
                      /\ worker'[u].phase = "computing" => worker'[u].next < worker'[u].last
                      /\ worker'[u].error => failed'
                      /\ ~worker'[u].error => ComputedUpTo(u, worker[u].next)'
                      /\ worker'[u].phase = "acknowledging" /\ ~worker'[u].error
                             => worker'[u].last <= worker'[u].next
    BY DEF WorkersInv
  <2>1. u \in Worker
    BY DEF Busy
  <2>2. CASE u = w
    <3>1. ~r.error => ComputedUpTo(w, worker[w].next)'
      BY <1>2, <1>3, WorkerFrame DEF ComputedUpTo
    <3> QED BY <1>1, <1>2, <1>3, <2>2, <3>1, WorkerFrame DEF Inv, WorkersInv
  <2>3. CASE u # w
    <3>1. u \in Busy /\ worker'[u] = worker[u]
      BY <1>3, <1>4, <2>1, <2>3
    <3> QED BY <1>1, <2>1, <3>1, WorkerFrame DEF Inv, WorkersInv, ComputedUpTo
  <2> QED BY <2>2, <2>3
<1>6. WaitInv'
  <2>1. failed' => workerException' \/ \E u \in Busy' : worker'[u].error
    BY <1>2, <1>3, <1>4 DEF Inv, WaitInv, Busy
  <2>2. ~failed' => \A u \in Worker \ Pending' :
                        u < workerCount' => ComputedUpTo(u, RangeEnd(u))'
    BY <1>1, <1>2, WorkerFrame DEF Inv, WaitInv, ComputedUpTo
  <2> QED BY <1>2, <2>1, <2>2, WorkerFrame DEF Inv, WaitInv
<1> QED BY <1>1, <1>2, <1>5, <1>6, WorkerFrame DEF Inv, CallerInv, Indices

(* One more node of its range is computed. *)
LEMMA ComputeNodeKeeps ==
    ASSUME Inv, NEW w \in Worker, ComputeNode(w)
    PROVE  SlotsInv' /\ WorkersInv' /\ WaitInv' /\ CallerInv'
<1> DEFINE i == worker[w].next
           last == worker[w].last
           r == Advanced(w, IF i + 1 < last THEN "computing" ELSE "acknowledging",
                         i + 1, worker[w].error)
<1>1. w \in Busy /\ worker[w].phase = "computing"
  BY DEF ComputeNode, Busy
<1>2. w \in Pending /\ RangeStart(w) <= i /\ i < last /\ i \in Nat /\ last \in Nat
  BY <1>1 DEF Inv, TypeOK, WorkersInv, WorkerState
<1>3. /\ worker' = [worker EXCEPT ![w] = r]
      /\ computed' = [computed EXCEPT ![i] = step]
      /\ UNCHANGED <<workerFrame, slotVars, remainingWorkerCount, workerException, failed>>
  BY DEF ComputeNode
<1>4. /\ r.phase = (IF i + 1 < last THEN "computing" ELSE "acknowledging")
      /\ r.generation = worker[w].generation
      /\ r.last = last /\ r.next = i + 1 /\ r.error = worker[w].error
  BY DEF Advanced
<1>5. \A j \in Node : computed'[j] = IF j = i THEN step ELSE computed[j]
  BY <1>3 DEF Inv, TypeOK
<1>6. RangeStart(w) \in Nat
  BY <1>2, PendingIsAwaited, RangeType
<1>7. last = worker[w].last /\ worker[w].error \in BOOLEAN
  BY DEF Inv, TypeOK, WorkerState
<1> HIDE DEF r, last
<1>8. /\ r.phase \in {"computing", "acknowledging"}
      /\ RangeStart(w) <= r.next
      /\ r.phase = "computing" => r.next < r.last
      /\ r.phase = "acknowledging" => r.last <= r.next
  BY <1>2, <1>4, <1>6
<1>9. r.error => failed'
  BY <1>1, <1>3, <1>4 DEF Inv, WorkersInv
<1>10. ~r.error => \A j \in Node : RangeStart(w) <= j /\ j < r.next => computed'[j] = step
  <2> SUFFICES ASSUME ~r.error, NEW j \in Node, RangeStart(w) <= j, j < r.next
               PROVE  computed'[j] = step
    OBVIOUS
  <2>1. j < i \/ j = i
    BY <1>2, <1>4 DEF Node
  <2>2. ComputedUpTo(w, i)
    BY <1>1, <1>4 DEF Inv, WorkersInv
  <2> QED BY <1>5, <2>1, <2>2 DEF ComputedUpTo
<1>11. \A j \in Node : computed'[j] \in {computed[j], step}
  BY <1>5
<1> QED BY <1>1, <1>3, <1>4, <1>7, <1>8, <1>9, <1>10, <1>11, OneWorkerGoesOn

(* The rest of the range is left, and the worker remembers why. *)
LEMMA ComputationThrowsKeeps ==
    ASSUME Inv, NEW w \in Worker, ComputationThrows(w)
    PROVE  SlotsInv' /\ WorkersInv' /\ WaitInv' /\ CallerInv'
<1> DEFINE r == Advanced(w, "acknowledging", worker[w].next, TRUE)
<1>1. w \in Busy
  BY DEF ComputationThrows, Busy
<1>2. /\ worker' = [worker EXCEPT ![w] = r]
      /\ failed' = TRUE
      /\ UNCHANGED <<workerFrame, slotVars, remainingWorkerCount, workerException, computed>>
  BY DEF ComputationThrows
<1>3. /\ r.phase = "acknowledging" /\ r.generation = worker[w].generation
      /\ r.last = worker[w].last /\ r.next = worker[w].next /\ r.error = TRUE
  BY DEF Advanced
<1>4. RangeStart(w) <= r.next
  BY <1>1, <1>3 DEF Inv, WorkersInv
<1> HIDE DEF r
<1> QED BY <1>1, <1>2, <1>3, <1>4, OneWorkerGoesOn

(* The acknowledgement counts, once, and hands over the exception. *)
LEMMA AcknowledgeKeeps ==
    ASSUME Inv, NEW w \in Worker, Acknowledge(w)
    PROVE  SlotsInv' /\ WorkersInv' /\ WaitInv' /\ CallerInv'
<1>1. w \in Busy /\ worker[w].phase = "acknowledging"
  BY DEF Acknowledge, Busy
<1>2. /\ w \in Pending /\ worker[w].generation = workGeneration
      /\ worker[w].last = RangeEnd(w)
      /\ worker[w].error => failed
      /\ ~worker[w].error => worker[w].last <= worker[w].next /\ ComputedUpTo(w, worker[w].next)
  BY <1>1 DEF Inv, WorkersInv
<1>3. /\ caller = "waiting" /\ Cut /\ assignedGeneration[w] = workGeneration
      /\ w < activeWorkerCount /\ RangeEnd(w) \in Nat
  BY <1>2, PendingIsAwaited, RangeType DEF Cut
<1>4. remainingWorkerCount # 0
  BY <1>2, PendingIsFinite DEF Inv, SlotsInv
<1>5. Acknowledges(w)
  BY <1>2, <1>3, <1>4 DEF Acknowledges, Pending
<1>6. /\ completedGeneration' = [completedGeneration EXCEPT ![w] = workGeneration]
      /\ remainingWorkerCount' = remainingWorkerCount - 1
      /\ worker' = [worker EXCEPT ![w] = Idle("waiting")]
      /\ workerException' = (workerException \/ worker[w].error)
      /\ UNCHANGED <<workerFrame, assignedGeneration, computed, failed>>
  BY <1>2, <1>5 DEF Acknowledge, ExceptionAfter
<1>7. Pending' = Pending \ {w}
  BY <1>3, <1>6 DEF Pending, Inv, TypeOK
<1>8. Busy' = Busy \ {w}
  BY <1>6 DEF Busy, Idle, Inv, TypeOK
<1>9. \A u \in Busy' : worker'[u] = worker[u]
  BY <1>6, <1>8 DEF Busy, Inv, TypeOK
<1>10. SlotsInv'
  <2>1. remainingWorkerCount' = Cardinality(Pending')
    BY <1>2, <1>6, <1>7, PendingIsFinite, FS_RemoveElement DEF Inv, SlotsInv
  <2>2. \A u \in Worker : completedGeneration'[u] <= assignedGeneration'[u]
    BY <1>3, <1>6 DEF Inv, SlotsInv, TypeOK
  <2> QED BY <1>3, <1>6, <1>7, <2>1, <2>2, WorkerFrame DEF Inv, SlotsInv
<1>11. WorkersInv'
  BY <1>6, <1>7, <1>8, <1>9, WorkerFrame DEF Inv, WorkersInv, ComputedUpTo, Busy
<1>12. WaitInv'
  <2>1. workerException' => failed'
    BY <1>2, <1>3, <1>6 DEF Inv, WaitInv
  <2>2. failed' => workerException' \/ \E u \in Busy' : worker'[u].error
    BY <1>3, <1>6, <1>8, <1>9 DEF Inv, WaitInv
  <2>3. ASSUME ~failed', NEW u \in Worker \ Pending', u < workerCount'
        PROVE  ComputedUpTo(u, RangeEnd(u))'
    <3>1. CASE u = w
      <4>1. worker[w].next \in Nat /\ ~worker[w].error
        BY <1>2, <1>6, <2>3 DEF Inv, TypeOK, WorkerState
      <4>2. ComputedUpTo(w, RangeEnd(w))
        BY <1>2, <1>3, <4>1 DEF ComputedUpTo, Node
      <4> QED BY <1>6, <3>1, <4>2, WorkerFrame DEF ComputedUpTo
    <3>2. CASE u # w
      <4>1. u \in Worker \ Pending /\ u < workerCount /\ ~failed
        BY <1>6, <1>7, <2>3, <3>2, WorkerFrame
      <4>2. ComputedUpTo(u, RangeEnd(u))
        BY <1>3, <4>1 DEF Inv, WaitInv
      <4> QED BY <1>6, <4>1, <4>2, WorkerFrame DEF ComputedUpTo
    <3> QED BY <3>1, <3>2
  <2>4. activeNodeCount' = nodeCount' /\ activeWorkerCount' = workerCount' /\ workerCount' > 0
    BY <1>3, <1>6, WorkerFrame DEF Inv, WaitInv
  <2> QED BY <2>1, <2>2, <2>3, <2>4 DEF WaitInv
<1> QED BY <1>3, <1>6, <1>10, <1>11, <1>12, WorkerFrame DEF Inv, CallerInv, Indices

(* A thread that owes nothing ends. *)
LEMMA ReturnKeeps ==
    ASSUME Inv, NEW w \in Worker, Return(w)
    PROVE  SlotsInv' /\ WorkersInv' /\ WaitInv' /\ CallerInv'
<1>1. SlotsInv' /\ Pending' = Pending
  BY SlotsUntouched DEF Return
<1>2. /\ worker' = [worker EXCEPT ![w] = Idle("returned")]
      /\ w \notin Busy
      /\ UNCHANGED <<workerFrame, slotVars, remainingWorkerCount, workerException,
                     computed, failed>>
  BY DEF Return, Busy
<1>3. Busy' = Busy /\ \A u \in Busy : worker'[u] = worker[u]
  BY <1>2 DEF Busy, Idle, Inv, TypeOK
<1>4. WorkersInv'
  BY <1>1, <1>2, <1>3, WorkerFrame DEF Inv, WorkersInv, ComputedUpTo, Busy
<1>5. WaitInv'
  BY <1>1, <1>2, <1>3, WorkerFrame DEF Inv, WaitInv, ComputedUpTo
<1> QED BY <1>1, <1>2, <1>4, <1>5, WorkerFrame DEF Inv, CallerInv, Indices

-----------------------------------------------------------------------------
(* The invariant holds in every reachable state. *)
THEOREM InvHolds == Spec => []Inv
<1>1. ASSUME Inv, [Next]_vars PROVE Inv'
  <2>1. TypeOK'
    BY <1>1, StepTyped
  <2>2. SlotsInv' /\ WorkersInv' /\ WaitInv' /\ CallerInv'
    BY <1>1, AddNodeKeeps, BeginStepKeeps, ComputeAloneKeeps, DispatchKeeps, EndWaitKeeps,
       PublishKeeps, OthersKeep, StutterKeeps, TakeWorkKeeps, ComputeNodeKeeps,
       ComputationThrowsKeeps, AcknowledgeKeeps, ReturnKeeps
       DEF Next, CallerContinues, WorkerStep
  <2> QED BY <2>1, <2>2 DEF Inv
<1> QED BY <1>1, InitInv, PTL DEF Spec

(* The types of the state. *)
THEOREM TypeCorrect == Spec => []TypeOK
<1>1. Inv => TypeOK
  BY DEF Inv
<1> QED BY <1>1, InvHolds, PTL

(* No worker is in its computation unless a step waits for it, however many *)
(* there are and whatever they throw.                                       *)
THEOREM NoStraggler == Spec => []WorkersOnlyDuringWait
<1>1. Inv => WorkersOnlyDuringWait
  BY NobodyBusy DEF WorkersOnlyDuringWait
<1> QED BY <1>1, InvHolds, PTL

(* Between two calls every node is in the state of the last step that was   *)
(* published, or newer.                                                     *)
THEOREM AtomicSteps == Spec => []StepsAreAtomic
<1>1. Inv => StepsAreAtomic
  BY DEF Inv, CallerInv, Indices, StepsAreAtomic
<1> QED BY <1>1, InvHolds, PTL

(* Two workers never have a node in common, for any number of either.       *)
THEOREM NodesDivided == Spec => []RangesAreDisjoint
<1>1. ASSUME Inv PROVE RangesAreDisjoint
  <2> SUFFICES ASSUME NEW u \in Busy, NEW v \in Busy
               PROVE  /\ worker[u].last <= nodeCount
                      /\ u # v => worker[u].next .. worker[u].last - 1 \cap
                                  worker[v].next .. worker[v].last - 1 = {}
    BY DEF RangesAreDisjoint
  <2>1. Cut /\ caller = "waiting" /\ activeNodeCount = nodeCount
    BY <1>1, PendingIsAwaited DEF Inv, WorkersInv, WaitInv
  <2>2. ASSUME NEW w \in Busy
        PROVE  /\ w \in Nat /\ w + 1 <= activeWorkerCount
               /\ worker[w].last = RangeStart(w + 1) /\ worker[w].last \in Nat
               /\ RangeStart(w) \in Nat /\ RangeStart(w) <= worker[w].next
               /\ worker[w].next \in Nat
    <3>1. w \in Pending /\ w \in Worker
      BY <1>1 DEF Inv, WorkersInv, Busy
    <3>2. w \in Nat /\ w + 1 <= activeWorkerCount
      BY <1>1, <3>1, PendingIsAwaited
    <3>3. RangeStart(w) \in Nat
      BY <2>1, <3>2, RangeType
    <3> QED BY <1>1, <3>1, <3>2, <3>3 DEF Inv, TypeOK, WorkerState, WorkersInv, RangeEnd
  <2>3. worker[u].last <= nodeCount
    <3>1. u + 1 \in Nat /\ u + 1 <= activeWorkerCount /\ activeWorkerCount \in Nat
      BY <2>1, <2>2 DEF Cut
    <3>2. RangeStart(u + 1) <= RangeStart(activeWorkerCount)
      BY <2>1, <3>1, RangesOrdered
    <3> QED BY <2>1, <2>2, <3>2, LastRangeEnds
  <2>4. ASSUME NEW x \in Busy, NEW y \in Busy, x < y
        PROVE  worker[x].last <= worker[y].next
    <3>1. x + 1 \in Nat /\ y \in Nat /\ x + 1 <= y
      BY <2>2, <2>4
    <3>2. RangeStart(x + 1) <= RangeStart(y)
      BY <2>1, <3>1, RangesOrdered
    <3> QED BY <2>2, <3>2
  <2>5. CASE u < v
    BY <2>2, <2>3, <2>4, <2>5
  <2>6. CASE v < u
    BY <2>2, <2>3, <2>4, <2>6
  <2>7. u < v \/ v < u \/ u = v
    BY <2>2
  <2> QED BY <2>3, <2>5, <2>6, <2>7
<1> QED BY <1>1, InvHolds, PTL

(* A step of which a computation threw changes no state of a node.          *)
THEOREM FailuresPublishNothing == Spec => FailedStepsPublishNothing
<1>1. ASSUME Inv, [Next]_vars
      PROVE  published' # published /\ nodeCount' = nodeCount => ~failed
  <2> SUFFICES ASSUME published' # published, nodeCount' = nodeCount PROVE ~failed
    OBVIOUS
  <2>1. CASE Publish
    BY <1>1, <2>1 DEF Publish, Inv, CallerInv
  <2>2. ~AddNode
    BY <1>1 DEF AddNode, Inv, TypeOK
  <2>3. Publish
    BY <1>1, <2>2 DEF Next, CallerContinues, WorkerStep, vars, publicVars, workerFrame,
       StopWorkers, BeginStep, ComputeAlone, Dispatch, EndWait, RejectResults, Joined,
       TakeWork, ComputeNode, ComputationThrows, Acknowledge, Return
  <2> QED BY <2>1, <2>3
<1>2. Inv /\ [Next]_vars
          => [published' # published /\ nodeCount' = nodeCount => ~failed]_vars
  BY <1>1
<1> QED BY <1>2, InvHolds, PTL DEF Spec, FailedStepsPublishNothing
=============================================================================
