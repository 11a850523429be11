----------------------- MODULE EvaluationBindingProofs -----------------------
(***************************************************************************)
(* Proofs about EvaluationBinding, for every finite number of evaluators:  *)
(* the safety of the drain, and that the binding implements ReaderGate.    *)
(***************************************************************************)
EXTENDS EvaluationBinding, FiniteSetTheorems, TLAPS

-----------------------------------------------------------------------------
(* The readers are finitely many, and none of them when their number is 0. *)
LEMMA ReadersAreFinite ==
    /\ IsFiniteSet(Readers)
    /\ Cardinality(Readers) \in Nat
    /\ Cardinality(Readers) = 0 <=> Readers = {}
<1>1. Readers \in SUBSET Evaluator
      BY DEF Readers
<1>2. IsFiniteSet(Readers)
      BY <1>1, EvaluatorAssumption, FS_Subset
<1>3. Cardinality(Readers) \in Nat
      BY <1>2, FS_CardinalityType
<1>4. Cardinality(Readers) = 0 <=> Readers = {}
      BY <1>2, FS_EmptySet
<1> QED
    BY <1>2, <1>3, <1>4

(* The type invariant and the inductive invariant hold initially. *)
LEMMA InitInv == Init => TypeOK /\ Inv
<1> SUFFICES ASSUME Init PROVE TypeOK /\ Inv
    OBVIOUS
<1>1. TypeOK
      BY DEF Init, TypeOK, Evaluation, Owner
<1>2. Readers = {}
      BY DEF Init, Readers
<1>3. LeasesCounted
      BY <1>2, ReadersAreFinite DEF Init, LeasesCounted
<1> QED
    BY <1>1, <1>2, <1>3 DEF Init, Inv, Drained, SleeperHasWaker

(* Every step keeps the types. *)
LEMMA NextType == TypeOK /\ [Next]_vars => TypeOK'
<1> SUFFICES ASSUME TypeOK, [Next]_vars PROVE TypeOK'
    OBVIOUS
<1> USE DEF TypeOK, Evaluation, Owner
<1>1. ASSUME NEW t \in Evaluator, Acquire(t) PROVE TypeOK'
      BY <1>1 DEF Acquire
<1>2. ASSUME NEW t \in Evaluator, Release(t) PROVE TypeOK'
      BY <1>2 DEF Release, Decrement, OwnerAfterRelease
<1>3. ASSUME NEW t \in Evaluator, Drop(t) PROVE TypeOK'
      BY <1>3 DEF Drop
<1>4. CASE Invalidate
      BY <1>4 DEF Invalidate, WaitOrPass
<1>5. CASE SpuriousWakeup
      BY <1>5 DEF SpuriousWakeup
<1>6. CASE OwnerStep
      BY <1>6 DEF OwnerStep, Recheck, WorkersStopped, DestroyMembers, WaitOrPass
<1>7. CASE UNCHANGED vars
      BY <1>7 DEF vars
<1> QED
    BY <1>1, <1>2, <1>3, <1>4, <1>5, <1>6, <1>7 DEF Next, EvaluatorStep

(* A lease adds one reader and one to the counter. *)
LEMMA AcquireInv ==
    ASSUME TypeOK, Inv, NEW t \in Evaluator, Acquire(t)
    PROVE  Inv'
<1>1. Readers' = Readers \cup {t} /\ t \notin Readers
      BY DEF TypeOK, Acquire, Readers
<1>2. Cardinality(Readers') = Cardinality(Readers) + 1
      BY <1>1, ReadersAreFinite, FS_AddElement
<1>3. LeasesCounted'
      BY <1>2 DEF Inv, LeasesCounted, Acquire
<1>4. owner' = owner /\ acceptingLeases /\ acceptingLeases' = acceptingLeases
      /\ backendBound' = backendBound
      BY DEF Acquire, Refuses, TypeOK
<1> QED
    BY <1>3, <1>4 DEF Inv, SleeperHasWaker, Drained

(* A release takes one reader and one from the counter, and the last one    *)
(* wakes the destructor.                                                    *)
LEMMA ReleaseInv ==
    ASSUME TypeOK, Inv, NEW t \in Evaluator, Release(t)
    PROVE  Inv'
<1>1. Readers' = Readers \ {t} /\ t \in Readers
      BY DEF TypeOK, Release, Readers
<1>2. Cardinality(Readers') = Cardinality(Readers) - 1
      BY <1>1, ReadersAreFinite, FS_RemoveElement
<1>3. activeLeases > 0
      BY <1>1, ReadersAreFinite DEF Inv, LeasesCounted
<1>4. LeasesCounted'
      BY <1>2, <1>3 DEF Inv, LeasesCounted, Release, Decrement
<1>5. Readers' = {} <=> activeLeases' = 0
  <2>1. IsFiniteSet(Readers')
        BY <1>1, ReadersAreFinite, FS_RemoveElement
  <2> QED
      BY <2>1, <1>4, FS_EmptySet DEF LeasesCounted
<1>6. /\ acceptingLeases' = acceptingLeases
      /\ backendBound' = backendBound
      /\ owner' = OwnerAfterRelease(activeLeases')
      BY DEF Release
<1>7. owner \notin Drained
      BY <1>1 DEF Inv
<1>8. SleeperHasWaker'
      BY <1>5, <1>6 DEF Inv, SleeperHasWaker, OwnerAfterRelease
<1> QED
    BY <1>4, <1>6, <1>7, <1>8 DEF Inv, OwnerAfterRelease, Drained

(* The destructor passes its drain only when there is no reader, and goes   *)
(* to sleep only when there is one.                                         *)
LEMMA OwnerInv ==
    ASSUME TypeOK, Inv, Invalidate \/ SpuriousWakeup \/ OwnerStep
    PROVE  Inv'
<1>1. evaluation' = evaluation /\ activeLeases' = activeLeases
      BY DEF Invalidate, SpuriousWakeup, OwnerStep, Recheck, WorkersStopped, DestroyMembers
<1>2. Readers' = Readers
      BY <1>1 DEF Readers
<1>3. LeasesCounted'
      BY <1>1, <1>2 DEF Inv, LeasesCounted
<1>4. NoLeases <=> Readers = {}
      BY ReadersAreFinite DEF Inv, LeasesCounted, NoLeases
<1>5. CASE Invalidate
      BY <1>2, <1>3, <1>4, <1>5 DEF Inv, Invalidate, WaitOrPass, SleeperHasWaker, Drained
<1>6. CASE SpuriousWakeup
      BY <1>2, <1>3, <1>6 DEF Inv, SpuriousWakeup, SleeperHasWaker, Drained
<1>7. CASE Recheck
      BY <1>2, <1>3, <1>4, <1>7 DEF Inv, Recheck, WaitOrPass, SleeperHasWaker, Drained
<1>8. CASE WorkersStopped
      BY <1>2, <1>3, <1>8 DEF Inv, WorkersStopped, SleeperHasWaker, Drained
<1>9. CASE DestroyMembers
      BY <1>2, <1>3, <1>4, <1>9 DEF Inv, DestroyMembers, WaitOrPass, SleeperHasWaker, Drained
<1> QED
    BY <1>5, <1>6, <1>7, <1>8, <1>9 DEF OwnerStep

(* Every step keeps the inductive invariant. *)
LEMMA NextInv == TypeOK /\ Inv /\ [Next]_vars => Inv'
<1> SUFFICES ASSUME TypeOK, Inv, [Next]_vars PROVE Inv'
    OBVIOUS
<1>1. ASSUME NEW t \in Evaluator, Drop(t) PROVE Inv'
  <2>1. Readers' = Readers
        BY <1>1 DEF TypeOK, Drop, Readers
  <2> QED
      BY <1>1, <2>1 DEF Inv, Drop, LeasesCounted, SleeperHasWaker
<1>2. CASE UNCHANGED vars
  <2>1. Readers' = Readers
        BY <1>2 DEF vars, Readers
  <2> QED
      BY <1>2, <2>1 DEF Inv, vars, LeasesCounted, SleeperHasWaker
<1> QED
    BY <1>1, <1>2, AcquireInv, ReleaseInv, OwnerInv DEF Next, EvaluatorStep

(* The types and the inductive invariant hold in every behaviour. *)
THEOREM InvHolds == Spec => [](TypeOK /\ Inv)
<1>1. TypeOK /\ Inv /\ [Next]_vars => (TypeOK /\ Inv)'
      BY NextType, NextInv
<1> QED
    BY <1>1, InitInv, PTL DEF Spec

(* However many evaluators race the destructor, the mesh has no reader and  *)
(* gives out no lease once its drain is over.                               *)
THEOREM DrainIsSafe == Spec => []NoReaderOutlivesDrain
<1>1. Inv => NoReaderOutlivesDrain
      BY DEF Inv, NoReaderOutlivesDrain, Refuses, Drained
<1> QED
    BY <1>1, InvHolds, PTL

(* The counter is the number of leases, so the guard of the decrement never *)
(* hides one.                                                               *)
THEOREM CounterIsExact == Spec => []LeasesCounted
<1>1. Inv => LeasesCounted
      BY DEF Inv
<1> QED
    BY <1>1, InvHolds, PTL

(* The destructor sleeps only while some evaluator is left to wake it. *)
THEOREM NoLostWakeup == Spec => []SleeperHasWaker
<1>1. Inv => SleeperHasWaker
      BY DEF Inv
<1> QED
    BY <1>1, InvHolds, PTL

(* No evaluator starts to read once the binding is invalidated. *)
THEOREM NobodyEntersLate == Spec => NoLeaseAfterInvalidation
<1> DEFINE A == \A t \in Evaluator :
                    ~acceptingLeases /\ evaluation[t] # "reading" => evaluation'[t] # "reading"
<1>1. TypeOK /\ [Next]_vars => [A]_vars
  <2> SUFFICES ASSUME TypeOK, Next, NEW t \in Evaluator,
                      ~acceptingLeases, evaluation[t] # "reading"
               PROVE  evaluation'[t] # "reading"
      OBVIOUS
  <2> QED
      BY DEF TypeOK, Next, EvaluatorStep, OwnerStep, Acquire, Refuses, Release, Drop, Invalidate,
             SpuriousWakeup, Recheck, WorkersStopped, DestroyMembers
<1> QED
    BY <1>1, InvHolds, PTL DEF Spec, NoLeaseAfterInvalidation

-----------------------------------------------------------------------------
(* Refinement. *)

(* Every step of the binding is a step of the gate or changes nothing of it. *)
LEMMA GateStep == TypeOK /\ Inv /\ Inv' /\ [Next]_vars => [Gate!Next]_Gate!vars
<1> SUFFICES ASSUME TypeOK, Inv, Inv', [Next]_vars PROVE [Gate!Next]_Gate!vars
    OBVIOUS
<1> USE DEF Gate!Next, Gate!vars
<1>1. ASSUME NEW t \in Evaluator, Acquire(t) PROVE Gate!Enter(t)
  <2>1. Readers' = Readers \cup {t} /\ t \notin Readers
        BY <1>1 DEF TypeOK, Acquire, Readers
  <2> QED
      BY <1>1, <2>1 DEF Acquire, Refuses, Gate!Enter
<1>2. ASSUME NEW t \in Evaluator, Release(t) PROVE Gate!Leave(t)
  <2>1. Readers' = Readers \ {t} /\ t \in Readers
        BY <1>2 DEF TypeOK, Release, Readers
  <2> QED
      BY <1>2, <2>1 DEF Release, Gate!Leave
<1>3. ASSUME NEW t \in Evaluator, Drop(t) PROVE UNCHANGED Gate!vars
  <2>1. Readers' = Readers
        BY <1>3 DEF TypeOK, Drop, Readers
  <2> QED
      BY <1>3, <2>1 DEF Drop
<1>4. ASSUME evaluation' = evaluation PROVE Readers' = Readers
      BY <1>4 DEF Readers
<1>5. NoLeases <=> Readers = {}
      BY ReadersAreFinite DEF Inv, LeasesCounted, NoLeases
<1>6. CASE Invalidate
  <2>1. Gate!BeginClosing
        BY <1>4, <1>5, <1>6 DEF Invalidate, WaitOrPass, Inv, Drained, Gate!BeginClosing
  <2> QED
      BY <2>1
<1>7. CASE SpuriousWakeup
      BY <1>4, <1>7 DEF SpuriousWakeup
<1>8. CASE Recheck
  <2>1. Gate!Close \/ UNCHANGED Gate!vars
        BY <1>4, <1>5, <1>8 DEF Recheck, WaitOrPass, Inv, Drained, Gate!Close
  <2> QED
      BY <2>1
<1>9. CASE WorkersStopped
      BY <1>4, <1>9 DEF WorkersStopped
<1>10. CASE DestroyMembers
       BY <1>4, <1>5, <1>10 DEF DestroyMembers, WaitOrPass, Inv, Drained
<1>11. CASE UNCHANGED vars
       BY <1>4, <1>11 DEF vars
<1> QED
    BY <1>1, <1>2, <1>3, <1>6, <1>7, <1>8, <1>9, <1>10, <1>11
    DEF Next, EvaluatorStep, OwnerStep

(* The counted binding with its condition variable implements the gate. *)
THEOREM BindingImplementsGate == Spec => ImplementsGate
<1>1. Init => Gate!Init
      BY DEF Init, Gate!Init, Readers
<1>2. TypeOK /\ Inv /\ Inv' /\ [Next]_vars => [Gate!Next]_Gate!vars
      BY GateStep
<1> QED
    BY <1>1, <1>2, InvHolds, PTL DEF Spec, ImplementsGate, Gate!Spec
=============================================================================
