---------------------- MODULE ProductionAuthorityProofs ----------------------
(***************************************************************************)
(* Proofs about ProductionAuthority, for every number of meshes, nodes,    *)
(* threads and capabilities; last, that it implements OneUseToken and that *)
(* a refusal is final, both of which follow a capability through the       *)
(* ledger of its mesh.                                                     *)
(***************************************************************************)
EXTENDS AuthorityRefinement, TLAPS

-----------------------------------------------------------------------------
(* Edges and their reverses. *)

(* An edge's reverse is another edge of the same mesh, and its own *)
(* reverse's reverse. *)
LEMMA EdgeFacts ==
    ASSUME NEW e \in Edge
    PROVE  /\ MeshOf(e) \in Mesh
           /\ Reverse(e) \in Edge
           /\ Reverse(e) # e
           /\ MeshOf(Reverse(e)) = MeshOf(e)
           /\ Reverse(Reverse(e)) = e
BY DEF Edge, MeshOf, Reverse

(* The value that stands for no binding is not a binding. *)
LEMMA BindingIsNotNone == NoBinding \notin Binding
BY DEF NoBinding, Binding, Edge

(* The idle derivation has the type of a derivation. *)
LEMMA NoDerivationType == NoDerivation \in Derivation
BY DEF NoDerivation, Derivation, Phase, NoBinding, Check

-----------------------------------------------------------------------------
(* Type correctness. *)

(* A mesh without nodes, bridges or capabilities is of the stated types. *)
LEMMA InitTypeOK == Init => TypeOK
<1> SUFFICES ASSUME Init PROVE TypeOK
    OBVIOUS
<1> USE DEF Init, LifecycleInit
<1>1. LifecycleTypeOK
      BY DEF LifecycleTypeOK
<1>2. bridgeStatus \in [Edge -> Status \cup {"absent"}]
      OBVIOUS
<1>3. ledger \in [Mesh -> [CapabilityId -> LedgerRecord]]
      BY DEF LedgerRecord, LedgerState
<1>4. nextCapabilityId \in 1 .. MaxCapability + 1
      BY AuthorityAssumption
<1>5. capability \in [CapabilityId -> Capability]
      BY DEF Capability
<1>6. /\ derivation \in [Thread -> Derivation]
      /\ \A t \in Thread : derivation[t].phase = "idle" <=> derivation[t].binding = NoBinding
      BY NoDerivationType DEF NoDerivation
<1>7. /\ changedRequest \in [Thread -> SUBSET Change]
      /\ changedCapability \in [CapabilityId -> SUBSET Change]
      /\ effects \subseteq Effect
      /\ answers \in [CapabilityId -> SUBSET Result]
      OBVIOUS
<1> QED
    BY <1>1, <1>2, <1>3, <1>4, <1>5, <1>6, <1>7 DEF TypeOK

(* Touch keeps the types of the two histories it writes. *)
LEMMA TouchType ==
    ASSUME TypeOK, NEW E, NEW c \in Change, Touch(E, c)
    PROVE  /\ changedRequest' \in [Thread -> SUBSET Change]
           /\ changedCapability' \in [CapabilityId -> SUBSET Change]
BY DEF TypeOK, Touch

(* The derivations' part of the type invariant. *)
DerivationsTyped(d) ==
    /\ d \in [Thread -> Derivation]
    /\ \A t \in Thread : d[t].phase = "idle" <=> d[t].binding = NoBinding

(* A derivation that moves to a later check keeps its type. *)
LEMMA GotoType ==
    ASSUME TypeOK, NEW t \in Thread, derivation[t].phase # "idle",
           NEW phase \in Phase \ {"idle"}, NEW passed \in SUBSET Check,
           Goto(t, phase, passed)
    PROVE  DerivationsTyped(derivation')
BY DEF TypeOK, Goto, Derivation, DerivationsTyped

(* Connecting two nodes keeps the types. *)
LEMMA ConnectType ==
    ASSUME TypeOK, NEW e \in Edge, Connect(e)
    PROVE  TypeOK'
<1>1. LifecycleTypeOK'
  <2> USE EdgeFacts DEF TypeOK, LifecycleTypeOK, Connect, ConnectLifecycle, Both
  <2>1. relationshipGeneration' \in [Edge -> Nat]
        OBVIOUS
  <2>2. authorityLineage' \in [Edge -> Nat]
        OBVIOUS
  <2>3. persistenceLineage' \in [Edge -> Nat]
        OBVIOUS
  <2>4. /\ nextRelationshipGeneration' \in [Mesh -> Nat \ {0}]
        /\ nextAuthorityLineage' \in [Mesh -> Nat \ {0}]
        OBVIOUS
  <2> QED
      BY <2>1, <2>2, <2>3, <2>4
<1>2. bridgeStatus' \in [Edge -> Status \cup {"absent"}]
      BY EdgeFacts DEF TypeOK, Connect, Both, Status
<1> QED
    BY <1>1, <1>2, TouchType DEF TypeOK, Connect, authorityVars, Change

(* Pruning keeps the types. *)
LEMMA PruneType ==
    ASSUME TypeOK, NEW m \in Mesh, NEW pruned \in SUBSET Edge, Prune(m, pruned)
    PROVE  TypeOK'
<1>1. LifecycleTypeOK'
      BY DEF TypeOK, LifecycleTypeOK, Prune, DiscardLifecycle
<1>2. bridgeStatus' \in [Edge -> Status \cup {"absent"}]
      BY DEF TypeOK, Prune
<1> QED
    BY <1>1, <1>2, TouchType DEF TypeOK, Prune, authorityVars, Change

(* Publishing the bridges of a simulation step keeps the types. *)
LEMMA SimulationStepType ==
    ASSUME TypeOK, NEW e \in Edge, NEW status \in PublishedStatus, SimulationStep(e, status)
    PROVE  TypeOK'
<1>1. LifecycleTypeOK'
      BY DEF TypeOK, LifecycleTypeOK, SimulationStep, lifecycleVars
<1>2. bridgeStatus' \in [Edge -> Status \cup {"absent"}]
      BY AuthorityAssumption DEF TypeOK, SimulationStep
<1> QED
    BY <1>1, <1>2, TouchType DEF TypeOK, SimulationStep, authorityVars, Change

(* A change of a persistence record keeps the types. *)
LEMMA EvolveType ==
    ASSUME TypeOK, NEW e \in Edge, Evolve(e)
    PROVE  TypeOK'
<1>1. LifecycleTypeOK'
      BY DEF TypeOK, LifecycleTypeOK, Evolve, EvolvePersistence
<1> QED
    BY <1>1 DEF TypeOK, Evolve, authorityVars

(* The steps of a derivation before its policy change only the derivation. *)
LEMMA DerivationFrameType ==
    ASSUME TypeOK, DerivationsTyped(derivation'),
           changedRequest' \in [Thread -> SUBSET Change], UNCHANGED derivationFrame
    PROVE  TypeOK'
BY DEF TypeOK, LifecycleTypeOK, derivationFrame, lifecycleVars, DerivationsTyped

(* Starting a derivation from an eligible decision keeps the types. *)
LEMMA RequestType ==
    ASSUME TypeOK, NEW t \in Thread, NEW e \in Edge, NEW class \in TransitionClass,
           NEW direction \in RequestedDirection, Request(t, e, class, direction)
    PROVE  TypeOK'
<1> DEFINE b == [edge |-> e, generation |-> relationshipGeneration[e],
                 version |-> authorityLineage[e], class |-> class, direction |-> direction]
<1>1. b \in Binding
      BY AuthorityAssumption DEF Binding, TypeOK, LifecycleTypeOK
<1>2. [NoDerivation EXCEPT !.phase = "resolve", !.binding = b] \in Derivation
      BY <1>1, NoDerivationType DEF Derivation, Phase
<1>3. DerivationsTyped(derivation')
      BY <1>1, <1>2, BindingIsNotNone DEF Request, TypeOK, DerivationsTyped, NoDerivation
<1>4. changedRequest' \in [Thread -> SUBSET Change]
      BY DEF Request, TypeOK
<1> QED
    BY <1>3, <1>4, DerivationFrameType DEF Request

(* The steps in which a derivation reads the mesh keep the types. *)
LEMMA ReadStepType ==
    ASSUME TypeOK, NEW t \in Thread,
           \/ Resolve(t) \/ Capture(t) \/ DeriveDirection(t)
           \/ ValidateFreshness(t) \/ Revalidate(t)
    PROVE  TypeOK'
<1>1. derivation[t].passed \in SUBSET Check
      BY DEF TypeOK, Derivation
<1>2. ASSUME NEW phase \in Phase \ {"idle"}, NEW passed \in SUBSET Check,
             derivation[t].phase # "idle", Goto(t, phase, passed)
      PROVE  DerivationsTyped(derivation')
      BY <1>2, GotoType
<1>3. CASE Resolve(t)
  <2>1. DerivationsTyped(derivation')
        BY <1>2, <1>3 DEF Resolve, Phase, Check
  <2> QED
      BY <1>3, <2>1, DerivationFrameType DEF Resolve, TypeOK
<1>4. CASE Capture(t)
  <2> DEFINE r == derivation[t].binding
             phase == IF {"state", "class"} \subseteq CapturedChecks(r)
                      THEN "derive" ELSE "policy"
  <2>1. /\ r \in Binding
        /\ r.edge \in Edge
        BY <1>4 DEF Capture, TypeOK, Derivation, Binding
  <2>2. /\ Snapshot(r.edge) \in [lineage: Nat, persistence: Nat]
        /\ authorityLineage[r.edge] \in Nat
        BY <2>1 DEF Snapshot, TypeOK, LifecycleTypeOK
  <2>3. /\ CapturedChecks(r) \in SUBSET Check
        /\ phase \in Phase \ {"idle"}
        BY DEF CapturedChecks, Check, Phase
  <2>4. ASSUME Current(r.edge, r.generation)
        PROVE  DerivationsTyped(derivation')
    <3> HIDE DEF phase
    <3>1. derivation' = [derivation EXCEPT ![t] =
                   [@ EXCEPT !.snapshot = Snapshot(r.edge), !.epoch = authorityLineage[r.edge],
                             !.passed = CapturedChecks(r), !.phase = phase]]
          BY <1>4, <2>4 DEF Capture, phase
    <3>2. derivation[t].phase # "idle"
          BY <1>4 DEF Capture
    <3> DEFINE d == [derivation[t] EXCEPT
                         !.snapshot = Snapshot(r.edge), !.epoch = authorityLineage[r.edge],
                         !.passed = CapturedChecks(r), !.phase = phase]
    <3>3. d \in Derivation /\ d.phase # "idle" /\ d.binding = derivation[t].binding
      <4>1. derivation[t] \in Derivation
            BY DEF TypeOK
      <4> QED
          BY <2>2, <2>3, <4>1 DEF Derivation
    <3>4. derivation' = [derivation EXCEPT ![t] = d]
          BY <3>1
    <3> HIDE DEF d
    <3> QED
        BY <3>2, <3>3, <3>4 DEF TypeOK, DerivationsTyped
  <2>5. ASSUME ~Current(r.edge, r.generation)
        PROVE  DerivationsTyped(derivation')
    <3>1. Goto(t, "policy", {"binding"}) /\ derivation[t].phase # "idle"
          BY <1>4, <2>5 DEF Capture
    <3> QED
        BY <1>2, <3>1 DEF Phase, Check
  <2> QED
      BY <1>4, <2>4, <2>5, DerivationFrameType DEF Capture, TypeOK
<1>5. CASE DeriveDirection(t)
  <2>1. DerivationsTyped(derivation')
        BY <1>1, <1>2, <1>5 DEF DeriveDirection, Phase, Check
  <2> QED
      BY <1>5, <2>1, DerivationFrameType DEF DeriveDirection, TypeOK
<1>6. CASE ValidateFreshness(t)
  <2>1. DerivationsTyped(derivation')
        BY <1>1, <1>2, <1>6 DEF ValidateFreshness, Phase, Check
  <2> QED
      BY <1>6, <2>1, DerivationFrameType DEF ValidateFreshness, TypeOK
<1>7. CASE Revalidate(t)
  <2>1. DerivationsTyped(derivation')
        BY <1>1, <1>2, <1>7 DEF Revalidate, Phase, Check
  <2> QED
      BY <1>7, <2>1, DerivationFrameType DEF Revalidate, TypeOK
<1> QED
    BY <1>3, <1>4, <1>5, <1>6, <1>7

(* The policy's answer, and drawing a capability id, keep the types. *)
LEMMA EvaluatePolicyType ==
    ASSUME TypeOK, NEW t \in Thread, NEW satisfied \in BOOLEAN, EvaluatePolicy(t, satisfied)
    PROVE  TypeOK'
<1> DEFINE accepted == Rejection(derivation[t].passed, satisfied) = "none"
<1>1. LifecycleTypeOK'
      BY DEF TypeOK, LifecycleTypeOK, EvaluatePolicy, lifecycleVars
<1>2. CASE accepted
  <2>1. DerivationsTyped(derivation')
    <3> DEFINE d == [derivation[t] EXCEPT !.phase = "register", !.id = nextCapabilityId]
    <3>1. d \in Derivation /\ d.phase # "idle" /\ d.binding = derivation[t].binding
      <4>1. derivation[t] \in Derivation /\ nextCapabilityId \in Nat
            BY AuthorityAssumption DEF TypeOK
      <4> QED
          BY <4>1 DEF Derivation, Phase
    <3>2. derivation' = [derivation EXCEPT ![t] = d] /\ derivation[t].phase # "idle"
          BY <1>2 DEF EvaluatePolicy
    <3> HIDE DEF d
    <3> QED
        BY <3>1, <3>2 DEF TypeOK, DerivationsTyped
  <2>2. nextCapabilityId' \in 1 .. MaxCapability + 1
        BY <1>2, AuthorityAssumption DEF EvaluatePolicy, TypeOK
  <2> QED
      BY <1>1, <1>2, <2>1, <2>2 DEF EvaluatePolicy, TypeOK, DerivationsTyped
<1>3. CASE ~accepted
  <2>1. DerivationsTyped(derivation')
    <3>1. derivation' = [derivation EXCEPT ![t] = NoDerivation]
          BY <1>3 DEF EvaluatePolicy
    <3> QED
        BY <3>1, NoDerivationType DEF TypeOK, DerivationsTyped, NoDerivation
  <2> QED
      BY <1>1, <1>3, <2>1 DEF EvaluatePolicy, TypeOK, DerivationsTyped
<1> QED
    BY <1>2, <1>3

(* Registering and returning a capability keeps the types. *)
LEMMA RegisterIssuedType ==
    ASSUME TypeOK, NEW t \in Thread, RegisterIssued(t)
    PROVE  TypeOK'
<1> DEFINE d == derivation[t]
           m == MeshOf(d.binding.edge)
           record == [state |-> "issued", binding |-> d.binding, epoch |-> d.epoch]
<1>1. LifecycleTypeOK'
      BY DEF TypeOK, LifecycleTypeOK, RegisterIssued, lifecycleVars
<1>2. /\ d.binding \in Binding \cup {NoBinding}
      /\ d.epoch \in Nat
      BY DEF TypeOK, Derivation
<1>3. ledger' \in [Mesh -> [CapabilityId -> LedgerRecord]]
  <2>1. record \in LedgerRecord
        BY <1>2 DEF LedgerRecord, LedgerState
  <2>2. ledger' = [ledger EXCEPT ![m] = [ledger[m] EXCEPT ![d.id] = record]]
        BY DEF RegisterIssued
  <2> HIDE DEF record, m, d
  <2> QED
      BY <2>1, <2>2 DEF TypeOK
<1>4. capability' \in [CapabilityId -> Capability]
      BY <1>2 DEF RegisterIssued, TypeOK, Capability
<1>5. DerivationsTyped(derivation')
      BY NoDerivationType DEF RegisterIssued, TypeOK, DerivationsTyped, NoDerivation
<1>6. /\ changedRequest' \in [Thread -> SUBSET Change]
      /\ changedCapability' \in [CapabilityId -> SUBSET Change]
      BY DEF RegisterIssued, TypeOK
<1> QED
    BY <1>1, <1>3, <1>4, <1>5, <1>6 DEF RegisterIssued, TypeOK, DerivationsTyped

(* The answer to a presentation is one of the enumerators. *)
LEMMA CommitResultType ==
    ASSUME NEW m, NEW id PROVE CommitResult(m, id) \in Result
BY DEF CommitResult, Result

(* Changing the state of one record keeps the type of the ledger. *)
LEMMA LedgerStateType ==
    ASSUME TypeOK, NEW m \in Mesh, NEW id \in CapabilityId, NEW state \in LedgerState
    PROVE  [ledger EXCEPT ![m][id].state = state] \in [Mesh -> [CapabilityId -> LedgerRecord]]
BY DEF TypeOK, LedgerRecord

(* A refused commit keeps the types. *)
LEMMA RefuseCommitType ==
    ASSUME TypeOK, NEW m \in Mesh, NEW id \in CapabilityId, RefuseCommit(m, id)
    PROVE  TypeOK'
<1>1. LifecycleTypeOK'
      BY DEF TypeOK, LifecycleTypeOK, RefuseCommit, lifecycleVars
<1>2. ledger' \in [Mesh -> [CapabilityId -> LedgerRecord]]
      BY LedgerStateType DEF RefuseCommit, LedgerAfterRefusal, LedgerState, TypeOK
<1>3. answers' \in [CapabilityId -> SUBSET Result]
      BY CommitResultType DEF RefuseCommit, Answer, TypeOK
<1> QED
    BY <1>1, <1>2, <1>3 DEF RefuseCommit, TypeOK

(* A commit that takes effect keeps the types. *)
LEMMA CommitType ==
    ASSUME TypeOK, NEW m \in Mesh, NEW id \in CapabilityId, Commit(m, id)
    PROVE  TypeOK'
<1> DEFINE b == capability[id].binding
<1>1. /\ b \in Binding
      /\ b.edge \in Edge
      /\ b.version \in Nat
      BY DEF Commit, Held, TypeOK, Capability, Binding
<1>2. LifecycleTypeOK'
      BY <1>1, EdgeFacts DEF TypeOK, LifecycleTypeOK, Commit, AdvanceLineage
<1>3. bridgeStatus' \in [Edge -> Status \cup {"absent"}]
      BY <1>1 DEF TypeOK, Commit, PreparedStatus, Status
<1>4. ledger' \in [Mesh -> [CapabilityId -> LedgerRecord]]
      BY LedgerStateType DEF Commit, LedgerState
<1>5. /\ changedRequest' \in [Thread -> SUBSET Change]
      /\ changedCapability' \in [CapabilityId -> SUBSET Change]
      BY TouchType DEF Commit, Change
<1>6. effects' \subseteq Effect
      BY <1>1 DEF Commit, TypeOK, Effect
<1>7. answers' \in [CapabilityId -> SUBSET Result]
      BY DEF Commit, Answer, TypeOK, Result
<1> QED
    BY <1>2, <1>3, <1>4, <1>5, <1>6, <1>7 DEF Commit, TypeOK

(* Expiring or invalidating a record keeps the types. *)
LEMMA LeaveIssuedType ==
    ASSUME TypeOK, NEW m \in Mesh, NEW id \in CapabilityId,
           NEW terminal \in {"expired", "invalidated"}, LeaveIssued(m, id, terminal)
    PROVE  TypeOK'
<1>1. LifecycleTypeOK'
      BY DEF TypeOK, LifecycleTypeOK, LeaveIssued, lifecycleVars
<1>2. ledger' \in [Mesh -> [CapabilityId -> LedgerRecord]]
      BY LedgerStateType DEF LeaveIssued, LedgerState
<1> QED
    BY <1>1, <1>2 DEF LeaveIssued, TypeOK

(* A step that changes nothing keeps the types. *)
LEMMA StutterType == TypeOK /\ UNCHANGED vars => TypeOK'
BY DEF TypeOK, LifecycleTypeOK, vars, lifecycleVars

(* Every step keeps the types. *)
LEMMA NextType == TypeOK /\ [Next]_vars => TypeOK'
<1> SUFFICES ASSUME TypeOK, [Next]_vars PROVE TypeOK'
    OBVIOUS
<1>1. CASE MeshNext
      BY <1>1, ConnectType, PruneType, SimulationStepType, EvolveType DEF MeshNext
<1>2. CASE DerivationNext
      BY <1>2, RequestType, ReadStepType, EvaluatePolicyType, RegisterIssuedType
      DEF DerivationNext
<1>3. CASE CommitNext
      BY <1>3, CommitType, RefuseCommitType, LeaveIssuedType DEF CommitNext
<1> QED
    BY <1>1, <1>2, <1>3, StutterType DEF Next

(* The type invariant holds in every behaviour of the specification. *)
THEOREM TypeCorrect == Spec => []TypeOK
BY InitTypeOK, NextType, PTL DEF Spec

-----------------------------------------------------------------------------
(* Numbers only move forward. *)

(***************************************************************************)
(* What connect, prune and commit do to the numbers of the edges: an edge  *)
(* outside E keeps them, an edge in E disappears or takes a fresh lineage, *)
(* and no counter goes back.                                               *)
(***************************************************************************)
Moved(E) ==
    /\ \A m \in Mesh : /\ nextRelationshipGeneration'[m] >= nextRelationshipGeneration[m]
                       /\ nextAuthorityLineage'[m] >= nextAuthorityLineage[m]
    /\ \A e \in Edge \ E : /\ relationshipGeneration'[e] = relationshipGeneration[e]
                           /\ authorityLineage'[e] = authorityLineage[e]
    /\ \A e \in E : \/ relationshipGeneration'[e] = 0 /\ authorityLineage'[e] = 0
                    \/ authorityLineage'[e] >= nextAuthorityLineage[MeshOf(e)]

(* Connecting moves the two directions of one pair, to numbers never given *)
(* out. *)
LEMMA ConnectMoves ==
    ASSUME TypeOK, NEW e \in Edge, ConnectLifecycle(e)
    PROVE  Moved(Pair(e))
<1> USE EdgeFacts DEF TypeOK, LifecycleTypeOK, ConnectLifecycle, Both, Pair
<1>1. \A m \in Mesh : /\ nextRelationshipGeneration'[m] >= nextRelationshipGeneration[m]
                     /\ nextAuthorityLineage'[m] >= nextAuthorityLineage[m]
      OBVIOUS
<1>2. \A f \in Edge \ Pair(e) : /\ relationshipGeneration'[f] = relationshipGeneration[f]
                              /\ authorityLineage'[f] = authorityLineage[f]
      OBVIOUS
<1>3. \A f \in Pair(e) : authorityLineage'[f] >= nextAuthorityLineage[MeshOf(f)]
      OBVIOUS
<1> QED
    BY <1>1, <1>2, <1>3 DEF Moved

(* Pruning moves the pruned edges, to no entry at all. *)
LEMMA DiscardMoves ==
    ASSUME TypeOK, NEW pruned \in SUBSET Edge, DiscardLifecycle(pruned)
    PROVE  Moved(pruned)
BY DEF TypeOK, LifecycleTypeOK, DiscardLifecycle, Moved

(* The end of a commit moves the committed edge to a version never given *)
(* out. *)
LEMMA AdvanceMoves ==
    ASSUME TypeOK, NEW e \in Edge, AdvanceLineage(e)
    PROVE  Moved({e})
BY EdgeFacts DEF TypeOK, LifecycleTypeOK, AdvanceLineage, Moved

(* A step that keeps the lifecycle moves no edge. *)
LEMMA KeptMoves ==
    ASSUME TypeOK,
           UNCHANGED <<relationshipGeneration, authorityLineage,
                       nextRelationshipGeneration, nextAuthorityLineage>>
    PROVE  Moved({})
BY DEF TypeOK, LifecycleTypeOK, Moved

(* A number that was given out stays so; a binding that is outdated, or     *)
(* whose edge moves, is outdated afterwards.                                *)
LEMMA MovedBinding ==
    ASSUME TypeOK, TypeOK', NEW E \in SUBSET Edge, Moved(E), NEW b \in Binding, GivenOut(b)
    PROVE  /\ b.generation < nextRelationshipGeneration'[MeshOf(b.edge)]
           /\ b.version < nextAuthorityLineage'[MeshOf(b.edge)]
           /\ Outdated(b) \/ b.edge \in E =>
                  \/ relationshipGeneration'[b.edge] # b.generation
                  \/ authorityLineage'[b.edge] # b.version
<1>1. b.edge \in Edge /\ MeshOf(b.edge) \in Mesh
      BY EdgeFacts DEF Binding
<1>2. /\ b.generation \in Nat /\ b.generation > 0
      /\ b.version \in Nat /\ b.version > 0
      /\ b.generation < nextRelationshipGeneration[MeshOf(b.edge)]
      /\ b.version < nextAuthorityLineage[MeshOf(b.edge)]
      BY <1>1 DEF GivenOut, TypeOK, LifecycleTypeOK, Binding
<1>3. /\ nextRelationshipGeneration[MeshOf(b.edge)] \in Nat
      /\ nextRelationshipGeneration'[MeshOf(b.edge)] \in Nat
      /\ nextAuthorityLineage[MeshOf(b.edge)] \in Nat
      /\ nextAuthorityLineage'[MeshOf(b.edge)] \in Nat
      /\ authorityLineage'[b.edge] \in Nat
      BY <1>1 DEF TypeOK, LifecycleTypeOK
<1>4. CASE b.edge \in E
      BY <1>1, <1>2, <1>3, <1>4 DEF Moved
<1>5. CASE b.edge \notin E
      BY <1>1, <1>2, <1>3, <1>5 DEF Moved, Outdated
<1> QED
    BY <1>4, <1>5

-----------------------------------------------------------------------------
(* The numbers and the bridges. *)

NumbersInv == LifecycleInv /\ VersionsAreUnique /\ BridgeIffRelationship

(* Connecting keeps the numbers of a mesh unique and bridges with their *)
(* entries. *)
LEMMA ConnectNumbers ==
    ASSUME TypeOK, TypeOK', NumbersInv, NEW e \in Edge, Connect(e)
    PROVE  NumbersInv'
<1> DEFINE g == nextRelationshipGeneration[MeshOf(e)]
           v == nextAuthorityLineage[MeshOf(e)]
<1>1. /\ g \in Nat \ {0} /\ v \in Nat \ {0}
      /\ nextRelationshipGeneration'[MeshOf(e)] = g + 2
      /\ nextAuthorityLineage'[MeshOf(e)] = v + 2
      /\ \A m \in Mesh \ {MeshOf(e)} :
            /\ nextRelationshipGeneration'[m] = nextRelationshipGeneration[m]
            /\ nextAuthorityLineage'[m] = nextAuthorityLineage[m]
      BY EdgeFacts DEF TypeOK, LifecycleTypeOK, Connect, ConnectLifecycle
<1>2. /\ relationshipGeneration'[e] = g /\ authorityLineage'[e] = v
      /\ relationshipGeneration'[Reverse(e)] = g + 1 /\ authorityLineage'[Reverse(e)] = v + 1
      /\ bridgeStatus'[e] = "NORMAL" /\ bridgeStatus'[Reverse(e)] = "NORMAL"
      BY EdgeFacts DEF TypeOK, LifecycleTypeOK, Connect, ConnectLifecycle, Both
<1>3. \A f \in Edge \ Pair(e) :
         /\ relationshipGeneration'[f] = relationshipGeneration[f]
         /\ authorityLineage'[f] = authorityLineage[f]
         /\ bridgeStatus'[f] = bridgeStatus[f]
      BY EdgeFacts DEF TypeOK, LifecycleTypeOK, Connect, ConnectLifecycle, Both, Pair
<1>4. \A f \in Edge \ Pair(e) : Reverse(f) \in Edge \ Pair(e)
      BY EdgeFacts DEF Pair
<1>5. \A f \in Edge : /\ relationshipGeneration[f] \in Nat
                     /\ authorityLineage[f] \in Nat
                     /\ MeshOf(f) \in Mesh
                     /\ nextRelationshipGeneration[MeshOf(f)] \in Nat
                     /\ nextAuthorityLineage[MeshOf(f)] \in Nat
      BY EdgeFacts DEF TypeOK, LifecycleTypeOK
<1> HIDE DEF g, v
<1>6. LifecycleInv'
      BY <1>1, <1>2, <1>3 DEF NumbersInv, LifecycleInv, Exists, Pair
<1>7. VersionsAreUnique'
  <2> SUFFICES ASSUME NEW x \in Edge, NEW y \in Edge, MeshOf(x) = MeshOf(y), Exists(x)'
               PROVE  /\ authorityLineage'[x] < nextAuthorityLineage'[MeshOf(x)]
                      /\ relationshipGeneration'[x] < nextRelationshipGeneration'[MeshOf(x)]
                      /\ (authorityLineage'[x] = authorityLineage'[y]
                          \/ relationshipGeneration'[x] = relationshipGeneration'[y]) => x = y
      BY DEF VersionsAreUnique, MeshOf
  <2>1. \A f \in Edge \ Pair(e) : MeshOf(f) = MeshOf(e) =>
            /\ authorityLineage[f] < v
            /\ relationshipGeneration[f] < g
    <3> SUFFICES ASSUME NEW f \in Edge, MeshOf(f) = MeshOf(e)
                 PROVE  authorityLineage[f] < v /\ relationshipGeneration[f] < g
        OBVIOUS
    <3>1. CASE Exists(f)
          BY <3>1 DEF NumbersInv, VersionsAreUnique, g, v
    <3>2. CASE ~Exists(f)
          BY <3>2, <1>1, <1>5 DEF NumbersInv, LifecycleInv, Exists
    <3> QED
        BY <3>1, <3>2
  <2>2. CASE x \in Pair(e)
    <3>1. CASE y \in Pair(e)
          BY <2>2, <3>1, <1>1, <1>2, EdgeFacts DEF Pair
    <3>2. CASE y \notin Pair(e)
          BY <2>1, <2>2, <3>2, <1>1, <1>2, <1>3, <1>5, EdgeFacts DEF Pair
    <3> QED
        BY <3>1, <3>2
  <2>3. CASE x \notin Pair(e)
    <3>1. Exists(x)
          BY <2>3, <1>3 DEF Exists
    <3>2. CASE y \in Pair(e)
          BY <2>1, <2>3, <3>2, <1>1, <1>2, <1>3, <1>5, EdgeFacts DEF Pair
    <3>3. CASE y \notin Pair(e)
      <4>1. /\ authorityLineage[x] < nextAuthorityLineage[MeshOf(x)]
            /\ relationshipGeneration[x] < nextRelationshipGeneration[MeshOf(x)]
            /\ (authorityLineage[x] = authorityLineage[y]
                \/ relationshipGeneration[x] = relationshipGeneration[y]) => x = y
            BY <3>1 DEF NumbersInv, VersionsAreUnique
      <4> QED
          BY <4>1, <2>3, <3>3, <1>1, <1>3, <1>5 DEF g, v
    <3> QED
        BY <3>2, <3>3
  <2> QED
      BY <2>2, <2>3
<1>8. BridgeIffRelationship'
  <2> SUFFICES ASSUME NEW f \in Edge
               PROVE  /\ relationshipGeneration'[f] # 0 <=> bridgeStatus'[f] # "absent"
                      /\ relationshipGeneration'[f] # 0
                             <=> relationshipGeneration'[Reverse(f)] # 0
      BY DEF BridgeIffRelationship, Exists, Reverse
  <2>1. CASE f \in Pair(e)
        BY <2>1, <1>1, <1>2, EdgeFacts DEF Pair
  <2>2. CASE f \notin Pair(e)
        BY <2>2, <1>3, <1>4 DEF NumbersInv, BridgeIffRelationship, Exists
  <2> QED
      BY <2>1, <2>2
<1> QED
    BY <1>6, <1>7, <1>8 DEF NumbersInv

(* Pruning keeps the numbers unique and bridges with their entries. *)
LEMMA PruneNumbers ==
    ASSUME TypeOK, TypeOK', NumbersInv, NEW m \in Mesh, NEW pruned \in SUBSET Edge,
           Prune(m, pruned)
    PROVE  NumbersInv'
<1>1. \A e \in pruned : /\ relationshipGeneration'[e] = 0
                       /\ authorityLineage'[e] = 0
                       /\ bridgeStatus'[e] = "absent"
                       /\ Reverse(e) \in pruned
      BY DEF Prune, DiscardLifecycle
<1>2. \A e \in Edge \ pruned : /\ relationshipGeneration'[e] = relationshipGeneration[e]
                              /\ authorityLineage'[e] = authorityLineage[e]
                              /\ bridgeStatus'[e] = bridgeStatus[e]
                              /\ Reverse(e) \in Edge \ pruned
      BY EdgeFacts DEF Prune, DiscardLifecycle
<1>3. UNCHANGED <<nextRelationshipGeneration, nextAuthorityLineage>>
      BY DEF Prune, DiscardLifecycle
<1>4. LifecycleInv'
      BY <1>1, <1>2 DEF NumbersInv, LifecycleInv, Exists
<1>5. VersionsAreUnique'
      BY <1>1, <1>2, <1>3 DEF NumbersInv, VersionsAreUnique, LifecycleInv, Exists, MeshOf
<1>6. BridgeIffRelationship'
      BY <1>1, <1>2, EdgeFacts DEF NumbersInv, BridgeIffRelationship, Exists, Reverse
<1> QED
    BY <1>4, <1>5, <1>6 DEF NumbersInv

(* A step that keeps generations, lineages, counters and the presence of    *)
(* bridges keeps the invariant of the numbers.                              *)
LEMMA KeptNumbers ==
    ASSUME TypeOK, NumbersInv,
           UNCHANGED <<relationshipGeneration, authorityLineage,
                       nextRelationshipGeneration, nextAuthorityLineage>>,
           \A e \in Edge : bridgeStatus'[e] = "absent" <=> bridgeStatus[e] = "absent"
    PROVE  NumbersInv'
BY EdgeFacts DEF NumbersInv, LifecycleInv, VersionsAreUnique, BridgeIffRelationship, Exists,
                 MeshOf, Reverse

(* A commit keeps the numbers unique and bridges with their entries. *)
LEMMA CommitNumbers ==
    ASSUME TypeOK, TypeOK', NumbersInv, NEW m \in Mesh, NEW id \in CapabilityId,
           Commit(m, id)
    PROVE  NumbersInv'
<1> DEFINE b == capability[id].binding
           e == b.edge
           v == nextAuthorityLineage[MeshOf(e)]
<1>1. e \in Edge /\ MeshOf(e) \in Mesh
      BY EdgeFacts DEF Commit, Held, TypeOK, Capability, Binding
<1>2. Exists(e) /\ bridgeStatus[e] # "absent"
      BY DEF Commit, CommitResult, IsStale, Current
<1>3. /\ authorityLineage'[e] = v
      /\ nextAuthorityLineage'[MeshOf(e)] = v + 1
      /\ \A f \in Edge \ {e} : authorityLineage'[f] = authorityLineage[f]
      /\ \A n \in Mesh \ {MeshOf(e)} : nextAuthorityLineage'[n] = nextAuthorityLineage[n]
      /\ UNCHANGED <<relationshipGeneration, nextRelationshipGeneration>>
      BY <1>1 DEF Commit, AdvanceLineage, TypeOK, LifecycleTypeOK
<1>4. \A f \in Edge : bridgeStatus'[f] = "absent" <=> bridgeStatus[f] = "absent"
      BY <1>1, <1>2 DEF Commit, PreparedStatus, TypeOK
<1>5. \A f \in Edge : /\ relationshipGeneration[f] \in Nat
                     /\ authorityLineage[f] \in Nat
                     /\ MeshOf(f) \in Mesh
                     /\ nextRelationshipGeneration[MeshOf(f)] \in Nat
                     /\ nextAuthorityLineage[MeshOf(f)] \in Nat \ {0}
      BY EdgeFacts DEF TypeOK, LifecycleTypeOK
<1> HIDE DEF e, b
<1>6. LifecycleInv'
      BY <1>1, <1>2, <1>3, <1>5 DEF NumbersInv, LifecycleInv, Exists
<1>7. VersionsAreUnique'
  <2> SUFFICES ASSUME NEW x \in Edge, NEW y \in Edge, MeshOf(x) = MeshOf(y), Exists(x)'
               PROVE  /\ authorityLineage'[x] < nextAuthorityLineage'[MeshOf(x)]
                      /\ relationshipGeneration'[x] < nextRelationshipGeneration'[MeshOf(x)]
                      /\ (authorityLineage'[x] = authorityLineage'[y]
                          \/ relationshipGeneration'[x] = relationshipGeneration'[y]) => x = y
      BY DEF VersionsAreUnique, MeshOf
  <2>1. Exists(x)
        BY <1>3 DEF Exists
  <2>2. /\ authorityLineage[x] < nextAuthorityLineage[MeshOf(x)]
        /\ relationshipGeneration[x] < nextRelationshipGeneration[MeshOf(x)]
        /\ (authorityLineage[x] = authorityLineage[y]
            \/ relationshipGeneration[x] = relationshipGeneration[y]) => x = y
        BY <2>1 DEF NumbersInv, VersionsAreUnique
  <2>3. MeshOf(x) = MeshOf(e) => authorityLineage[y] < v
    <3>1. CASE Exists(y)
          BY <3>1 DEF NumbersInv, VersionsAreUnique
    <3>2. CASE ~Exists(y)
          BY <3>2, <1>1, <1>5 DEF NumbersInv, LifecycleInv
    <3> QED
        BY <3>1, <3>2
  <2> QED
      BY <1>1, <1>3, <1>5, <2>2, <2>3
<1>8. BridgeIffRelationship'
      BY <1>3, <1>4, EdgeFacts DEF NumbersInv, BridgeIffRelationship, Exists, Reverse
<1> QED
    BY <1>6, <1>7, <1>8 DEF NumbersInv

(* Every step keeps the numbers unique and bridges with their entries. *)
LEMMA NextNumbers ==
    ASSUME TypeOK, TypeOK', NumbersInv, [Next]_vars
    PROVE  NumbersInv'
<1>1. CASE UNCHANGED <<relationshipGeneration, authorityLineage, bridgeStatus,
                       nextRelationshipGeneration, nextAuthorityLineage>>
      BY <1>1, KeptNumbers
<1>2. CASE MeshNext
  <2>1. ASSUME NEW e \in Edge, Connect(e) PROVE NumbersInv'
        BY <2>1, ConnectNumbers
  <2>2. ASSUME NEW m \in Mesh, NEW pruned \in SUBSET Edge, Prune(m, pruned)
        PROVE  NumbersInv'
        BY <2>2, PruneNumbers
  <2>3. ASSUME NEW e \in Edge, NEW status \in PublishedStatus, SimulationStep(e, status)
        PROVE  NumbersInv'
    <3>1. status # "absent"
          BY AuthorityAssumption DEF Status
    <3>2. \A f \in Edge : bridgeStatus'[f] = "absent" <=> bridgeStatus[f] = "absent"
          BY <2>3, <3>1 DEF SimulationStep, TypeOK
    <3> QED
        BY <2>3, <3>2, KeptNumbers DEF SimulationStep, lifecycleVars
  <2>4. ASSUME NEW e \in Edge, Evolve(e) PROVE NumbersInv'
        BY <2>4, KeptNumbers DEF Evolve, EvolvePersistence
  <2> QED
      BY <1>2, <2>1, <2>2, <2>3, <2>4 DEF MeshNext
<1>3. CASE DerivationNext
      BY <1>1, <1>3 DEF DerivationNext, Request, Resolve, Capture, DeriveDirection,
         ValidateFreshness, Revalidate, EvaluatePolicy, RegisterIssued, derivationFrame,
         lifecycleVars
<1>4. CASE CommitNext
      BY <1>1, <1>4, CommitNumbers DEF CommitNext, RefuseCommit, LeaveIssued, lifecycleVars
<1> QED
    BY <1>1, <1>2, <1>3, <1>4 DEF Next, vars, lifecycleVars

-----------------------------------------------------------------------------
(* The shape of the derivation's steps, for the lemmas that follow. *)

(* Moving to a later check leaves the rest of the derivation, and every *)
(* other thread's. *)
LEMMA GotoShape ==
    ASSUME TypeOK, NEW t \in Thread, NEW phase, NEW passed, Goto(t, phase, passed)
    PROVE  /\ derivation'[t].phase = phase
           /\ derivation'[t].passed = passed
           /\ derivation'[t].binding = derivation[t].binding
           /\ derivation'[t].id = derivation[t].id
           /\ \A u \in Thread \ {t} : derivation'[u] = derivation[u]
<1>1. derivation[t] \in Derivation
      BY DEF TypeOK
<1>2. derivation'[t] = [derivation[t] EXCEPT !.phase = phase, !.passed = passed]
      BY DEF Goto, TypeOK
<1>3. \A u \in Thread \ {t} : derivation'[u] = derivation[u]
      BY DEF Goto, TypeOK
<1> QED
    BY <1>1, <1>2, <1>3 DEF Derivation

(* After the capture a derivation asks for a direction or goes to the *)
(* policy. *)
LEMMA CaptureShape ==
    ASSUME TypeOK, NEW t \in Thread, Capture(t)
    PROVE  /\ derivation'[t].phase \in {"derive", "policy"}
           /\ "freshness" \notin derivation'[t].passed
           /\ derivation'[t].binding = derivation[t].binding
           /\ derivation'[t].id = derivation[t].id
           /\ \A u \in Thread \ {t} : derivation'[u] = derivation[u]
<1> DEFINE r == derivation[t].binding
           phase == IF {"state", "class"} \subseteq CapturedChecks(r) THEN "derive" ELSE "policy"
           d == [derivation[t] EXCEPT
                    !.snapshot = Snapshot(r.edge), !.epoch = authorityLineage[r.edge],
                    !.passed = CapturedChecks(r), !.phase = phase]
<1>1. derivation[t] \in Derivation
      BY DEF TypeOK
<1>2. "freshness" \notin CapturedChecks(r) /\ "freshness" \notin {"binding"}
      BY DEF CapturedChecks
<1>3. CASE Current(r.edge, r.generation)
  <2>1. derivation' = [derivation EXCEPT ![t] = d]
        BY <1>3 DEF Capture
  <2>2. /\ d.phase \in {"derive", "policy"} /\ d.passed = CapturedChecks(r)
        /\ d.binding = derivation[t].binding /\ d.id = derivation[t].id
        BY <1>1 DEF Derivation
  <2> HIDE DEF d
  <2>3. derivation'[t] = d /\ \A u \in Thread \ {t} : derivation'[u] = derivation[u]
        BY <2>1 DEF TypeOK
  <2> QED
      BY <1>2, <2>2, <2>3
<1>4. CASE ~Current(r.edge, r.generation)
  <2>1. Goto(t, "policy", {"binding"})
        BY <1>4 DEF Capture
  <2> QED
      BY <1>2, <2>1, GotoShape
<1> QED
    BY <1>3, <1>4

(* A reading step keeps the binding and the id, and never registers. *)
LEMMA ReadStepShape ==
    ASSUME TypeOK, NEW t \in Thread,
           \/ Resolve(t) \/ Capture(t) \/ DeriveDirection(t)
           \/ ValidateFreshness(t) \/ Revalidate(t)
    PROVE  /\ \A u \in Thread : derivation'[u].binding = derivation[u].binding
           /\ derivation'[t].phase \in Phase \ {"idle", "register"}
           /\ \A u \in Thread \ {t} : derivation'[u] = derivation[u]
           /\ UNCHANGED <<derivationFrame, changedRequest>>
<1>1. CASE Resolve(t)
  <2>1. \E phase \in {"capture", "policy"} : \E passed : Goto(t, phase, passed)
        BY <1>1 DEF Resolve
  <2> QED
      BY <1>1, <2>1, GotoShape DEF Resolve, Phase
<1>2. CASE Capture(t)
  <2>1. UNCHANGED <<derivationFrame, changedRequest>>
        BY <1>2 DEF Capture
  <2> QED
      BY <1>2, <2>1, CaptureShape DEF Phase
<1>3. CASE DeriveDirection(t)
  <2>1. \E phase \in {"freshness", "policy"} : \E passed : Goto(t, phase, passed)
        BY <1>3 DEF DeriveDirection
  <2> QED
      BY <1>3, <2>1, GotoShape DEF DeriveDirection, Phase
<1>4. CASE ValidateFreshness(t)
  <2>1. \E phase \in {"revalidate", "policy"} : \E passed : Goto(t, phase, passed)
        BY <1>4 DEF ValidateFreshness
  <2> QED
      BY <1>4, <2>1, GotoShape DEF ValidateFreshness, Phase
<1>5. CASE Revalidate(t)
  <2>1. \E passed : Goto(t, "policy", passed)
        BY <1>5 DEF Revalidate
  <2> QED
      BY <1>5, <2>1, GotoShape DEF Revalidate, Phase
<1> QED
    BY <1>1, <1>2, <1>3, <1>4, <1>5

(* The policy ends the derivation, or draws an id for it. *)
LEMMA EvaluatePolicyShape ==
    ASSUME TypeOK, NEW t \in Thread, NEW satisfied \in BOOLEAN, EvaluatePolicy(t, satisfied)
    PROVE  /\ \A u \in Thread \ {t} : /\ derivation'[u] = derivation[u]
                                    /\ changedRequest'[u] = changedRequest[u]
           /\ \/ /\ derivation'[t] = NoDerivation
                 /\ UNCHANGED nextCapabilityId
              \/ /\ "freshness" \in derivation[t].passed
                 /\ derivation'[t].phase = "register"
                 /\ derivation'[t].binding = derivation[t].binding
                 /\ derivation'[t].id = nextCapabilityId
                 /\ nextCapabilityId <= MaxCapability
                 /\ nextCapabilityId' = nextCapabilityId + 1
                 /\ UNCHANGED changedRequest
<1> DEFINE d == [derivation[t] EXCEPT !.phase = "register", !.id = nextCapabilityId]
<1>1. CASE Rejection(derivation[t].passed, satisfied) = "none"
  <2>1. "freshness" \in derivation[t].passed
        BY <1>1 DEF Rejection
  <2>2. derivation' = [derivation EXCEPT ![t] = d]
        BY <1>1 DEF EvaluatePolicy
  <2>3. /\ d.phase = "register" /\ d.binding = derivation[t].binding
        /\ d.id = nextCapabilityId
    <3>1. derivation[t] \in Derivation
          BY DEF TypeOK
    <3> QED
        BY <3>1 DEF Derivation
  <2> HIDE DEF d
  <2>4. derivation'[t] = d /\ \A u \in Thread \ {t} : derivation'[u] = derivation[u]
        BY <2>2 DEF TypeOK
  <2>5. /\ nextCapabilityId <= MaxCapability
        /\ nextCapabilityId' = nextCapabilityId + 1
        /\ UNCHANGED changedRequest
        BY <1>1 DEF EvaluatePolicy
  <2> QED
      BY <2>1, <2>3, <2>4, <2>5
<1>2. CASE Rejection(derivation[t].passed, satisfied) # "none"
      BY <1>2 DEF EvaluatePolicy, TypeOK
<1> QED
    BY <1>1, <1>2

-----------------------------------------------------------------------------
(* Requests and capabilities. *)

BindingsInv == RequestInv /\ CapabilityInv

(* The edges of E moved, and nothing but their histories may have recorded it. *)
LEMMA MovedBindings ==
    ASSUME TypeOK, TypeOK', BindingsInv, NEW E \in SUBSET Edge, Moved(E),
           UNCHANGED <<derivation, capability>>,
           \A t \in Thread : "relationship" \in changedRequest'[t] =>
               \/ "relationship" \in changedRequest[t]
               \/ derivation[t].binding # NoBinding /\ derivation[t].binding.edge \in E,
           \A id \in CapabilityId : "relationship" \in changedCapability'[id] =>
               \/ "relationship" \in changedCapability[id]
               \/ Held(id) /\ capability[id].binding.edge \in E
    PROVE  BindingsInv'
<1>1. RequestInv'
  <2> SUFFICES ASSUME NEW t \in Thread, derivation[t].binding # NoBinding
               PROVE  /\ GivenOut(derivation[t].binding)'
                      /\ "relationship" \in changedRequest'[t] =>
                             Outdated(derivation[t].binding)'
      BY DEF RequestInv
  <2>1. /\ GivenOut(derivation[t].binding)
        /\ "relationship" \in changedRequest[t] => Outdated(derivation[t].binding)
        BY DEF BindingsInv, RequestInv
  <2>2. PICK b \in Binding : b = derivation[t].binding
        BY <2>1 DEF GivenOut
  <2>3. MeshOf(b.edge) \in Mesh
        BY EdgeFacts DEF Binding
  <2>4. /\ b.generation < nextRelationshipGeneration'[MeshOf(b.edge)]
        /\ b.version < nextAuthorityLineage'[MeshOf(b.edge)]
        /\ Outdated(b) \/ b.edge \in E =>
               \/ relationshipGeneration'[b.edge] # b.generation
               \/ authorityLineage'[b.edge] # b.version
        BY <2>1, <2>2, MovedBinding
  <2>5. /\ nextRelationshipGeneration'[MeshOf(b.edge)] \in Nat
        /\ nextAuthorityLineage'[MeshOf(b.edge)] \in Nat
        /\ b.generation \in Nat \ {0} /\ b.version \in Nat \ {0}
        BY <2>1, <2>2, <2>3 DEF GivenOut, TypeOK, LifecycleTypeOK, Binding
  <2>6. GivenOut(b)'
        BY <2>4, <2>5 DEF GivenOut, MeshOf
  <2>7. "relationship" \in changedRequest'[t] => Outdated(b)'
        BY <2>1, <2>2, <2>4 DEF Outdated, Held
  <2> QED
      BY <2>2, <2>6, <2>7
<1>2. CapabilityInv'
  <2> SUFFICES ASSUME NEW id \in CapabilityId, Held(id)
               PROVE  /\ GivenOut(capability[id].binding)'
                      /\ "relationship" \in changedCapability'[id] =>
                             Outdated(capability[id].binding)'
      BY DEF CapabilityInv, Held
  <2>1. /\ GivenOut(capability[id].binding)
        /\ "relationship" \in changedCapability[id] => Outdated(capability[id].binding)
        BY DEF BindingsInv, CapabilityInv
  <2>2. PICK b \in Binding : b = capability[id].binding
        BY <2>1 DEF GivenOut
  <2>3. MeshOf(b.edge) \in Mesh
        BY EdgeFacts DEF Binding
  <2>4. /\ b.generation < nextRelationshipGeneration'[MeshOf(b.edge)]
        /\ b.version < nextAuthorityLineage'[MeshOf(b.edge)]
        /\ Outdated(b) \/ b.edge \in E =>
               \/ relationshipGeneration'[b.edge] # b.generation
               \/ authorityLineage'[b.edge] # b.version
        BY <2>1, <2>2, MovedBinding
  <2>5. /\ nextRelationshipGeneration'[MeshOf(b.edge)] \in Nat
        /\ nextAuthorityLineage'[MeshOf(b.edge)] \in Nat
        /\ b.generation \in Nat \ {0} /\ b.version \in Nat \ {0}
        BY <2>1, <2>2, <2>3 DEF GivenOut, TypeOK, LifecycleTypeOK, Binding
  <2>6. GivenOut(b)'
        BY <2>4, <2>5 DEF GivenOut, MeshOf
  <2>7. "relationship" \in changedCapability'[id] => Outdated(b)'
        BY <2>1, <2>2, <2>4 DEF Outdated, Held
  <2> QED
      BY <2>2, <2>6, <2>7
<1> QED
    BY <1>1, <1>2 DEF BindingsInv

(* Touch records a change exactly where MovedBindings allows one. *)
LEMMA TouchRecords ==
    ASSUME TypeOK, NEW E, NEW c \in Change, Touch(E, c)
    PROVE  /\ \A t \in Thread : "relationship" \in changedRequest'[t] =>
                 \/ "relationship" \in changedRequest[t]
                 \/ /\ c = "relationship"
                    /\ derivation[t].binding # NoBinding
                    /\ derivation[t].binding.edge \in E
           /\ \A id \in CapabilityId : "relationship" \in changedCapability'[id] =>
                 \/ "relationship" \in changedCapability[id]
                 \/ /\ c = "relationship"
                    /\ Held(id)
                    /\ capability[id].binding.edge \in E
BY DEF Touch, TypeOK

(* The mesh's own operations record every change under a binding they *)
(* outdate. *)
LEMMA MeshBindings ==
    ASSUME TypeOK, TypeOK', BindingsInv, MeshNext
    PROVE  BindingsInv'
<1>1. ASSUME NEW e \in Edge, Connect(e) PROVE BindingsInv'
  <2>1. Moved(Pair(e)) /\ Pair(e) \in SUBSET Edge
        BY <1>1, ConnectMoves, EdgeFacts DEF Connect, Pair
  <2> QED
      BY <1>1, <2>1, TouchRecords, MovedBindings DEF Connect, authorityVars, Change
<1>2. ASSUME NEW m \in Mesh, NEW pruned \in SUBSET Edge, Prune(m, pruned)
      PROVE  BindingsInv'
      BY <1>2, DiscardMoves, TouchRecords, MovedBindings DEF Prune, authorityVars, Change
<1>3. ASSUME NEW e \in Edge, NEW status \in PublishedStatus, SimulationStep(e, status)
      PROVE  BindingsInv'
      BY <1>3, KeptMoves, TouchRecords, MovedBindings
      DEF SimulationStep, lifecycleVars, authorityVars, Change
<1>4. ASSUME NEW e \in Edge, Evolve(e) PROVE BindingsInv'
      BY <1>4, KeptMoves, MovedBindings DEF Evolve, EvolvePersistence, authorityVars
<1> QED
    BY <1>1, <1>2, <1>3, <1>4 DEF MeshNext

(* A commit records the change under every binding it outdates. *)
LEMMA CommitBindings ==
    ASSUME TypeOK, TypeOK', BindingsInv, CommitNext
    PROVE  BindingsInv'
<1>1. ASSUME NEW m \in Mesh, NEW id \in CapabilityId, Commit(m, id) PROVE BindingsInv'
  <2> DEFINE e == capability[id].binding.edge
  <2>1. e \in Edge
        BY <1>1 DEF Commit, Held, TypeOK, Capability, Binding
  <2>2. Moved({e})
        BY <1>1, <2>1, AdvanceMoves DEF Commit
  <2> QED
      BY <1>1, <2>1, <2>2, TouchRecords, MovedBindings DEF Commit, Change
<1>2. ASSUME NEW m \in Mesh, NEW id \in CapabilityId, RefuseCommit(m, id) PROVE BindingsInv'
      BY <1>2, KeptMoves, MovedBindings DEF RefuseCommit, lifecycleVars
<1>3. ASSUME NEW m \in Mesh, NEW id \in CapabilityId, NEW terminal, LeaveIssued(m, id, terminal)
      PROVE  BindingsInv'
      BY <1>3, KeptMoves, MovedBindings DEF LeaveIssued, lifecycleVars
<1> QED
    BY <1>1, <1>2, <1>3 DEF CommitNext

(* While the numbers stay, a derivation keeps, drops or takes up a binding  *)
(* that is given out, and its history.                                      *)
LEMMA KeptBindings ==
    ASSUME TypeOK, BindingsInv,
           UNCHANGED <<relationshipGeneration, authorityLineage,
                       nextRelationshipGeneration, nextAuthorityLineage>>,
           \A t \in Thread :
               \/ derivation'[t].binding = NoBinding
               \/ derivation'[t].binding = derivation[t].binding
                  /\ changedRequest'[t] = changedRequest[t]
               \/ GivenOut(derivation'[t].binding) /\ changedRequest'[t] = {},
           \A id \in CapabilityId :
               \/ /\ capability'[id].binding = capability[id].binding
                  /\ changedCapability'[id] = changedCapability[id]
               \/ \E t \in Thread : /\ derivation[t].binding # NoBinding
                                    /\ capability'[id].binding = derivation[t].binding
                                    /\ changedCapability'[id] = changedRequest[t]
    PROVE  BindingsInv'
<1>1. \A b : /\ GivenOut(b) => GivenOut(b)'
             /\ Outdated(b) => Outdated(b)'
      BY DEF GivenOut, Outdated, MeshOf
<1>2. RequestInv'
  <2> SUFFICES ASSUME NEW t \in Thread, derivation'[t].binding # NoBinding
               PROVE  /\ GivenOut(derivation[t].binding)'
                      /\ "relationship" \in changedRequest'[t] =>
                             Outdated(derivation[t].binding)'
      BY DEF RequestInv
  <2> QED
      BY <1>1 DEF BindingsInv, RequestInv, GivenOut, Outdated, MeshOf
<1>3. CapabilityInv'
  <2> SUFFICES ASSUME NEW id \in CapabilityId, capability'[id].binding # NoBinding
               PROVE  /\ GivenOut(capability[id].binding)'
                      /\ "relationship" \in changedCapability'[id] =>
                             Outdated(capability[id].binding)'
      BY DEF CapabilityInv, Held
  <2> QED
      BY <1>1 DEF BindingsInv, RequestInv, CapabilityInv, Held, GivenOut, Outdated, MeshOf
<1> QED
    BY <1>2, <1>3 DEF BindingsInv

(* A derivation hands its binding and its history on to its capability. *)
LEMMA DerivationBindings ==
    ASSUME TypeOK, NumbersInv, BindingsInv, DerivationNext
    PROVE  BindingsInv'
<1>1. ASSUME NEW t \in Thread, NEW e \in Edge, NEW class \in TransitionClass,
             NEW direction \in RequestedDirection, Request(t, e, class, direction)
      PROVE  BindingsInv'
  <2> DEFINE b == [edge |-> e, generation |-> relationshipGeneration[e],
                   version |-> authorityLineage[e], class |-> class, direction |-> direction]
  <2>1. /\ Exists(e) /\ MeshOf(e) \in Mesh
        /\ relationshipGeneration[e] \in Nat /\ authorityLineage[e] \in Nat
        /\ nextRelationshipGeneration[MeshOf(e)] \in Nat
        /\ nextAuthorityLineage[MeshOf(e)] \in Nat
        BY <1>1, EdgeFacts DEF Request, TypeOK, LifecycleTypeOK
  <2>2. /\ authorityLineage[e] < nextAuthorityLineage[MeshOf(e)]
        /\ relationshipGeneration[e] < nextRelationshipGeneration[MeshOf(e)]
        /\ authorityLineage[e] # 0
        BY <2>1 DEF NumbersInv, VersionsAreUnique, LifecycleInv
  <2>3. GivenOut(b)
        BY <2>1, <2>2, AuthorityAssumption DEF GivenOut, Binding, Exists
  <2>4. derivation' = [derivation EXCEPT ![t] =
                          [NoDerivation EXCEPT !.phase = "resolve", !.binding = b]]
        BY <1>1 DEF Request
  <2>5. /\ derivation'[t].binding = b /\ changedRequest'[t] = {}
        /\ \A u \in Thread \ {t} : /\ derivation'[u].binding = derivation[u].binding
                                  /\ changedRequest'[u] = changedRequest[u]
        BY <1>1, <2>4 DEF Request, TypeOK, NoDerivation
  <2> HIDE DEF b
  <2> QED
      BY <1>1, <2>3, <2>5, KeptBindings DEF Request, derivationFrame, lifecycleVars
<1>2. ASSUME NEW t \in Thread,
             \/ Resolve(t) \/ Capture(t) \/ DeriveDirection(t)
             \/ ValidateFreshness(t) \/ Revalidate(t)
      PROVE  BindingsInv'
      BY <1>2, ReadStepShape, KeptBindings DEF derivationFrame, lifecycleVars
<1>3. ASSUME NEW t \in Thread, NEW satisfied \in BOOLEAN, EvaluatePolicy(t, satisfied)
      PROVE  BindingsInv'
  <2>1. \A u \in Thread :
           \/ derivation'[u].binding = NoBinding
           \/ /\ derivation'[u].binding = derivation[u].binding
              /\ changedRequest'[u] = changedRequest[u]
        BY <1>3, EvaluatePolicyShape DEF NoDerivation
  <2> QED
      BY <1>3, <2>1, KeptBindings DEF EvaluatePolicy, lifecycleVars
<1>4. ASSUME NEW t \in Thread, RegisterIssued(t) PROVE BindingsInv'
  <2>1. \A u \in Thread :
           \/ derivation'[u].binding = NoBinding
           \/ /\ derivation'[u].binding = derivation[u].binding
              /\ changedRequest'[u] = changedRequest[u]
        BY <1>4 DEF RegisterIssued, TypeOK, NoDerivation
  <2>2. derivation[t].binding # NoBinding
        BY <1>4 DEF RegisterIssued, TypeOK
  <2>3. \A id \in CapabilityId :
           \/ /\ capability'[id].binding = capability[id].binding
              /\ changedCapability'[id] = changedCapability[id]
           \/ /\ capability'[id].binding = derivation[t].binding
              /\ changedCapability'[id] = changedRequest[t]
        BY <1>4 DEF RegisterIssued, TypeOK
  <2> QED
      BY <1>4, <2>1, <2>2, <2>3, KeptBindings DEF RegisterIssued, lifecycleVars
<1> QED
    BY <1>1, <1>2, <1>3, <1>4 DEF DerivationNext

(* Every step keeps changed bindings outdated. *)
LEMMA NextBindings ==
    ASSUME TypeOK, TypeOK', NumbersInv, BindingsInv, [Next]_vars
    PROVE  BindingsInv'
<1>1. CASE UNCHANGED vars
      BY <1>1, KeptMoves, MovedBindings DEF vars, lifecycleVars
<1> QED
    BY <1>1, MeshBindings, DerivationBindings, CommitBindings DEF Next

-----------------------------------------------------------------------------
(* Registration. *)

(* Steps that draw no id, register none and leave unknown records unknown. *)
LEMMA KeptRegister ==
    ASSUME TypeOK, RegisterInv, UNCHANGED <<capability, nextCapabilityId>>,
           \A t \in Thread : derivation'[t].phase = "register" =>
               derivation[t].phase = "register" /\ derivation'[t].id = derivation[t].id,
           \A m \in Mesh, id \in CapabilityId :
               ledger[m][id].state = "unknown" => ledger'[m][id].state = "unknown"
    PROVE  RegisterInv'
BY DEF RegisterInv, Held

(* Every step keeps a drawn id with one thread until it is registered. *)
LEMMA NextRegister ==
    ASSUME TypeOK, RegisterInv, [Next]_vars
    PROVE  RegisterInv'
<1>1. CASE UNCHANGED <<capability, nextCapabilityId, derivation, ledger>>
      BY <1>1, KeptRegister
<1>2. CASE MeshNext
      BY <1>1, <1>2 DEF MeshNext, Connect, Prune, SimulationStep, Evolve, authorityVars
<1>3. ASSUME NEW t \in Thread, NEW e \in Edge, NEW class \in TransitionClass,
             NEW direction \in RequestedDirection, Request(t, e, class, direction)
      PROVE  RegisterInv'
  <2>1. \A u \in Thread : derivation'[u].phase = "register" =>
           derivation[u].phase = "register" /\ derivation'[u].id = derivation[u].id
        BY <1>3 DEF Request, TypeOK, NoDerivation
  <2> QED
      BY <1>3, <2>1, KeptRegister DEF Request, derivationFrame
<1>4. ASSUME NEW t \in Thread,
             \/ Resolve(t) \/ Capture(t) \/ DeriveDirection(t)
             \/ ValidateFreshness(t) \/ Revalidate(t)
      PROVE  RegisterInv'
      BY <1>4, ReadStepShape, KeptRegister DEF derivationFrame
<1>5. ASSUME NEW t \in Thread, NEW satisfied \in BOOLEAN, EvaluatePolicy(t, satisfied)
      PROVE  RegisterInv'
  <2>1. UNCHANGED <<ledger, capability>>
        BY <1>5 DEF EvaluatePolicy
  <2>2. CASE derivation'[t] = NoDerivation /\ UNCHANGED nextCapabilityId
        BY <1>5, <2>1, <2>2, EvaluatePolicyShape, KeptRegister DEF NoDerivation
  <2>3. CASE /\ derivation'[t].id = nextCapabilityId
             /\ nextCapabilityId <= MaxCapability
             /\ nextCapabilityId' = nextCapabilityId + 1
    <3>1. /\ nextCapabilityId \in CapabilityId
          /\ nextCapabilityId \in Nat
          /\ \A id \in CapabilityId : id \in Nat
          BY <2>3, AuthorityAssumption DEF TypeOK, CapabilityId
    <3>2. \A u \in Thread \ {t} : derivation'[u] = derivation[u]
          BY <1>5, EvaluatePolicyShape
    <3> QED
        BY <2>1, <2>3, <3>1, <3>2 DEF RegisterInv, Held
  <2> QED
      BY <1>5, <2>2, <2>3, EvaluatePolicyShape
<1>6. ASSUME NEW t \in Thread, RegisterIssued(t) PROVE RegisterInv'
  <2> DEFINE id == derivation[t].id
  <2>1. /\ id \in CapabilityId /\ id < nextCapabilityId
        /\ \A u \in Thread \ {t} : derivation[u].phase = "register" => derivation[u].id # id
        BY <1>6 DEF RegisterIssued, RegisterInv
  <2>2. /\ UNCHANGED nextCapabilityId
        /\ derivation'[t].phase = "idle"
        /\ \A u \in Thread \ {t} : derivation'[u] = derivation[u]
        /\ \A i \in CapabilityId \ {id} : capability'[i] = capability[i]
        /\ capability'[id].binding # NoBinding
        /\ \A m \in Mesh, i \in CapabilityId \ {id} : ledger'[m][i] = ledger[m][i]
        BY <1>6, <2>1 DEF RegisterIssued, TypeOK, NoDerivation
  <2> HIDE DEF id
  <2> QED
      BY <2>1, <2>2 DEF RegisterInv, Held
<1>7. CASE CommitNext
  <2>1. ASSUME NEW m \in Mesh, NEW id \in CapabilityId,
               NEW terminal \in {"expired", "invalidated"},
               Commit(m, id) \/ RefuseCommit(m, id) \/ LeaveIssued(m, id, terminal)
        PROVE  RegisterInv'
    <3>1. \A n \in Mesh, i \in CapabilityId :
             ledger[n][i].state = "unknown" => ledger'[n][i].state = "unknown"
      <4>1. CASE Commit(m, id)
        <5>1. ledger[m][id].state = "issued"
              BY <4>1 DEF Commit, CommitResult
        <5> QED
            BY <4>1, <5>1 DEF Commit, TypeOK
      <4>2. CASE RefuseCommit(m, id)
            BY <4>2 DEF RefuseCommit, LedgerAfterRefusal, TypeOK
      <4>3. CASE LeaveIssued(m, id, terminal)
            BY <4>3 DEF LeaveIssued, TypeOK
      <4> QED
          BY <2>1, <4>1, <4>2, <4>3
    <3> QED
        BY <2>1, <3>1, KeptRegister DEF Commit, RefuseCommit, LeaveIssued
  <2> QED
      BY <1>7, <2>1 DEF CommitNext
<1> QED
    BY <1>1, <1>2, <1>3, <1>4, <1>5, <1>6, <1>7 DEF Next, DerivationNext, vars

-----------------------------------------------------------------------------
(* Effects. *)

EffectsInv == NoInterveningChange /\ EffectInv /\ OneEffectPerVersion /\ ConsumedIffEffect

(* Steps that commit nothing: the edges may move, held capabilities stay,   *)
(* and the same records are consumed as before.                             *)
LEMMA KeptEffects ==
    ASSUME TypeOK, TypeOK', CapabilityInv, EffectsInv, NEW E \in SUBSET Edge, Moved(E),
           UNCHANGED effects,
           \A id \in CapabilityId : Held(id) => capability'[id] = capability[id],
           \A m \in Mesh, id \in CapabilityId :
               ledger'[m][id].state = "consumed" <=> ledger[m][id].state = "consumed"
    PROVE  EffectsInv'
<1>1. NoInterveningChange' /\ OneEffectPerVersion'
      BY DEF EffectsInv, NoInterveningChange, OneEffectPerVersion, MeshOf
<1>2. ConsumedIffEffect'
      BY DEF EffectsInv, ConsumedIffEffect, MeshOf
<1>3. EffectInv'
  <2> SUFFICES ASSUME NEW c \in effects
               PROVE  /\ Held(c.id)'
                      /\ c.edge = capability'[c.id].binding.edge
                      /\ c.version = capability'[c.id].binding.version
                      /\ c.version < nextAuthorityLineage'[MeshOf(c.edge)]
                      /\ \A e \in Edge : MeshOf(e) = MeshOf(c.edge) =>
                             authorityLineage'[e] # c.version
      BY DEF EffectInv, MeshOf
  <2>1. /\ c.id \in CapabilityId /\ c.edge \in Edge /\ c.version \in Nat
        /\ MeshOf(c.edge) \in Mesh
        BY EdgeFacts DEF TypeOK, Effect
  <2>2. /\ Held(c.id)
        /\ c.edge = capability[c.id].binding.edge
        /\ c.version = capability[c.id].binding.version
        /\ c.version < nextAuthorityLineage[MeshOf(c.edge)]
        /\ \A e \in Edge : MeshOf(e) = MeshOf(c.edge) => authorityLineage[e] # c.version
        BY DEF EffectsInv, EffectInv
  <2>3. c.version > 0
        BY <2>1, <2>2 DEF CapabilityInv, GivenOut, TypeOK, LifecycleTypeOK
  <2>4. capability'[c.id] = capability[c.id]
        BY <2>1, <2>2
  <2>5. /\ nextAuthorityLineage[MeshOf(c.edge)] \in Nat
        /\ nextAuthorityLineage'[MeshOf(c.edge)] \in Nat
        /\ nextAuthorityLineage'[MeshOf(c.edge)] >= nextAuthorityLineage[MeshOf(c.edge)]
        BY <2>1 DEF Moved, TypeOK, LifecycleTypeOK
  <2>6. ASSUME NEW e \in Edge, MeshOf(e) = MeshOf(c.edge)
        PROVE  authorityLineage'[e] # c.version
    <3>1. authorityLineage'[e] \in Nat
          BY DEF TypeOK, LifecycleTypeOK
    <3> QED
        BY <2>1, <2>2, <2>3, <2>5, <2>6, <3>1 DEF Moved
  <2> QED
      BY <2>1, <2>2, <2>4, <2>5, <2>6 DEF Held
<1> QED
    BY <1>1, <1>2, <1>3 DEF EffectsInv

(* The mesh's own operations never bring back a version a commit used. *)
LEMMA MeshEffects ==
    ASSUME TypeOK, TypeOK', CapabilityInv, EffectsInv, MeshNext
    PROVE  EffectsInv'
<1>1. ASSUME NEW e \in Edge, Connect(e) PROVE EffectsInv'
  <2>1. Moved(Pair(e)) /\ Pair(e) \in SUBSET Edge
        BY <1>1, ConnectMoves, EdgeFacts DEF Connect, Pair
  <2> QED
      BY <1>1, <2>1, KeptEffects DEF Connect, authorityVars
<1>2. ASSUME NEW m \in Mesh, NEW pruned \in SUBSET Edge, Prune(m, pruned)
      PROVE  EffectsInv'
      BY <1>2, DiscardMoves, KeptEffects DEF Prune, authorityVars
<1>3. ASSUME NEW e \in Edge, NEW status \in PublishedStatus, SimulationStep(e, status)
      PROVE  EffectsInv'
      BY <1>3, KeptMoves, KeptEffects DEF SimulationStep, lifecycleVars, authorityVars
<1>4. ASSUME NEW e \in Edge, Evolve(e) PROVE EffectsInv'
      BY <1>4, KeptMoves, KeptEffects DEF Evolve, EvolvePersistence, authorityVars
<1> QED
    BY <1>1, <1>2, <1>3, <1>4 DEF MeshNext

(* The derivation never brings back a version, and registers only new ids. *)
LEMMA DerivationEffects ==
    ASSUME TypeOK, TypeOK', CapabilityInv, RegisterInv, EffectsInv, DerivationNext
    PROVE  EffectsInv'
<1>1. Moved({})
      BY KeptMoves DEF DerivationNext, Request, Resolve, Capture, DeriveDirection,
         ValidateFreshness, Revalidate, EvaluatePolicy, RegisterIssued, derivationFrame,
         lifecycleVars
<1>2. CASE UNCHANGED <<capability, ledger, effects>>
      BY <1>1, <1>2, KeptEffects
<1>3. ASSUME NEW t \in Thread, RegisterIssued(t) PROVE EffectsInv'
  <2> DEFINE id == derivation[t].id
             m == MeshOf(derivation[t].binding.edge)
  <2>1. id \in CapabilityId /\ ~Held(id) /\ m \in Mesh
    <3>1. derivation[t].binding \in Binding
          BY <1>3 DEF RegisterIssued, TypeOK, Derivation
    <3> QED
        BY <1>3, <3>1, EdgeFacts DEF RegisterIssued, RegisterInv, Binding
  <2>2. \A i \in CapabilityId : Held(i) => capability'[i] = capability[i]
        BY <1>3, <2>1 DEF RegisterIssued, TypeOK
  <2>3. /\ ledger[m][id].state = "unknown"
        /\ ledger'[m][id].state = "issued"
        /\ \A n \in Mesh, i \in CapabilityId :
               n # m \/ i # id => ledger'[n][i] = ledger[n][i]
        BY <1>3, <2>1 DEF RegisterIssued, TypeOK
  <2> HIDE DEF id, m
  <2>4. \A n \in Mesh, i \in CapabilityId :
           ledger'[n][i].state = "consumed" <=> ledger[n][i].state = "consumed"
        BY <2>3
  <2> QED
      BY <1>1, <1>3, <2>2, <2>4, KeptEffects DEF RegisterIssued
<1> QED
    BY <1>2, <1>3 DEF DerivationNext, Request, Resolve, Capture, DeriveDirection,
       ValidateFreshness, Revalidate, EvaluatePolicy, derivationFrame

(* What a capability that commits satisfies, and what its commit adds. *)
LEMMA CommitShape ==
    ASSUME TypeOK, NEW m \in Mesh, NEW id \in CapabilityId, Commit(m, id)
    PROVE  LET b == capability[id].binding
           IN /\ b \in Binding /\ b.edge \in Edge /\ MeshOf(b.edge) = m
              /\ ledger[m][id].state = "issued"
              /\ relationshipGeneration[b.edge] = b.generation
              /\ authorityLineage[b.edge] = b.version
              /\ Exists(b.edge)
              /\ effects' = effects \cup {[id |-> id, edge |-> b.edge, version |-> b.version,
                                           since |-> changedCapability[id]]}
              /\ \A n \in Mesh, i \in CapabilityId :
                    ledger'[n][i].state = IF n = m /\ i = id THEN "consumed"
                                          ELSE ledger[n][i].state
<1>1. capability[id].binding \in Binding
      BY DEF Commit, Held, TypeOK, Capability
<1>2. \A n \in Mesh, i \in CapabilityId :
         ledger'[n][i].state = IF n = m /\ i = id THEN "consumed" ELSE ledger[n][i].state
      BY DEF Commit, TypeOK, LedgerRecord
<1> QED
    BY <1>1, <1>2 DEF Commit, CommitResult, WrongDomain, DomainOf, IsStale, VersionIsCurrent,
                  Current, Binding

(* A commit's effect is fresh, is the only one of its version, and is *)
(* recorded. *)
LEMMA CommitEffects ==
    ASSUME TypeOK, TypeOK', NumbersInv, CapabilityInv, EffectsInv,
           NEW m \in Mesh, NEW id \in CapabilityId, Commit(m, id)
    PROVE  EffectsInv'
<1> DEFINE b == capability[id].binding
           new == [id |-> id, edge |-> b.edge, version |-> b.version,
                   since |-> changedCapability[id]]
<1>1. /\ b \in Binding /\ b.edge \in Edge /\ MeshOf(b.edge) = m
      /\ b.version \in Nat
      /\ ledger[m][id].state = "issued"
      /\ relationshipGeneration[b.edge] = b.generation
      /\ authorityLineage[b.edge] = b.version
      /\ Exists(b.edge)
      /\ effects' = effects \cup {new}
      /\ Held(id)
      /\ UNCHANGED capability
      BY CommitShape DEF Commit, Binding
<1>2. \A n \in Mesh, i \in CapabilityId :
         ledger'[n][i].state = IF n = m /\ i = id THEN "consumed" ELSE ledger[n][i].state
      BY CommitShape
<1>3. "relationship" \notin changedCapability[id]
      BY <1>1 DEF CapabilityInv, Outdated
<1>4. /\ \A f \in Edge \ {b.edge} : authorityLineage'[f] = authorityLineage[f]
      /\ authorityLineage'[b.edge] = nextAuthorityLineage[m]
      /\ nextAuthorityLineage'[m] = nextAuthorityLineage[m] + 1
      /\ \A n \in Mesh \ {m} : nextAuthorityLineage'[n] = nextAuthorityLineage[n]
      /\ nextAuthorityLineage \in [Mesh -> Nat \ {0}]
      BY <1>1 DEF Commit, AdvanceLineage, TypeOK, LifecycleTypeOK
<1>5. \A f \in Edge : MeshOf(f) = m /\ f # b.edge => authorityLineage[f] # b.version
      BY <1>1 DEF NumbersInv, VersionsAreUnique
<1>6. b.version < nextAuthorityLineage[m]
      BY <1>1 DEF NumbersInv, VersionsAreUnique
<1>7. \A c \in effects :
         /\ c.id \in CapabilityId /\ c.edge \in Edge /\ c.version \in Nat
         /\ MeshOf(c.edge) \in Mesh
         /\ Held(c.id)
         /\ c.edge = capability[c.id].binding.edge
         /\ c.version = capability[c.id].binding.version
         /\ c.version < nextAuthorityLineage[MeshOf(c.edge)]
         /\ \A e \in Edge : MeshOf(e) = MeshOf(c.edge) => authorityLineage[e] # c.version
      BY EdgeFacts DEF EffectsInv, EffectInv, TypeOK, Effect
<1>8. NoInterveningChange'
      BY <1>1, <1>3 DEF EffectsInv, NoInterveningChange
<1>9. OneEffectPerVersion'
  <2>1. \A c \in effects : ~(MeshOf(c.edge) = m /\ c.version = b.version)
        BY <1>1, <1>7
  <2> QED
      BY <1>1, <2>1 DEF EffectsInv, OneEffectPerVersion, MeshOf
<1>10. ConsumedIffEffect'
  <2> SUFFICES ASSUME NEW n \in Mesh, NEW i \in CapabilityId
               PROVE  ledger'[n][i].state = "consumed"
                          <=> \E c \in effects' : c.id = i /\ MeshOf(c.edge) = n
      BY DEF ConsumedIffEffect, MeshOf
  <2>1. ledger[n][i].state = "consumed" <=> \E c \in effects : c.id = i /\ MeshOf(c.edge) = n
        BY DEF EffectsInv, ConsumedIffEffect
  <2>2. /\ new.id = id /\ MeshOf(new.edge) = m
        /\ new \in effects'
        BY <1>1
  <2> HIDE DEF new
  <2>3. CASE n = m /\ i = id
        BY <1>2, <2>2, <2>3
  <2>4. CASE ~(n = m /\ i = id)
        BY <1>1, <1>2, <2>1, <2>2, <2>4
  <2> QED
      BY <2>3, <2>4
<1>11. EffectInv'
  <2> SUFFICES ASSUME NEW c \in effects'
               PROVE  /\ Held(c.id)
                      /\ c.edge = capability[c.id].binding.edge
                      /\ c.version = capability[c.id].binding.version
                      /\ c.version < nextAuthorityLineage'[MeshOf(c.edge)]
                      /\ \A e \in Edge : MeshOf(e) = MeshOf(c.edge) =>
                             authorityLineage'[e] # c.version
      BY <1>1 DEF EffectInv, MeshOf, Held
  <2>1. CASE c = new
        BY <2>1, <1>1, <1>4, <1>5, <1>6
  <2>2. CASE c \in effects
        BY <2>2, <1>1, <1>4, <1>7
  <2> HIDE DEF new
  <2> QED
      BY <1>1, <2>1, <2>2
<1> QED
    BY <1>8, <1>9, <1>10, <1>11 DEF EffectsInv

(* Every step keeps what the invariant says of the effects. *)
LEMMA NextEffects ==
    ASSUME TypeOK, TypeOK', NumbersInv, CapabilityInv, RegisterInv, EffectsInv, [Next]_vars
    PROVE  EffectsInv'
<1>1. CASE UNCHANGED vars
      BY <1>1, KeptMoves, KeptEffects DEF vars, lifecycleVars
<1>2. CASE CommitNext
  <2>1. ASSUME NEW m \in Mesh, NEW id \in CapabilityId, RefuseCommit(m, id)
        PROVE  EffectsInv'
    <3>1. \A n \in Mesh, i \in CapabilityId :
             ledger'[n][i].state = "consumed" <=> ledger[n][i].state = "consumed"
          BY <2>1 DEF RefuseCommit, LedgerAfterRefusal, TypeOK, LedgerRecord
    <3> QED
        BY <2>1, <3>1, KeptMoves, KeptEffects DEF RefuseCommit, lifecycleVars
  <2>2. ASSUME NEW m \in Mesh, NEW id \in CapabilityId,
               NEW terminal \in {"expired", "invalidated"}, LeaveIssued(m, id, terminal)
        PROVE  EffectsInv'
    <3>1. \A n \in Mesh, i \in CapabilityId :
             ledger'[n][i].state = "consumed" <=> ledger[n][i].state = "consumed"
          BY <2>2 DEF LeaveIssued, TypeOK, LedgerRecord
    <3> QED
        BY <2>2, <3>1, KeptMoves, KeptEffects DEF LeaveIssued, lifecycleVars
  <2> QED
      BY <1>2, <2>1, <2>2, CommitEffects DEF CommitNext
<1> QED
    BY <1>1, <1>2, MeshEffects, DerivationEffects DEF Next

-----------------------------------------------------------------------------
(* The live backend. *)

(* Without a direction no step passes the freshness check or registers an *)
(* id. *)
LEMMA NextLive ==
    ASSUME TypeOK, RegisterInv, EffectsInv, LiveInv, LiveFailsClosed, [Next]_vars
    PROVE  LiveInv' /\ LiveFailsClosed'
<1> SUFFICES ASSUME ~DirectionAvailable PROVE LiveInv' /\ LiveFailsClosed'
    BY DEF LiveInv, LiveFailsClosed
<1>1. /\ effects = {}
      /\ \A m \in Mesh, id \in CapabilityId : ledger[m][id].state = "unknown"
      /\ \A t \in Thread : /\ derivation[t].phase \notin {"freshness", "revalidate", "register"}
                           /\ "freshness" \notin derivation[t].passed
      BY DEF LiveInv, LiveFailsClosed
<1>2. CASE UNCHANGED <<derivation, ledger, effects>>
      BY <1>1, <1>2 DEF LiveInv, LiveFailsClosed
<1>3. CASE MeshNext
      BY <1>2, <1>3 DEF MeshNext, Connect, Prune, SimulationStep, Evolve, authorityVars
<1>4. CASE DerivationNext
  <2>1. PICK t \in Thread :
           \/ \E e \in Edge, class \in TransitionClass, direction \in RequestedDirection :
                  Request(t, e, class, direction)
           \/ Resolve(t) \/ Capture(t) \/ DeriveDirection(t)
           \/ ValidateFreshness(t) \/ Revalidate(t)
           \/ \E satisfied \in BOOLEAN : EvaluatePolicy(t, satisfied)
           \/ RegisterIssued(t)
        BY <1>4 DEF DerivationNext
  <2>2. ASSUME /\ derivation'[t].phase \notin {"freshness", "revalidate", "register"}
               /\ "freshness" \notin derivation'[t].passed,
               \A u \in Thread \ {t} : derivation'[u] = derivation[u],
               UNCHANGED <<ledger, effects>>
        PROVE  LiveInv' /\ LiveFailsClosed'
        BY <1>1, <2>2 DEF LiveInv, LiveFailsClosed
  <2>3. ASSUME NEW e \in Edge, NEW class \in TransitionClass, NEW direction \in RequestedDirection,
               Request(t, e, class, direction)
        PROVE  LiveInv' /\ LiveFailsClosed'
        BY <2>2, <2>3 DEF Request, TypeOK, NoDerivation, derivationFrame
  <2>4. CASE Resolve(t)
    <3>1. \E phase \in {"capture", "policy"}, passed \in {{"binding"}, {}} :
             Goto(t, phase, passed)
          BY <2>4 DEF Resolve
    <3> QED
        BY <2>2, <2>4, <3>1, GotoShape DEF Resolve, derivationFrame
  <2>5. CASE Capture(t)
    <3>1. UNCHANGED derivationFrame
          BY <2>5 DEF Capture
    <3> QED
        BY <2>2, <2>5, <3>1, CaptureShape DEF derivationFrame
  <2>6. CASE DeriveDirection(t)
    <3>1. Goto(t, "policy", derivation[t].passed \ {"binding"})
          BY <2>6 DEF DeriveDirection
    <3> QED
        BY <1>1, <2>2, <2>6, <3>1, GotoShape DEF DeriveDirection, derivationFrame
  <2>7. CASE ValidateFreshness(t) \/ Revalidate(t) \/ RegisterIssued(t)
        BY <1>1, <2>7 DEF ValidateFreshness, Revalidate, RegisterIssued
  <2>8. ASSUME NEW satisfied \in BOOLEAN, EvaluatePolicy(t, satisfied)
        PROVE  LiveInv' /\ LiveFailsClosed'
    <3>1. derivation'[t] = NoDerivation
          BY <1>1, <2>8, EvaluatePolicyShape
    <3> QED
      <4>1. /\ \A u \in Thread \ {t} : derivation'[u] = derivation[u]
            /\ UNCHANGED <<ledger, effects>>
            BY <2>8, EvaluatePolicyShape DEF EvaluatePolicy
      <4>2. /\ derivation'[t].phase \notin {"freshness", "revalidate", "register"}
            /\ "freshness" \notin derivation'[t].passed
            BY <3>1 DEF NoDerivation
      <4> QED
          BY <2>2, <4>1, <4>2
  <2> QED
      BY <2>1, <2>3, <2>4, <2>5, <2>6, <2>7, <2>8
<1>5. CASE CommitNext
  <2>1. ASSUME NEW m \in Mesh, NEW id \in CapabilityId, Held(id), ~WrongDomain(m, id)
        PROVE  CommitResult(m, id) = "capability_invalid"
        BY <1>1, <2>1 DEF CommitResult
  <2>2. ASSUME NEW m \in Mesh, NEW id \in CapabilityId, Commit(m, id)
        PROVE  FALSE
        BY <1>1, <2>2, CommitShape
  <2>3. ASSUME NEW m \in Mesh, NEW id \in CapabilityId, RefuseCommit(m, id)
        PROVE  LiveInv' /\ LiveFailsClosed'
        BY <1>1, <1>2, <2>3 DEF RefuseCommit, LedgerAfterRefusal
  <2>4. ASSUME NEW m \in Mesh, NEW id \in CapabilityId, NEW terminal,
               LeaveIssued(m, id, terminal)
        PROVE  FALSE
        BY <1>1, <2>4 DEF LeaveIssued
  <2> QED
      BY <1>5, <2>2, <2>3, <2>4 DEF CommitNext
<1> QED
    BY <1>2, <1>3, <1>4, <1>5 DEF Next, vars

-----------------------------------------------------------------------------
(* The inductive invariant and what follows from it. *)

(* The inductive invariant holds initially. *)
LEMMA InitInv == Init => Inv
<1> SUFFICES ASSUME Init PROVE Inv
    OBVIOUS
<1> USE DEF Init, LifecycleInit
<1>1. \A e \in Edge : relationshipGeneration[e] = 0 /\ Reverse(e) \in Edge
      BY EdgeFacts
<1>2. LifecycleInv /\ VersionsAreUnique /\ BridgeIffRelationship
      BY <1>1 DEF LifecycleInv, VersionsAreUnique, BridgeIffRelationship, Exists
<1>3. \A t \in Thread : derivation[t] = NoDerivation
      OBVIOUS
<1>4. \A id \in CapabilityId : ~Held(id)
      BY DEF Held
<1>5. RequestInv /\ CapabilityInv /\ RegisterInv
      BY <1>3, <1>4 DEF RequestInv, CapabilityInv, RegisterInv, NoDerivation
<1>6. NoInterveningChange /\ EffectInv /\ OneEffectPerVersion /\ ConsumedIffEffect
      BY DEF NoInterveningChange, EffectInv, OneEffectPerVersion, ConsumedIffEffect
<1>7. LiveInv /\ LiveFailsClosed
      BY <1>3 DEF LiveInv, LiveFailsClosed, NoDerivation
<1> QED
    BY <1>2, <1>5, <1>6, <1>7 DEF Inv

(* Every step keeps the inductive invariant. *)
LEMMA NextInv == TypeOK /\ Inv /\ [Next]_vars => Inv'
<1> SUFFICES ASSUME TypeOK, Inv, [Next]_vars PROVE Inv'
    OBVIOUS
<1>1. TypeOK'
      BY NextType
<1>2. NumbersInv /\ BindingsInv /\ EffectsInv /\ RegisterInv /\ CapabilityInv
      BY DEF Inv, NumbersInv, BindingsInv, EffectsInv
<1>3. NumbersInv' /\ BindingsInv' /\ RegisterInv' /\ EffectsInv'
      BY <1>1, <1>2, NextNumbers, NextBindings, NextRegister, NextEffects
<1>4. LiveInv' /\ LiveFailsClosed'
      BY <1>2, NextLive DEF Inv
<1> QED
    BY <1>3, <1>4 DEF Inv, NumbersInv, BindingsInv, EffectsInv

(* The types and the inductive invariant hold in every behaviour: every *)
(* authority property of this module is a part of it. *)
THEOREM InvHolds == Spec => []Inv
<1>1. Init => TypeOK /\ Inv
      BY InitTypeOK, InitInv
<1>2. TypeOK /\ Inv /\ [Next]_vars => (TypeOK /\ Inv)'
      BY NextType, NextInv
<1> QED
    BY <1>1, <1>2, PTL DEF Spec

(* A capability commits only if nothing happened to its relationship since  *)
(* the request was captured: the checks of commitProductionTransition leave *)
(* no way back to a version that was current before.                        *)
THEOREM CommitsAreFresh == Spec => []NoInterveningChange
<1>1. Inv => NoInterveningChange
      BY DEF Inv
<1> QED
    BY <1>1, InvHolds, PTL

(* Capabilities derived for the same version of a mesh's relationship never *)
(* both take effect, and none takes effect twice.                           *)
THEOREM OneEffect == Spec => []OneEffectPerVersion
<1>1. Inv => OneEffectPerVersion
      BY DEF Inv
<1> QED
    BY <1>1, InvHolds, PTL

(* The ledger's consumed state and the effects agree. *)
THEOREM LedgerAgreesWithEffects == Spec => []ConsumedIffEffect
<1>1. Inv => ConsumedIffEffect
      BY DEF Inv
<1> QED
    BY <1>1, InvHolds, PTL

(* Generations and lineages name one relationship of a mesh. *)
THEOREM NumbersNameOneRelationship == Spec => []VersionsAreUnique
<1>1. Inv => VersionsAreUnique
      BY DEF Inv
<1> QED
    BY <1>1, InvHolds, PTL

(* A directed bridge and its lifecycle entry exist together, both ways. *)
THEOREM BridgesHaveRelationships == Spec => []BridgeIffRelationship
<1>1. Inv => BridgeIffRelationship
      BY DEF Inv
<1> QED
    BY <1>1, InvHolds, PTL

(* The live backend never lets a capability be registered or committed. *)
THEOREM LiveBackendFailsClosed == Spec => []LiveFailsClosed
<1>1. Inv => LiveFailsClosed
      BY DEF Inv
<1> QED
    BY <1>1, InvHolds, PTL

(* A ledger record that left the issued state is never written again. *)
THEOREM TerminalRecords == Spec => TerminalStaysTerminal
<1>1. ASSUME TypeOK, Inv, [Next]_vars, NEW m \in Mesh, NEW id \in CapabilityId,
             ledger[m][id].state \in Terminal
      PROVE  ledger'[m][id] = ledger[m][id]
  <2>1. CASE MeshNext
        BY <2>1 DEF MeshNext, Connect, Prune, SimulationStep, Evolve, authorityVars
  <2>2. CASE DerivationNext
    <3>1. ASSUME NEW t \in Thread, RegisterIssued(t)
          PROVE  ledger'[m][id] = ledger[m][id]
          BY <1>1, <3>1 DEF RegisterIssued, TypeOK, Terminal
    <3> QED
        BY <2>2, <3>1 DEF DerivationNext, Request, Resolve, Capture, DeriveDirection,
           ValidateFreshness, Revalidate, EvaluatePolicy, derivationFrame
  <2>3. CASE CommitNext
    <3>1. ASSUME NEW n \in Mesh, NEW i \in CapabilityId,
                 NEW terminal \in {"expired", "invalidated"},
                 Commit(n, i) \/ RefuseCommit(n, i) \/ LeaveIssued(n, i, terminal)
          PROVE  ledger'[m][id] = ledger[m][id]
      <4>1. ledger[n][i].state = "issued" \/ UNCHANGED ledger
        <5>1. CASE Commit(n, i)
              BY <1>1, <5>1, CommitShape
        <5>2. CASE RefuseCommit(n, i)
              BY <5>2 DEF RefuseCommit, LedgerAfterRefusal
        <5>3. CASE LeaveIssued(n, i, terminal)
              BY <5>3 DEF LeaveIssued
        <5> QED
            BY <3>1, <5>1, <5>2, <5>3
      <4>2. \/ ledger' = [ledger EXCEPT ![n][i].state = "consumed"]
            \/ ledger' = [ledger EXCEPT ![n][i].state = "invalidated"]
            \/ ledger' = [ledger EXCEPT ![n][i].state = terminal]
            \/ UNCHANGED ledger
        <5>1. CASE Commit(n, i)
              BY <5>1 DEF Commit
        <5>2. CASE RefuseCommit(n, i)
              BY <5>2 DEF RefuseCommit, LedgerAfterRefusal
        <5>3. CASE LeaveIssued(n, i, terminal)
              BY <5>3 DEF LeaveIssued
        <5> QED
            BY <3>1, <5>1, <5>2, <5>3
      <4>3. n # m \/ i # id \/ UNCHANGED ledger
            BY <1>1, <4>1 DEF Terminal
      <4> QED
          BY <1>1, <4>2, <4>3 DEF TypeOK
    <3> QED
        BY <2>3, <3>1 DEF CommitNext
  <2> QED
      BY <1>1, <2>1, <2>2, <2>3 DEF Next, vars
<1>2. TypeOK /\ Inv /\ [Next]_vars =>
          [\A m \in Mesh, id \in CapabilityId :
              ledger[m][id].state \in Terminal => ledger'[m][id] = ledger[m][id]]_vars
      BY <1>1
<1> QED
    BY <1>2, TypeCorrect, InvHolds, PTL DEF Spec, TerminalStaysTerminal

-----------------------------------------------------------------------------
(* Steps, as far as capabilities can tell. *)

(* The state a capability's own mesh has on record. *)
StateOf(id) == ledger[DomainOf(id)][id].state

(* A held capability names an edge of the mesh that is its domain. *)
LEMMA DomainType ==
    ASSUME TypeOK, NEW id \in CapabilityId, Held(id)
    PROVE  /\ capability[id].binding \in Binding
           /\ capability[id].binding.edge \in Edge
           /\ DomainOf(id) \in Mesh
           /\ StateOf(id) \in LedgerState
<1>1. capability[id].binding \in Binding
  BY DEF TypeOK, Capability, Held
<1>2. capability[id].binding.edge \in Edge /\ DomainOf(id) \in Mesh
  BY <1>1, EdgeFacts DEF Binding, DomainOf
<1>3. StateOf(id) \in LedgerState
  BY <1>2 DEF TypeOK, LedgerRecord, StateOf
<1> QED BY <1>1, <1>2, <1>3

(* Whoever holds a capability keeps it as it is: nothing is drawn twice.    *)
LEMMA KeptCapability ==
    ASSUME NEW id \in CapabilityId, capability'[id] = capability[id],
           \A m \in Mesh : ledger'[m][id].state = ledger[m][id].state, TypeOK
    PROVE  /\ Held(id)' = Held(id)
           /\ DomainOf(id)' = DomainOf(id)
           /\ Held(id) => StateOf(id)' = StateOf(id)
           /\ TokenOf(id)' = TokenOf(id)
<1>1. Held(id)' = Held(id) /\ DomainOf(id)' = DomainOf(id)
  BY DEF Held, DomainOf
<1>2. Held(id) => StateOf(id)' = StateOf(id)
  BY <1>1, DomainType DEF StateOf
<1> QED BY <1>1, <1>2 DEF TokenOf, StateOf

(* A registration: the capability is new and its record issued. *)
LEMMA RegisterShape ==
    ASSUME TypeOK, RegisterInv, NEW t \in Thread, RegisterIssued(t),
           NEW id, id = derivation[t].id
    PROVE  /\ id \in CapabilityId /\ ~Held(id) /\ Held(id)'
           /\ derivation[t].binding \in Binding
           /\ capability'[id].binding = derivation[t].binding
           /\ StateOf(id)' = "issued"
           /\ \A i \in CapabilityId \ {id} : /\ capability'[i] = capability[i]
                                            /\ \A m \in Mesh : ledger'[m][i] = ledger[m][i]
           /\ UNCHANGED <<lifecycleVars, effects, answers>>
<1> DEFINE m == MeshOf(derivation[t].binding.edge)
<1>1. id \in CapabilityId /\ ~Held(id)
  BY DEF RegisterIssued, RegisterInv
<1>2. derivation[t].binding # NoBinding /\ derivation[t].binding \in Binding
  BY DEF RegisterIssued, TypeOK, Derivation
<1>3. m \in Mesh
  BY <1>2, EdgeFacts DEF Binding
<1>4. capability'[id].binding = derivation[t].binding
  BY <1>1 DEF RegisterIssued, TypeOK
<1>5. ledger'[m][id].state = "issued"
  BY <1>1, <1>3 DEF RegisterIssued, TypeOK
<1>6. Held(id)' /\ StateOf(id)' = "issued"
  BY <1>2, <1>4, <1>5 DEF Held, StateOf, DomainOf
<1>7. \A i \in CapabilityId \ {id} : /\ capability'[i] = capability[i]
                                    /\ \A n \in Mesh : ledger'[n][i] = ledger[n][i]
  BY <1>1 DEF RegisterIssued, TypeOK
<1> QED BY <1>1, <1>2, <1>4, <1>6, <1>7 DEF RegisterIssued

(* Steps of the mesh and of a derivation that registers nothing. *)
LEMMA QuietSteps ==
    ASSUME [Next]_vars, ~CommitNext, \A t \in Thread : ~RegisterIssued(t)
    PROVE  /\ UNCHANGED <<capability, ledger, effects, answers>>
           /\ MeshNext \/ UNCHANGED lifecycleVars
<1>1. CASE MeshNext
  BY <1>1 DEF MeshNext, Connect, Prune, SimulationStep, Evolve, authorityVars
<1>2. CASE DerivationNext
  BY <1>2 DEF DerivationNext, Request, Resolve, Capture, DeriveDirection, ValidateFreshness,
     Revalidate, EvaluatePolicy, derivationFrame
<1>3. CASE UNCHANGED vars
  BY <1>3 DEF vars
<1> QED BY <1>1, <1>2, <1>3 DEF Next

(* The record of id at m is the only one that changes, to state s. *)
RecordBecomes(m, id, s) ==
    /\ ledger'[m][id].state = s
    /\ \A n \in Mesh, i \in CapabilityId :
           n # m \/ i # id => ledger'[n][i].state = ledger[n][i].state

(* A refusal invalidates an issued record of the right mesh. *)
LEMMA RefuseShape ==
    ASSUME TypeOK, NEW m \in Mesh, NEW id \in CapabilityId, RefuseCommit(m, id)
    PROVE  \/ /\ DomainOf(id) = m /\ ledger[m][id].state = "issued"
              /\ RecordBecomes(m, id, "invalidated")
           \/ UNCHANGED ledger /\ (DomainOf(id) # m \/ ledger[m][id].state # "issued")
BY DEF TypeOK, RefuseCommit, LedgerAfterRefusal, WrongDomain, RecordBecomes, LedgerRecord

(* The owner of a record takes it out of the issued state. *)
LEMMA LeaveShape ==
    ASSUME TypeOK, NEW m \in Mesh, NEW id \in CapabilityId,
           NEW s \in {"expired", "invalidated"}, LeaveIssued(m, id, s)
    PROVE  ledger[m][id].state = "issued" /\ RecordBecomes(m, id, s)
BY DEF TypeOK, LeaveIssued, RecordBecomes, LedgerRecord

(* What a record's change does to its capability. *)
LEMMA RecordChange ==
    ASSUME TypeOK, NEW m \in Mesh, NEW id \in CapabilityId, NEW s,
           RecordBecomes(m, id, s), UNCHANGED capability
    PROVE  /\ \A i \in CapabilityId : Held(i)' = Held(i) /\ DomainOf(i)' = DomainOf(i)
           /\ Held(id) /\ DomainOf(id) = m => StateOf(id)' = s
           /\ \A i \in CapabilityId :
                  Held(i) /\ ~(i = id /\ DomainOf(id) = m) => StateOf(i)' = StateOf(i)
<1>1. \A i \in CapabilityId : Held(i)' = Held(i) /\ DomainOf(i)' = DomainOf(i)
  BY DEF Held, DomainOf
<1>2. Held(id) /\ DomainOf(id) = m => StateOf(id)' = s
  BY <1>1 DEF StateOf, RecordBecomes
<1>3. ASSUME NEW i \in CapabilityId, Held(i), ~(i = id /\ DomainOf(id) = m)
      PROVE  StateOf(i)' = StateOf(i)
  <2>1. DomainOf(i) \in Mesh
    BY <1>3, DomainType
  <2> QED BY <1>1, <1>3, <2>1 DEF StateOf, RecordBecomes
<1> QED BY <1>1, <1>2, <1>3

-----------------------------------------------------------------------------
(* Answers. *)

Refusals == {"capability_invalid", "stale_state", "transition_rejected"}

(* What a holder was told fits the record: committed exactly when it is     *)
(* consumed, refused only if it is terminal otherwise.                      *)
Fits(state, said) ==
    /\ state # "unknown"
    /\ "committed" \in said <=> state = "consumed"
    /\ "capability_consumed" \in said => "committed" \in said
    /\ said \cap Refusals # {} => state \in {"expired", "invalidated"}

AnswersInv ==
    \A id \in CapabilityId :
        IF Held(id) THEN Fits(StateOf(id), answers[id]) ELSE answers[id] = {}

(* A presentation answers one capability only. *)
LEMMA AnswerShape ==
    ASSUME TypeOK, NEW id \in CapabilityId, NEW result, Answer(id, result)
    PROVE  /\ answers'[id] = answers[id] \cup {result}
           /\ \A i \in CapabilityId \ {id} : answers'[i] = answers[i]
BY DEF TypeOK, Answer

(* A presentation that does not commit fits the record it leaves behind. *)
LEMMA RefuseAnswers ==
    ASSUME TypeOK, AnswersInv, NEW m \in Mesh, NEW id \in CapabilityId, RefuseCommit(m, id)
    PROVE  AnswersInv'
<1> DEFINE result == CommitResult(m, id)
<1>1. Held(id) /\ Fits(StateOf(id), answers[id])
  BY DEF RefuseCommit, AnswersInv
<1>2. /\ answers'[id] = answers[id] \cup {result}
      /\ \A i \in CapabilityId \ {id} : answers'[i] = answers[i]
  BY AnswerShape DEF RefuseCommit
<1>3. UNCHANGED capability /\ result # "committed"
  BY DEF RefuseCommit
<1>4. result \in Refusals \cup {"target_mismatch", "capability_consumed"}
  BY <1>3 DEF CommitResult, Refusals
<1>5. DomainOf(id) # m => result = "target_mismatch"
  BY DEF CommitResult, WrongDomain
<1>6. DomainOf(id) = m => /\ result # "target_mismatch"
                          /\ result = "capability_consumed" <=> StateOf(id) = "consumed"
  BY DEF CommitResult, WrongDomain, StateOf
<1> HIDE DEF result
<1>7. CASE /\ DomainOf(id) = m /\ ledger[m][id].state = "issued"
           /\ RecordBecomes(m, id, "invalidated")
  <2>1. /\ \A i \in CapabilityId : Held(i)' = Held(i)
        /\ StateOf(id)' = "invalidated" /\ StateOf(id) = "issued"
        /\ \A i \in CapabilityId \ {id} : Held(i) => StateOf(i)' = StateOf(i)
    BY <1>1, <1>3, <1>7, RecordChange DEF StateOf
  <2>2. Fits("invalidated", answers'[id])
    BY <1>1, <1>2, <1>4, <1>6, <1>7, <2>1 DEF Fits, Refusals
  <2> QED BY <1>1, <1>2, <2>1, <2>2 DEF AnswersInv
<1>8. CASE UNCHANGED ledger /\ (DomainOf(id) # m \/ ledger[m][id].state # "issued")
  <2>1. \A i \in CapabilityId : Held(i)' = Held(i) /\ StateOf(i)' = StateOf(i)
    BY <1>3, <1>8 DEF Held, StateOf, DomainOf
  <2>2. StateOf(id) \in LedgerState
    BY <1>1, DomainType
  <2>3. Fits(StateOf(id), answers'[id])
    <3>1. CASE DomainOf(id) # m
      BY <1>1, <1>2, <1>5, <3>1 DEF Fits, Refusals
    <3>2. CASE DomainOf(id) = m
      <4>1. StateOf(id) \in {"consumed", "expired", "invalidated"}
        BY <1>1, <1>8, <2>2, <3>2 DEF Fits, LedgerState, StateOf
      <4> QED BY <1>1, <1>2, <1>4, <1>6, <3>2, <4>1 DEF Fits, Refusals
    <3> QED BY <3>1, <3>2
  <2> QED BY <1>1, <1>2, <2>1, <2>3 DEF AnswersInv
<1> QED BY <1>7, <1>8, RefuseShape

(* A commit is answered from an issued record, so nothing was refused yet. *)
LEMMA CommitAnswers ==
    ASSUME TypeOK, AnswersInv, NEW m \in Mesh, NEW id \in CapabilityId, Commit(m, id)
    PROVE  AnswersInv'
<1>1. Held(id) /\ Fits(StateOf(id), answers[id])
  BY DEF Commit, AnswersInv
<1>2. /\ answers'[id] = answers[id] \cup {"committed"}
      /\ \A i \in CapabilityId \ {id} : answers'[i] = answers[i]
  BY AnswerShape DEF Commit
<1>3. DomainOf(id) = m /\ StateOf(id) = "issued" /\ RecordBecomes(m, id, "consumed")
  BY CommitShape DEF DomainOf, StateOf, RecordBecomes
<1>4. /\ \A i \in CapabilityId : Held(i)' = Held(i)
      /\ StateOf(id)' = "consumed"
      /\ \A i \in CapabilityId \ {id} : Held(i) => StateOf(i)' = StateOf(i)
  BY <1>1, <1>3, RecordChange DEF Commit
<1>5. Fits("consumed", answers'[id])
  BY <1>1, <1>2, <1>3 DEF Fits, Refusals
<1> QED BY <1>1, <1>2, <1>4, <1>5 DEF AnswersInv

(* The end of a record nobody is told of. *)
LEMMA LeaveAnswers ==
    ASSUME TypeOK, AnswersInv, NEW m \in Mesh, NEW id \in CapabilityId,
           NEW s \in {"expired", "invalidated"}, LeaveIssued(m, id, s)
    PROVE  AnswersInv'
<1>1. ledger[m][id].state = "issued" /\ RecordBecomes(m, id, s)
  BY LeaveShape
<1>2. UNCHANGED <<capability, answers>>
  BY DEF LeaveIssued
<1>3. \A i \in CapabilityId : Held(i)' = Held(i)
  BY <1>1, <1>2, RecordChange
<1> SUFFICES ASSUME NEW i \in CapabilityId, Held(i) PROVE Fits(StateOf(i)', answers[i])
  BY <1>2, <1>3 DEF AnswersInv
<1>4. CASE i = id /\ DomainOf(id) = m
  <2>1. StateOf(i)' = s /\ StateOf(i) = "issued"
    BY <1>1, <1>2, <1>4, RecordChange DEF StateOf
  <2> QED BY <2>1 DEF AnswersInv, Fits
<1>5. CASE ~(i = id /\ DomainOf(id) = m)
  <2>1. StateOf(i)' = StateOf(i)
    BY <1>1, <1>2, <1>5, RecordChange
  <2> QED BY <2>1 DEF AnswersInv
<1> QED BY <1>4, <1>5

(* A new capability was never presented. *)
LEMMA RegisterAnswers ==
    ASSUME TypeOK, RegisterInv, AnswersInv, NEW t \in Thread, RegisterIssued(t)
    PROVE  AnswersInv'
<1>1. PICK id : id = derivation[t].id
  OBVIOUS
<1>2. /\ id \in CapabilityId /\ ~Held(id) /\ Held(id)' /\ StateOf(id)' = "issued"
      /\ \A i \in CapabilityId \ {id} : /\ capability'[i] = capability[i]
                                       /\ \A m \in Mesh : ledger'[m][i] = ledger[m][i]
      /\ UNCHANGED answers
  BY <1>1, RegisterShape
<1>3. Fits("issued", {})
  BY DEF Fits
<1>4. answers'[id] = {}
  BY <1>2 DEF AnswersInv
<1>5. \A i \in CapabilityId \ {id} :
          Held(i)' = Held(i) /\ (Held(i) => StateOf(i)' = StateOf(i))
  BY <1>2, KeptCapability
<1> QED BY <1>2, <1>3, <1>4, <1>5 DEF AnswersInv

(* Every step keeps answers and records in agreement. *)
LEMMA NextAnswers ==
    ASSUME TypeOK, Inv, AnswersInv, [Next]_vars
    PROVE  AnswersInv'
<1>1. RegisterInv
  BY DEF Inv
<1>2. CASE ~CommitNext /\ \A t \in Thread : ~RegisterIssued(t)
  BY <1>2, QuietSteps DEF AnswersInv, Held, StateOf, DomainOf
<1>3. CASE CommitNext
  BY <1>3, RefuseAnswers, CommitAnswers, LeaveAnswers DEF CommitNext
<1>4. CASE \E t \in Thread : RegisterIssued(t)
  BY <1>1, <1>4, RegisterAnswers
<1> QED BY <1>2, <1>3, <1>4

(* What a holder was told by the issuing mesh is final: for any number of   *)
(* meshes, holders and presentations, in whatever order.                    *)
THEOREM RefusalsAreFinal == Spec => []RefusalIsFinal
<1>1. Init => AnswersInv
  BY DEF Init, AnswersInv, Held
<1>2. ASSUME TypeOK, AnswersInv PROVE RefusalIsFinal
  <2> SUFFICES ASSUME NEW id \in CapabilityId
               PROVE  /\ "committed" \in answers[id] =>
                            answers[id] \subseteq
                                {"committed", "capability_consumed", "target_mismatch"}
                      /\ "capability_consumed" \in answers[id] => "committed" \in answers[id]
    BY DEF RefusalIsFinal
  <2>1. answers[id] \subseteq Result
    BY <1>2 DEF TypeOK
  <2>2. CASE Held(id)
    BY <1>2, <2>1, <2>2 DEF AnswersInv, Fits, Refusals, Result
  <2>3. CASE ~Held(id)
    BY <1>2, <2>3 DEF AnswersInv
  <2> QED BY <2>2, <2>3
<1>3. TypeOK /\ Inv /\ AnswersInv /\ [Next]_vars => AnswersInv'
  BY NextAnswers
<1> QED BY <1>1, <1>2, <1>3, TypeCorrect, InvHolds, PTL DEF Spec

-----------------------------------------------------------------------------
(* Refinement. *)

Tokens == [id \in CapabilityId |-> TokenOf(id)]

(* Whatever moves edges moves versions as the contract allows. *)
LEMMA MovesAreMoves ==
    ASSUME TypeOK, TypeOK', Inv', NEW E \in SUBSET Edge, Moved(E)
    PROVE  \A e \in Edge : Contract!Moves(e)
<1> SUFFICES ASSUME NEW e \in Edge PROVE Contract!Moves(e)
  OBVIOUS
<1> DEFINE m == MeshOf(e)
<1>1. m \in Mesh
  BY EdgeFacts
<1>2. /\ nextAuthorityLineage[m] \in Nat /\ nextAuthorityLineage'[m] \in Nat \ {0}
      /\ authorityLineage[e] \in Nat /\ authorityLineage'[e] \in Nat
  BY <1>1 DEF TypeOK, LifecycleTypeOK
<1>3. nextAuthorityLineage'[m] >= nextAuthorityLineage[m]
  BY <1>1 DEF Moved
<1>4. \/ authorityLineage'[e] \in {0, authorityLineage[e]}
      \/ authorityLineage'[e] >= nextAuthorityLineage[m]
  BY DEF Moved
<1>5. authorityLineage'[e] < nextAuthorityLineage'[m]
  <2>1. CASE Exists(e)'
    BY <2>1 DEF Inv, VersionsAreUnique, Exists, MeshOf
  <2>2. CASE ~Exists(e)'
    BY <1>2, <2>2 DEF Inv, LifecycleInv, Exists
  <2> QED BY <2>1, <2>2
<1>6. MeshOf(e)' = m
  BY DEF MeshOf
<1> HIDE DEF m
<1> QED BY <1>2, <1>3, <1>4, <1>5, <1>6 DEF Contract!Moves, m

(* A record's change is its token's, in the ledger of the token's mesh. *)
LEMMA TokenChange ==
    ASSUME TypeOK, NEW m \in Mesh, NEW id \in CapabilityId, NEW s,
           RecordBecomes(m, id, s), UNCHANGED capability, Held(id), DomainOf(id) = m
    PROVE  Tokens' = [Tokens EXCEPT ![id].state = TokenState(s)]
<1>1. /\ \A i \in CapabilityId : Held(i)' = Held(i)
      /\ StateOf(id)' = s
      /\ \A i \in CapabilityId \ {id} : Held(i) => StateOf(i)' = StateOf(i)
  BY RecordChange
<1>2. \A i \in CapabilityId \ {id} : TokenOf(i)' = TokenOf(i)
  BY <1>1 DEF TokenOf, StateOf
<1>3. TokenOf(id) = [state |-> TokenState(StateOf(id)),
                     target |-> capability[id].binding.edge,
                     version |-> capability[id].binding.version]
  BY DEF TokenOf, StateOf
<1>4. TokenOf(id)' = [state |-> TokenState(s),
                      target |-> capability[id].binding.edge,
                      version |-> capability[id].binding.version]
  BY <1>1 DEF TokenOf, StateOf
<1>5. TokenOf(id)' = [TokenOf(id) EXCEPT !.state = TokenState(s)]
  BY <1>3, <1>4
<1> QED BY <1>2, <1>5 DEF Tokens

(* A record of another mesh is nobody's token. *)
LEMMA TokensKept ==
    ASSUME TypeOK, NEW m \in Mesh, NEW id \in CapabilityId, NEW s,
           RecordBecomes(m, id, s), UNCHANGED capability,
           ~(Held(id) /\ DomainOf(id) = m)
    PROVE  Tokens' = Tokens
<1>1. \A i \in CapabilityId : Held(i)' = Held(i) /\ (Held(i) => StateOf(i)' = StateOf(i))
  BY RecordChange
<1> QED BY <1>1 DEF Tokens, TokenOf, StateOf

(* An issued record of its mesh is an issued token. *)
LEMMA IssuedToken ==
    ASSUME NEW id \in CapabilityId, Held(id), StateOf(id) = "issued"
    PROVE  /\ Tokens[id].state = "issued"
           /\ Tokens[id].target = capability[id].binding.edge
           /\ Tokens[id].version = capability[id].binding.version
BY DEF Tokens, TokenOf, StateOf, TokenState

(* The end of an issued record voids its token. *)
LEMMA VoidStep ==
    ASSUME TypeOK, NEW m \in Mesh, NEW id \in CapabilityId,
           NEW s \in {"expired", "invalidated"}, ledger[m][id].state = "issued",
           RecordBecomes(m, id, s), UNCHANGED <<lifecycleVars, capability, effects>>
    PROVE  Contract!Void(id) \/ UNCHANGED Contract!vars
<1>1. UNCHANGED <<authorityLineage, nextAuthorityLineage, effects, capability>>
  BY DEF lifecycleVars
<1>2. CASE Held(id) /\ DomainOf(id) = m
  <2>1. Tokens' = [Tokens EXCEPT ![id].state = "void"]
    BY <1>1, <1>2, TokenChange DEF TokenState
  <2>2. Tokens[id].state = "issued"
    BY <1>2, IssuedToken DEF StateOf
  <2> QED BY <1>1, <2>1, <2>2 DEF Contract!Void, Tokens, MeshOf
<1>3. CASE ~(Held(id) /\ DomainOf(id) = m)
  <2>1. Tokens' = Tokens
    BY <1>1, <1>3, TokensKept
  <2> QED BY <1>1, <2>1 DEF Contract!vars, Tokens, MeshOf
<1> QED BY <1>2, <1>3

(* A commit is a use of the token, at the version it names. *)
LEMMA UseStep ==
    ASSUME TypeOK, TypeOK', Inv, Inv', NEW m \in Mesh, NEW id \in CapabilityId, Commit(m, id)
    PROVE  Contract!Use(id)
<1> DEFINE b == capability[id].binding
<1>1. /\ b.edge \in Edge /\ MeshOf(b.edge) = m
      /\ ledger[m][id].state = "issued"
      /\ authorityLineage[b.edge] = b.version
      /\ effects' = effects \cup {[id |-> id, edge |-> b.edge, version |-> b.version,
                                   since |-> changedCapability[id]]}
      /\ RecordBecomes(m, id, "consumed")
  BY CommitShape DEF RecordBecomes
<1>2. Held(id) /\ DomainOf(id) = m /\ UNCHANGED capability
  BY <1>1 DEF Commit, DomainOf
<1>3. Tokens' = [Tokens EXCEPT ![id].state = "used"]
  BY <1>1, <1>2, TokenChange DEF TokenState
<1>4. /\ Tokens[id].state = "issued" /\ Tokens[id].target = b.edge
      /\ Tokens[id].version = b.version
  BY <1>1, <1>2, IssuedToken DEF StateOf
<1>5. \A e \in Edge : Contract!Moves(e)
  BY <1>1, AdvanceMoves, MovesAreMoves DEF Commit
<1>6. authorityLineage'[b.edge] > nextAuthorityLineage[m] - 1
  BY <1>1 DEF Commit, AdvanceLineage, TypeOK, LifecycleTypeOK
<1>7. {<<c.id, c.edge, c.version>> : c \in effects'}
        = {<<c.id, c.edge, c.version>> : c \in effects} \cup {<<id, b.edge, b.version>>}
  <2> DEFINE new == [id |-> id, edge |-> b.edge, version |-> b.version,
                     since |-> changedCapability[id]]
             use(c) == <<c.id, c.edge, c.version>>
  <2>1. effects' = effects \cup {new} /\ use(new) = <<id, b.edge, b.version>>
    BY <1>1
  <2>2. {use(c) : c \in effects \cup {new}} = {use(c) : c \in effects} \cup {use(new)}
    <3> HIDE DEF new, use
    <3> QED BY Zenon
  <2> HIDE DEF new
  <2> QED BY <2>1, <2>2
<1> QED BY <1>1, <1>3, <1>4, <1>5, <1>6, <1>7 DEF Contract!Use, Tokens

(* A registration issues a token for a version that was given out. *)
LEMMA IssueStep ==
    ASSUME TypeOK, Inv, NEW t \in Thread, RegisterIssued(t)
    PROVE  \E id \in CapabilityId : Contract!Issue(id)
<1> DEFINE b == derivation[t].binding
<1>1. PICK id : id = derivation[t].id
  OBVIOUS
<1>2. /\ id \in CapabilityId /\ ~Held(id) /\ Held(id)'
      /\ b \in Binding
      /\ capability'[id].binding = b
      /\ StateOf(id)' = "issued"
      /\ \A i \in CapabilityId \ {id} : /\ capability'[i] = capability[i]
                                       /\ \A m \in Mesh : ledger'[m][i] = ledger[m][i]
      /\ UNCHANGED <<lifecycleVars, effects>>
  BY <1>1, RegisterShape DEF Inv
<1>3. \A i \in CapabilityId \ {id} : TokenOf(i)' = TokenOf(i)
  BY <1>2, KeptCapability
<1>4. TokenOf(id).state = "none"
  BY <1>2 DEF TokenOf
<1>5. TokenOf(id)' = [state |-> "issued", target |-> b.edge, version |-> b.version]
  BY <1>2 DEF TokenOf, StateOf, TokenState
<1>6. b.edge \in Edge /\ b.version \in 1 .. nextAuthorityLineage[MeshOf(b.edge)] - 1
  BY <1>2, BindingIsNotNone DEF Inv, RequestInv, GivenOut, Binding
<1>7. UNCHANGED <<authorityLineage, nextAuthorityLineage, effects>>
  BY <1>2 DEF lifecycleVars
<1>8. Contract!Issue(id)
  BY <1>2, <1>3, <1>4, <1>5, <1>6, <1>7 DEF Contract!Issue, Contract!OthersKept, MeshOf
<1> QED BY <1>2, <1>8

(* The mesh's own steps move versions and touch no token. *)
LEMMA ChangeStep ==
    ASSUME TypeOK, TypeOK', Inv', MeshNext
    PROVE  Contract!Change
<1>1. \E E \in SUBSET Edge : Moved(E)
  <2>1. ASSUME NEW e \in Edge, Connect(e) PROVE Pair(e) \in SUBSET Edge /\ Moved(Pair(e))
    BY <2>1, ConnectMoves, EdgeFacts DEF Connect, Pair
  <2>2. ASSUME NEW m \in Mesh, NEW pruned \in SUBSET Edge, Prune(m, pruned)
        PROVE  Moved(pruned)
    BY <2>2, DiscardMoves DEF Prune
  <2>3. ASSUME NEW e \in Edge, NEW status \in PublishedStatus, SimulationStep(e, status)
        PROVE  Moved({})
    BY <2>3, KeptMoves DEF SimulationStep, lifecycleVars
  <2>4. ASSUME NEW e \in Edge, Evolve(e) PROVE Moved({})
    BY <2>4, KeptMoves DEF Evolve, EvolvePersistence
  <2> QED BY <2>1, <2>2, <2>3, <2>4 DEF MeshNext
<1>2. \A e \in Edge : Contract!Moves(e)
  BY <1>1, MovesAreMoves
<1>3. UNCHANGED <<capability, ledger, effects>>
  BY DEF MeshNext, Connect, Prune, SimulationStep, Evolve, authorityVars
<1>4. \A i \in CapabilityId : TokenOf(i)' = TokenOf(i)
  BY <1>3, KeptCapability
<1> QED BY <1>2, <1>3, <1>4 DEF Contract!Change

(* Every step is a step of the contract or changes nothing of it. *)
LEMMA ContractStep ==
    TypeOK /\ TypeOK' /\ Inv /\ Inv' /\ [Next]_vars => [Contract!Next]_Contract!vars
<1> SUFFICES ASSUME TypeOK, TypeOK', Inv, Inv', [Next]_vars
             PROVE  Contract!Next \/ UNCHANGED Contract!vars
  OBVIOUS
<1> USE DEF Contract!Next
<1>1. CASE MeshNext
  BY <1>1, ChangeStep
<1>2. CASE \E t \in Thread : RegisterIssued(t)
  BY <1>2, IssueStep
<1>3. CASE CommitNext
  <2>1. ASSUME NEW m \in Mesh, NEW id \in CapabilityId, Commit(m, id)
        PROVE  Contract!Use(id)
    BY <2>1, UseStep
  <2>2. ASSUME NEW m \in Mesh, NEW id \in CapabilityId, RefuseCommit(m, id)
        PROVE  Contract!Void(id) \/ UNCHANGED Contract!vars
    <3>1. UNCHANGED <<lifecycleVars, capability, effects>>
      BY <2>2 DEF RefuseCommit
    <3>2. CASE ledger[m][id].state = "issued" /\ RecordBecomes(m, id, "invalidated")
      BY <3>1, <3>2, VoidStep
    <3>3. CASE UNCHANGED ledger
      BY <3>1, <3>3 DEF Contract!vars, lifecycleVars, TokenOf, Held, DomainOf, MeshOf
    <3> QED BY <2>2, <3>2, <3>3, RefuseShape
  <2>3. ASSUME NEW m \in Mesh, NEW id \in CapabilityId,
               NEW s \in {"expired", "invalidated"}, LeaveIssued(m, id, s)
        PROVE  Contract!Void(id) \/ UNCHANGED Contract!vars
    <3>1. UNCHANGED <<lifecycleVars, capability, effects>>
      BY <2>3 DEF LeaveIssued
    <3> QED BY <2>3, <3>1, LeaveShape, VoidStep
  <2> QED BY <1>3, <2>1, <2>2, <2>3 DEF CommitNext
<1>4. CASE ~MeshNext /\ ~CommitNext /\ \A t \in Thread : ~RegisterIssued(t)
  BY <1>4, QuietSteps DEF Contract!vars, lifecycleVars, TokenOf, Held, DomainOf, MeshOf
<1> QED BY <1>1, <1>2, <1>3, <1>4

(* For every number of meshes, nodes, threads and capabilities the ledger,  *)
(* the counters and the commit's checks implement tokens of one use.        *)
THEOREM AuthorityImplementsContract == Spec => ImplementsContract
<1>1. Init => Contract!Init
  BY EdgeFacts DEF Init, LifecycleInit, Contract!Init, TokenOf, Held
<1>2. TypeOK /\ TypeOK' /\ Inv /\ Inv' /\ [Next]_vars => [Contract!Next]_Contract!vars
  BY ContractStep
<1> QED BY <1>1, <1>2, TypeCorrect, InvHolds, PTL DEF Spec, ImplementsContract, Contract!Spec
=============================================================================
