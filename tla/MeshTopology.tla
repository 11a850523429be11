------------------------------ MODULE MeshTopology ------------------------------
(***************************************************************************)
(* The topology of a SpatialAdaptiveMesh and what is derived from it: the  *)
(* bridge vectors of its nodes, the lifecycle entries of its directed      *)
(* edges, the diffusion rate alpha, the flags and the shape of the buffers *)
(* a simulation step computes into.  Every operation holds topologyMutex   *)
(* exclusively, so a call is one step; calls that fail, for their          *)
(* arguments or for want of memory, are steps with their own ends.         *)
(*                                                                         *)
(* A capacity is 0 (the bridge is isolated: BridgeState) or 1 (it is not); *)
(* thresholds of a prune are 0, 1 (between the two) and 2 (above all).     *)
(* alpha is named by the degree it is safe for: min(0.2, 0.8 / degree).    *)
(***************************************************************************)
EXTENDS Integers, Sequences, FiniteSets

CONSTANTS
    MaxNode,        \* bound: nodes added
    MaxGeneration,  \* bound: relationship generations drawn
    Position,       \* where node 0, 1, ... is put, on a line
    Radius,         \* radii of the automatic connection
    Batch           \* batches of pairs a caller connects, valid or not

ASSUME TopologyAssumption ==
    /\ MaxNode \in Nat /\ MaxGeneration \in Nat
    /\ Position \in [0 .. MaxNode - 1 -> Int]
    /\ Radius \subseteq Nat
    /\ \A batch \in Batch : batch \in Seq(Nat \X Nat)

Node == 0 .. MaxNode - 1

EdgeKey == {e \in Node \X Node : e[1] # e[2]}

Bridge == [target: Node, capacity: {0, 1}]

VARIABLES
    bridges,        \* per node: its bridge vector
    nodeCount,      \* nodes.size()
    incarnations,   \* nodeIncarnations_.size()
    incarnationCapacity,  \* nodeIncarnations_.capacity()
    relationships,  \* productionRelationships_: the generation of an edge, 0: no entry
    nextRelationshipGeneration,
    alphaDegree,                 \* the degree alpha was last computed for
    simulationBufferShapeDirty,
    topologyValidationRequired,
    bufferShape,    \* per node: the size of its pending-bridge buffers; -1: none
    result          \* history: what the last call ended with

topologyVars == <<bridges, nodeCount, incarnations, relationships,
                  nextRelationshipGeneration, alphaDegree>>

nodeVars == <<nodeCount, incarnations, incarnationCapacity>>

(* What the mesh prepares for its next step or its next node. *)
preparedVars == <<incarnationCapacity, simulationBufferShapeDirty,
                  topologyValidationRequired, bufferShape>>

vars == <<topologyVars, preparedVars, result>>

-----------------------------------------------------------------------------
Result == {"none", "done", "out_of_range", "invalid_argument", "bad_alloc",
           "logic_error", "topology_error", "runtime_error"}

Failure == Result \ {"none", "done"}

Init ==
    /\ bridges = [n \in Node |-> <<>>]
    /\ nodeCount = 0 /\ incarnations = 0 /\ incarnationCapacity = 0
    /\ relationships = [e \in EdgeKey |-> 0]
    /\ nextRelationshipGeneration = 1
    /\ alphaDegree = 0
    /\ simulationBufferShapeDirty = TRUE
    /\ topologyValidationRequired = TRUE
    /\ bufferShape = [n \in Node |-> -1]
    /\ result = "none"

(* The directed edges that have a bridge, and the pair an edge belongs to. *)
EdgesOf(b) == {e \in EdgeKey : \E i \in DOMAIN b[e[1]] : b[e[1]][i].target = e[2]}

Edges == EdgesOf(bridges)

Reverse(e) == <<e[2], e[1]>>

Indices == 0 .. nodeCount - 1

MaxDegreeOf(b) ==
    CHOOSE d \in {Len(b[n]) : n \in Node} \cup {0} : \A n \in Node : Len(b[n]) <= d

(* A call that throws before it has changed anything. *)
Fails(failure) ==
    /\ result' = failure
    /\ UNCHANGED <<topologyVars, preparedVars>>

-----------------------------------------------------------------------------
(* Where addNode allocates. *)
Insertion == {"reservation", "node", "incarnation"}

IncarnationsFull == incarnations = incarnationCapacity

ReservedCapacity_Skipped == incarnationCapacity

(* The capacity reserved for the incarnations: doubled when they fill it. *)
ReservedCapacity ==
    IF ~IncarnationsFull THEN incarnationCapacity
    ELSE IF incarnationCapacity = 0 THEN 1 ELSE 2 * incarnationCapacity

(***************************************************************************)
(* addNode reserves room for the incarnation, puts the node in and then    *)
(* its incarnation.  Memory may run out at the reservation, at the node,   *)
(* or at the incarnation when it is put where no room was reserved.        *)
(***************************************************************************)
AddNode(exhausted) ==
    LET entered == exhausted # "node"
        room == exhausted # "incarnation" \/ incarnations < ReservedCapacity
    IN IF exhausted = "reservation" /\ IncarnationsFull
       THEN Fails("bad_alloc")
       ELSE /\ incarnationCapacity' = ReservedCapacity
            /\ nodeCount' = IF entered THEN nodeCount + 1 ELSE nodeCount
            /\ IF entered /\ room
               THEN /\ incarnations' = incarnations + 1
                    /\ simulationBufferShapeDirty' = TRUE
                    /\ topologyValidationRequired' = TRUE
                    /\ result' = "done"
               ELSE /\ UNCHANGED <<incarnations, simulationBufferShapeDirty,
                                   topologyValidationRequired>>
                    /\ result' = "bad_alloc"
            /\ UNCHANGED <<bridges, relationships, nextRelationshipGeneration, alphaDegree,
                           bufferShape>>

(* addNode with an id that is not the next one. *)
AddWrongNode == Fails("invalid_argument")

-----------------------------------------------------------------------------
(* The elements of s that are in S, in their order. *)
Selected(s, S) ==
    LET upTo[i \in 0 .. Len(s)] ==
            IF i = 0 THEN <<>>
            ELSE IF s[i] \in S THEN Append(upTo[i - 1], s[i]) ELSE upTo[i - 1]
    IN upTo[Len(s)]

EdgesFrom(n) == {e \in EdgeKey : e[1] = n}

(* The pending edges of a batch, both directions of one pair after another. *)
Pending(batch) ==
    [i \in 1 .. 2 * Len(batch) |->
        IF i % 2 = 1 THEN batch[(i + 1) \div 2] ELSE Reverse(batch[i \div 2])]

(* Publication: the bridges go to the ends of their vectors, with capacity 1. *)
Published(pending) ==
    [n \in Node |->
        LET added == Selected(pending, EdgesFrom(n))
        IN bridges[n] \o [i \in DOMAIN added |-> [target |-> added[i][2], capacity |-> 1]]]

Rollback_LeavesLast(entries, pending, k) ==
    [e \in EdgeKey |-> IF \E i \in 1 .. k - 1 : pending[i] = e THEN 0 ELSE entries[e]]

(* The entries that were inserted are erased again. *)
Rollback(entries, pending, k) ==
    [e \in EdgeKey |-> IF \E i \in 1 .. k : pending[i] = e THEN 0 ELSE entries[e]]

(* The entries once the first k of the pending edges are inserted. *)
Inserted(pending, k) ==
    [e \in EdgeKey |->
        IF \E i \in 1 .. k : pending[i] = e
        THEN nextRelationshipGeneration - 1 + CHOOSE i \in 1 .. k : pending[i] = e
        ELSE relationships[e]]

EnforcedDegree_Keeps(b) == alphaDegree

(* enforceStabilityConditionUnlocked *)
EnforcedDegree(b) == MaxDegreeOf(b)

(***************************************************************************)
(* connectPairsUnlocked on a batch its callers have validated; memory runs *)
(* out after k of the pending edges are entered, or does not, k being      *)
(* their number then.  An entry that is there already ends the call too.   *)
(***************************************************************************)
ConnectPairs(batch, k) ==
    LET pending == Pending(batch)
        taken == {i \in DOMAIN pending : \/ relationships[pending[i]] # 0
                                         \/ \E j \in 1 .. i - 1 : pending[j] = pending[i]}
    IN IF k < Len(pending) \/ taken # {}
       THEN LET stop == IF taken = {} THEN k
                        ELSE (CHOOSE i \in taken : \A j \in taken : i <= j) - 1
            IN /\ relationships' = Rollback(Inserted(pending, stop), pending, stop)
               /\ result' = IF taken = {} THEN "bad_alloc" ELSE "logic_error"
               /\ UNCHANGED <<bridges, nodeVars, nextRelationshipGeneration,
                              alphaDegree, simulationBufferShapeDirty,
                              topologyValidationRequired, bufferShape>>
       ELSE /\ relationships' = Inserted(pending, k)
            /\ bridges' = Published(pending)
            /\ nextRelationshipGeneration' = nextRelationshipGeneration + Len(pending)
            /\ nextRelationshipGeneration' <= MaxGeneration + 1
            /\ result' = "done"
            /\ IF batch = <<>>
               THEN UNCHANGED <<alphaDegree, simulationBufferShapeDirty,
                                topologyValidationRequired>>
               ELSE /\ alphaDegree' = EnforcedDegree(bridges')
                    /\ simulationBufferShapeDirty' = TRUE
                    /\ topologyValidationRequired' = TRUE
            /\ UNCHANGED <<nodeVars, bufferShape>>

SamePair(e, f) == e = f \/ e = Reverse(f)

IsIndex(i) == i \in Indices

DuplicateInBatch_SameOrder(batch) ==
    \E i, j \in DOMAIN batch : i # j /\ batch[i] = batch[j]

DuplicateInBatch(batch) ==
    \E i, j \in DOMAIN batch : i # j /\ SamePair(batch[i], batch[j])

(* connectNodePairs; connectNodes is it with one pair.  Which exception is  *)
(* reported when several pairs do not validate is left out.                 *)
ConnectNodePairs(batch, k) ==
    IF \E i \in DOMAIN batch : ~IsIndex(batch[i][1]) \/ ~IsIndex(batch[i][2])
    THEN Fails("out_of_range")
    ELSE IF \/ \E i \in DOMAIN batch : batch[i][1] = batch[i][2] \/ batch[i] \in Edges
            \/ DuplicateInBatch(batch)
    THEN Fails("invalid_argument")
    ELSE ConnectPairs(batch, k)

(* autoConnectNearbyNodes: the pairs within the radius that have no bridge, *)
(* in the order of their indices.                                           *)
Distance(i, j) == IF Position[i] < Position[j] THEN Position[j] - Position[i]
                                               ELSE Position[i] - Position[j]

AllPairs == [i \in 1 .. MaxNode * MaxNode |-> <<(i - 1) \div MaxNode, (i - 1) % MaxNode>>]

Nearby(radius) ==
    Selected(AllPairs, {e \in EdgeKey : /\ e[1] < e[2] /\ IsIndex(e[2])
                                        /\ Distance(e[1], e[2]) <= radius
                                        /\ e \notin Edges})

(* It enforces the stability condition once more and always asks for the    *)
(* validation of the topology, when the connection did not throw.           *)
AutoConnect(radius, k) ==
    IF Nearby(radius) = <<>>
    THEN /\ alphaDegree' = EnforcedDegree(bridges)
         /\ topologyValidationRequired' = TRUE
         /\ result' = "done"
         /\ UNCHANGED <<bridges, nodeVars, relationships,
                        nextRelationshipGeneration, simulationBufferShapeDirty, bufferShape>>
    ELSE ConnectPairs(Nearby(radius), k)

EnforceStabilityCondition ==
    /\ alphaDegree' = EnforcedDegree(bridges)
    /\ topologyValidationRequired' = TRUE
    /\ result' = "done"
    /\ UNCHANGED <<bridges, nodeVars, relationships,
                   nextRelationshipGeneration, simulationBufferShapeDirty, bufferShape>>

-----------------------------------------------------------------------------
CapacityOf(e) ==
    LET vector == bridges[e[1]]
        i == CHOOSE j \in DOMAIN vector : vector[j].target = e[2]
    IN vector[i].capacity

Weak(e, threshold) == CapacityOf(e) < threshold \/ CapacityOf(e) = 0

Invalid_OneWay(threshold) == {e \in Edges : Weak(e, threshold)}

(* Both directions go when either is below the threshold, isolated or alone. *)
Invalid(threshold) ==
    {e \in Edges : \/ Weak(e, threshold)
                   \/ Reverse(e) \notin Edges
                   \/ Weak(Reverse(e), threshold)}

(* discardAbsentProductionRelationshipsUnlocked *)
Discarded(b) == [e \in EdgeKey |-> IF e \in EdgesOf(b) THEN relationships[e] ELSE 0]

DirtyAfterPrune_Never(b) == simulationBufferShapeDirty

DirtyAfterPrune(b) == simulationBufferShapeDirty \/ b # bridges

PruneIsolatedBridges(threshold) ==
    LET kept(n) ==
            Selected(bridges[n], {b \in Bridge : <<n, b.target>> \notin Invalid(threshold)})
    IN /\ bridges' = [n \in Node |-> kept(n)]
       /\ alphaDegree' = EnforcedDegree(bridges')
       /\ relationships' = IF bridges' # bridges THEN Discarded(bridges') ELSE relationships
       /\ simulationBufferShapeDirty' = DirtyAfterPrune(bridges')
       /\ topologyValidationRequired' = TRUE
       /\ result' = "done"
       /\ UNCHANGED <<nodeVars, nextRelationshipGeneration, bufferShape>>

-----------------------------------------------------------------------------
(* validateTopologyUnlocked: targets in range and pairs complete. *)
TopologyValid ==
    /\ \A n \in Indices : \A i \in DOMAIN bridges[n] : bridges[n][i].target \in Indices \ {n}
    /\ \A e \in Edges : Reverse(e) \in Edges

Shape == [n \in Node |-> IF n < nodeCount THEN Len(bridges[n]) ELSE -1]

(* Validation clears its flag, whatever ends the step after it. *)
Validates ==
    /\ topologyValidationRequired => TopologyValid
    /\ topologyValidationRequired' = FALSE

(***************************************************************************)
(* simulationStep, as far as the topology goes: it validates when asked,   *)
(* fits the buffers when they are dirty, and publishes the capacities of   *)
(* the bridges that changed; those in isolated come out isolated, the      *)
(* others open.  A computation that throws leaves flags and buffers as     *)
(* they have become.  Two more ends, before the computation, follow.       *)
(***************************************************************************)
SimulationStep(isolated, throws) ==
    IF topologyValidationRequired /\ ~TopologyValid
    THEN Fails("topology_error")
    ELSE /\ Validates
         /\ bufferShape' = IF simulationBufferShapeDirty THEN Shape ELSE bufferShape
         /\ simulationBufferShapeDirty' = FALSE
         /\ bridges' = IF throws \/ nodeCount = 0 THEN bridges
                       ELSE [n \in Node |-> [i \in DOMAIN bridges[n] |->
                           [bridges[n][i] EXCEPT !.capacity =
                               IF <<n, bridges[n][i].target>> \in isolated THEN 0 ELSE 1]]]
         /\ result' = IF throws THEN "runtime_error" ELSE "done"
         /\ UNCHANGED <<nodeVars, relationships, nextRelationshipGeneration, alphaDegree>>

(* The buffers when those of the nodes below n are fitted: the nodes that  *)
(* are new to them have empty ones.                                        *)
FittedBelow(n) ==
    [i \in Node |-> IF i < n THEN Len(bridges[i])
                    ELSE IF i < nodeCount /\ bufferShape[i] = -1 THEN 0
                    ELSE bufferShape[i]]

(* A state that is not finite, or a worker that does not start, ends the   *)
(* step after the validation and before the buffers.                       *)
StepUnprepared ==
    /\ Validates
    /\ result' = "runtime_error"
    /\ UNCHANGED <<topologyVars, incarnationCapacity, simulationBufferShapeDirty, bufferShape>>

(* Memory runs out while the buffers of node n are fitted. *)
StepHalfPrepared(n) ==
    /\ Validates
    /\ simulationBufferShapeDirty
    /\ bufferShape' = FittedBelow(n)
    /\ result' = "bad_alloc"
    /\ UNCHANGED <<topologyVars, incarnationCapacity, simulationBufferShapeDirty>>

Next ==
    \/ /\ nodeCount < MaxNode
       /\ \E exhausted \in Insertion \cup {"nothing"} : AddNode(exhausted)
    \/ AddWrongNode
    \/ \E batch \in Batch : \E k \in 0 .. 2 * Len(batch) : ConnectNodePairs(batch, k)
    \/ \E radius \in Radius : \E k \in 0 .. 2 * Len(Nearby(radius)) : AutoConnect(radius, k)
    \/ EnforceStabilityCondition
    \/ \E threshold \in 0 .. 2 : PruneIsolatedBridges(threshold)
    \/ \E isolated \in SUBSET Edges : SimulationStep(isolated, FALSE)
    \/ nodeCount > 0 /\ SimulationStep({}, TRUE)
    \/ nodeCount > 0 /\ StepUnprepared
    \/ \E n \in Indices : StepHalfPrepared(n)

Spec == Init /\ [][Next]_vars

-----------------------------------------------------------------------------
(* The topology invariant simulationStep validates, and more: bridges come *)
(* in pairs, no node has two to the same target, every node that has a     *)
(* bridge exists and has an incarnation, and the lifecycle has exactly one *)
(* entry per bridge, no two of one generation.                             *)
LifecycleMatchesBridges ==
    /\ TopologyValid
    /\ incarnations = nodeCount
    /\ \A n \in Node : \A i, j \in DOMAIN bridges[n] :
           bridges[n][i].target = bridges[n][j].target => i = j
    /\ \A e \in EdgeKey : relationships[e] # 0 <=> e \in Edges
    /\ \A e, f \in Edges : relationships[e] = relationships[f] => e = f
    /\ \A e \in Edges : relationships[e] < nextRelationshipGeneration

(* The CFL condition of docs/mathematics.md, alpha <= 0.8 / D_max: alpha   *)
(* always fits the topology of this moment, whatever changed it.           *)
AlphaFitsDegree == alphaDegree = MaxDegreeOf(bridges)

(* The computation indexes its buffers with the node and bridge indices of *)
(* the topology without a check: unless the shape is marked dirty, the     *)
(* buffers fit, also when a prune and a connection kept the counts.        *)
BuffersFit == simulationBufferShapeDirty \/ bufferShape = Shape

(* Two throws of the code guard what its callers have made sure of: an     *)
(* entry that exists already, and a topology that does not validate.       *)
GuardsNeverFire == result \notin {"logic_error", "topology_error"}

(* Failed calls have the strong guarantee docs/production-mutation-surface *)
(* .md gives: nodes, bridges, entries, counters and alpha keep their value.*)
FailedCallsChangeNothing ==
    [][result' \in Failure => UNCHANGED topologyVars]_vars

-----------------------------------------------------------------------------
(* The inductive invariant, in parts. *)

(* The types of the state. *)
TypeOK ==
    /\ bridges \in [Node -> Seq(Bridge)]
    /\ nodeCount \in 0 .. MaxNode
    /\ incarnations \in Nat /\ incarnationCapacity \in Nat
    /\ relationships \in [EdgeKey -> Nat]
    /\ nextRelationshipGeneration \in Nat \ {0}
    /\ alphaDegree \in Nat
    /\ simulationBufferShapeDirty \in BOOLEAN
    /\ topologyValidationRequired \in BOOLEAN
    /\ bufferShape \in [Node -> Int]
    /\ result \in Result

(* A node that was not added yet has no bridges: none leads out of the mesh. *)
NewNodesAreBare == \A n \in Node \ Indices : bridges[n] = <<>>

(* Room is made before it is needed. *)
IncarnationsFit == incarnations <= incarnationCapacity

Inv ==
    /\ NewNodesAreBare /\ IncarnationsFit
    /\ LifecycleMatchesBridges
    /\ AlphaFitsDegree /\ BuffersFit /\ GuardsNeverFire
=============================================================================
