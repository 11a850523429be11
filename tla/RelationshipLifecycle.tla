------------------------ MODULE RelationshipLifecycle ------------------------
(***************************************************************************)
(* The lifecycle entries a SpatialAdaptiveMesh keeps for its directed      *)
(* bridges (productionRelationships_ in spatial_adaptive_mesh_impl.hpp):   *)
(* the generation that names one continuous life of a relationship, the    *)
(* lineage that names one version of its authority-relevant context, and   *)
(* the lineage of its persistence state.  Both counters belong to the      *)
(* mesh.  Nodes are fixed here and so are their incarnations: a node is    *)
(* never removed, so an incarnation never distinguishes two relationships. *)
(* MeshTopology models the nodes, the batches and the failures of connect. *)
(***************************************************************************)
EXTENDS Naturals

CONSTANTS
    Mesh,           \* the SpatialAdaptiveMesh objects of the process
    Node,           \* node ids
    MaxVersion,     \* numeric_limits<uint64_t>::max() of the lineage counter
    MaxPersistence  \* bound: times a persistence state may change

ASSUME BoundsAssumption == MaxVersion \in Nat \ {0} /\ MaxPersistence \in Nat

VARIABLES
    relationshipGeneration,      \* 0: no entry for this directed edge
    authorityLineage,            \* authorityRelevantContextLineage, 0: no entry
    persistenceLineage,          \* ProductionPersistenceRecord::lineage_
    nextRelationshipGeneration,  \* per mesh
    nextAuthorityLineage         \* per mesh

lifecycleVars == <<relationshipGeneration, authorityLineage, persistenceLineage,
                   nextRelationshipGeneration, nextAuthorityLineage>>

-----------------------------------------------------------------------------
(* A directed edge is <<mesh, source, target>>: EdgeKey, with its owner. *)
Edge == {e \in Mesh \X Node \X Node : e[2] # e[3]}

MeshOf(e) == e[1]

Reverse(e) == <<e[1], e[3], e[2]>>

Pair(e) == {e, Reverse(e)}

Exists(e) == relationshipGeneration[e] # 0

LifecycleTypeOK ==
    /\ relationshipGeneration \in [Edge -> Nat]
    /\ authorityLineage \in [Edge -> Nat]
    /\ persistenceLineage \in [Edge -> Nat]
    /\ nextRelationshipGeneration \in [Mesh -> Nat \ {0}]
    /\ nextAuthorityLineage \in [Mesh -> Nat \ {0}]

LifecycleInit ==
    /\ relationshipGeneration = [e \in Edge |-> 0]
    /\ authorityLineage = [e \in Edge |-> 0]
    /\ persistenceLineage = [e \in Edge |-> 0]
    /\ nextRelationshipGeneration = [m \in Mesh |-> 1]
    /\ nextAuthorityLineage = [m \in Mesh |-> 1]

-----------------------------------------------------------------------------
(* Stores v for e and w for its reverse, as connectPairsUnlocked does. *)
Both(f, e, v, w) == [f EXCEPT ![e] = v, ![Reverse(e)] = w]

ConnectLifecycle_SharedNumber(e) ==
    LET g == nextRelationshipGeneration[MeshOf(e)]
        v == nextAuthorityLineage[MeshOf(e)]
    IN /\ ~Exists(e) /\ ~Exists(Reverse(e))
       /\ v + 2 <= MaxVersion
       /\ relationshipGeneration' = Both(relationshipGeneration, e, g, g)
       /\ authorityLineage' = Both(authorityLineage, e, v, v)
       /\ persistenceLineage' = Both(persistenceLineage, e, 1, 1)
       /\ nextRelationshipGeneration' =
              [nextRelationshipGeneration EXCEPT ![MeshOf(e)] = g + 1]
       /\ nextAuthorityLineage' = [nextAuthorityLineage EXCEPT ![MeshOf(e)] = v + 1]

(***************************************************************************)
(* connectNodes: both directions enter the map with consecutive            *)
(* generations and lineages and a new persistence record.  The code does   *)
(* not check the counters; the guard on MaxVersion is a bound of the model *)
(* (2^64 - 1 connections in the program).                                  *)
(***************************************************************************)
ConnectLifecycle(e) ==
    LET g == nextRelationshipGeneration[MeshOf(e)]
        v == nextAuthorityLineage[MeshOf(e)]
    IN /\ ~Exists(e) /\ ~Exists(Reverse(e))
       /\ v + 2 <= MaxVersion
       /\ relationshipGeneration' = Both(relationshipGeneration, e, g, g + 1)
       /\ authorityLineage' = Both(authorityLineage, e, v, v + 1)
       /\ persistenceLineage' = Both(persistenceLineage, e, 1, 1)
       /\ nextRelationshipGeneration' =
              [nextRelationshipGeneration EXCEPT ![MeshOf(e)] = g + 2]
       /\ nextAuthorityLineage' = [nextAuthorityLineage EXCEPT ![MeshOf(e)] = v + 2]

DiscardLifecycle_Forgotten(pruned) == UNCHANGED lifecycleVars

(* discardAbsentProductionRelationshipsUnlocked: the entries of the pruned *)
(* edges leave the map; the counters are not touched.                      *)
DiscardLifecycle(pruned) ==
    /\ relationshipGeneration' =
           [e \in Edge |-> IF e \in pruned THEN 0 ELSE relationshipGeneration[e]]
    /\ authorityLineage' =
           [e \in Edge |-> IF e \in pruned THEN 0 ELSE authorityLineage[e]]
    /\ persistenceLineage' =
           [e \in Edge |-> IF e \in pruned THEN 0 ELSE persistenceLineage[e]]
    /\ UNCHANGED <<nextRelationshipGeneration, nextAuthorityLineage>>

(***************************************************************************)
(* ProductionPersistenceAccess::evolve on a record whose state changes:    *)
(* the lineage advances with it and nothing else of the entry changes.     *)
(* The program's lineage is the address of a new object that every copy    *)
(* keeps alive; a number per life of the relationship tells the same apart,*)
(* because two lives already differ in their generation.                   *)
(***************************************************************************)
EvolvePersistence(e) ==
    /\ Exists(e)
    /\ persistenceLineage[e] <= MaxPersistence
    /\ persistenceLineage' = [persistenceLineage EXCEPT ![e] = @ + 1]
    /\ UNCHANGED <<relationshipGeneration, authorityLineage,
                   nextRelationshipGeneration, nextAuthorityLineage>>

AdvanceLineage_Kept(e) == UNCHANGED lifecycleVars

(* The last two statements of commitProductionTransition. *)
AdvanceLineage(e) ==
    LET v == nextAuthorityLineage[MeshOf(e)]
    IN /\ authorityLineage' = [authorityLineage EXCEPT ![e] = v]
       /\ nextAuthorityLineage' = [nextAuthorityLineage EXCEPT ![MeshOf(e)] = v + 1]
       /\ UNCHANGED <<relationshipGeneration, persistenceLineage,
                      nextRelationshipGeneration>>

-----------------------------------------------------------------------------
(* What the live backend's shared-lock sections read. *)

(* findLifecycleUnlocked *)
Current(e, generation) == Exists(e) /\ relationshipGeneration[e] = generation

(* captureSnapshot, once the entry is found *)
Snapshot(e) == [lineage |-> authorityLineage[e], persistence |-> persistenceLineage[e]]

(* revalidate: TRUE is FinalRevalidationOutcome::revalidated *)
Revalidates(e, generation, snapshot) ==
    Current(e, generation) /\ Snapshot(e) = snapshot
=============================================================================
