----------------------- MODULE TransitionEvaluationProofs -----------------------
(***************************************************************************)
(* Proofs about TransitionEvaluation, for every number of meshes, nodes    *)
(* and evaluating threads and every bound; last, about the decision an     *)
(* evaluation ends with, for every binding and evidence.                   *)
(***************************************************************************)
EXTENDS TransitionEvaluation, PrerequisiteAssembly, TLAPS

(* An edge and its reverse are two edges of one mesh.                       *)
LEMMA EdgeFacts ==
    ASSUME NEW e \in Edge
    PROVE  /\ MeshOf(e) \in Mesh
           /\ Reverse(e) \in Edge
           /\ Reverse(e) # e
           /\ MeshOf(Reverse(e)) = MeshOf(e)
  BY DEF Edge, MeshOf, Reverse

-----------------------------------------------------------------------------
(* The inductive invariant.                                                 *)

(* No number in use has yet to be drawn.                                    *)
VersionsBounded ==
    \A e \in Edge : /\ relationshipGeneration[e] < nextRelationshipGeneration[MeshOf(e)]
                    /\ authorityLineage[e] < nextAuthorityLineage[MeshOf(e)]

EvidenceType == [AskedDomain -> {"unasked", "satisfied", "not_satisfied"}]

Busy(n) == n.phase \notin {"idle"} \cup Answer

(***************************************************************************)
(* What an evaluation in progress knows of an entry with this generation,  *)
(* lineage and persistence lineage.  The histories are exact: gone is that *)
(* the entry's generation is another one than the resolved one, changed is *)
(* that the entry does not revalidate.  That nothing which changed looks   *)
(* unchanged later is what the bounds on the numbers are for.              *)
(***************************************************************************)
Tracks(n, gone, changed, generation, lineage, persistence, nextGeneration, nextLineage) ==
    /\ n.generation # 0
    /\ n.generation < nextGeneration
    /\ gone <=> generation # n.generation
    /\ n.phase # "capture" =>
           /\ n.snapshot.lineage < nextLineage
           /\ generation = n.generation => n.snapshot.persistence <= persistence
           /\ changed <=> ~ /\ generation = n.generation
                            /\ lineage = n.snapshot.lineage
                            /\ persistence = n.snapshot.persistence

TracksEntry(n, gone, changed) ==
    Tracks(n, gone, changed,
           relationshipGeneration[n.edge], authorityLineage[n.edge],
           persistenceLineage[n.edge],
           nextRelationshipGeneration[MeshOf(n.edge)], nextAuthorityLineage[MeshOf(n.edge)])

Earned(n, gone, changed, given) ==
    n.phase = "eligible" =>
        ~gone /\ ~changed /\ \A d \in AskedDomain : given[d] = "satisfied"

Sound(v) ==
    /\ Busy(evaluation[v]) => /\ evaluation[v].edge \in Edge
                              /\ TracksEntry(evaluation[v], resolvedGone[v], capturedChanged[v])
    /\ Earned(evaluation[v], resolvedGone[v], capturedChanged[v], evidence[v])

Inv == TypeOK /\ VersionsBounded /\ \A v \in Evaluator : Sound(v)

-----------------------------------------------------------------------------
(* The entries. *)

(* Connecting two nodes keeps the entries typed and the numbers in use      *)
(* below the counters; the pair's entries are new ones, the others stay.    *)
LEMMA ConnectEntries ==
    ASSUME LifecycleTypeOK, VersionsBounded, NEW e \in Edge, ConnectLifecycle(e)
    PROVE  /\ LifecycleTypeOK'
           /\ VersionsBounded'
           /\ \A f \in Edge :
                /\ nextRelationshipGeneration[MeshOf(f)] <= nextRelationshipGeneration'[MeshOf(f)]
                /\ nextAuthorityLineage[MeshOf(f)] <= nextAuthorityLineage'[MeshOf(f)]
                /\ f \in Pair(e) =>
                     /\ relationshipGeneration[f] = 0
                     /\ relationshipGeneration'[f] >= nextRelationshipGeneration[MeshOf(f)]
                /\ f \notin Pair(e) =>
                     /\ relationshipGeneration'[f] = relationshipGeneration[f]
                     /\ authorityLineage'[f] = authorityLineage[f]
                     /\ persistenceLineage'[f] = persistenceLineage[f]
  <1> DEFINE g == nextRelationshipGeneration[MeshOf(e)]
             w == nextAuthorityLineage[MeshOf(e)]
             r == Reverse(e)
  <1>1. e \in Edge /\ r \in Edge /\ r # e /\ MeshOf(e) \in Mesh /\ MeshOf(r) = MeshOf(e)
    BY EdgeFacts
  <1>2. g \in Nat /\ g # 0 /\ w \in Nat /\ w # 0
    BY <1>1 DEF LifecycleTypeOK
  <1>3. /\ relationshipGeneration' = [relationshipGeneration EXCEPT ![e] = g, ![r] = g + 1]
        /\ authorityLineage' = [authorityLineage EXCEPT ![e] = w, ![r] = w + 1]
        /\ persistenceLineage' = [persistenceLineage EXCEPT ![e] = 1, ![r] = 1]
        /\ nextRelationshipGeneration' = [nextRelationshipGeneration EXCEPT ![MeshOf(e)] = g + 2]
        /\ nextAuthorityLineage' = [nextAuthorityLineage EXCEPT ![MeshOf(e)] = w + 2]
        /\ relationshipGeneration[e] = 0 /\ relationshipGeneration[r] = 0
    BY DEF ConnectLifecycle, Both, Exists
  <1> HIDE DEF g, w, r
  <1>4. LifecycleTypeOK'
    BY <1>1, <1>2, <1>3 DEF LifecycleTypeOK
  <1>5. ASSUME NEW f \in Edge
        PROVE  /\ nextRelationshipGeneration[MeshOf(f)] <= nextRelationshipGeneration'[MeshOf(f)]
               /\ nextAuthorityLineage[MeshOf(f)] <= nextAuthorityLineage'[MeshOf(f)]
               /\ relationshipGeneration'[f] < nextRelationshipGeneration'[MeshOf(f)]
               /\ authorityLineage'[f] < nextAuthorityLineage'[MeshOf(f)]
    <2>1. MeshOf(f) \in Mesh
      BY EdgeFacts
    <2>2. /\ nextRelationshipGeneration[MeshOf(f)] <= nextRelationshipGeneration'[MeshOf(f)]
          /\ nextAuthorityLineage[MeshOf(f)] <= nextAuthorityLineage'[MeshOf(f)]
      BY <1>1, <1>2, <1>3, <2>1 DEF LifecycleTypeOK, g, w
    <2>3. CASE f = e
      BY <1>1, <1>2, <1>3, <2>2, <2>3 DEF LifecycleTypeOK
    <2>4. CASE f = r
      BY <1>1, <1>2, <1>3, <2>2, <2>4 DEF LifecycleTypeOK
    <2>5. CASE f # e /\ f # r
      <3>1. relationshipGeneration'[f] = relationshipGeneration[f]
            /\ authorityLineage'[f] = authorityLineage[f]
        BY <1>3, <2>5 DEF LifecycleTypeOK
      <3>2. /\ relationshipGeneration[f] < nextRelationshipGeneration[MeshOf(f)]
            /\ authorityLineage[f] < nextAuthorityLineage[MeshOf(f)]
        BY DEF VersionsBounded
      <3> QED
        BY <1>4, <2>1, <2>2, <3>1, <3>2 DEF LifecycleTypeOK
    <2> QED
      BY <2>2, <2>3, <2>4, <2>5
  <1>6. ASSUME NEW f \in Edge
        PROVE  /\ f \in Pair(e) =>
                     /\ relationshipGeneration[f] = 0
                     /\ relationshipGeneration'[f] >= nextRelationshipGeneration[MeshOf(f)]
               /\ f \notin Pair(e) =>
                     /\ relationshipGeneration'[f] = relationshipGeneration[f]
                     /\ authorityLineage'[f] = authorityLineage[f]
                     /\ persistenceLineage'[f] = persistenceLineage[f]
    <2>1. f \in Pair(e) <=> f = e \/ f = r
      BY DEF Pair, r
    <2>2. CASE f = e
      BY <1>1, <1>2, <1>3, <2>1, <2>2 DEF LifecycleTypeOK, g
    <2>3. CASE f = r
      BY <1>1, <1>2, <1>3, <2>1, <2>3 DEF LifecycleTypeOK, g
    <2>4. CASE f # e /\ f # r
      BY <1>3, <2>1, <2>4 DEF LifecycleTypeOK
    <2> QED
      BY <2>2, <2>3, <2>4
  <1> QED
    BY <1>4, <1>5, <1>6 DEF VersionsBounded

-----------------------------------------------------------------------------
(* What an evaluation knows, when the entry it is about changes. *)

(* An entry that only had the counters move past it is tracked as before.   *)
LEMMA TracksOthers ==
    ASSUME NEW n \in Evaluation, NEW gone \in BOOLEAN, NEW changed \in BOOLEAN,
           NEW generation \in Nat, NEW lineage \in Nat, NEW persistence \in Nat,
           NEW nextGeneration \in Nat, NEW nextLineage \in Nat,
           NEW laterGeneration \in Nat, NEW laterLineage \in Nat,
           nextGeneration <= laterGeneration, nextLineage <= laterLineage,
           Tracks(n, gone, changed, generation, lineage, persistence, nextGeneration, nextLineage)
    PROVE  Tracks(n, gone, changed, generation, lineage, persistence, laterGeneration, laterLineage)
  BY DEF Tracks, Evaluation, Snapshots

(* An entry that takes on another generation than the resolved one, a later *)
(* one or none, is gone and changed.                                        *)
LEMMA TracksAnotherLife ==
    ASSUME NEW n \in Evaluation, NEW generation \in Nat, NEW lineage \in Nat,
           NEW persistence \in Nat, NEW nextGeneration \in Nat, NEW nextLineage \in Nat,
           n.generation # 0, n.generation < nextGeneration, n.generation # generation,
           n.snapshot.lineage < nextLineage \/ n.phase = "capture"
    PROVE  Tracks(n, TRUE, TRUE, generation, lineage, persistence, nextGeneration, nextLineage)
  BY DEF Tracks, Evaluation, Snapshots

(* An entry that draws a new lineage is changed, and not gone by that.      *)
LEMMA TracksNewLineage ==
    ASSUME NEW n \in Evaluation, NEW gone \in BOOLEAN, NEW changed \in BOOLEAN,
           NEW generation \in Nat, NEW lineage \in Nat, NEW persistence \in Nat,
           NEW nextGeneration \in Nat, NEW nextLineage \in Nat,
           Tracks(n, gone, changed, generation, lineage, persistence, nextGeneration, nextLineage)
    PROVE  Tracks(n, gone, TRUE, generation, nextLineage, persistence,
                  nextGeneration, nextLineage + 1)
  BY DEF Tracks, Evaluation, Snapshots

(* An entry whose persistence evolves is changed, and not gone by that.     *)
LEMMA TracksEvolution ==
    ASSUME NEW n \in Evaluation, NEW gone \in BOOLEAN, NEW changed \in BOOLEAN,
           NEW generation \in Nat, NEW lineage \in Nat, NEW persistence \in Nat,
           NEW nextGeneration \in Nat, NEW nextLineage \in Nat,
           Tracks(n, gone, changed, generation, lineage, persistence, nextGeneration, nextLineage)
    PROVE  Tracks(n, gone, TRUE, generation, lineage, persistence + 1,
                  nextGeneration, nextLineage)
  BY DEF Tracks, Evaluation, Snapshots

-----------------------------------------------------------------------------
(* The changes of the mesh keep the invariant. *)

(* The facts about one evaluation and its entry that every case below uses. *)
LEMMA SoundTypes ==
    ASSUME TypeOK, NEW v \in Evaluator, evaluation[v].edge \in Edge
    PROVE  LET f == evaluation[v].edge
           IN /\ evaluation[v] \in Evaluation
              /\ resolvedGone[v] \in BOOLEAN /\ capturedChanged[v] \in BOOLEAN
              /\ MeshOf(f) \in Mesh
              /\ relationshipGeneration[f] \in Nat /\ authorityLineage[f] \in Nat
              /\ persistenceLineage[f] \in Nat
              /\ nextRelationshipGeneration[MeshOf(f)] \in Nat
              /\ nextAuthorityLineage[MeshOf(f)] \in Nat
  BY EdgeFacts DEF TypeOK, LifecycleTypeOK

(* An evaluation that is idle or answered is left alone by the mesh.        *)
LEMMA NotBusyKept ==
    ASSUME TypeOK, NEW v \in Evaluator, Sound(v), ~Busy(evaluation[v]),
           evaluation' = evaluation, evidence' = evidence,
           resolvedGone'[v] = resolvedGone[v], capturedChanged'[v] = capturedChanged[v]
    PROVE  Sound(v)'
  BY DEF Sound, Earned, Busy

(* The histories mark the evaluations in progress on the edges of E.        *)
LEMMA Marks ==
    ASSUME TypeOK, NEW E, NEW v \in Evaluator
    PROVE  LET about == Busy(evaluation[v]) /\ evaluation[v].edge \in E
           IN /\ Changed(E) => capturedChanged'[v] = (capturedChanged[v] \/ about)
              /\ Ended(E) => resolvedGone'[v] = (resolvedGone[v] \/ about)
  BY DEF Changed, Ended, About, Working, Busy

(* What the invariant asks of an evaluation in progress that stays as it is. *)
LEMMA BusyKept ==
    ASSUME NEW v \in Evaluator, Busy(evaluation[v]), evaluation[v].edge \in Edge,
           evaluation' = evaluation,
           LET f == evaluation[v].edge IN
               Tracks(evaluation[v], resolvedGone'[v], capturedChanged'[v],
                      relationshipGeneration'[f], authorityLineage'[f], persistenceLineage'[f],
                      nextRelationshipGeneration'[MeshOf(f)], nextAuthorityLineage'[MeshOf(f)])
    PROVE  Sound(v)'
  <1>1. evaluation[v].phase # "eligible"
    BY DEF Busy, Answer
  <1> QED
    BY <1>1 DEF Sound, Earned, TracksEntry

(* Connecting two nodes: their entries are of a later life than any resolved. *)
LEMMA ConnectKept ==
    ASSUME Inv, TypeOK', NEW e \in Edge, Connect(e)
    PROVE  VersionsBounded' /\ \A v \in Evaluator : Sound(v)'
  <1>1. ConnectLifecycle(e) /\ Changed(Pair(e)) /\ evaluation' = evaluation
        /\ evidence' = evidence /\ resolvedGone' = resolvedGone
    BY DEF Connect, evaluationVars
  <1>2. VersionsBounded'
    BY <1>1, ConnectEntries DEF Inv, TypeOK
  <1>3. ASSUME NEW v \in Evaluator
        PROVE  Sound(v)'
    <2> DEFINE n == evaluation[v]
               f == n.edge
    <2>1. TypeOK /\ Sound(v)
      BY DEF Inv
    <2>2. CASE ~Busy(n)
      <3>1. capturedChanged'[v] = capturedChanged[v]
        BY <1>1, <2>1, <2>2, Marks DEF TypeOK
      <3> QED
        BY <1>1, <2>1, <2>2, <3>1, NotBusyKept
    <2>3. CASE Busy(n)
      <3>1. f \in Edge /\ TracksEntry(n, resolvedGone[v], capturedChanged[v])
        BY <2>1, <2>3 DEF Sound
      <3>2. Tracks(n, resolvedGone[v], capturedChanged[v],
                   relationshipGeneration[f], authorityLineage[f], persistenceLineage[f],
                   nextRelationshipGeneration[MeshOf(f)], nextAuthorityLineage[MeshOf(f)])
        BY <3>1 DEF TracksEntry
      <3>3. capturedChanged'[v] = (capturedChanged[v] \/ f \in Pair(e))
        BY <1>1, <2>1, <2>3, Marks
      <3>4. /\ nextRelationshipGeneration[MeshOf(f)] <= nextRelationshipGeneration'[MeshOf(f)]
            /\ nextAuthorityLineage[MeshOf(f)] <= nextAuthorityLineage'[MeshOf(f)]
        BY <1>1, <2>1, <3>1, ConnectEntries DEF TypeOK, Inv
      <3>5. evaluation'[v] = n /\ TypeOK'
        BY <1>1
      <3>6. /\ relationshipGeneration'[f] \in Nat /\ authorityLineage'[f] \in Nat
            /\ persistenceLineage'[f] \in Nat
            /\ nextRelationshipGeneration'[MeshOf(f)] \in Nat
            /\ nextAuthorityLineage'[MeshOf(f)] \in Nat
        BY <3>1, <3>5, EdgeFacts DEF TypeOK, LifecycleTypeOK
      <3>7. CASE f \in Pair(e)
        <4>1. /\ relationshipGeneration[f] = 0
              /\ relationshipGeneration'[f] >= nextRelationshipGeneration[MeshOf(f)]
          BY <1>1, <2>1, <3>1, <3>7, ConnectEntries DEF TypeOK, Inv
        <4>2. /\ n.generation # 0 /\ n.generation < nextRelationshipGeneration[MeshOf(f)]
              /\ resolvedGone[v] = TRUE
              /\ n.snapshot.lineage < nextAuthorityLineage[MeshOf(f)] \/ n.phase = "capture"
          BY <2>1, <3>1, <3>2, <4>1, SoundTypes DEF Tracks
        <4>3. n \in Evaluation /\ n.generation \in Nat
              /\ n.snapshot.lineage \in Nat
              /\ nextRelationshipGeneration[MeshOf(f)] \in Nat
              /\ nextAuthorityLineage[MeshOf(f)] \in Nat
          BY <2>1, <3>1, SoundTypes DEF Evaluation, Snapshots
        <4>4. /\ n.generation < nextRelationshipGeneration'[MeshOf(f)]
              /\ n.generation # relationshipGeneration'[f]
              /\ n.snapshot.lineage < nextAuthorityLineage'[MeshOf(f)] \/ n.phase = "capture"
          BY <3>4, <3>6, <4>1, <4>2, <4>3
        <4>5. Tracks(n, TRUE, TRUE, relationshipGeneration'[f], authorityLineage'[f],
                     persistenceLineage'[f], nextRelationshipGeneration'[MeshOf(f)],
                     nextAuthorityLineage'[MeshOf(f)])
          BY <3>6, <4>2, <4>3, <4>4, TracksAnotherLife
        <4>6. resolvedGone'[v] = TRUE /\ capturedChanged'[v] = TRUE
          BY <1>1, <3>3, <3>7, <4>2
        <4> QED
          BY <1>1, <2>3, <3>1, <4>5, <4>6, BusyKept
      <3>8. CASE f \notin Pair(e)
        <4>1. /\ relationshipGeneration'[f] = relationshipGeneration[f]
              /\ authorityLineage'[f] = authorityLineage[f]
              /\ persistenceLineage'[f] = persistenceLineage[f]
          BY <1>1, <2>1, <3>1, <3>8, ConnectEntries DEF TypeOK, Inv
        <4>2. resolvedGone'[v] = resolvedGone[v] /\ capturedChanged'[v] = capturedChanged[v]
          BY <1>1, <2>1, <3>1, <3>3, <3>8, SoundTypes
        <4>3. Tracks(n, resolvedGone[v], capturedChanged[v],
                     relationshipGeneration[f], authorityLineage[f], persistenceLineage[f],
                     nextRelationshipGeneration'[MeshOf(f)], nextAuthorityLineage'[MeshOf(f)])
          <5>1. /\ n \in Evaluation
                /\ resolvedGone[v] \in BOOLEAN /\ capturedChanged[v] \in BOOLEAN
                /\ relationshipGeneration[f] \in Nat /\ authorityLineage[f] \in Nat
                /\ persistenceLineage[f] \in Nat
                /\ nextRelationshipGeneration[MeshOf(f)] \in Nat
                /\ nextAuthorityLineage[MeshOf(f)] \in Nat
            BY <2>1, <3>1, SoundTypes
          <5> QED
            BY <3>2, <3>4, <3>6, <5>1, TracksOthers
        <4> QED
          BY <1>1, <2>3, <3>1, <4>1, <4>2, <4>3, BusyKept
      <3> QED
        BY <3>7, <3>8
    <2> QED
      BY <2>2, <2>3
  <1> QED
    BY <1>2, <1>3

(* Pruning: the pair's entries are gone, for whoever had resolved them too. *)
LEMMA PruneKept ==
    ASSUME Inv, TypeOK', NEW e \in Edge, Prune(e)
    PROVE  VersionsBounded' /\ \A v \in Evaluator : Sound(v)'
  <1>1. DiscardLifecycle(Pair(e)) /\ Changed(Pair(e)) /\ Ended(Pair(e))
        /\ evaluation' = evaluation /\ evidence' = evidence
    BY DEF Prune, evaluationVars
  <1>2. ASSUME NEW f \in Edge
        PROVE  /\ nextRelationshipGeneration' = nextRelationshipGeneration
               /\ nextAuthorityLineage' = nextAuthorityLineage
               /\ f \in Pair(e) => relationshipGeneration'[f] = 0 /\ authorityLineage'[f] = 0
               /\ f \notin Pair(e) =>
                     /\ relationshipGeneration'[f] = relationshipGeneration[f]
                     /\ authorityLineage'[f] = authorityLineage[f]
                     /\ persistenceLineage'[f] = persistenceLineage[f]
    BY <1>1 DEF DiscardLifecycle
  <1>3. VersionsBounded'
    <2>1. \A f \in Edge : /\ nextRelationshipGeneration[MeshOf(f)] \in Nat \ {0}
                         /\ nextAuthorityLineage[MeshOf(f)] \in Nat \ {0}
      BY EdgeFacts DEF Inv, TypeOK, LifecycleTypeOK
    <2> QED
      BY <1>2, <2>1 DEF VersionsBounded, Inv
  <1>4. ASSUME NEW v \in Evaluator
        PROVE  Sound(v)'
    <2> DEFINE n == evaluation[v]
               f == n.edge
    <2>1. TypeOK /\ Sound(v)
      BY DEF Inv
    <2>2. CASE ~Busy(n)
      <3>1. capturedChanged'[v] = capturedChanged[v] /\ resolvedGone'[v] = resolvedGone[v]
        BY <1>1, <2>1, <2>2, Marks DEF TypeOK
      <3> QED
        BY <1>1, <2>1, <2>2, <3>1, NotBusyKept
    <2>3. CASE Busy(n)
      <3>1. f \in Edge /\ TracksEntry(n, resolvedGone[v], capturedChanged[v])
        BY <2>1, <2>3 DEF Sound
      <3>2. Tracks(n, resolvedGone[v], capturedChanged[v],
                   relationshipGeneration[f], authorityLineage[f], persistenceLineage[f],
                   nextRelationshipGeneration[MeshOf(f)], nextAuthorityLineage[MeshOf(f)])
        BY <3>1 DEF TracksEntry
      <3>3. /\ capturedChanged'[v] = (capturedChanged[v] \/ f \in Pair(e))
            /\ resolvedGone'[v] = (resolvedGone[v] \/ f \in Pair(e))
        BY <1>1, <2>1, <2>3, Marks
      <3>4. /\ n \in Evaluation
            /\ resolvedGone[v] \in BOOLEAN /\ capturedChanged[v] \in BOOLEAN
            /\ nextRelationshipGeneration[MeshOf(f)] \in Nat
            /\ nextAuthorityLineage[MeshOf(f)] \in Nat
        BY <2>1, <3>1, SoundTypes
      <3>5. /\ relationshipGeneration'[f] \in Nat /\ authorityLineage'[f] \in Nat
            /\ persistenceLineage'[f] \in Nat
        BY <3>1 DEF TypeOK, LifecycleTypeOK
      <3>6. CASE f \in Pair(e)
        <4>1. resolvedGone'[v] = TRUE /\ capturedChanged'[v] = TRUE
              /\ relationshipGeneration'[f] = 0
          BY <1>2, <3>1, <3>3, <3>6
        <4>2. /\ n.generation # 0 /\ n.generation < nextRelationshipGeneration[MeshOf(f)]
              /\ n.snapshot.lineage < nextAuthorityLineage[MeshOf(f)] \/ n.phase = "capture"
          BY <3>2 DEF Tracks
        <4>3. Tracks(n, TRUE, TRUE, relationshipGeneration'[f], authorityLineage'[f],
                     persistenceLineage'[f], nextRelationshipGeneration[MeshOf(f)],
                     nextAuthorityLineage[MeshOf(f)])
          BY <3>4, <3>5, <4>1, <4>2, TracksAnotherLife
        <4> QED
          BY <1>1, <1>2, <2>3, <3>1, <4>1, <4>3, BusyKept
      <3>7. CASE f \notin Pair(e)
        <4>1. /\ resolvedGone'[v] = resolvedGone[v] /\ capturedChanged'[v] = capturedChanged[v]
          BY <3>3, <3>4, <3>7
        <4>2. /\ relationshipGeneration'[f] = relationshipGeneration[f]
              /\ authorityLineage'[f] = authorityLineage[f]
              /\ persistenceLineage'[f] = persistenceLineage[f]
          BY <1>2, <3>1, <3>7
        <4> QED
          BY <1>1, <1>2, <2>3, <3>1, <3>2, <4>1, <4>2, BusyKept
      <3> QED
        BY <3>6, <3>7
    <2> QED
      BY <2>2, <2>3
  <1> QED
    BY <1>3, <1>4

(* A commit draws a new lineage for one entry, an evolution a new           *)
(* persistence lineage: evaluations on it know that it changed.             *)
LEMMA EntryChangeKept ==
    ASSUME Inv, TypeOK', NEW e \in Edge, Evolve(e) \/ Commit(e)
    PROVE  VersionsBounded' /\ \A v \in Evaluator : Sound(v)'
  <1>1. Changed({e}) /\ resolvedGone' = resolvedGone /\ evaluation' = evaluation
        /\ evidence' = evidence
    BY DEF Evolve, Commit, evaluationVars
  <1>2. /\ relationshipGeneration' = relationshipGeneration
        /\ nextRelationshipGeneration' = nextRelationshipGeneration
        /\ \/ /\ authorityLineage' = authorityLineage
              /\ nextAuthorityLineage' = nextAuthorityLineage
              /\ persistenceLineage' = [persistenceLineage EXCEPT ![e] = persistenceLineage[e] + 1]
           \/ /\ persistenceLineage' = persistenceLineage
              /\ authorityLineage' =
                     [authorityLineage EXCEPT ![e] = nextAuthorityLineage[MeshOf(e)]]
              /\ nextAuthorityLineage' =
                     [nextAuthorityLineage EXCEPT ![MeshOf(e)] = nextAuthorityLineage[MeshOf(e)] + 1]
    BY DEF Evolve, EvolvePersistence, Commit, AdvanceLineage
  <1>3. ASSUME NEW f \in Edge
        PROVE  /\ nextAuthorityLineage[MeshOf(f)] \in Nat
               /\ nextAuthorityLineage'[MeshOf(f)] \in Nat
               /\ nextAuthorityLineage[MeshOf(f)] <= nextAuthorityLineage'[MeshOf(f)]
               /\ f # e => /\ authorityLineage'[f] = authorityLineage[f]
                           /\ persistenceLineage'[f] = persistenceLineage[f]
               /\ authorityLineage'[f] < nextAuthorityLineage'[MeshOf(f)]
    <2>1. MeshOf(f) \in Mesh /\ MeshOf(e) \in Mesh
      BY EdgeFacts
    <2>2. authorityLineage[f] < nextAuthorityLineage[MeshOf(f)]
      BY DEF Inv, VersionsBounded
    <2>3. LifecycleTypeOK /\ LifecycleTypeOK'
      BY DEF Inv, TypeOK
    <2>4. CASE authorityLineage' = authorityLineage /\ nextAuthorityLineage' = nextAuthorityLineage
      BY <1>2, <2>1, <2>2, <2>3, <2>4 DEF LifecycleTypeOK
    <2>5. CASE /\ persistenceLineage' = persistenceLineage
               /\ authorityLineage' =
                      [authorityLineage EXCEPT ![e] = nextAuthorityLineage[MeshOf(e)]]
               /\ nextAuthorityLineage' =
                      [nextAuthorityLineage EXCEPT ![MeshOf(e)] = nextAuthorityLineage[MeshOf(e)] + 1]
      BY <2>1, <2>2, <2>3, <2>5 DEF LifecycleTypeOK
    <2> QED
      BY <1>2, <2>4, <2>5
  <1>4. VersionsBounded'
    BY <1>2, <1>3 DEF Inv, VersionsBounded
  <1>5. ASSUME NEW v \in Evaluator
        PROVE  Sound(v)'
    <2> DEFINE n == evaluation[v]
               f == n.edge
    <2>1. TypeOK /\ Sound(v)
      BY DEF Inv
    <2>2. CASE ~Busy(n)
      <3>1. capturedChanged'[v] = capturedChanged[v]
        BY <1>1, <2>1, <2>2, Marks DEF TypeOK
      <3> QED
        BY <1>1, <2>1, <2>2, <3>1, NotBusyKept
    <2>3. CASE Busy(n)
      <3>1. f \in Edge /\ TracksEntry(n, resolvedGone[v], capturedChanged[v])
        BY <2>1, <2>3 DEF Sound
      <3>2. Tracks(n, resolvedGone[v], capturedChanged[v],
                   relationshipGeneration[f], authorityLineage[f], persistenceLineage[f],
                   nextRelationshipGeneration[MeshOf(f)], nextAuthorityLineage[MeshOf(f)])
        BY <3>1 DEF TracksEntry
      <3>3. capturedChanged'[v] = (capturedChanged[v] \/ f = e)
        BY <1>1, <2>1, <2>3, Marks
      <3>4. /\ n \in Evaluation
            /\ resolvedGone[v] \in BOOLEAN /\ capturedChanged[v] \in BOOLEAN
            /\ relationshipGeneration[f] \in Nat /\ authorityLineage[f] \in Nat
            /\ persistenceLineage[f] \in Nat
            /\ nextRelationshipGeneration[MeshOf(f)] \in Nat
            /\ nextAuthorityLineage[MeshOf(f)] \in Nat
        BY <2>1, <3>1, SoundTypes
      <3>5. CASE f # e
        <4>1. /\ authorityLineage'[f] = authorityLineage[f]
              /\ persistenceLineage'[f] = persistenceLineage[f]
              /\ nextAuthorityLineage'[MeshOf(f)] \in Nat
              /\ nextAuthorityLineage[MeshOf(f)] <= nextAuthorityLineage'[MeshOf(f)]
          BY <1>3, <3>1, <3>5
        <4>2. capturedChanged'[v] = capturedChanged[v]
          BY <3>3, <3>4, <3>5
        <4>3. Tracks(n, resolvedGone[v], capturedChanged[v],
                     relationshipGeneration[f], authorityLineage[f], persistenceLineage[f],
                     nextRelationshipGeneration[MeshOf(f)], nextAuthorityLineage'[MeshOf(f)])
          <5>1. nextRelationshipGeneration[MeshOf(f)] <= nextRelationshipGeneration[MeshOf(f)]
            BY <3>4
          <5> QED
            BY <3>2, <3>4, <4>1, <5>1, TracksOthers
        <4> QED
          BY <1>1, <1>2, <2>3, <3>1, <4>1, <4>2, <4>3, BusyKept
      <3>6. CASE f = e
        <4>1. capturedChanged'[v] = TRUE
          BY <3>3, <3>6
        <4>2. CASE /\ authorityLineage' = authorityLineage
                   /\ nextAuthorityLineage' = nextAuthorityLineage
                   /\ persistenceLineage' =
                          [persistenceLineage EXCEPT ![e] = persistenceLineage[e] + 1]
          <5>1. persistenceLineage'[f] = persistenceLineage[f] + 1
            BY <2>1, <3>1, <3>6, <4>2 DEF TypeOK, LifecycleTypeOK
          <5>2. Tracks(n, resolvedGone[v], TRUE,
                       relationshipGeneration[f], authorityLineage[f], persistenceLineage[f] + 1,
                       nextRelationshipGeneration[MeshOf(f)], nextAuthorityLineage[MeshOf(f)])
            BY <3>2, <3>4, TracksEvolution
          <5> QED
            BY <1>1, <1>2, <2>3, <3>1, <4>1, <4>2, <5>1, <5>2, BusyKept
        <4>3. CASE /\ persistenceLineage' = persistenceLineage
                   /\ authorityLineage' =
                          [authorityLineage EXCEPT ![e] = nextAuthorityLineage[MeshOf(e)]]
                   /\ nextAuthorityLineage' = [nextAuthorityLineage EXCEPT
                          ![MeshOf(e)] = nextAuthorityLineage[MeshOf(e)] + 1]
          <5>1. /\ authorityLineage'[f] = nextAuthorityLineage[MeshOf(f)]
                /\ nextAuthorityLineage'[MeshOf(f)] = nextAuthorityLineage[MeshOf(f)] + 1
            BY <2>1, <3>1, <3>6, <4>3, EdgeFacts DEF TypeOK, LifecycleTypeOK
          <5>2. Tracks(n, resolvedGone[v], TRUE,
                       relationshipGeneration[f], nextAuthorityLineage[MeshOf(f)],
                       persistenceLineage[f], nextRelationshipGeneration[MeshOf(f)],
                       nextAuthorityLineage[MeshOf(f)] + 1)
            BY <3>2, <3>4, TracksNewLineage
          <5> QED
            BY <1>1, <1>2, <2>3, <3>1, <4>1, <4>3, <5>1, <5>2, BusyKept
        <4> QED
          BY <1>2, <4>2, <4>3
      <3> QED
        BY <3>5, <3>6
    <2> QED
      BY <2>2, <2>3
  <1> QED
    BY <1>4, <1>5

(* What the mesh does to itself keeps everything typed.                     *)
LEMMA MeshActionType ==
    ASSUME Inv, NEW e \in Edge, Connect(e) \/ Prune(e) \/ Evolve(e) \/ Commit(e)
    PROVE  TypeOK'
  <1>1. LifecycleTypeOK'
    <2>1. CASE Connect(e)
      BY <2>1, ConnectEntries DEF Connect, Inv, TypeOK
    <2>2. CASE Prune(e)
      BY <2>2 DEF Prune, DiscardLifecycle, Inv, TypeOK, LifecycleTypeOK
    <2>3. CASE Evolve(e)
      BY <2>3 DEF Evolve, EvolvePersistence, Inv, TypeOK, LifecycleTypeOK
    <2>4. CASE Commit(e)
      BY <2>4, EdgeFacts DEF Commit, AdvanceLineage, Inv, TypeOK, LifecycleTypeOK
    <2> QED
      BY <2>1, <2>2, <2>3, <2>4
  <1>2. evaluation' = evaluation /\ evidence' = evidence
    BY DEF Connect, Prune, Evolve, Commit, evaluationVars
  <1>3. /\ resolvedGone' \in [Evaluator -> BOOLEAN]
        /\ capturedChanged' \in [Evaluator -> BOOLEAN]
    BY DEF Connect, Prune, Evolve, Commit, Changed, Ended, Inv, TypeOK
  <1> QED
    BY <1>1, <1>2, <1>3 DEF Inv, TypeOK

(* All that the mesh does keeps the invariant.                              *)
LEMMA MeshKept ==
    ASSUME Inv, NEW e \in Edge, Connect(e) \/ Prune(e) \/ Evolve(e) \/ Commit(e)
    PROVE  Inv'
  BY MeshActionType, ConnectKept, PruneKept, EntryChangeKept DEF Inv

-----------------------------------------------------------------------------
(* The steps of an evaluation keep the invariant. *)

(* An evaluation that is not in progress, nor answered "eligible", has      *)
(* nothing to answer for; nor has one that goes on with what it knows.      *)
SoundRecord(n, gone, changed, given) ==
    /\ Busy(n) => n.edge \in Edge /\ TracksEntry(n, gone, changed)
    /\ Earned(n, gone, changed, given)

(* A step of v writes v's part of the variables and leaves the mesh alone.  *)
Writes(v, n, gone, changed, given) ==
    /\ n \in Evaluation /\ given \in EvidenceType
    /\ gone \in BOOLEAN /\ changed \in BOOLEAN
    /\ SoundRecord(n, gone, changed, given)
    /\ evaluation' = [evaluation EXCEPT ![v] = n]
    /\ evidence' = [evidence EXCEPT ![v] = given]
    /\ resolvedGone' = [resolvedGone EXCEPT ![v] = gone]
    /\ capturedChanged' = [capturedChanged EXCEPT ![v] = changed]
    /\ UNCHANGED lifecycleVars

(* If what a step of v writes is sound, the invariant is kept.              *)
LEMMA UpdateKept ==
    ASSUME Inv, NEW v \in Evaluator, NEW n, NEW gone, NEW changed, NEW given,
           Writes(v, n, gone, changed, given)
    PROVE  Inv'
  <1>1. TypeOK'
    BY DEF Inv, TypeOK, LifecycleTypeOK, lifecycleVars, EvidenceType, Writes
  <1>2. VersionsBounded'
    BY DEF Inv, VersionsBounded, lifecycleVars, Writes
  <1>3. ASSUME NEW u \in Evaluator
        PROVE  Sound(u)'
    <2>1. SoundRecord(evaluation'[u], resolvedGone'[u], capturedChanged'[u], evidence'[u])
      <3>1. CASE u = v
        BY <3>1 DEF Inv, TypeOK, Writes
      <3>2. CASE u # v
        <4>1. /\ evaluation'[u] = evaluation[u] /\ evidence'[u] = evidence[u]
              /\ resolvedGone'[u] = resolvedGone[u] /\ capturedChanged'[u] = capturedChanged[u]
          BY <3>2 DEF Inv, TypeOK, Writes
        <4>2. Sound(u)
          BY DEF Inv
        <4> QED
          BY <4>1, <4>2 DEF Sound, SoundRecord
      <3> QED
        BY <3>1, <3>2
    <2> QED
      BY <2>1 DEF Sound, SoundRecord, TracksEntry, lifecycleVars, Writes
  <1> QED
    BY <1>1, <1>2, <1>3 DEF Inv

(* The evidence of an eligible decision is all there and all satisfied.     *)
LEMMA EligibleMeansSatisfied ==
    ASSUME NEW v \in Evaluator, NEW r, K11!Eligible(r, Prerequisites(v))
    PROVE  \A d \in AskedDomain : evidence[v][d] = "satisfied"
  <1>1. \A d \in {"permission", "invariant", "resilience", "freshness"} :
            ~K11!Unsatisfied(Prerequisites(v), d)
    BY DEF K11!Eligible, K11!RejectionReason
  <1>2. ASSUME NEW d \in AskedDomain
        PROVE  Prerequisites(v)[d].satisfied = (evidence[v][d] = "satisfied")
    <2>1. d \in K11!Domain /\ d # "revalidation"
      BY DEF AskedDomain, K11!Domain
    <2> QED
      BY <2>1 DEF Prerequisites, K11!Evidence
  <1> QED
    BY <1>1, <1>2 DEF AskedDomain, K11!Unsatisfied

(* The idle evaluation is typed and has nothing to answer for.              *)
LEMMA IdleSound ==
    /\ Idle \in Evaluation
    /\ NoEvidence \in EvidenceType
    /\ \A gone, changed, given : SoundRecord(Idle, gone, changed, given)
  BY DEF Idle, Evaluation, NoSnapshot, Snapshots, Phase, NoEvidence, EvidenceType,
         SoundRecord, Busy, Earned

(* A locator that is refused, and an answer that is taken away.             *)
LEMMA IdleStepsKept ==
    ASSUME Inv, NEW v \in Evaluator, RejectLocator(v) \/ Return(v)
    PROVE  Inv'
  <1>0. /\ evidence[v] \in EvidenceType
        /\ resolvedGone[v] \in BOOLEAN /\ capturedChanged[v] \in BOOLEAN
        /\ evidence = [evidence EXCEPT ![v] = evidence[v]]
        /\ resolvedGone = [resolvedGone EXCEPT ![v] = resolvedGone[v]]
        /\ capturedChanged = [capturedChanged EXCEPT ![v] = capturedChanged[v]]
    BY DEF Inv, TypeOK, EvidenceType
  <1>1. CASE RejectLocator(v)
    <2> DEFINE n == [Idle EXCEPT !.phase = "not_eligible"]
    <2>1. n \in Evaluation /\ n.phase = "not_eligible"
      BY DEF Idle, Evaluation, NoSnapshot, Snapshots, Phase, Answer
    <2>2. evaluation' = [evaluation EXCEPT ![v] = n]
      BY <1>1 DEF RejectLocator
    <2> HIDE DEF n
    <2>3. SoundRecord(n, resolvedGone[v], capturedChanged[v], evidence[v])
      BY <2>1 DEF SoundRecord, Busy, Answer, Earned
    <2>4. UNCHANGED lifecycleVars /\ evidence' = evidence /\ resolvedGone' = resolvedGone
          /\ capturedChanged' = capturedChanged
      BY <1>1 DEF RejectLocator, meshFrame
    <2>5. Writes(v, n, resolvedGone[v], capturedChanged[v], evidence[v])
      BY <1>0, <2>1, <2>2, <2>3, <2>4 DEF Writes
    <2> QED
      BY <2>5, UpdateKept
  <1>2. CASE Return(v)
    <2>1. Writes(v, Idle, FALSE, FALSE, NoEvidence)
      BY <1>2, IdleSound DEF Return, Writes
    <2> QED
      BY <2>1, UpdateKept
  <1> QED
    BY <1>1, <1>2

(* A relationship that is resolved is of this moment.                       *)
LEMMA ResolveKept ==
    ASSUME Inv, NEW v \in Evaluator, NEW e \in Edge, Resolve(v, e)
    PROVE  Inv'
  <1> DEFINE n == [Idle EXCEPT !.phase = IF Exists(e) THEN "capture" ELSE "no_request",
                               !.edge = e, !.generation = relationshipGeneration[e],
                               !.found = Exists(e)]
  <1>1. /\ relationshipGeneration[e] \in Nat /\ Exists(e) \in BOOLEAN
        /\ relationshipGeneration[e] < nextRelationshipGeneration[MeshOf(e)]
    BY DEF Inv, TypeOK, LifecycleTypeOK, Exists, VersionsBounded
  <1>2. /\ n \in Evaluation
        /\ n.phase = IF Exists(e) THEN "capture" ELSE "no_request"
        /\ n.edge = e /\ n.generation = relationshipGeneration[e]
    BY <1>1 DEF Idle, Evaluation, NoSnapshot, Snapshots, Phase, Answer
  <1>3. evaluation' = [evaluation EXCEPT ![v] = n]
    BY DEF Resolve
  <1> HIDE DEF n
  <1>4. SoundRecord(n, FALSE, FALSE, evidence[v])
    <2>1. CASE Exists(e)
      BY <1>1, <1>2, <2>1 DEF SoundRecord, Busy, Earned, TracksEntry, Tracks, Exists
    <2>2. CASE ~Exists(e)
      BY <1>2, <2>2 DEF SoundRecord, Busy, Earned, Answer
    <2> QED
      BY <2>1, <2>2
  <1>5. evidence[v] \in EvidenceType /\ evidence = [evidence EXCEPT ![v] = evidence[v]]
    BY DEF Inv, TypeOK, EvidenceType
  <1>6. UNCHANGED lifecycleVars /\ evidence' = evidence
        /\ resolvedGone' = [resolvedGone EXCEPT ![v] = FALSE]
        /\ capturedChanged' = [capturedChanged EXCEPT ![v] = FALSE]
    BY DEF Resolve
  <1>7. Writes(v, n, FALSE, FALSE, evidence[v])
    BY <1>2, <1>3, <1>4, <1>5, <1>6 DEF Writes
  <1> QED
    BY <1>7, UpdateKept

(* A snapshot that is captured is of the life that was resolved, and of     *)
(* this moment.                                                             *)
LEMMA CaptureKept ==
    ASSUME Inv, NEW v \in Evaluator, Capture(v)
    PROVE  Inv'
  <1> DEFINE n == evaluation[v]
             f == n.edge
  <1>1. n.phase = "capture" /\ n \in Evaluation /\ Sound(v)
    BY DEF Capture, Inv, TypeOK
  <1>2. f \in Edge /\ TracksEntry(n, resolvedGone[v], capturedChanged[v])
    BY <1>1 DEF Sound, Busy, Answer
  <1>3. /\ evidence[v] \in EvidenceType /\ evidence = [evidence EXCEPT ![v] = evidence[v]]
        /\ resolvedGone[v] \in BOOLEAN
        /\ resolvedGone = [resolvedGone EXCEPT ![v] = resolvedGone[v]]
    BY DEF Inv, TypeOK, EvidenceType
  <1>4. UNCHANGED lifecycleVars /\ evidence' = evidence /\ resolvedGone' = resolvedGone
        /\ capturedChanged' = [capturedChanged EXCEPT ![v] = FALSE]
    BY DEF Capture
  <1>5. CASE CanCapture(n)
    <2> DEFINE k == [n EXCEPT !.phase = "derive", !.snapshot = Snapshot(f)]
    <2>1. /\ authorityLineage[f] \in Nat /\ persistenceLineage[f] \in Nat
          /\ authorityLineage[f] < nextAuthorityLineage[MeshOf(f)]
      BY <1>2 DEF Inv, TypeOK, LifecycleTypeOK, VersionsBounded
    <2>2. Snapshot(f) \in Snapshots
      BY <2>1 DEF Snapshot, Snapshots
    <2>3. /\ k \in Evaluation /\ k.phase = "derive" /\ k.edge = f
          /\ k.generation = n.generation /\ k.snapshot = Snapshot(f)
      BY <1>1, <2>2 DEF Evaluation, Phase
    <2>4. evaluation' = [evaluation EXCEPT ![v] = k]
      BY <1>5 DEF Capture
    <2> HIDE DEF k
    <2>5. TracksEntry(k, resolvedGone[v], FALSE)
      <3>1. /\ n.generation # 0
            /\ n.generation < nextRelationshipGeneration[MeshOf(f)]
            /\ resolvedGone[v] <=> relationshipGeneration[f] # n.generation
        BY <1>2 DEF TracksEntry, Tracks
      <3>2. relationshipGeneration[f] = n.generation
        BY <1>5 DEF CanCapture, Current
      <3>3. k.snapshot.lineage = authorityLineage[f] /\ k.snapshot.persistence = persistenceLineage[f]
        BY <2>3 DEF Snapshot
      <3> QED
        BY <2>1, <2>3, <3>1, <3>2, <3>3 DEF TracksEntry, Tracks
    <2>6. SoundRecord(k, resolvedGone[v], FALSE, evidence[v])
      BY <1>2, <2>3, <2>5 DEF SoundRecord, Earned
    <2>7. Writes(v, k, resolvedGone[v], FALSE, evidence[v])
      BY <1>3, <1>4, <2>3, <2>4, <2>6 DEF Writes
    <2> QED
      BY <2>7, UpdateKept
  <1>6. CASE ~CanCapture(n)
    <2> DEFINE k == [n EXCEPT !.phase = "not_eligible"]
    <2>1. k \in Evaluation /\ k.phase = "not_eligible"
      BY <1>1 DEF Evaluation, Phase, Answer
    <2>2. evaluation' = [evaluation EXCEPT ![v] = k]
      BY <1>6 DEF Capture
    <2> HIDE DEF k
    <2>3. SoundRecord(k, resolvedGone[v], FALSE, evidence[v])
      BY <2>1 DEF SoundRecord, Busy, Answer, Earned
    <2>4. Writes(v, k, resolvedGone[v], FALSE, evidence[v])
      BY <1>3, <1>4, <2>1, <2>2, <2>3 DEF Writes
    <2> QED
      BY <2>4, UpdateKept
  <1> QED
    BY <1>5, <1>6

(* An evaluation that goes on to a phase other than "capture" and           *)
(* "eligible", with whatever evidence, knows what it knew.                  *)
LEMMA GoingOnKept ==
    ASSUME Inv, NEW v \in Evaluator,
           Busy(evaluation[v]), evaluation[v].phase # "capture",
           NEW phase \in Phase \ {"capture", "eligible"}, NEW given \in EvidenceType,
           evaluation' = [evaluation EXCEPT ![v].phase = phase],
           evidence' = [evidence EXCEPT ![v] = given],
           UNCHANGED meshFrame
    PROVE  Inv'
  <1> DEFINE n == evaluation[v]
             k == [n EXCEPT !.phase = phase]
  <1>1. n \in Evaluation /\ Sound(v)
    BY DEF Inv, TypeOK
  <1>2. /\ k \in Evaluation /\ k.phase = phase /\ k.edge = n.edge
        /\ k.generation = n.generation /\ k.snapshot = n.snapshot
    BY <1>1 DEF Evaluation
  <1>3. evaluation' = [evaluation EXCEPT ![v] = k]
    OBVIOUS
  <1> HIDE DEF k
  <1>4. n.edge \in Edge /\ TracksEntry(n, resolvedGone[v], capturedChanged[v])
    BY <1>1 DEF Sound
  <1>5. TracksEntry(k, resolvedGone[v], capturedChanged[v])
    BY <1>2, <1>4 DEF TracksEntry, Tracks
  <1>6. SoundRecord(k, resolvedGone[v], capturedChanged[v], given)
    BY <1>2, <1>4, <1>5 DEF SoundRecord, Earned
  <1>7. /\ resolvedGone[v] \in BOOLEAN /\ capturedChanged[v] \in BOOLEAN
        /\ resolvedGone' = [resolvedGone EXCEPT ![v] = resolvedGone[v]]
        /\ capturedChanged' = [capturedChanged EXCEPT ![v] = capturedChanged[v]]
        /\ UNCHANGED lifecycleVars
    BY DEF Inv, TypeOK, meshFrame
  <1>8. Writes(v, k, resolvedGone[v], capturedChanged[v], given)
    BY <1>2, <1>3, <1>6, <1>7 DEF Writes
  <1> QED
    BY <1>8, UpdateKept

(* Deriving a direction and asking the domains only go on.                  *)
LEMMA MiddleStepsKept ==
    ASSUME Inv, NEW v \in Evaluator,
           \/ DeriveDirection(v)
           \/ \E d \in AskedDomain : \E outcome \in {"satisfied", "not_satisfied", "unavailable"} :
                  Validate(v, d, outcome)
    PROVE  Inv'
  <1>0. /\ evidence[v] \in EvidenceType
        /\ evidence = [evidence EXCEPT ![v] = evidence[v]]
    BY DEF Inv, TypeOK, EvidenceType
  <1>1. CASE DeriveDirection(v)
    <2>1. PICK phase \in {"permission", "no_request", "not_eligible"} : Goto(v, phase)
      BY <1>1 DEF DeriveDirection
    <2>2. evaluation[v].phase = "derive" /\ UNCHANGED meshFrame
      BY <1>1 DEF DeriveDirection
    <2>3. /\ Busy(evaluation[v]) /\ evaluation[v].phase # "capture"
          /\ phase \in Phase \ {"capture", "eligible"}
      BY <2>2 DEF Busy, Answer, Phase, AskedDomain
    <2>4. evaluation' = [evaluation EXCEPT ![v].phase = phase] /\ evidence' = evidence
      BY <2>1 DEF Goto
    <2> QED
      BY <1>0, <2>2, <2>3, <2>4, GoingOnKept
  <1>2. ASSUME NEW d \in AskedDomain, NEW outcome \in {"satisfied", "not_satisfied", "unavailable"},
               Validate(v, d, outcome)
        PROVE  Inv'
    <2>1. evaluation[v].phase = d /\ UNCHANGED meshFrame
      BY <1>2 DEF Validate
    <2>2. Busy(evaluation[v]) /\ evaluation[v].phase # "capture"
      BY <2>1 DEF Busy, Answer, AskedDomain
    <2>3. CASE outcome = "unavailable"
      <3>1. evaluation' = [evaluation EXCEPT ![v].phase = "not_eligible"] /\ evidence' = evidence
        BY <1>2, <2>3 DEF Validate, Goto
      <3>2. "not_eligible" \in Phase \ {"capture", "eligible"}
        BY DEF Phase, Answer
      <3> QED
        BY <1>0, <2>1, <2>2, <3>1, <3>2, GoingOnKept
    <2>4. CASE outcome # "unavailable"
      <3> DEFINE given == [evidence[v] EXCEPT ![d] = outcome]
      <3>1. /\ evaluation' = [evaluation EXCEPT ![v].phase = Following[d]]
            /\ evidence' = [evidence EXCEPT ![v] = given]
        BY <1>2, <2>4 DEF Validate
      <3>2. Following[d] \in Phase \ {"capture", "eligible"}
        BY DEF Following, AskedDomain, Phase
      <3>3. given \in EvidenceType
        BY <1>0, <2>4 DEF EvidenceType
      <3> HIDE DEF given
      <3> QED
        BY <2>1, <2>2, <3>1, <3>2, <3>3, GoingOnKept
    <2> QED
      BY <2>3, <2>4
  <1> QED
    BY <1>1, <1>2

(* A revalidation that passes finds an entry that is neither gone nor       *)
(* changed, and the eligible decision asks for the rest.                    *)
LEMMA RevalidateKept ==
    ASSUME Inv, NEW v \in Evaluator, RevalidateAndClassify(v)
    PROVE  Inv'
  <1> DEFINE n == evaluation[v]
             f == n.edge
  <1>0. /\ evidence[v] \in EvidenceType
        /\ evidence = [evidence EXCEPT ![v] = evidence[v]]
        /\ resolvedGone[v] \in BOOLEAN /\ capturedChanged[v] \in BOOLEAN
        /\ n \in Evaluation /\ Sound(v)
    BY DEF Inv, TypeOK, EvidenceType
  <1>1. /\ n.phase = "revalidate" /\ UNCHANGED meshFrame /\ evidence' = evidence
    BY DEF RevalidateAndClassify, Goto
  <1>2. Busy(n) /\ n.phase # "capture"
    BY <1>1 DEF Busy, Answer
  <1>3. CASE StillValid(n) /\ K11!Eligible(Request(n), Prerequisites(v))
    <2> DEFINE k == [n EXCEPT !.phase = "eligible"]
    <2>1. evaluation' = [evaluation EXCEPT ![v] = k]
      BY <1>3 DEF RevalidateAndClassify, Goto
    <2>2. k \in Evaluation /\ k.phase = "eligible"
      BY <1>0 DEF Evaluation, Phase, Answer
    <2> HIDE DEF k
    <2>3. /\ relationshipGeneration[f] = n.generation
          /\ authorityLineage[f] = n.snapshot.lineage
          /\ persistenceLineage[f] = n.snapshot.persistence
      BY <1>3 DEF StillValid, Revalidates, Current, Snapshot
    <2>4. TracksEntry(n, resolvedGone[v], capturedChanged[v])
      BY <1>0, <1>2 DEF Sound
    <2>5. ~resolvedGone[v] /\ ~capturedChanged[v]
      BY <1>2, <2>3, <2>4 DEF TracksEntry, Tracks
    <2>6. \A d \in AskedDomain : evidence[v][d] = "satisfied"
      BY <1>3, EligibleMeansSatisfied
    <2>7. SoundRecord(k, resolvedGone[v], capturedChanged[v], evidence[v])
      BY <2>2, <2>5, <2>6 DEF SoundRecord, Busy, Answer, Earned
    <2>8. /\ resolvedGone' = [resolvedGone EXCEPT ![v] = resolvedGone[v]]
          /\ capturedChanged' = [capturedChanged EXCEPT ![v] = capturedChanged[v]]
          /\ UNCHANGED lifecycleVars
      BY <1>1 DEF Inv, TypeOK, meshFrame
    <2>9. Writes(v, k, resolvedGone[v], capturedChanged[v], evidence[v])
      BY <1>0, <1>1, <2>1, <2>2, <2>7, <2>8 DEF Writes
    <2> QED
      BY <2>9, UpdateKept
  <1>4. CASE ~(StillValid(n) /\ K11!Eligible(Request(n), Prerequisites(v)))
    <2>1. evaluation' = [evaluation EXCEPT ![v].phase = "not_eligible"]
      BY <1>4 DEF RevalidateAndClassify, Goto
    <2>2. "not_eligible" \in Phase \ {"capture", "eligible"}
      BY DEF Phase, Answer
    <2> QED
      BY <1>0, <1>1, <1>2, <2>1, <2>2, GoingOnKept
  <1> QED
    BY <1>3, <1>4

-----------------------------------------------------------------------------
(* A mesh without bridges and threads that do not evaluate.                 *)
LEMMA InitInv == Init => Inv
  <1> SUFFICES ASSUME Init PROVE Inv
    OBVIOUS
  <1>1. LifecycleTypeOK
    BY DEF Init, LifecycleInit, LifecycleTypeOK
  <1>2. TypeOK
    BY <1>1, IdleSound DEF Init, TypeOK, EvidenceType
  <1>3. VersionsBounded
    BY EdgeFacts DEF Init, LifecycleInit, VersionsBounded
  <1>4. ASSUME NEW v \in Evaluator
        PROVE  Sound(v)
    BY DEF Init, Sound, Idle, Busy, Earned
  <1> QED
    BY <1>2, <1>3, <1>4 DEF Inv

LEMMA NextInv == Inv /\ [Next]_vars => Inv'
  <1> SUFFICES ASSUME Inv, [Next]_vars PROVE Inv'
    OBVIOUS
  <1>1. ASSUME NEW e \in Edge, Connect(e) \/ Prune(e) \/ Evolve(e) \/ Commit(e)
        PROVE  Inv'
    BY <1>1, MeshKept
  <1>2. ASSUME NEW v \in Evaluator, Step(v)
        PROVE  Inv'
    BY <1>2, IdleStepsKept, ResolveKept, CaptureKept, MiddleStepsKept, RevalidateKept DEF Step
  <1>3. CASE UNCHANGED vars
    BY <1>3 DEF vars, lifecycleVars, Inv, TypeOK, LifecycleTypeOK, VersionsBounded, Sound,
                TracksEntry
  <1> QED
    BY <1>1, <1>2, <1>3 DEF Next

(* Every reachable state satisfies the inductive invariant.                 *)
THEOREM Invariance == Spec => []Inv
  BY InitInv, NextInv, PTL DEF Spec

(* The state keeps its types, however many threads evaluate.                *)
THEOREM TypeCorrect == Spec => []TypeOK
  <1>1. Inv => TypeOK
    BY DEF Inv
  <1> QED
    BY <1>1, Invariance, PTL

(* An evaluation answers "eligible" only when nothing of the relationship   *)
(* changed between its capture and its revalidation, and when every domain  *)
(* was satisfied.                                                           *)
THEOREM EligibilityIsEarned == Spec => []EligibleIsEarned
  <1>1. Inv => EligibleIsEarned
    BY DEF Inv, Sound, Earned, EligibleIsEarned
  <1> QED
    BY <1>1, Invariance, PTL

(* An evaluation goes on with the life of the relationship it resolved, and *)
(* knows when the entry is no longer the one it captured.                   *)
THEOREM OneLife == Spec => []OneLifePerEvaluation
  <1>1. Inv => OneLifePerEvaluation
    <2> SUFFICES ASSUME Inv, NEW v \in Evaluator, Working(v)
                 PROVE  LET n == evaluation[v] IN
                        /\ (Exists(n.edge) /\ relationshipGeneration[n.edge] # n.generation)
                               => resolvedGone[v]
                        /\ n.phase # "capture" =>
                               capturedChanged[v] \/ Revalidates(n.edge, n.generation, n.snapshot)
      BY DEF OneLifePerEvaluation
    <2> DEFINE n == evaluation[v]
    <2>1. n.edge \in Edge /\ TracksEntry(n, resolvedGone[v], capturedChanged[v]) /\ n \in Evaluation
      BY DEF Inv, Sound, Working, Busy, TypeOK
    <2>2. n.snapshot = [lineage |-> n.snapshot.lineage, persistence |-> n.snapshot.persistence]
      BY <2>1 DEF Evaluation, Snapshots
    <2> HIDE DEF n
    <2> QED
      BY <2>1, <2>2 DEF n, TracksEntry, Tracks, Revalidates, Current, Exists, Snapshot
  <1> QED
    BY <1>1, Invariance, PTL

-----------------------------------------------------------------------------
(* The decision of the evaluator an evaluation ends with. *)

AssemblyTypeOK == prerequisites \in [Domain -> AnyEvidence]

(* Every member of the set holds an evidence, or none. *)
LEMMA AssemblyTypeHolds == AssemblySpec => []AssemblyTypeOK
<1>1. AssemblyInit => AssemblyTypeOK
  BY DEF AssemblyInit, NoPrerequisites, AssemblyTypeOK, AnyEvidence
<1>2. AssemblyTypeOK /\ [AssemblyNext]_prerequisites => AssemblyTypeOK'
  BY DEF AssemblyTypeOK, AssemblyNext, Assign
<1> QED BY <1>1, <1>2, PTL DEF AssemblySpec

(* The defects of an evidence, and the rank of each domain's own one. *)
LEMMA DefectCases ==
    ASSUME AssemblyTypeOK, NEW d \in Domain
    PROVE  /\ ~prerequisites[d].present <=> Defect(d) = "missing_prerequisite"
           /\ (prerequisites[d].present /\ prerequisites[d].context # Binding)
                 <=> Defect(d) = "binding_mismatch"
           /\ (prerequisites[d].present /\ prerequisites[d].context = Binding
               /\ ~prerequisites[d].satisfied) <=> Defect(d) = UnsatisfiedReason[d]
           /\ Defect(d) \in {"missing_prerequisite", "binding_mismatch",
                             UnsatisfiedReason[d], "none"}
<1>1. UnsatisfiedReason[d] \notin {"missing_prerequisite", "binding_mismatch", "none"}
  BY DEF UnsatisfiedReason, Domain
<1>2. prerequisites[d] \in AnyEvidence
  BY DEF AssemblyTypeOK
<1>3. CASE prerequisites[d] = Absent
  BY <1>1, <1>3 DEF Defect, Absent
<1>4. CASE prerequisites[d] \in [present: {TRUE}, context: Context, satisfied: BOOLEAN]
  <2>1. prerequisites[d].present = TRUE /\ prerequisites[d].satisfied \in BOOLEAN
    BY <1>4
  <2>2. prerequisites[d] # Absent
    BY <2>1 DEF Absent
  <2>3. CASE prerequisites[d].context # Binding
    BY <1>1, <2>1, <2>2, <2>3 DEF Defect
  <2>4. CASE prerequisites[d].context = Binding /\ prerequisites[d].satisfied
    BY <1>1, <2>1, <2>2, <2>4 DEF Defect
  <2>5. CASE prerequisites[d].context = Binding /\ ~prerequisites[d].satisfied
    BY <1>1, <2>1, <2>2, <2>5 DEF Defect
  <2> QED BY <2>3, <2>4, <2>5
<1> QED BY <1>2, <1>3, <1>4 DEF AnyEvidence

(* The decision is the first defect of the set in the precedence. *)
LEMMA DecisionIsFirst == AssemblyTypeOK => DecisionFollowsPrecedence
<1> SUFFICES ASSUME AssemblyTypeOK PROVE DecisionFollowsPrecedence
  OBVIOUS
<1> DEFINE P(d) == prerequisites[d]
<1>1. CASE Missing(prerequisites)
  <2>1. Decision = "missing_prerequisite"
    BY <1>1 DEF Decision, RejectionReason
  <2>2. \A d \in Domain : Precedence[Decision] <= Severity(d)
    BY <2>1, DefectCases DEF Severity, Precedence, UnsatisfiedReason, Domain
  <2>3. \E d \in Domain : Decision = Defect(d)
    BY <1>1, <2>1, DefectCases DEF Missing
  <2> QED BY <2>2, <2>3 DEF DecisionFollowsPrecedence
<1>2. CASE ~Missing(prerequisites) /\ Mismatch(Binding, prerequisites)
  <2>1. Decision = "binding_mismatch"
    BY <1>2 DEF Decision, RejectionReason
  <2>2. \A d \in Domain : Defect(d) # "missing_prerequisite"
    BY <1>2, DefectCases DEF Missing
  <2>3. \A d \in Domain : Precedence[Decision] <= Severity(d)
    BY <2>1, <2>2, DefectCases DEF Severity, Precedence, UnsatisfiedReason, Domain
  <2>4. \E d \in Domain : Decision = Defect(d)
    BY <1>2, <2>1, DefectCases DEF Missing, Mismatch
  <2> QED BY <2>3, <2>4 DEF DecisionFollowsPrecedence
<1>3. CASE ~Missing(prerequisites) /\ ~Mismatch(Binding, prerequisites)
  <2>1. \A d \in Domain : prerequisites[d].present /\ prerequisites[d].context = Binding
    BY <1>3 DEF Missing, Mismatch
  <2>2. \A d \in Domain :
            /\ Defect(d) \in {UnsatisfiedReason[d], "none"}
            /\ Unsatisfied(prerequisites, d) <=> Defect(d) = UnsatisfiedReason[d]
    BY <2>1, DefectCases DEF Unsatisfied
  <2>3. CASE Decision = "none"
    BY <1>3, <2>2, <2>3
       DEF Decision, RejectionReason, DecisionFollowsPrecedence, Severity, Precedence,
           UnsatisfiedReason, Domain
  <2>4. CASE Decision # "none"
    BY <1>3, <2>2, <2>4
       DEF Decision, RejectionReason, DecisionFollowsPrecedence, Severity, Precedence,
           UnsatisfiedReason, Domain
  <2> QED BY <2>3, <2>4
<1> QED BY <1>1, <1>2, <1>3

(* In every prerequisite set the decision follows the precedence. *)
THEOREM PrecedenceHolds == AssemblySpec => []DecisionFollowsPrecedence
BY AssemblyTypeHolds, DecisionIsFirst, PTL

(* Severities and ranks of decisions are numbers. *)
LEMMA RanksAreNumbers ==
    ASSUME AssemblyTypeOK
    PROVE  Precedence[Decision] \in Nat /\ \A d \in Domain : Severity(d) \in Nat
<1>1. \A d \in Domain : Severity(d) \in Nat
  BY DefectCases DEF Severity, Precedence, UnsatisfiedReason, Domain
<1> QED BY <1>1, DecisionIsFirst DEF DecisionFollowsPrecedence, Severity

(* Repairing the evidence of a domain never brings an earlier rejection. *)
THEOREM RepairMonotone == AssemblySpec => RepairNeverSetsBack
<1>0. AssemblyTypeOK' => DecisionFollowsPrecedence'
  BY DecisionIsFirst, PTL
<1>1. ASSUME AssemblyTypeOK, AssemblyTypeOK', NEW d \in Domain,
             prerequisites' = [prerequisites EXCEPT ![d] = prerequisites'[d]],
             Severity(d) <= Severity(d)'
      PROVE  Precedence[Decision] <= Precedence[Decision']
  <2>1. \A c \in Domain : c # d => Severity(c)' = Severity(c)
    BY <1>1 DEF AssemblyTypeOK, Severity, Defect
  <2>2. PICK c \in Domain : Decision' = Defect(c)'
    BY <1>0, <1>1 DEF DecisionFollowsPrecedence
  <2>3. Precedence[Decision'] = Severity(c)'
    BY <2>2 DEF Severity
  <2>4. Severity(c) <= Severity(c)'
    BY <1>1, <2>1, RanksAreNumbers
  <2>5. Precedence[Decision] <= Severity(c)
    BY <1>1, DecisionIsFirst DEF DecisionFollowsPrecedence
  <2>6. Severity(c)' \in Nat
    BY <1>1, <2>1, RanksAreNumbers
       DEF AssemblyTypeOK, Severity, Precedence, Defect, UnsatisfiedReason, Domain
  <2> QED BY <1>1, <2>3, <2>4, <2>5, <2>6, RanksAreNumbers
<1> DEFINE Monotone == \A d \in Domain :
               (prerequisites' = [prerequisites EXCEPT ![d] = prerequisites'[d]]
                /\ Severity(d) <= Severity(d)')
                   => Precedence[Decision] <= Precedence[Decision']
<1>2. AssemblyTypeOK /\ AssemblyTypeOK' => [Monotone]_prerequisites
  BY <1>1
<1> QED BY <1>2, AssemblyTypeHolds, PTL DEF RepairNeverSetsBack
=============================================================================
