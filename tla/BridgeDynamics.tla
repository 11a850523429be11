----------------------------- MODULE BridgeDynamics -----------------------------
(***************************************************************************)
(* The numbers of a SpatialAdaptiveMesh: the state and the health of the   *)
(* nodes, the capacity and the status of the bridges, moved by shocks,     *)
(* simulation steps and commits, while pairs are pruned for what these     *)
(* made of them and connected again.  Each call holds topologyMutex        *)
(* exclusively, so each is one step; the interleaving of the workers       *)
(* inside a simulation step is in WorkerPool.                              *)
(*                                                                         *)
(* Doubles are fixed-point integers: states, baselines and epsilons in     *)
(* hundredths, health and capacity in thousandths, the weight of a bridge  *)
(* (its spatial attenuation times its orientation) in hundredths.          *)
(* Quotients are cut off towards zero.                                     *)
(***************************************************************************)
EXTENDS SpatialBridge, FiniteSets, FiniteSetsExt

CONSTANTS
    Node,
    Edge,          \* the directed edges that may have a bridge, in pairs
    Baseline,      \* invariant.baseline of a node
    MaxEpsilon,    \* invariant.maxEpsilon: the radius of Omega
    Weight,        \* of a bridge
    Magnitude,     \* the shocks
    MaxShock,      \* bound: shocks
    MaxCommit,     \* bound: commits
    Threshold,     \* minCapacityThreshold of the prunes
    MaxStep,       \* bound: simulation steps
    MaxChange      \* bound: prunes that remove bridges, and connections

ASSUME DynamicsAssumption ==
    /\ IsFiniteSet(Node)
    /\ Edge \subseteq Node \X Node
    /\ \A e \in Edge : e[1] # e[2] /\ <<e[2], e[1]>> \in Edge
    /\ Baseline \in [Node -> Int]
    /\ MaxEpsilon \in Nat \ {0}
    /\ Weight \in [Edge -> 0 .. 100]
    /\ Magnitude \subseteq Int
    /\ Threshold \subseteq Nat
    /\ {MaxShock, MaxCommit, MaxStep, MaxChange} \subseteq Nat

VARIABLES
    state, healthIndex,   \* of the nodes
    capacity, status,     \* of the bridges there are
    shocks, commits, steps, changes   \* history: how many calls of each kind

nodeVars == <<state, healthIndex>>

counts == <<shocks, commits, steps, changes>>

vars == <<nodeVars, capacity, status, counts>>

Bridges == DOMAIN capacity

Reverse(e) == <<e[2], e[1]>>

-----------------------------------------------------------------------------
Drift(n, s) == IF s < Baseline[n] THEN Baseline[n] - s ELSE s - Baseline[n]

WithinSafetyBound(n, s) == Drift(n, s) <= MaxEpsilon

(* updateHealth and updateHealthUnchecked *)
Health(n, s) ==
    IF WithinSafetyBound(n, s) THEN 1000 - (1000 * Drift(n, s)) \div MaxEpsilon ELSE 0

(* Nodes at their baselines, some pairs connected. *)
Init ==
    /\ state = Baseline
    /\ healthIndex = [n \in Node |-> 1000]
    /\ \E connected \in SUBSET Edge :
           /\ \A e \in connected : Reverse(e) \in connected
           /\ capacity = [e \in connected |-> 1000]
           /\ status = [e \in connected |-> "NORMAL"]
    /\ shocks = 0 /\ commits = 0 /\ steps = 0 /\ changes = 0

-----------------------------------------------------------------------------
(* MetaEvaluator::evaluate of the neighbour's state, by the source's own    *)
(* Omega and with its own health.                                           *)
Destructive(e) == ~WithinSafetyBound(e[1], state[e[2]])

Creative(e) == /\ ~Destructive(e)
               /\ healthIndex[e[1]] > 700
               /\ Drift(e[1], state[e[2]]) > 120

Category(e) ==
    CASE Destructive(e) -> "DESTRUCTIVE_DRIFT"
      [] Creative(e)    -> "CREATIVE_SIGNAL"
      [] OTHER          -> "NOISE"

NextCapacity(e) == CapacityAfter(Category(e), capacity[e])

NextStatus(e) == StatusAfter(Category(e), capacity[e])

-----------------------------------------------------------------------------
Degree(n) == Cardinality({e \in Bridges : e[1] = n})

(* enforceStabilityConditionUnlocked, in hundredths, as every change of the *)
(* topology leaves it (AlphaFitsDegree of MeshTopology).                    *)
Alpha ==
    LET maxDegree == Max({Degree(n) : n \in Node})
    IN IF maxDegree = 0 THEN 15 ELSE Min({20, 80 \div maxDegree})

Quotient(a, b) == IF a < 0 THEN -((-a) \div b) ELSE a \div b

(* The coupling of the bridge as this step leaves it, in thousandths.       *)
Coupling_Before(e) == (capacity[e] * Weight[e]) \div 100

Coupling(e) == (NextCapacity(e) * Weight[e]) \div 100

Diffused(n) ==
    state[n] + Quotient(
        Alpha * MapThenSumSet(LAMBDA e : Coupling(e) * (state[e[2]] - state[n]),
                              {e \in Bridges : e[1] = n}),
        100000)

(* Every node computes from the states, healths and bridges before the step. *)
SimulationStep ==
    /\ steps < MaxStep
    /\ steps' = steps + 1
    /\ state' = [n \in Node |-> Diffused(n)]
    /\ healthIndex' = [n \in Node |-> Health(n, state'[n])]
    /\ capacity' = [e \in Bridges |-> NextCapacity(e)]
    /\ status' = [e \in Bridges |-> NextStatus(e)]
    /\ UNCHANGED <<shocks, commits, changes>>

(* applyLocalReflexFilter *)
Reflex(s, input) ==
    CASE input - s > 350  -> s + 350
      [] s - input > 350  -> s - 350
      [] OTHER            -> input

HealthAfterShock_Stale(n, s) == healthIndex[n]

HealthAfterShock(n, s) == Health(n, s)

InjectExternalShock(n, magnitude) ==
    LET filtered == Reflex(state[n], state[n] + magnitude)
    IN /\ shocks < MaxShock
       /\ shocks' = shocks + 1
       /\ state' = [state EXCEPT ![n] = filtered]
       /\ healthIndex' = [healthIndex EXCEPT ![n] = HealthAfterShock(n, filtered)]
       /\ UNCHANGED <<capacity, status, commits, steps, changes>>

(* The effect of a committed transition; which capability may have it is   *)
(* the business of ProductionAuthority.                                    *)
Constrain(e) ==
    /\ commits < MaxCommit
    /\ commits' = commits + 1
    /\ capacity' = [capacity EXCEPT ![e] = Constrained(capacity[e])]
    /\ status' = [status EXCEPT ![e] = "DAMPING"]
    /\ UNCHANGED <<nodeVars, shocks, steps, changes>>

Support(e) ==
    /\ commits < MaxCommit
    /\ commits' = commits + 1
    /\ capacity' = [capacity EXCEPT ![e] = Supported(capacity[e])]
    /\ status' = [status EXCEPT ![e] = SupportedStatus(capacity[e], Supported(capacity[e]))]
    /\ UNCHANGED <<nodeVars, shocks, steps, changes>>

Weak(e, threshold) == capacity[e] < threshold \/ status[e] = "ISOLATED"

(* Both directions of a pair go when either is weak. *)
Kept(threshold) ==
    {e \in Bridges : ~Weak(e, threshold) /\ ~Weak(Reverse(e), threshold)}

PruneIsolatedBridges(threshold) ==
    /\ changes < MaxChange
    /\ Kept(threshold) # Bridges
    /\ changes' = changes + 1
    /\ capacity' = [e \in Kept(threshold) |-> capacity[e]]
    /\ status' = [e \in Kept(threshold) |-> status[e]]
    /\ UNCHANGED <<nodeVars, shocks, commits, steps>>

(* A pair that was pruned starts again as a new one. *)
ConnectNodes(a) ==
    /\ a \notin Bridges
    /\ changes < MaxChange
    /\ changes' = changes + 1
    /\ capacity' = [e \in Bridges \cup {a, Reverse(a)} |->
                       IF e \in Bridges THEN capacity[e] ELSE 1000]
    /\ status' = [e \in Bridges \cup {a, Reverse(a)} |->
                     IF e \in Bridges THEN status[e] ELSE "NORMAL"]
    /\ UNCHANGED <<nodeVars, shocks, commits, steps>>

Next ==
    \/ SimulationStep
    \/ \E n \in Node : \E m \in Magnitude : InjectExternalShock(n, m)
    \/ \E e \in Bridges : Constrain(e) \/ Support(e)
    \/ \E threshold \in Threshold : PruneIsolatedBridges(threshold)
    \/ \E e \in Edge : ConnectNodes(e)

Spec == Init /\ [][Next]_vars

-----------------------------------------------------------------------------
(* The status and the capacity of a bridge are written by two writers, the *)
(* step and the commit, with formulas of their own, and a prune reads both *)
(* (below the threshold, or isolated): they always tell the same story.    *)
StatusTellsCapacity == \A e \in Bridges : Coherent(capacity[e], status[e])

(* Health is a cache of the state: whoever moves a state, a shock or a step, *)
(* leaves the health the evaluator will read next in agreement with it.     *)
HealthTellsState == healthIndex = [n \in Node |-> Health(n, state[n])]

(* Candidate Proposition 1 of docs/mathematics.md, sharpened: a simulation  *)
(* step leaves each node between the states it and its neighbours had, and  *)
(* a neighbour outside the node's own Omega pulls it nowhere, already in    *)
(* the step that finds it there and also when a commit has just supported   *)
(* the bridge to it.                                                        *)
Pullers(n) == {n} \cup {m \in Node : <<n, m>> \in Bridges /\ ~Destructive(<<n, m>>)}

StepStaysInHull ==
    \A n \in Node : \E low, high \in Pullers(n) : state[low] <= state'[n] /\ state'[n] <= state[high]

StepsStayInHull == [][steps' # steps => StepStaysInHull]_vars

(* Assumption 1 of docs/mathematics.md:21: the dynamic edge weights maintain *)
(* local symmetry, T_ij = T_ji.                                             *)
WeightsStaySymmetric ==
    \A e \in Bridges :
        Weight[e] = Weight[Reverse(e)] => capacity[e] = capacity[Reverse(e)]
=============================================================================
