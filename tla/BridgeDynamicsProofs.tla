-------------------------- MODULE BridgeDynamicsProofs --------------------------
(***************************************************************************)
(* Proofs about BridgeDynamics, for every topology, geometry and bound.    *)
(* What a diffusion sums to is bounded by induction over the number of the *)
(* bridges: the least-number principle of WellFoundedInduction, applied to *)
(* the set of the numbers that fail.                                       *)
(***************************************************************************)
EXTENDS BridgeDynamics, FiniteSetTheorems, WellFoundedInduction, TLAPS

(* The capacities of a bridge, what either formula makes of one, and the    *)
(* weights: named, so that the provers need not look into the intervals.    *)
Capacities == 0 .. 1000

Damped == 10 .. 850

Strengthened == 150 .. 1000

Weights == 0 .. 100

LEMMA Ranges ==
    \A c \in Capacities : Constrained(c) \in Damped /\ Supported(c) \in Strengthened
  BY DEF Constrained, Supported, Capacities, Damped, Strengthened

BridgeAgrees(c, s) ==
    /\ c \in Capacities
    /\ s \in BridgeStatus
    /\ Coherent(c, s)

(* The inductive invariant: types and agreement of all bridges.             *)
BridgesAgree ==
    /\ DOMAIN status = Bridges
    /\ \A e \in Bridges : BridgeAgrees(capacity[e], status[e])

(* Every pair of a capacity and a status that some writer writes agrees.    *)
LEMMA WritesAgree ==
    /\ BridgeAgrees(0, "ISOLATED")
    /\ BridgeAgrees(1000, "NORMAL")
    /\ \A c \in Capacities :
           /\ BridgeAgrees(Constrained(c), "DAMPING")
           /\ BridgeAgrees(Supported(c), SupportedStatus(c, Supported(c)))
  <1>1. BridgeAgrees(0, "ISOLATED") /\ BridgeAgrees(1000, "NORMAL")
    BY DEF BridgeAgrees, BridgeStatus, Coherent, Capacities
  <1>2. \A d \in Damped : BridgeAgrees(d, "DAMPING")
    BY DEF BridgeAgrees, BridgeStatus, Coherent, Capacities, Damped
  <1>3. ASSUME NEW c, NEW d \in Strengthened
        PROVE  BridgeAgrees(d, SupportedStatus(c, d))
    BY DEF BridgeAgrees, BridgeStatus, Coherent, SupportedStatus, Capacities, Strengthened
  <1> QED
    BY <1>1, <1>2, <1>3, Ranges, Zenon

(* A simulation step leaves each bridge in agreement, whatever its source   *)
(* makes of its target.                                                     *)
LEMMA UpdateAgrees ==
    ASSUME NEW e \in Bridges, BridgeAgrees(capacity[e], status[e])
    PROVE  BridgeAgrees(NextCapacity(e), NextStatus(e))
  <1>1. capacity[e] \in Capacities
    BY DEF BridgeAgrees
  <1>2. CASE Destructive(e)
    <2>1. NextCapacity(e) = 0 /\ NextStatus(e) = "ISOLATED"
      BY <1>2 DEF NextCapacity, NextStatus, Category, Creative, CapacityAfter, StatusAfter
    <2>2. BridgeAgrees(0, "ISOLATED")
      BY <1>1, WritesAgree, Zenon
    <2> QED
      BY <2>1, <2>2, Zenon
  <1>3. CASE ~Destructive(e) /\ Creative(e)
    <2>1. NextCapacity(e) = Supported(capacity[e])
      BY <1>3 DEF NextCapacity, Category, CapacityAfter
    <2>2. NextStatus(e) = SupportedStatus(capacity[e], Supported(capacity[e]))
      BY <1>3, <2>1 DEF NextStatus, Category, StatusAfter
    <2> QED
      BY <1>1, <2>1, <2>2, WritesAgree, Zenon
  <1>4. CASE ~Destructive(e) /\ ~Creative(e)
    <2>1. NextCapacity(e) = Constrained(capacity[e]) /\ NextStatus(e) = "DAMPING"
      BY <1>4 DEF NextCapacity, NextStatus, Category, CapacityAfter, StatusAfter
    <2> QED
      BY <1>1, <2>1, WritesAgree, Zenon
  <1> QED
    BY <1>2, <1>3, <1>4

(* No action disturbs the agreement.                                        *)
LEMMA AgreementKept ==
    BridgesAgree /\ [Next]_vars => BridgesAgree'
  <1> SUFFICES ASSUME BridgesAgree, [Next]_vars
               PROVE  BridgesAgree'
    OBVIOUS
  <1>1. CASE SimulationStep
    <2>1. /\ capacity' = [e \in Bridges |-> NextCapacity(e)]
          /\ status' = [e \in Bridges |-> NextStatus(e)]
      BY <1>1 DEF SimulationStep
    <2>2. \A e \in Bridges : BridgeAgrees(NextCapacity(e), NextStatus(e))
      BY UpdateAgrees DEF BridgesAgree
    <2> QED
      BY <2>1, <2>2 DEF BridgesAgree, Bridges
  <1>2. ASSUME NEW n \in Node, NEW m \in Magnitude, InjectExternalShock(n, m)
        PROVE  BridgesAgree'
    BY <1>2 DEF InjectExternalShock, BridgesAgree, Bridges
  <1>3. ASSUME NEW e \in Bridges, Constrain(e)
        PROVE  BridgesAgree'
    <2>0. capacity[e] \in Capacities
      BY DEF BridgesAgree, BridgeAgrees
    <2>1. BridgeAgrees(Constrained(capacity[e]), "DAMPING")
      BY <2>0, WritesAgree, Zenon
    <2>2. capacity' = [capacity EXCEPT ![e] = Constrained(capacity[e])]
          /\ status' = [status EXCEPT ![e] = "DAMPING"]
      BY <1>3 DEF Constrain
    <2> QED
      BY <2>1, <2>2 DEF BridgesAgree, Bridges
  <1>4. ASSUME NEW e \in Bridges, Support(e)
        PROVE  BridgesAgree'
    <2>0. capacity[e] \in Capacities
      BY DEF BridgesAgree, BridgeAgrees
    <2>1. BridgeAgrees(Supported(capacity[e]), SupportedStatus(capacity[e], Supported(capacity[e])))
      BY <2>0, WritesAgree, Zenon
    <2>2. capacity' = [capacity EXCEPT ![e] = Supported(capacity[e])]
          /\ status' = [status EXCEPT
                 ![e] = SupportedStatus(capacity[e], Supported(capacity[e]))]
      BY <1>4 DEF Support
    <2> QED
      BY <2>1, <2>2 DEF BridgesAgree, Bridges
  <1>5. ASSUME NEW threshold \in Threshold, PruneIsolatedBridges(threshold)
        PROVE  BridgesAgree'
    <2>1. Kept(threshold) \subseteq Bridges
      BY DEF Kept
    <2>2. /\ capacity' = [e \in Kept(threshold) |-> capacity[e]]
          /\ status' = [e \in Kept(threshold) |-> status[e]]
      BY <1>5 DEF PruneIsolatedBridges
    <2> QED
      BY <2>1, <2>2 DEF BridgesAgree, Bridges
  <1>6. ASSUME NEW a \in Edge, ConnectNodes(a)
        PROVE  BridgesAgree'
    <2>1. BridgeAgrees(1000, "NORMAL")
      BY WritesAgree
    <2>2. /\ capacity' = [e \in Bridges \cup {a, Reverse(a)} |->
                            IF e \in Bridges THEN capacity[e] ELSE 1000]
          /\ status' = [e \in Bridges \cup {a, Reverse(a)} |->
                          IF e \in Bridges THEN status[e] ELSE "NORMAL"]
      BY <1>6 DEF ConnectNodes
    <2> QED
      BY <2>1, <2>2 DEF BridgesAgree, Bridges
  <1>7. CASE UNCHANGED vars
    BY <1>7 DEF vars, BridgesAgree, Bridges
  <1> QED
    BY <1>1, <1>2, <1>3, <1>4, <1>5, <1>6, <1>7 DEF Next

(* The step and the commit, each with its own formulas, keep the status and *)
(* the capacity of every bridge in agreement.                               *)
THEOREM StatusAgrees == Spec => []StatusTellsCapacity
  <1>1. Init => BridgesAgree
    BY WritesAgree DEF Init, BridgesAgree, Bridges
  <1>2. BridgesAgree => StatusTellsCapacity
    BY DEF BridgesAgree, BridgeAgrees, StatusTellsCapacity
  <1> QED
    BY <1>1, <1>2, AgreementKept, PTL DEF Spec

-----------------------------------------------------------------------------
(* A node at its baseline is in full health.                                *)
LEMMA HealthyAtBaseline ==
    ASSUME DynamicsAssumption, NEW n \in Node
    PROVE  Health(n, Baseline[n]) = 1000
  <1>1. Baseline[n] \in Int /\ MaxEpsilon \in Nat /\ MaxEpsilon > 0
    BY DEF DynamicsAssumption
  <1>2. Drift(n, Baseline[n]) = 0
    BY <1>1 DEF Drift
  <1>3. 0 \div MaxEpsilon = 0
    BY <1>1
  <1> QED
    BY <1>1, <1>2, <1>3 DEF Health, WithinSafetyBound

(* A mesh starts with its nodes at their baselines.                         *)
LEMMA HealthInit ==
    Init /\ DynamicsAssumption => HealthTellsState
  BY HealthyAtBaseline DEF Init, HealthTellsState

(* Whoever writes a state writes the health it makes.                       *)
LEMMA HealthKept ==
    ASSUME HealthTellsState, DOMAIN state = Node, [Next]_vars
    PROVE  HealthTellsState' /\ DOMAIN state' = Node
  <1>1. CASE SimulationStep
    <2>1. state' = [n \in Node |-> Diffused(n)]
          /\ healthIndex' = [n \in Node |-> Health(n, state'[n])]
      BY <1>1 DEF SimulationStep
    <2> QED
      BY <2>1 DEF HealthTellsState, Health, WithinSafetyBound, Drift
  <1>2. ASSUME NEW n \in Node, NEW m \in Magnitude, InjectExternalShock(n, m)
        PROVE  HealthTellsState' /\ DOMAIN state' = Node
    <2> DEFINE filtered == Reflex(state[n], state[n] + m)
    <2>1. state' = [state EXCEPT ![n] = filtered]
          /\ healthIndex' = [healthIndex EXCEPT ![n] = Health(n, filtered)]
      BY <1>2 DEF InjectExternalShock, HealthAfterShock
    <2>2. HealthTellsState' <=> healthIndex' = [k \in Node |-> Health(k, state'[k])]
      BY DEF HealthTellsState, Health, WithinSafetyBound, Drift
    <2> HIDE DEF filtered
    <2> QED
      BY <2>1, <2>2 DEF HealthTellsState
  <1>3. CASE state' = state /\ healthIndex' = healthIndex
    BY <1>3 DEF HealthTellsState, Health, WithinSafetyBound, Drift
  <1>4. \A e \in Bridges : Constrain(e) \/ Support(e)
            => state' = state /\ healthIndex' = healthIndex
    BY DEF Constrain, Support, nodeVars
  <1>5. \A threshold \in Threshold : PruneIsolatedBridges(threshold)
            => state' = state /\ healthIndex' = healthIndex
    BY DEF PruneIsolatedBridges, nodeVars
  <1>6. \A a \in Edge : ConnectNodes(a) => state' = state /\ healthIndex' = healthIndex
    BY DEF ConnectNodes, nodeVars
  <1>7. UNCHANGED vars => state' = state /\ healthIndex' = healthIndex
    BY DEF vars, nodeVars
  <1> QED
    BY <1>1, <1>2, <1>3, <1>4, <1>5, <1>6, <1>7 DEF Next

(* Shocks and steps leave the health of every node in agreement with its    *)
(* state.                                                                   *)
THEOREM HealthAgrees == Spec => []HealthTellsState
  <1> DEFINE I == HealthTellsState /\ DOMAIN state = Node
  <1>1. Init => I
    <2>1. Init => DOMAIN state = Node
      BY DynamicsAssumption DEF Init, DynamicsAssumption
    <2> QED
      BY <2>1, HealthInit, DynamicsAssumption
  <1>2. I /\ [Next]_vars => I'
    BY HealthKept
  <1> QED
    BY <1>1, <1>2, PTL DEF Spec

-----------------------------------------------------------------------------
LEMMA Induction ==
    ASSUME NEW S, 0 \in S, \A n \in Nat : n \in S => n + 1 \in S
    PROVE  Nat \subseteq S
  <1> SUFFICES ASSUME Nat \ S # {} PROVE FALSE
    OBVIOUS
  <1> DEFINE R == OpToRel(<, Nat)
  <1>1. \E x \in Nat \ S : \A y \in Nat \ S : <<y, x>> \notin R
    <2>1. IsWellFoundedOn(R, Nat)
      BY NatLessThanWellFounded
    <2> HIDE DEF R
    <2> QED BY <2>1, WFMin
  <1>2. PICK x \in Nat \ S : \A y \in Nat \ S : ~(y < x)
    BY <1>1 DEF OpToRel
  <1>3. x # 0 /\ x - 1 \in Nat
    OBVIOUS
  <1>4. x - 1 \in S
    BY <1>2, <1>3
  <1> QED BY <1>3, <1>4

Outgoing(n) == {e \in Bridges : e[1] = n}

(* What a bridge adds to the sum of a node in state s. *)
Pull(s, e) == Coupling(e) * (state[e[2]] - s)

Some(T) == CHOOSE e \in T : TRUE

Added(s, f, T) ==
    IF T = {} THEN 0 ELSE Pull(s, Some(T)) + f[T \ {Some(T)}]

(* The function the sum is defined with. *)
Sums(s, S) == CHOOSE f : f = [T \in SUBSET S |-> Added(s, f, T)]

LEMMA DiffusionIsSum ==
    ASSUME NEW n
    PROVE  Diffused(n) = state[n] + Quotient(Alpha * Sums(state[n], Outgoing(n))[Outgoing(n)], 100000)
  BY DEF Diffused, Sums, Added, Pull, Some, Outgoing, MapThenSumSet, MapThenFoldSet

Small(S, k) == {T \in SUBSET S : Cardinality(T) <= k}

LEMMA SumsDefined ==
    ASSUME NEW s, NEW S, IsFiniteSet(S)
    PROVE  \A T \in SUBSET S : Sums(s, S)[T] = Added(s, Sums(s, S), T)
  <1>0. \A T \in SUBSET S : IsFiniteSet(T) /\ Cardinality(T) \in Nat /\ Cardinality(T) <= Cardinality(S)
    BY FS_Subset, FS_CardinalityType
  <1> DEFINE Good == {k \in Nat : \E f : f = [T \in Small(S, k) |-> Added(s, f, T)]}
  <1>1. 0 \in Good
    <2> DEFINE g == [T \in Small(S, 0) |-> 0]
    <2>1. \A T \in Small(S, 0) : T = {}
      BY <1>0, FS_EmptySet DEF Small
    <2>2. g = [T \in Small(S, 0) |-> Added(s, g, T)]
      BY <2>1 DEF Added
    <2> QED BY <2>2
  <1>2. ASSUME NEW k \in Nat, k \in Good PROVE k + 1 \in Good
    <2>1. PICK f : f = [T \in Small(S, k) |-> Added(s, f, T)]
      BY <1>2
    <2>2. \A T \in Small(S, k) : f[T] = Added(s, f, T)
      BY <2>1
    <2> DEFINE g == [T \in Small(S, k + 1) |-> Added(s, f, T)]
    <2>3. \A T \in Small(S, k) : g[T] = f[T]
      <3>1. \A T \in Small(S, k) : T \in Small(S, k + 1)
        BY <1>0 DEF Small
      <3> QED BY <2>2, <3>1
    <2>4. \A T \in Small(S, k + 1) : T # {} => T \ {Some(T)} \in Small(S, k)
      <3> SUFFICES ASSUME NEW T \in Small(S, k + 1), T # {}
                   PROVE  T \ {Some(T)} \in Small(S, k)
        OBVIOUS
      <3>1. Some(T) \in T
        BY DEF Some
      <3>2. T \in SUBSET S /\ Cardinality(T) <= k + 1
        BY DEF Small
      <3>3. Cardinality(T \ {Some(T)}) = Cardinality(T) - 1
        BY <1>0, <3>1, <3>2, FS_RemoveElement
      <3> QED BY <1>0, <3>2, <3>3 DEF Small
    <2>5. \A T \in Small(S, k + 1) : Added(s, g, T) = Added(s, f, T)
      <3> HIDE DEF g
      <3> QED BY <2>3, <2>4 DEF Added
    <2>6. g = [T \in Small(S, k + 1) |-> Added(s, g, T)]
      BY <2>5
    <2>7. \E h : h = [T \in Small(S, k + 1) |-> Added(s, h, T)]
      <3> HIDE DEF g
      <3> QED BY <2>6
    <2> QED BY <2>7
  <1>3. Cardinality(S) \in Good
    <2>1. Nat \subseteq Good
      <3> HIDE DEF Good
      <3> QED BY <1>1, <1>2, Induction
    <2>2. Cardinality(S) \in Nat
      BY <1>0
    <2> HIDE DEF Good
    <2> QED BY <2>1, <2>2
  <1>4. Small(S, Cardinality(S)) = SUBSET S
    BY <1>0 DEF Small
  <1>5. \E f : f = [T \in SUBSET S |-> Added(s, f, T)]
    BY <1>3, <1>4
  <1> DEFINE sums == Sums(s, S)
  <1>6. sums = [T \in SUBSET S |-> Added(s, sums, T)]
    BY <1>5 DEF Sums
  <1> HIDE DEF sums
  <1>7. \A T \in SUBSET S : sums[T] = Added(s, sums, T)
    BY <1>6
  <1> QED BY <1>7 DEF sums

(* Bounds of every summand bound the sum. *)
LEMMA SumBounds ==
    ASSUME NEW s, NEW S, IsFiniteSet(S), NEW a \in Int, NEW b \in Int,
           \A e \in S : Pull(s, e) \in Int /\ a <= Pull(s, e) /\ Pull(s, e) <= b
    PROVE  /\ Sums(s, S)[S] \in Int
           /\ Cardinality(S) * a <= Sums(s, S)[S]
           /\ Sums(s, S)[S] <= Cardinality(S) * b
  <1> DEFINE f == Sums(s, S)
             Fits(T) == /\ f[T] \in Int
                        /\ Cardinality(T) * a <= f[T]
                        /\ f[T] <= Cardinality(T) * b
             Good == {k \in Nat : \A T \in SUBSET S : Cardinality(T) = k => Fits(T)}
  <1>0. \A T \in SUBSET S : IsFiniteSet(T) /\ Cardinality(T) \in Nat
    BY FS_Subset, FS_CardinalityType
  <1>1. \A T \in SUBSET S : f[T] = Added(s, f, T)
    BY SumsDefined
  <1> HIDE DEF f
  <1>2. 0 \in Good
    <2> SUFFICES ASSUME NEW T \in SUBSET S, Cardinality(T) = 0 PROVE Fits(T)
      OBVIOUS
    <2>1. T = {}
      BY <1>0, FS_EmptySet
    <2>2. f[T] = 0
      BY <1>1, <2>1 DEF Added
    <2>3. 0 * a = 0 /\ 0 * b = 0
      OBVIOUS
    <2> QED BY <2>2, <2>3
  <1>3. ASSUME NEW k \in Nat, k \in Good PROVE k + 1 \in Good
    <2> SUFFICES ASSUME NEW T \in SUBSET S, Cardinality(T) = k + 1 PROVE Fits(T)
      OBVIOUS
    <2> DEFINE e == Some(T)
               U == T \ {e}
    <2>1. T # {}
      BY <1>0, FS_EmptySet
    <2>2. e \in T
      BY <2>1 DEF Some
    <2>3. U \in SUBSET S /\ Cardinality(U) = k
      <3>1. Cardinality(U) = Cardinality(T) - 1
        BY <1>0, <2>2, FS_RemoveElement
      <3> QED BY <3>1
    <2>4. f[T] = Pull(s, e) + f[U]
      BY <1>1, <2>1 DEF Added
    <2>5. Fits(U)
      BY <1>3, <2>3
    <2>6. Pull(s, e) \in Int /\ a <= Pull(s, e) /\ Pull(s, e) <= b
      BY <2>2
    <2>7. (k + 1) * a = k * a + a /\ (k + 1) * b = k * b + b
      OBVIOUS
    <2>8. k * a \in Int /\ k * b \in Int
      OBVIOUS
    <2>9. k * a <= f[U] /\ f[U] <= k * b /\ f[U] \in Int
      BY <2>3, <2>5
    <2>10. k * a + a <= f[T] /\ f[T] <= k * b + b /\ f[T] \in Int
      <3> HIDE DEF e, U
      <3> QED BY <2>4, <2>6, <2>8, <2>9
    <2> QED BY <2>7, <2>10
  <1>4. Cardinality(S) \in Good
    <2>1. Nat \subseteq Good
      <3> HIDE DEF Good
      <3> QED BY <1>2, <1>3, Induction
    <2> HIDE DEF Good
    <2> QED BY <1>0, <2>1
  <1> QED BY <1>4 DEF f

-----------------------------------------------------------------------------
(* The arithmetic of one step. *)

LEMMA QuotientBounds ==
    ASSUME NEW q \in Int, NEW a \in Int, NEW b \in Int,
           a <= 0, 0 <= b, 100000 * a <= q, q <= 100000 * b
    PROVE  Quotient(q, 100000) \in Int /\ a <= Quotient(q, 100000) /\ Quotient(q, 100000) <= b
  BY DEF Quotient

(* A factor between 0 and m moves no further than m times. *)
LEMMA ScaledBounds ==
    ASSUME NEW m \in Nat, NEW c \in 0 .. m, NEW x \in Int, NEW a \in Int, NEW b \in Int,
           a <= 0, 0 <= b, a <= x, x <= b
    PROVE  c * x \in Int /\ m * a <= c * x /\ c * x <= m * b
  <1>1. c * a <= c * x /\ c * x <= c * b
    <2>1. c * (x - a) >= 0 /\ c * (b - x) >= 0
      OBVIOUS
    <2>2. c * (x - a) = c * x - c * a /\ c * (b - x) = c * b - c * x
      OBVIOUS
    <2> QED BY <2>1, <2>2
  <1>2. m * a <= c * a /\ c * b <= m * b
    <2>1. (m - c) * a <= 0 /\ (m - c) * b >= 0
      OBVIOUS
    <2>2. (m - c) * a = m * a - c * a /\ (m - c) * b = m * b - c * b
      OBVIOUS
    <2> QED BY <2>1, <2>2
  <1>3. c * x \in Int /\ c * a \in Int /\ c * b \in Int /\ m * a \in Int /\ m * b \in Int
    OBVIOUS
  <1> QED BY <1>1, <1>2, <1>3

LEMMA CouplingRange ==
    \A c \in Capacities, w \in Weights : (c * w) \div 100 \in Capacities
  <1> SUFFICES ASSUME NEW c \in Capacities, NEW w \in Weights
               PROVE  (c * w) \div 100 \in Capacities
    OBVIOUS
  <1>0. c \in 0 .. 1000 /\ w \in Int /\ 0 <= w /\ w <= 100
    BY DEF Capacities, Weights
  <1> DEFINE p == c * w
  <1>1. p \in Int /\ 1000 * 0 <= p /\ p <= 1000 * 100
    BY <1>0, ScaledBounds
  <1> HIDE DEF p
  <1>2. p \div 100 \in Capacities
    BY <1>1 DEF Capacities
  <1> QED BY <1>2 DEF p

LEMMA CoupledBounds ==
    \A c \in Capacities, x, a, b \in Int :
        a <= 0 /\ 0 <= b /\ a <= x /\ x <= b
            => c * x \in Int /\ 1000 * a <= c * x /\ c * x <= 1000 * b
  BY ScaledBounds DEF Capacities

(* The two extremes of a finite set of integers. *)
LEMMA Extremes ==
    ASSUME NEW S \in SUBSET Int, IsFiniteSet(S), S # {}
    PROVE  \E low, high \in S : \A x \in S : low <= x /\ x <= high
  <1> DEFINE Good == {k \in Nat : \A T \in SUBSET S : T # {} /\ Cardinality(T) = k =>
                         \E low, high \in T : \A x \in T : low <= x /\ x <= high}
  <1>0. \A T \in SUBSET S : IsFiniteSet(T) /\ Cardinality(T) \in Nat
    BY FS_Subset, FS_CardinalityType
  <1>1. 0 \in Good
    BY <1>0, FS_EmptySet
  <1>2. ASSUME NEW k \in Nat, k \in Good PROVE k + 1 \in Good
    <2> SUFFICES ASSUME NEW T \in SUBSET S, T # {}, Cardinality(T) = k + 1
                 PROVE  \E low, high \in T : \A x \in T : low <= x /\ x <= high
      OBVIOUS
    <2>1. PICK y \in T : TRUE
      OBVIOUS
    <2> DEFINE U == T \ {y}
    <2>2. U \in SUBSET S /\ Cardinality(U) = k
      <3>1. Cardinality(U) = Cardinality(T) - 1
        BY <1>0, FS_RemoveElement
      <3> QED BY <3>1
    <2>3. CASE U = {}
      <3>1. \A x \in T : x = y
        BY <2>3
      <3>2. y \in Int
        OBVIOUS
      <3>3. \A x \in T : y <= x /\ x <= y
        BY <3>1, <3>2
      <3> QED BY <3>3
    <2>4. CASE U # {}
      <3>1. PICK low, high \in U : \A x \in U : low <= x /\ x <= high
        BY <1>2, <2>2, <2>4
      <3>2. \A x \in T : x \in Int /\ (x = y \/ x \in U)
        OBVIOUS
      <3>3. low \in T /\ high \in T
        OBVIOUS
      <3> HIDE DEF U
      <3>4. CASE y < low
        <4>1. \A x \in T : y <= x /\ x <= high
          BY <3>1, <3>2, <3>3, <3>4
        <4> QED BY <4>1, <3>3
      <3>5. CASE high < y
        <4>1. \A x \in T : low <= x /\ x <= y
          BY <3>1, <3>2, <3>3, <3>5
        <4> QED BY <4>1, <3>3
      <3>6. CASE ~(y < low) /\ ~(high < y)
        <4>1. \A x \in T : low <= x /\ x <= high
          BY <3>1, <3>2, <3>3, <3>6
        <4> QED BY <4>1, <3>3
      <3> QED BY <3>4, <3>5, <3>6
    <2> QED BY <2>3, <2>4
  <1>3. Cardinality(S) \in Good
    <2>1. Nat \subseteq Good
      <3> HIDE DEF Good
      <3> QED BY <1>1, <1>2, Induction
    <2> HIDE DEF Good
    <2> QED BY <1>0, <2>1
  <1> QED BY <1>3

-----------------------------------------------------------------------------
(* What a step finds: the inductive invariant. *)
Typed ==
    /\ state \in [Node -> Int]
    /\ Bridges \subseteq Edge
    /\ BridgesAgree

LEMMA EdgeFacts ==
    /\ IsFiniteSet(Node) /\ IsFiniteSet(Edge)
    /\ \A e \in Edge : e = <<e[1], e[2]>> /\ e[1] \in Node /\ e[2] \in Node
  <1>1. IsFiniteSet(Node) /\ Edge \subseteq Node \X Node
    BY DynamicsAssumption DEF DynamicsAssumption
  <1>2. IsFiniteSet(Node \X Node)
    BY <1>1, FS_Product
  <1>3. IsFiniteSet(Edge)
    BY <1>1, <1>2, FS_Subset
  <1> QED BY <1>1, <1>3

LEMMA NextCouplingRange ==
    ASSUME Typed, NEW e \in Bridges
    PROVE  /\ Coupling(e) \in Capacities
           /\ Destructive(e) => Coupling(e) = 0
  <1>1. Weight[e] \in 0 .. 100
    BY DynamicsAssumption DEF DynamicsAssumption, Typed
  <1>2. NextCapacity(e) \in Capacities
    BY UpdateAgrees DEF Typed, BridgesAgree, BridgeAgrees
  <1>3. Coupling(e) \in Capacities
    <2>1. Weight[e] \in Weights
      BY <1>1 DEF Weights
    <2> QED BY <1>2, <2>1, CouplingRange, Zenon DEF Coupling
  <1>4. Destructive(e) => NextCapacity(e) = 0
    <2>1. Destructive(e) => Category(e) = "DESTRUCTIVE_DRIFT"
      BY DEF Category, Creative
    <2>2. CapacityAfter("DESTRUCTIVE_DRIFT", capacity[e]) = 0
      BY DEF CapacityAfter
    <2> QED BY <2>1, <2>2, Zenon DEF NextCapacity
  <1>5. ASSUME Destructive(e) PROVE Coupling(e) = 0
    <2>1. NextCapacity(e) = 0
      BY <1>4, <1>5
    <2>2. 0 * Weight[e] = 0 /\ 0 \div 100 = 0
      BY <1>1
    <2> QED BY <2>1, <2>2 DEF Coupling
  <1> QED BY <1>3, <1>5

LEMMA DegreeFacts ==
    ASSUME Typed, NEW n \in Node
    PROVE  /\ IsFiniteSet(Outgoing(n))
           /\ Degree(n) = Cardinality(Outgoing(n))
           /\ Degree(n) \in Nat
  <1>1. Outgoing(n) \in SUBSET Edge
    BY DEF Outgoing, Typed
  <1>2. IsFiniteSet(Outgoing(n))
    BY <1>1, EdgeFacts, FS_Subset
  <1>3. Degree(n) = Cardinality(Outgoing(n))
    BY DEF Degree, Outgoing
  <1> QED BY <1>2, <1>3, FS_CardinalityType

(* Min of two numbers. *)
LEMMA MinOfTwo ==
    ASSUME NEW a \in Int, NEW b \in Int
    PROVE  Min({a, b}) \in {a, b} /\ Min({a, b}) <= a /\ Min({a, b}) <= b
  <1>1. \E x \in {a, b} : \A y \in {a, b} : x =< y
    OBVIOUS
  <1> DEFINE m == CHOOSE x \in {a, b} : \A y \in {a, b} : x =< y
  <1>2. m \in {a, b} /\ \A y \in {a, b} : m =< y
    <2> QED BY <1>1
  <1>3. Min({a, b}) = m
    BY DEF Min
  <1> HIDE DEF m
  <1> QED BY <1>2, <1>3

(* The Courant condition: alpha times the number of bridges of any node. *)
LEMMA AlphaBound ==
    ASSUME Typed, NEW n \in Node
    PROVE  Alpha \in Nat /\ (Degree(n) = 0 \/ Alpha * Degree(n) <= 80)
  <1> DEFINE D == {Degree(k) : k \in Node}
  <1>1. D \in SUBSET Int /\ Degree(n) \in D
    BY DegreeFacts
  <1>2. IsFiniteSet(D)
    <2> DEFINE f == [k \in Node |-> Degree(k)]
    <2>1. f \in Surjection(Node, D)
      BY DEF Surjection
    <2> HIDE DEF f, D
    <2> QED BY <2>1, EdgeFacts, FS_Surjection
  <1>3. \E low, high \in D : \A x \in D : low <= x /\ x <= high
    <2> HIDE DEF D
    <2> QED BY <1>1, <1>2, Extremes
  <1>4. \A x \in D : x \in Nat
    BY DegreeFacts
  <1> HIDE DEF D
  <1>5. Max(D) \in D /\ \A y \in D : Max(D) >= y
    <2>1. PICK m \in D : \A x \in D : x <= m
      BY <1>3
    <2>2. \A x \in D : m >= x
      BY <1>4, <2>1
    <2> QED BY <2>2 DEF Max
  <1> DEFINE m == Max(D)
  <1>6. m \in Nat /\ Degree(n) \in Nat /\ Degree(n) <= m
    BY <1>1, <1>4, <1>5
  <1>7. Alpha = IF m = 0 THEN 15 ELSE Min({20, 80 \div m})
    BY DEF Alpha, D
  <1> HIDE DEF m
  <1>8. CASE m = 0
    BY <1>6, <1>7, <1>8
  <1>9. CASE m # 0
    <2> DEFINE q == 80 \div m
    <2>1. q \in Nat /\ q * m <= 80
      BY <1>6, <1>9
    <2>2. Alpha = Min({20, q})
      BY <1>7, <1>9
    <2> HIDE DEF q
    <2>3. Alpha \in {20, q} /\ Alpha <= q
      <3>1. 20 \in Int /\ q \in Int
        BY <2>1
      <3>2. Min({20, q}) \in {20, q} /\ Min({20, q}) <= q
        BY <3>1, MinOfTwo, Zenon
      <3> QED BY <3>2, <2>2, Zenon
    <2>4. Alpha \in Nat /\ Alpha <= q
      BY <2>1, <2>3
    <2> DEFINE d == Degree(n)
               a == Alpha
    <2>5. d \in Nat /\ d <= m /\ a \in Nat /\ a <= q
      BY <1>6, <2>4
    <2> HIDE DEF d, a
    <2>6. a * d <= q * m
      <3>1. a * (m - d) >= 0 /\ (q - a) * m >= 0
        BY <1>6, <2>1, <2>5
      <3>2. a * (m - d) = a * m - a * d /\ (q - a) * m = q * m - a * m
        BY <1>6, <2>1, <2>5
      <3>3. a * m \in Int /\ a * d \in Int /\ q * m \in Int
        BY <1>6, <2>1, <2>5
      <3> QED BY <3>1, <3>2, <3>3
    <2>7. a * d \in Int /\ q * m \in Int
      BY <1>6, <2>1, <2>5
    <2> QED BY <2>1, <2>4, <2>6, <2>7 DEF a, d
  <1> QED BY <1>8, <1>9

LEMMA Thousandfold ==
    /\ \A p, x, a \in Int : 100 * a <= p /\ 1000 * p <= x => 100000 * a <= x
    /\ \A p, x, b \in Int : p <= 100 * b /\ x <= 1000 * p => x <= 100000 * b
  OBVIOUS

Bounded(al, d, sum, a, b) ==
    /\ d = 0 \/ al * d <= 80
    /\ d * (1000 * a) <= sum /\ sum <= d * (1000 * b)

LEMMA SumScaled ==
    ASSUME NEW al \in Nat, NEW d \in Nat, NEW sum \in Int,
           NEW a \in Int, NEW b \in Int, a <= 0, 0 <= b, Bounded(al, d, sum, a, b)
    PROVE  al * sum \in Int /\ 100000 * a <= al * sum /\ al * sum <= 100000 * b
  <1> DEFINE p == al * d
  <1>1. p \in 0 .. 100
    <2>1. p \in Nat
      OBVIOUS
    <2>2. d = 0 => p = 0
      OBVIOUS
    <2>3. d = 0 \/ p <= 80
      BY DEF Bounded
    <2> HIDE DEF p
    <2> QED BY <2>1, <2>2, <2>3
  <1>2. /\ al * (d * (1000 * a)) = 1000 * (p * a)
        /\ al * (d * (1000 * b)) = 1000 * (p * b)
    OBVIOUS
  <1>3. /\ al * (d * (1000 * a)) <= al * sum
        /\ al * sum <= al * (d * (1000 * b))
    <2> DEFINE x == d * (1000 * a)
               y == d * (1000 * b)
    <2>1. x \in Int /\ y \in Int /\ x <= sum /\ sum <= y
      BY DEF Bounded
    <2> HIDE DEF x, y
    <2>2. al * (sum - x) >= 0 /\ al * (y - sum) >= 0
      BY <2>1
    <2>3. al * (sum - x) = al * sum - al * x /\ al * (y - sum) = al * y - al * sum
      BY <2>1
    <2>4. al * sum \in Int /\ al * x \in Int /\ al * y \in Int
      BY <2>1
    <2>5. al * x <= al * sum /\ al * sum <= al * y
      BY <2>2, <2>3, <2>4
    <2> QED BY <2>5 DEF x, y
  <1> HIDE DEF p
  <1>4. p * a \in Int /\ 100 * a <= p * a
    BY <1>1, ScaledBounds
  <1>5. p * b \in Int /\ p * b <= 100 * b
    BY <1>1, ScaledBounds
  <1>6. al * sum \in Int
    OBVIOUS
  <1> DEFINE pa == p * a
             pb == p * b
             x == al * sum
  <1>7. /\ pa \in Int /\ pb \in Int /\ x \in Int
        /\ 100 * a <= pa /\ pb <= 100 * b /\ 1000 * pa <= x /\ x <= 1000 * pb
    BY <1>2, <1>3, <1>4, <1>5, <1>6
  <1> HIDE DEF pa, pb, x
  <1>8. x \in Int /\ 100000 * a <= x /\ x <= 100000 * b
    <2>1. 100000 * a <= x
      BY <1>7, Thousandfold
    <2>2. x <= 100000 * b
      BY <1>7, Thousandfold
    <2> QED BY <1>7, <2>1, <2>2
  <1> QED BY <1>8 DEF x

LEMMA DiffusedInHull ==
    ASSUME Typed, NEW n \in Node
    PROVE  /\ Diffused(n) \in Int
           /\ \E low, high \in Pullers(n) :
                  state[low] <= Diffused(n) /\ Diffused(n) <= state[high]
  <1> DEFINE V == {state[m] : m \in Pullers(n)}
  <1>1. Pullers(n) \in SUBSET Node /\ n \in Pullers(n)
    BY DEF Pullers
  <1>2. \A m \in Node : state[m] \in Int
    BY DEF Typed
  <1>3. V \in SUBSET Int /\ IsFiniteSet(V) /\ V # {}
    <2> DEFINE f == [m \in Pullers(n) |-> state[m]]
    <2>1. f \in Surjection(Pullers(n), V)
      BY DEF Surjection
    <2>2. IsFiniteSet(Pullers(n))
      BY <1>1, EdgeFacts, FS_Subset
    <2>3. V \in SUBSET Int /\ V # {}
      BY <1>1, <1>2
    <2> HIDE DEF f, V
    <2> QED BY <2>1, <2>2, <2>3, FS_Surjection
  <1>4. \E lo, hi \in V : \A x \in V : lo <= x /\ x <= hi
    <2> HIDE DEF V
    <2> QED BY <1>3, Extremes
  <1>5. PICK low \in Pullers(n), high \in Pullers(n) :
            \A m \in Pullers(n) : state[low] <= state[m] /\ state[m] <= state[high]
    <2>1. PICK lo \in V, hi \in V : \A x \in V : lo <= x /\ x <= hi
      BY <1>4
    <2>2. PICK low \in Pullers(n) : lo = state[low]
      OBVIOUS
    <2>3. PICK high \in Pullers(n) : hi = state[high]
      OBVIOUS
    <2>4. \A m \in Pullers(n) : state[m] \in V
      OBVIOUS
    <2> HIDE DEF V
    <2> QED BY <2>1, <2>2, <2>3, <2>4
  <1> HIDE DEF V
  <1> DEFINE s == state[n]
             a == state[low] - s
             b == state[high] - s
             S == Outgoing(n)
             sum == Sums(s, S)[S]
  <1>6. /\ s \in Int /\ state[low] \in Int /\ state[high] \in Int
        /\ a \in Int /\ b \in Int /\ a <= 0 /\ 0 <= b
    BY <1>1, <1>2, <1>5
  <1>7. ASSUME NEW e \in S
        PROVE  Pull(s, e) \in Int /\ 1000 * a <= Pull(s, e) /\ Pull(s, e) <= 1000 * b
    <2>1. e \in Bridges /\ e = <<n, e[2]>> /\ e[2] \in Node
      BY EdgeFacts DEF Outgoing, Typed
    <2>2. Coupling(e) \in Capacities /\ (Destructive(e) => Coupling(e) = 0)
      BY <2>1, NextCouplingRange
    <2> DEFINE x == state[e[2]] - s
    <2>3. x \in Int
      BY <1>2, <1>6, <2>1
    <2>4. Pull(s, e) = Coupling(e) * x
      BY DEF Pull
    <2>5. CASE Destructive(e)
      <3>1. Pull(s, e) = 0 * x
        BY <2>2, <2>4, <2>5
      <3> HIDE DEF x, a, b
      <3> QED BY <3>1, <2>3, <1>6
    <2>6. CASE ~Destructive(e)
      <3>1. e[2] \in Pullers(n)
        BY <2>1, <2>6 DEF Pullers
      <3>2. a <= x /\ x <= b
        BY <1>2, <1>5, <1>6, <2>1, <3>1
      <3> HIDE DEF x, a, b, s
      <3>3. Coupling(e) * x \in Int /\ 1000 * a <= Coupling(e) * x /\ Coupling(e) * x <= 1000 * b
        BY <1>6, <2>2, <2>3, <3>2, CoupledBounds
      <3> QED BY <2>4, <3>3
    <2> QED BY <2>5, <2>6
  <1>8. IsFiniteSet(S) /\ Degree(n) = Cardinality(S) /\ Degree(n) \in Nat
    BY DegreeFacts
  <1> HIDE DEF a, b, s, S
  <1>9. /\ sum \in Int
        /\ Degree(n) * (1000 * a) <= sum
        /\ sum <= Degree(n) * (1000 * b)
    <2>1. 1000 * a \in Int /\ 1000 * b \in Int
      BY <1>6
    <2> QED BY <1>7, <1>8, <2>1, SumBounds
  <1> HIDE DEF sum
  <1>10. /\ Alpha * sum \in Int
         /\ 100000 * a <= Alpha * sum /\ Alpha * sum <= 100000 * b
    BY <1>6, <1>8, <1>9, AlphaBound, SumScaled DEF Bounded
  <1> DEFINE z == Alpha * sum
             q == Quotient(z, 100000)
  <1>11. q \in Int /\ a <= q /\ q <= b
    <2>1. z \in Int /\ 100000 * a <= z /\ z <= 100000 * b
      BY <1>10
    <2>2. a \in Int /\ b \in Int /\ a <= 0 /\ 0 <= b
      BY <1>6
    <2> HIDE DEF z
    <2>3. Quotient(z, 100000) \in Int /\ a <= Quotient(z, 100000) /\ Quotient(z, 100000) <= b
      BY <2>1, <2>2, QuotientBounds
    <2> QED BY <2>3
  <1>12. Diffused(n) = s + q
    BY DiffusionIsSum DEF s, S, sum
  <1> HIDE DEF q
  <1>13. /\ Diffused(n) \in Int
         /\ state[low] <= Diffused(n) /\ Diffused(n) <= state[high]
    BY <1>6, <1>11, <1>12 DEF a, b
  <1> QED BY <1>5, <1>13

-----------------------------------------------------------------------------
LEMMA TypedInit == Init => Typed
  <1> SUFFICES ASSUME Init PROVE Typed
    OBVIOUS
  <1>1. PICK connected \in SUBSET Edge :
            /\ capacity = [e \in connected |-> 1000]
            /\ status = [e \in connected |-> "NORMAL"]
    BY DEF Init
  <1>2. state \in [Node -> Int]
    BY DynamicsAssumption DEF Init, DynamicsAssumption
  <1>3. BridgesAgree
    BY <1>1, WritesAgree DEF BridgesAgree, Bridges
  <1> QED BY <1>1, <1>2, <1>3 DEF Typed, Bridges

LEMMA TypedKept ==
    ASSUME Typed, [Next]_vars
    PROVE  Typed'
  <1>0. BridgesAgree'
    BY AgreementKept DEF Typed
  <1> SUFFICES state' \in [Node -> Int] /\ Bridges' \subseteq Edge
    BY <1>0 DEF Typed
  <1>1. CASE SimulationStep
    <2>1. state' = [n \in Node |-> Diffused(n)] /\ Bridges' = Bridges
      BY <1>1 DEF SimulationStep, Bridges
    <2>2. \A n \in Node : Diffused(n) \in Int
      BY DiffusedInHull
    <2> QED BY <2>1, <2>2 DEF Typed
  <1>2. ASSUME NEW n \in Node, NEW m \in Magnitude, InjectExternalShock(n, m)
        PROVE  state' \in [Node -> Int] /\ Bridges' \subseteq Edge
    <2>1. state' = [state EXCEPT ![n] = Reflex(state[n], state[n] + m)] /\ Bridges' = Bridges
      BY <1>2 DEF InjectExternalShock, Bridges
    <2>2. m \in Int /\ state[n] \in Int
      BY DynamicsAssumption DEF DynamicsAssumption, Typed
    <2>3. \A s, input \in Int : Reflex(s, input) \in Int
      BY DEF Reflex
    <2>4. Reflex(state[n], state[n] + m) \in Int
      <3>1. state[n] + m \in Int
        BY <2>2
      <3> QED BY <2>2, <2>3, <3>1, Zenon
    <2> QED BY <2>1, <2>4 DEF Typed
  <1>3. ASSUME NEW e \in Bridges, Constrain(e) \/ Support(e)
        PROVE  state' \in [Node -> Int] /\ Bridges' \subseteq Edge
    <2>1. state' = state /\ Bridges' = Bridges
      BY <1>3 DEF Constrain, Support, nodeVars, Bridges
    <2> QED BY <2>1 DEF Typed
  <1>4. ASSUME NEW threshold \in Threshold, PruneIsolatedBridges(threshold)
        PROVE  state' \in [Node -> Int] /\ Bridges' \subseteq Edge
    <2>1. state' = state /\ Bridges' = Kept(threshold)
      BY <1>4 DEF PruneIsolatedBridges, nodeVars, Bridges
    <2>2. Kept(threshold) \subseteq Bridges
      BY DEF Kept
    <2> QED BY <2>1, <2>2 DEF Typed
  <1>5. ASSUME NEW a \in Edge, ConnectNodes(a)
        PROVE  state' \in [Node -> Int] /\ Bridges' \subseteq Edge
    <2>1. state' = state /\ Bridges' = Bridges \cup {a, Reverse(a)}
      BY <1>5 DEF ConnectNodes, nodeVars, Bridges
    <2>2. Reverse(a) \in Edge
      BY DynamicsAssumption DEF DynamicsAssumption, Reverse
    <2> QED BY <2>1, <2>2 DEF Typed
  <1>6. CASE UNCHANGED vars
    BY <1>6 DEF vars, nodeVars, Typed, Bridges
  <1> QED BY <1>1, <1>2, <1>3, <1>4, <1>5, <1>6 DEF Next

(* The states stay numbers, the bridges stay among the edges, and what they *)
(* carry stays between 0 and 1.                                             *)
THEOREM TypeCorrect == Spec => []Typed
  <1>1. Typed /\ [Next]_vars => Typed'
    BY TypedKept
  <1> QED BY <1>1, TypedInit, PTL DEF Spec

(* Only a simulation step counts as one. *)
LEMMA OnlyStepsCount ==
    ASSUME Next, steps' # steps
    PROVE  SimulationStep
  <1>1. \A n \in Node, m \in Magnitude : InjectExternalShock(n, m) => steps' = steps
    BY DEF InjectExternalShock
  <1>2. \A e \in Bridges : Constrain(e) \/ Support(e) => steps' = steps
    BY DEF Constrain, Support
  <1>3. \A threshold \in Threshold : PruneIsolatedBridges(threshold) => steps' = steps
    BY DEF PruneIsolatedBridges
  <1>4. \A a \in Edge : ConnectNodes(a) => steps' = steps
    BY DEF ConnectNodes
  <1> QED BY <1>1, <1>2, <1>3, <1>4 DEF Next

(* A simulation step of any mesh leaves each node between the states it and *)
(* its neighbours within its own Omega had: whatever the topology, the      *)
(* geometry and the calls before, the adaptive alpha never overshoots.      *)
THEOREM HullKept == Spec => StepsStayInHull
  <1>1. ASSUME Typed, [Next]_vars
        PROVE  [steps' # steps => StepStaysInHull]_vars
    <2> SUFFICES ASSUME Next, steps' # steps, NEW n \in Node
                 PROVE  \E low, high \in Pullers(n) :
                            state[low] <= state'[n] /\ state'[n] <= state[high]
      BY <1>1 DEF StepStaysInHull
    <2>1. SimulationStep
      BY OnlyStepsCount
    <2>2. state'[n] = Diffused(n)
      BY <2>1 DEF SimulationStep
    <2> QED BY <1>1, <2>2, DiffusedInHull
  <1> QED BY <1>1, TypeCorrect, PTL DEF Spec, StepsStayInHull
=============================================================================
