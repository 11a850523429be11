--------------------------- MODULE MeshTopologyProofs ---------------------------
(***************************************************************************)
(* Theorems about MeshTopology, for every number of nodes, every geometry  *)
(* and every batch of pairs.  What Selected returns is proved by induction *)
(* over the prefixes of its argument: the least-number principle of        *)
(* WellFoundedInduction, applied to the set of the lengths that fail.      *)
(***************************************************************************)
EXTENDS MeshTopology, SequenceTheorems, WellFoundedInduction, TLAPS

-----------------------------------------------------------------------------
(* Induction, for a set of naturals. *)

LEMMA Induction ==
    ASSUME NEW S, 0 \in S, \A n \in Nat : n \in S => n + 1 \in S
    PROVE  Nat \subseteq S
<1> SUFFICES ASSUME Nat \ S # {} PROVE FALSE
  OBVIOUS
<1> DEFINE R == OpToRel(<, Nat)
<1>1. \E x \in Nat \ S : \A y \in Nat \ S : <<y, x>> \notin R
  <2>1. IsWellFoundedOn(R, Nat)
    BY NatLessThanWellFounded
  <2> HIDE DEF R
  <2> QED BY <2>1, WFMin
<1>2. PICK x \in Nat \ S : \A y \in Nat \ S : ~(y < x)
  BY <1>1 DEF OpToRel
<1>3. x # 0 /\ x - 1 \in Nat
  OBVIOUS
<1>4. x - 1 \in S
  BY <1>2, <1>3
<1> QED BY <1>3, <1>4

-----------------------------------------------------------------------------
(* Selected. *)

Extended(s, S, f, i) ==
    IF i = 0 THEN <<>>
    ELSE IF s[i] \in S THEN Append(f[i - 1], s[i]) ELSE f[i - 1]

(* The function Selected is defined with. *)
UpTo(s, S) == CHOOSE f : f = [i \in 0 .. Len(s) |-> Extended(s, S, f, i)]

LEMMA SelectedIsLast == \A s, S : Selected(s, S) = UpTo(s, S)[Len(s)]
BY DEF Selected, UpTo, Extended

(* The recursion has a solution. *)
LEMMA UpToDefined ==
    ASSUME NEW s, NEW S, Len(s) \in Nat
    PROVE  UpTo(s, S) = [i \in 0 .. Len(s) |-> Extended(s, S, UpTo(s, S), i)]
<1> DEFINE Good == {n \in Nat : \E f : f = [i \in 0 .. n |-> Extended(s, S, f, i)]}
<1>1. 0 \in Good
  <2> DEFINE g == [i \in 0 .. 0 |-> <<>>]
  <2>1. g = [i \in 0 .. 0 |-> Extended(s, S, g, i)]
    BY DEF Extended
  <2> QED BY <2>1
<1>2. ASSUME NEW n \in Nat, n \in Good PROVE n + 1 \in Good
  <2>1. PICK f : f = [i \in 0 .. n |-> Extended(s, S, f, i)]
    BY <1>2
  <2>2. \A i \in 0 .. n : f[i] = Extended(s, S, f, i)
    BY <2>1
  <2> DEFINE g == [i \in 0 .. n + 1 |-> Extended(s, S, f, i)]
  <2>3. \A i \in 0 .. n : g[i] = f[i]
    BY <2>2
  <2>4. \A i \in 0 .. n + 1 : Extended(s, S, g, i) = Extended(s, S, f, i)
    <3> HIDE DEF g
    <3> QED BY <2>3 DEF Extended
  <2>5. g = [i \in 0 .. n + 1 |-> Extended(s, S, g, i)]
    BY <2>4
  <2>6. \E h : h = [i \in 0 .. n + 1 |-> Extended(s, S, h, i)]
    <3> HIDE DEF g
    <3> QED BY <2>5
  <2> QED BY <2>6
<1>3. Len(s) \in Good
  <2> HIDE DEF Good
  <2> QED BY <1>1, <1>2, Induction
<1>4. \E f : f = [i \in 0 .. Len(s) |-> Extended(s, S, f, i)]
  BY <1>3
<1> QED BY <1>4 DEF UpTo

(* r is what is in S of the first n elements of s, h where it was there. *)
Lists(r, h, n, s, S) ==
    /\ h \in [1 .. Len(r) -> 1 .. n]
    /\ \A i \in 1 .. Len(r) : r[i] = s[h[i]]
    /\ \A i, j \in 1 .. Len(r) : i < j => h[i] < h[j]
    /\ \A k \in 1 .. n : s[k] \in S <=> \E i \in 1 .. Len(r) : h[i] = k

(* One more element. *)
LEMMA ListsMore ==
    ASSUME NEW T, NEW s \in Seq(T), NEW S, NEW n \in Nat, n + 1 <= Len(s), s[n + 1] \in S,
           NEW r \in Seq(T), NEW h, Lists(r, h, n, s, S)
    PROVE  \E g : Lists(Append(r, s[n + 1]), g, n + 1, s, S)
<1> DEFINE q == Append(r, s[n + 1])
           g == [i \in 1 .. Len(r) + 1 |-> IF i = Len(r) + 1 THEN n + 1 ELSE h[i]]
<1>1. s[n + 1] \in T
  OBVIOUS
<1>2. /\ Len(r) \in Nat /\ Len(q) = Len(r) + 1
      /\ \A i \in 1 .. Len(r) : q[i] = r[i]
      /\ q[Len(r) + 1] = s[n + 1]
  BY <1>1
<1>3. g \in [1 .. Len(q) -> 1 .. n + 1]
  BY <1>2 DEF Lists
<1>4. /\ \A i \in 1 .. Len(r) : g[i] = h[i] /\ g[i] \in 1 .. n
      /\ g[Len(r) + 1] = n + 1
  BY <1>2 DEF Lists
<1>5. \A i \in 1 .. Len(r) + 1 : i \in 1 .. Len(r) \/ i = Len(r) + 1
  BY <1>2
<1> HIDE DEF g, q
<1>6. \A i \in 1 .. Len(q) : q[i] = s[g[i]]
  BY <1>2, <1>4, <1>5 DEF Lists
<1>7. \A i, j \in 1 .. Len(q) : i < j => g[i] < g[j]
  BY <1>2, <1>4, <1>5 DEF Lists
<1>8. ASSUME NEW k \in 1 .. n + 1
      PROVE  s[k] \in S <=> \E i \in 1 .. Len(q) : g[i] = k
  <2>1. CASE k = n + 1
    BY <1>2, <1>4, <2>1
  <2>2. CASE k \in 1 .. n
    <3>1. s[k] \in S <=> \E i \in 1 .. Len(r) : h[i] = k
      BY <2>2 DEF Lists
    <3>2. ASSUME NEW i \in 1 .. Len(r), h[i] = k PROVE \E j \in 1 .. Len(q) : g[j] = k
      BY <1>2, <1>4, <3>2
    <3>3. ASSUME NEW i \in 1 .. Len(q), g[i] = k PROVE \E j \in 1 .. Len(r) : h[j] = k
      BY <1>2, <1>4, <1>5, <2>2, <3>3
    <3> QED BY <3>1, <3>2, <3>3
  <2> QED BY <2>1, <2>2
<1>9. Lists(q, g, n + 1, s, S)
  BY <1>3, <1>6, <1>7, <1>8 DEF Lists
<1> QED BY <1>9 DEF q

(* Selected returns the elements of s that are in S, in their order. *)
LEMMA SelectedLists ==
    ASSUME NEW T, NEW s \in Seq(T), NEW S
    PROVE  /\ Selected(s, S) \in Seq(T)
           /\ \E h : Lists(Selected(s, S), h, Len(s), s, S)
<1> DEFINE f == UpTo(s, S)
           Good == {n \in Nat : n <= Len(s) =>
                                    /\ f[n] \in Seq(T)
                                    /\ \E h : Lists(f[n], h, n, s, S)}
<1>1. Len(s) \in Nat /\ \A i \in 0 .. Len(s) : f[i] = Extended(s, S, f, i)
  <2>1. Len(s) \in Nat
    OBVIOUS
  <2>2. f = [i \in 0 .. Len(s) |-> Extended(s, S, f, i)]
    BY <2>1, UpToDefined
  <2> HIDE DEF f
  <2> QED BY <2>1, <2>2
<1> HIDE DEF f
<1>2. 0 \in Good
  <2>1. f[0] = <<>>
    BY <1>1 DEF Extended
  <2>2. Lists(<<>>, <<>>, 0, s, S)
    BY DEF Lists
  <2>3. f[0] \in Seq(T) /\ \E h : Lists(f[0], h, 0, s, S)
    BY <2>1, <2>2
  <2> QED BY <2>3
<1>3. ASSUME NEW n \in Nat, n \in Good PROVE n + 1 \in Good
  <2> SUFFICES ASSUME n + 1 <= Len(s)
               PROVE  f[n + 1] \in Seq(T) /\ \E h : Lists(f[n + 1], h, n + 1, s, S)
    OBVIOUS
  <2>1. f[n + 1] = Extended(s, S, f, n + 1) /\ n + 1 # 0 /\ (n + 1) - 1 = n
    BY <1>1
  <2>2. f[n] \in Seq(T)
    BY <1>1, <1>3
  <2>3. PICK h : Lists(f[n], h, n, s, S)
    BY <1>1, <1>3
  <2>4. CASE s[n + 1] \in S
    <3>1. f[n + 1] = Append(f[n], s[n + 1])
      BY <2>1, <2>4 DEF Extended
    <3>2. s[n + 1] \in T
      BY <1>1
    <3>3. f[n + 1] \in Seq(T)
      BY <2>2, <3>1, <3>2
    <3> QED BY <2>2, <2>3, <2>4, <3>1, <3>3, ListsMore
  <2>5. CASE s[n + 1] \notin S
    <3>1. f[n + 1] = f[n]
      BY <2>1, <2>5 DEF Extended
    <3>2. Lists(f[n], h, n + 1, s, S)
      BY <2>2, <2>3, <2>5 DEF Lists
    <3> QED BY <2>2, <3>1, <3>2
  <2> QED BY <2>4, <2>5
<1>4. Len(s) \in Good
  <2> HIDE DEF Good
  <2> QED BY <1>1, <1>2, <1>3, Induction
<1> QED BY <1>1, <1>4, SelectedIsLast DEF f

(* Two places of the selection are two places of s. *)
LEMMA ListsInjective ==
    ASSUME NEW r, Len(r) \in Nat, NEW h, NEW n \in Nat, NEW s, NEW S, Lists(r, h, n, s, S),
           NEW i \in 1 .. Len(r), NEW j \in 1 .. Len(r), h[i] = h[j]
    PROVE  i = j
<1>1. h[i] \in 1 .. n /\ h[j] \in 1 .. n
  BY DEF Lists
<1> QED BY <1>1 DEF Lists

LEMMA NothingSelected ==
    ASSUME NEW S PROVE Selected(<<>>, S) = <<>>
<1>1. PICK h : Lists(Selected(<<>>, S), h, 0, <<>>, S) /\ Selected(<<>>, S) \in Seq({})
  <2>1. <<>> \in Seq({}) /\ Len(<<>>) = 0
    OBVIOUS
  <2> QED BY <2>1, SelectedLists
<1>2. Len(Selected(<<>>, S)) = 0
  <2>1. Len(Selected(<<>>, S)) \in Nat
    BY <1>1
  <2>2. \A i \in 1 .. Len(Selected(<<>>, S)) : FALSE
    BY <1>1, <2>1 DEF Lists
  <2> QED BY <2>1, <2>2
<1> QED BY <1>1, <1>2

-----------------------------------------------------------------------------
(* Types. *)

LEMMA EdgeFacts ==
    ASSUME NEW e \in EdgeKey
    PROVE  /\ e[1] \in Node /\ e[2] \in Node /\ e[1] # e[2] /\ e = <<e[1], e[2]>>
           /\ Reverse(e) \in EdgeKey /\ Reverse(e) # e /\ Reverse(Reverse(e)) = e
BY DEF EdgeKey, Reverse

LEMMA NodesAreNumbers ==
    /\ Node \subseteq Nat
    /\ \A c \in 0 .. MaxNode : 0 .. c - 1 \subseteq Node
    /\ nodeCount \in 0 .. MaxNode => Indices \subseteq Node
BY TopologyAssumption DEF Node, Indices

(* An edge is there when some bridge of its first node leads to the second. *)
LEMMA EdgeIsBridge ==
    ASSUME NEW b, NEW e \in EdgeKey
    PROVE  e \in EdgesOf(b) <=> \E i \in DOMAIN b[e[1]] : b[e[1]][i].target = e[2]
BY DEF EdgesOf

(* A bridge vector of the mesh has natural length and bridges in it. *)
LEMMA VectorFacts ==
    ASSUME NEW b \in [Node -> Seq(Bridge)], NEW n \in Node
    PROVE  /\ b[n] \in Seq(Bridge) /\ Len(b[n]) \in Nat /\ DOMAIN b[n] = 1 .. Len(b[n])
           /\ \A i \in 1 .. Len(b[n]) : /\ b[n][i] \in Bridge
                                        /\ b[n][i].target \in Node
                                        /\ b[n][i].capacity \in {0, 1}
<1>1. b[n] \in Seq(Bridge)
  OBVIOUS
<1>2. \A i \in 1 .. Len(b[n]) : b[n][i] \in Bridge
  BY <1>1
<1> QED BY <1>1, <1>2 DEF Bridge

-----------------------------------------------------------------------------
(* Batches and their pending edges. *)

(* What connectNodePairs and autoConnectNearbyNodes make sure of. *)
ValidBatch(batch) ==
    /\ batch \in Seq(Nat \X Nat)
    /\ \A i \in DOMAIN batch : /\ IsIndex(batch[i][1]) /\ IsIndex(batch[i][2])
                               /\ batch[i][1] # batch[i][2]
                               /\ batch[i] \notin Edges
    /\ ~DuplicateInBatch(batch)

(* New edges between indices, each once and with its reverse. *)
NewEdges(pending) ==
    /\ pending \in Seq(EdgeKey)
    /\ \A i \in 1 .. Len(pending) : /\ IsIndex(pending[i][1]) /\ IsIndex(pending[i][2])
                                    /\ pending[i] \notin Edges
                                    /\ \E j \in 1 .. Len(pending) :
                                           pending[j] = Reverse(pending[i])
    /\ \A i, j \in 1 .. Len(pending) : pending[i] = pending[j] => i = j

LEMMA Halves ==
    ASSUME NEW i \in Nat \ {0}
    PROVE  \/ i % 2 = 1 /\ (i + 1) \div 2 \in Nat \ {0} /\ i = 2 * ((i + 1) \div 2) - 1
           \/ i % 2 = 0 /\ i \div 2 \in Nat \ {0} /\ i = 2 * (i \div 2)
OBVIOUS

(* The pair a pending edge comes from. *)
PairOf(i) == IF i % 2 = 1 THEN (i + 1) \div 2 ELSE i \div 2

LEMMA PendingShape ==
    ASSUME NEW batch, Len(batch) \in Nat
    PROVE  LET pending == Pending(batch) IN
           /\ Len(pending) = 2 * Len(batch) /\ DOMAIN pending = 1 .. 2 * Len(batch)
           /\ \A i \in 1 .. 2 * Len(batch) :
                 /\ PairOf(i) \in 1 .. Len(batch)
                 /\ \/ i = 2 * PairOf(i) - 1 /\ pending[i] = batch[PairOf(i)]
                    \/ i = 2 * PairOf(i) /\ pending[i] = Reverse(batch[PairOf(i)])
           /\ \A p \in 1 .. Len(batch) : /\ pending[2 * p - 1] = batch[p]
                                         /\ pending[2 * p] = Reverse(batch[p])
<1> DEFINE pending == Pending(batch)
<1>1. Len(pending) = 2 * Len(batch) /\ DOMAIN pending = 1 .. 2 * Len(batch)
  BY DEF Pending
<1>2. ASSUME NEW i \in 1 .. 2 * Len(batch)
      PROVE  /\ PairOf(i) \in 1 .. Len(batch)
             /\ \/ i = 2 * PairOf(i) - 1 /\ pending[i] = batch[PairOf(i)]
                \/ i = 2 * PairOf(i) /\ pending[i] = Reverse(batch[PairOf(i)])
  <2>1. CASE i % 2 = 1
    BY <2>1, Halves DEF Pending, PairOf
  <2>2. CASE i % 2 # 1
    BY <2>2, Halves DEF Pending, PairOf
  <2> QED BY <2>1, <2>2
<1>3. ASSUME NEW p \in 1 .. Len(batch)
      PROVE  pending[2 * p - 1] = batch[p] /\ pending[2 * p] = Reverse(batch[p])
  <2>1. 2 * p - 1 \in 1 .. 2 * Len(batch) /\ 2 * p \in 1 .. 2 * Len(batch)
    OBVIOUS
  <2>2. (2 * p - 1) % 2 = 1 /\ (2 * p) % 2 = 0
    OBVIOUS
  <2>3. ((2 * p - 1) + 1) \div 2 = p /\ (2 * p) \div 2 = p
    OBVIOUS
  <2> QED BY <2>1, <2>2, <2>3 DEF Pending
<1> QED BY <1>1, <1>2, <1>3

(* A batch that validates gives new edges, each once and with its reverse. *)
LEMMA PendingIsNew ==
    ASSUME TypeOK, TopologyValid, NEW batch, ValidBatch(batch)
    PROVE  NewEdges(Pending(batch))
<1> DEFINE pending == Pending(batch)
<1>1. Len(batch) \in Nat /\ DOMAIN batch = 1 .. Len(batch)
  BY DEF ValidBatch
<1>2. ASSUME NEW p \in 1 .. Len(batch)
      PROVE  /\ batch[p] \in EdgeKey /\ batch[p] \notin Edges
             /\ IsIndex(batch[p][1]) /\ IsIndex(batch[p][2])
             /\ Reverse(batch[p]) \in EdgeKey /\ Reverse(batch[p]) \notin Edges
  <2>1. /\ batch[p] \in Nat \X Nat /\ batch[p][1] # batch[p][2] /\ batch[p] \notin Edges
        /\ IsIndex(batch[p][1]) /\ IsIndex(batch[p][2])
    BY <1>1 DEF ValidBatch
  <2>2. batch[p] \in EdgeKey
    BY <2>1, NodesAreNumbers DEF TypeOK, IsIndex, EdgeKey
  <2>3. Reverse(batch[p]) \notin Edges
    BY <2>1, <2>2, EdgeFacts DEF TopologyValid
  <2> QED BY <2>1, <2>2, <2>3, EdgeFacts
<1>3. /\ Len(pending) = 2 * Len(batch) /\ DOMAIN pending = 1 .. Len(pending)
      /\ \A i \in 1 .. Len(pending) :
            /\ PairOf(i) \in 1 .. Len(batch)
            /\ \/ i = 2 * PairOf(i) - 1 /\ pending[i] = batch[PairOf(i)]
               \/ i = 2 * PairOf(i) /\ pending[i] = Reverse(batch[PairOf(i)])
      /\ \A p \in 1 .. Len(batch) : /\ pending[2 * p - 1] = batch[p]
                                    /\ pending[2 * p] = Reverse(batch[p])
  BY <1>1, PendingShape
<1>4. pending = [i \in 1 .. 2 * Len(batch) |-> pending[i]]
  BY DEF Pending
<1> HIDE DEF pending
<1>5. \A i \in 1 .. Len(pending) : pending[i] \in EdgeKey
  BY <1>2, <1>3
<1>6. pending \in Seq(EdgeKey)
  BY <1>1, <1>3, <1>4, <1>5, IsASeq
<1>7. ASSUME NEW i \in 1 .. Len(pending)
      PROVE  /\ IsIndex(pending[i][1]) /\ IsIndex(pending[i][2]) /\ pending[i] \notin Edges
             /\ \E j \in 1 .. Len(pending) : pending[j] = Reverse(pending[i])
  <2>1. PICK p : p = PairOf(i) /\ p \in 1 .. Len(batch)
    BY <1>3
  <2>2. 2 * p - 1 \in 1 .. Len(pending) /\ 2 * p \in 1 .. Len(pending)
    BY <1>1, <1>3, <2>1
  <2>3. CASE pending[i] = batch[p]
    BY <1>2, <1>3, <2>1, <2>2, <2>3
  <2>4. CASE pending[i] = Reverse(batch[p])
    <3>1. Reverse(pending[i]) = batch[p]
      BY <1>2, <2>1, <2>4, EdgeFacts
    <3>2. pending[2 * p - 1] = Reverse(pending[i])
      BY <1>3, <2>1, <3>1
    <3>3. pending[i][1] = batch[p][2] /\ pending[i][2] = batch[p][1]
      BY <2>4 DEF Reverse
    <3>4. pending[i] \notin Edges
      BY <1>2, <2>1, <2>4
    <3> QED BY <1>2, <2>1, <2>2, <3>2, <3>3, <3>4
  <2> QED BY <1>3, <2>1, <2>3, <2>4
<1>8. ASSUME NEW i \in 1 .. Len(pending), NEW j \in 1 .. Len(pending), pending[i] = pending[j]
      PROVE  i = j
  <2>1. PICK p, q : p = PairOf(i) /\ q = PairOf(j)
    OBVIOUS
  <2>2. p \in 1 .. Len(batch) /\ q \in 1 .. Len(batch)
    BY <1>3, <2>1
  <2>3. /\ \/ i = 2 * p - 1 /\ pending[i] = batch[p]
           \/ i = 2 * p /\ pending[i] = Reverse(batch[p])
        /\ \/ j = 2 * q - 1 /\ pending[j] = batch[q]
           \/ j = 2 * q /\ pending[j] = Reverse(batch[q])
    BY <1>3, <2>1
  <2>4. SamePair(batch[p], batch[q])
    BY <1>2, <1>8, <2>2, <2>3, EdgeFacts DEF SamePair
  <2>5. p = q
    BY <1>1, <2>2, <2>4 DEF ValidBatch, DuplicateInBatch
  <2>6. Reverse(batch[p]) # batch[p]
    BY <1>2, <2>2, EdgeFacts
  <2> QED BY <1>8, <2>2, <2>3, <2>5, <2>6
<1> QED BY <1>6, <1>7, <1>8 DEF NewEdges, pending

(* The pairs in the order of their indices: none comes twice. *)
LEMMA PairsAreDistinct ==
    /\ AllPairs \in Seq(Nat \X Nat)
    /\ \A i, j \in 1 .. Len(AllPairs) : AllPairs[i] = AllPairs[j] => i = j
<1> DEFINE N == MaxNode
<1>1. N \in Nat /\ N * N \in Nat
  BY TopologyAssumption
<1>2. Len(AllPairs) = N * N
  BY <1>1 DEF AllPairs
<1>3. ASSUME NEW i \in 1 .. N * N
      PROVE  /\ (i - 1) \div N \in Nat /\ (i - 1) % N \in Nat
             /\ i - 1 = N * ((i - 1) \div N) + ((i - 1) % N)
  <2>1. N # 0 /\ i - 1 \in Nat
    BY <1>1
  <2> QED BY <1>1, <2>1
<1>4. ASSUME NEW i \in 1 .. N * N
      PROVE  AllPairs[i] = <<(i - 1) \div N, (i - 1) % N>> /\ AllPairs[i] \in Nat \X Nat
  BY <1>3 DEF AllPairs
<1>5. AllPairs \in Seq(Nat \X Nat)
  BY <1>1, <1>3, IsASeq DEF AllPairs
<1>6. ASSUME NEW i \in 1 .. N * N, NEW j \in 1 .. N * N, AllPairs[i] = AllPairs[j]
      PROVE  i = j
  <2>1. (i - 1) \div N = (j - 1) \div N /\ (i - 1) % N = (j - 1) % N
    BY <1>4, <1>6
  <2>2. i - 1 = j - 1
    BY <1>3, <2>1
  <2> QED BY <1>1, <2>2
<1> QED BY <1>2, <1>5, <1>6

(* The nearby pairs validate. *)
LEMMA NearbyIsValid ==
    ASSUME TypeOK, NEW radius
    PROVE  ValidBatch(Nearby(radius))
<1> DEFINE near == {e \in EdgeKey : /\ e[1] < e[2] /\ IsIndex(e[2])
                                    /\ Distance(e[1], e[2]) <= radius
                                    /\ e \notin Edges}
           r == Nearby(radius)
<1>1. PICK h : Lists(r, h, Len(AllPairs), AllPairs, near)
  BY PairsAreDistinct, SelectedLists DEF Nearby
<1>2. r \in Seq(Nat \X Nat) /\ Len(r) \in Nat /\ DOMAIN r = 1 .. Len(r)
  <2>1. r \in Seq(Nat \X Nat)
    BY PairsAreDistinct, SelectedLists DEF Nearby
  <2> QED BY <2>1
<1>3. Len(AllPairs) \in Nat
  BY PairsAreDistinct
<1> HIDE DEF r, near
<1>4. ASSUME NEW i \in 1 .. Len(r)
      PROVE  /\ h[i] \in 1 .. Len(AllPairs) /\ r[i] = AllPairs[h[i]] /\ r[i] \in near
  BY <1>1, <1>2 DEF Lists
<1>5. ASSUME NEW e \in near
      PROVE  /\ e \in EdgeKey /\ e[1] \in Nat /\ e[2] \in Nat /\ e[1] < e[2]
             /\ IsIndex(e[1]) /\ IsIndex(e[2]) /\ e \notin Edges
  <2>1. e \in EdgeKey /\ e[1] < e[2] /\ IsIndex(e[2]) /\ e \notin Edges
    BY DEF near
  <2>2. e[1] \in Nat /\ e[2] \in Nat
    BY <2>1, EdgeFacts, NodesAreNumbers
  <2> QED BY <2>1, <2>2 DEF IsIndex, Indices, TypeOK
<1>6. ASSUME NEW i \in 1 .. Len(r), NEW j \in 1 .. Len(r), SamePair(r[i], r[j])
      PROVE  i = j
  <2>1. r[i] = r[j]
    BY <1>4, <1>5, <1>6 DEF SamePair, Reverse
  <2>2. h[i] = h[j]
    <3>1. h[i] \in 1 .. Len(AllPairs) /\ h[j] \in 1 .. Len(AllPairs)
      BY <1>4
    <3>2. AllPairs[h[i]] = AllPairs[h[j]]
      BY <1>4, <2>1
    <3> QED BY <3>1, <3>2, PairsAreDistinct
  <2> QED BY <1>1, <1>2, <1>3, <2>2, ListsInjective
<1> QED BY <1>2, <1>4, <1>5, <1>6 DEF ValidBatch, DuplicateInBatch, r

-----------------------------------------------------------------------------
(* The largest degree. *)

(* alpha fits every node: MaxDegreeOf is a degree, or 0, and none is larger. *)
LEMMA MaxDegreeIsLargest ==
    ASSUME NEW b \in [Node -> Seq(Bridge)]
    PROVE  /\ MaxDegreeOf(b) \in {Len(b[n]) : n \in Node} \cup {0}
           /\ MaxDegreeOf(b) \in Nat
           /\ \A n \in Node : Len(b[n]) <= MaxDegreeOf(b)
<1> DEFINE D == {Len(b[n]) : n \in Node} \cup {0}
           Good == {m \in Nat : \E d \in D : \A n \in Node : n < m => Len(b[n]) <= d}
<1>1. \A n \in Node : Len(b[n]) \in Nat /\ n \in Nat /\ n < MaxNode
  BY VectorFacts, NodesAreNumbers, TopologyAssumption DEF Node
<1>2. D \subseteq Nat
  BY <1>1
<1>3. 0 \in Good
  BY <1>1
<1>4. ASSUME NEW m \in Nat, m \in Good PROVE m + 1 \in Good
  <2>1. PICK d \in D : \A n \in Node : n < m => Len(b[n]) <= d
    BY <1>4
  <2>2. CASE m \in Node /\ Len(b[m]) > d
    <3>1. \A n \in Node : n < m + 1 => n < m \/ n = m
      BY <1>1
    <3>2. Len(b[m]) \in D
      BY <2>2
    <3>3. \A n \in Node : n < m + 1 => Len(b[n]) <= Len(b[m])
      BY <1>1, <1>2, <2>1, <2>2, <3>1
    <3> HIDE DEF D
    <3> QED BY <3>2, <3>3
  <2>3. CASE ~(m \in Node /\ Len(b[m]) > d)
    <3>1. \A n \in Node : n < m + 1 => Len(b[n]) <= d
      BY <1>1, <1>2, <2>1, <2>3
    <3> HIDE DEF D
    <3> QED BY <3>1
  <2> QED BY <2>2, <2>3
<1>5. MaxNode \in Good
  <2> HIDE DEF Good
  <2> QED BY <1>3, <1>4, Induction, TopologyAssumption
<1>6. \E d \in D : \A n \in Node : Len(b[n]) <= d
  <2> HIDE DEF D
  <2> QED BY <1>1, <1>5
<1>7. MaxDegreeOf(b) \in D /\ \A n \in Node : Len(b[n]) <= MaxDegreeOf(b)
  BY <1>6 DEF MaxDegreeOf
<1> QED BY <1>2, <1>7

(* It only depends on the lengths of the vectors. *)
LEMMA SameDegree ==
    ASSUME NEW b \in [Node -> Seq(Bridge)], NEW c \in [Node -> Seq(Bridge)],
           \A n \in Node : Len(b[n]) = Len(c[n])
    PROVE  MaxDegreeOf(b) = MaxDegreeOf(c)
<1>1. MaxDegreeOf(b) \in Nat /\ MaxDegreeOf(c) \in Nat
  BY MaxDegreeIsLargest
<1>2. MaxDegreeOf(b) <= MaxDegreeOf(c)
  <2>1. CASE MaxDegreeOf(b) = 0
    BY <1>1, <2>1
  <2>2. CASE MaxDegreeOf(b) \in {Len(b[n]) : n \in Node}
    BY <2>2, MaxDegreeIsLargest
  <2> QED BY <2>1, <2>2, MaxDegreeIsLargest
<1>3. MaxDegreeOf(c) <= MaxDegreeOf(b)
  <2>1. CASE MaxDegreeOf(c) = 0
    BY <1>1, <2>1
  <2>2. CASE MaxDegreeOf(c) \in {Len(c[n]) : n \in Node}
    BY <2>2, MaxDegreeIsLargest
  <2> QED BY <2>1, <2>2, MaxDegreeIsLargest
<1> QED BY <1>1, <1>2, <1>3

-----------------------------------------------------------------------------
(* Publication. *)

(* v is the bridge vector u of node n with one more bridge per pending edge *)
(* that leaves the node, no two to one target.                              *)
Extends(v, u, pending, n) ==
    /\ v \in Seq(Bridge)
    /\ Len(v) \in Nat /\ Len(v) >= Len(u)
    /\ \A i \in 1 .. Len(u) : v[i] = u[i]
    /\ \A i \in Len(u) + 1 .. Len(v) :
           \E p \in 1 .. Len(pending) : pending[p] = <<n, v[i].target>>
    /\ \A p \in 1 .. Len(pending) :
           pending[p][1] = n => \E i \in Len(u) + 1 .. Len(v) : v[i].target = pending[p][2]
    /\ \A i, j \in Len(u) + 1 .. Len(v) : v[i].target = v[j].target => i = j

LEMMA PublishedVector ==
    ASSUME TypeOK, NEW pending, NewEdges(pending), NEW n \in Node
    PROVE  Extends(Published(pending)[n], bridges[n], pending, n)
<1> DEFINE a == Selected(pending, EdgesFrom(n))
           w == [i \in DOMAIN a |-> [target |-> a[i][2], capacity |-> 1]]
           u == bridges[n]
           L == Len(u)
<1>1. pending \in Seq(EdgeKey) /\ Len(pending) \in Nat
  BY DEF NewEdges
<1>2. a \in Seq(EdgeKey) /\ Len(a) \in Nat /\ DOMAIN a = 1 .. Len(a)
  <2>1. a \in Seq(EdgeKey)
    BY <1>1, SelectedLists
  <2> QED BY <2>1
<1>3. PICK h : Lists(a, h, Len(pending), pending, EdgesFrom(n))
  BY <1>1, SelectedLists
<1>4. u \in Seq(Bridge) /\ L \in Nat
  BY VectorFacts DEF TypeOK
<1>5. Published(pending)[n] = u \o w
  BY DEF Published
<1> HIDE DEF a, u, L
<1>6. ASSUME NEW i \in 1 .. Len(a)
      PROVE  /\ h[i] \in 1 .. Len(pending) /\ a[i] = pending[h[i]]
             /\ a[i] \in EdgeKey /\ a[i][1] = n /\ a[i][2] \in Node /\ a[i] = <<n, a[i][2]>>
  <2>1. h[i] \in 1 .. Len(pending) /\ a[i] = pending[h[i]]
    BY <1>3 DEF Lists
  <2>2. a[i] \in EdgesFrom(n)
    BY <1>3, <2>1 DEF Lists
  <2>3. a[i] \in EdgeKey /\ a[i][1] = n
    BY <2>2 DEF EdgesFrom
  <2> QED BY <2>1, <2>3, EdgeFacts
<1>7. w \in Seq(Bridge) /\ Len(w) = Len(a) /\ \A i \in 1 .. Len(a) : w[i].target = a[i][2]
  <2>1. \A i \in 1 .. Len(a) : [target |-> a[i][2], capacity |-> 1] \in Bridge
    BY <1>6 DEF Bridge
  <2>2. w = [i \in 1 .. Len(a) |-> [target |-> a[i][2], capacity |-> 1]]
    BY <1>2
  <2>3. w \in Seq(Bridge)
    BY <1>2, <2>1, <2>2, IsASeq
  <2> QED BY <1>2, <2>2, <2>3
<1> HIDE DEF w
<1> DEFINE v == u \o w
<1>8. /\ v \in Seq(Bridge) /\ Len(v) = L + Len(a)
      /\ \A i \in 1 .. L : v[i] = u[i]
      /\ \A i \in 1 .. Len(a) : v[L + i] = w[i]
  <2>1. v \in Seq(Bridge) /\ Len(v) = Len(u) + Len(w)
    BY <1>4, <1>7, ConcatProperties
  <2>2. \A i \in 1 .. Len(u) + Len(w) : v[i] = IF i <= Len(u) THEN u[i] ELSE w[i - Len(u)]
    BY <1>4, <1>7, ConcatProperties
  <2>3. Len(u) = L
    BY DEF L
  <2> HIDE DEF v
  <2>4. \A i \in 1 .. L : v[i] = u[i]
    BY <1>2, <1>4, <1>7, <2>2, <2>3
  <2>5. \A i \in 1 .. Len(a) : v[L + i] = w[i]
    BY <1>2, <1>4, <1>7, <2>2, <2>3
  <2> QED BY <1>7, <2>1, <2>3, <2>4, <2>5
<1> HIDE DEF v
<1>9. ASSUME NEW i \in L + 1 .. Len(v)
      PROVE  i - L \in 1 .. Len(a) /\ v[i].target = a[i - L][2] /\ i = L + (i - L)
  <2>1. i - L \in 1 .. Len(a) /\ i = L + (i - L)
    BY <1>2, <1>4, <1>8
  <2>2. v[L + (i - L)] = w[i - L]
    BY <1>8, <2>1
  <2> QED BY <1>7, <2>1, <2>2
<1>10. ASSUME NEW i \in L + 1 .. Len(v)
       PROVE  \E p \in 1 .. Len(pending) : pending[p] = <<n, v[i].target>>
  <2>1. PICK k \in 1 .. Len(a) : v[i].target = a[k][2]
    BY <1>9
  <2> QED BY <1>6, <2>1
<1>11. ASSUME NEW p \in 1 .. Len(pending), pending[p][1] = n
       PROVE  \E i \in L + 1 .. Len(v) : v[i].target = pending[p][2]
  <2>1. pending[p] \in EdgesFrom(n)
    BY <1>1, <1>11 DEF EdgesFrom
  <2>2. PICK j \in 1 .. Len(a) : h[j] = p
    BY <1>3, <2>1 DEF Lists
  <2>3. a[j] = pending[p]
    BY <1>6, <2>2
  <2>4. L + j \in L + 1 .. Len(v) /\ v[L + j].target = a[j][2]
    BY <1>2, <1>4, <1>7, <1>8
  <2> QED BY <2>3, <2>4
<1>12. ASSUME NEW i \in L + 1 .. Len(v), NEW j \in L + 1 .. Len(v), v[i].target = v[j].target
       PROVE  i = j
  <2>1. PICK k \in 1 .. Len(a) : i = L + k /\ v[i].target = a[k][2]
    BY <1>9
  <2>2. PICK l \in 1 .. Len(a) : j = L + l /\ v[j].target = a[l][2]
    BY <1>9
  <2>3. a[k] = a[l]
    BY <1>6, <1>12, <2>1, <2>2
  <2>4. h[k] = h[l]
    <3>1. /\ h[k] \in 1 .. Len(pending) /\ h[l] \in 1 .. Len(pending)
          /\ pending[h[k]] = pending[h[l]]
      BY <1>6, <2>3
    <3>2. \A p, q \in 1 .. Len(pending) : pending[p] = pending[q] => p = q
      BY DEF NewEdges
    <3> QED BY <3>1, <3>2
  <2>5. k = l
    BY <1>1, <1>2, <1>3, <2>4, ListsInjective
  <2> QED BY <2>1, <2>2, <2>5
<1>13. Published(pending)[n] = v /\ bridges[n] = u /\ Len(u) = L
  BY <1>5 DEF v, u, L
<1>14. Len(v) \in Nat /\ Len(v) >= L
  BY <1>2, <1>4, <1>8
<1>15. Extends(v, u, pending, n)
  BY <1>8, <1>10, <1>11, <1>12, <1>13, <1>14 DEF Extends
<1> QED BY <1>13, <1>15

-----------------------------------------------------------------------------
(* What every step keeps. *)

Kept ==
    /\ TypeOK' /\ Inv'
    /\ result' \in Failure => UNCHANGED topologyVars

LEMMA TypesOfBridges ==
    ASSUME TypeOK
    PROVE  /\ bridges \in [Node -> Seq(Bridge)]
           /\ \A n \in Node : bridges[n] \in Seq(Bridge) /\ Len(bridges[n]) \in Nat
           /\ \A n \in Node : DOMAIN bridges[n] = 1 .. Len(bridges[n])
           /\ Indices \subseteq Node /\ Node \subseteq Nat
<1>1. bridges \in [Node -> Seq(Bridge)] /\ nodeCount \in 0 .. MaxNode
  BY DEF TypeOK
<1> QED BY <1>1, VectorFacts, NodesAreNumbers

(* A call that fails and leaves the topology alone; the buffers may change  *)
(* while they are dirty.                                                    *)
LEMMA FailureKeeps ==
    ASSUME TypeOK, Inv, UNCHANGED topologyVars,
           result' \in Failure \ {"logic_error", "topology_error"},
           incarnationCapacity' \in Nat, incarnations <= incarnationCapacity',
           topologyValidationRequired' \in BOOLEAN,
           UNCHANGED simulationBufferShapeDirty, bufferShape' \in [Node -> Int],
           simulationBufferShapeDirty \/ UNCHANGED bufferShape
    PROVE  Kept
<1>1. TypeOK'
  BY DEF TypeOK, topologyVars, Failure
<1>2. Inv'
  BY DEF Inv, NewNodesAreBare, IncarnationsFit, Indices, LifecycleMatchesBridges, TopologyValid,
         Edges, AlphaFitsDegree, BuffersFit, Shape, GuardsNeverFire, topologyVars, Failure
<1> QED BY <1>1, <1>2 DEF Kept

(* A call that fails before it has changed anything. *)
LEMMA FailsKeeps ==
    ASSUME TypeOK, Inv, NEW failure \in Failure \ {"logic_error", "topology_error"},
           Fails(failure)
    PROVE  Kept
<1>1. UNCHANGED topologyVars /\ UNCHANGED preparedVars /\ result' = failure
  BY DEF Fails
<1>2. /\ incarnationCapacity \in Nat /\ incarnations <= incarnationCapacity
      /\ topologyValidationRequired \in BOOLEAN /\ bufferShape \in [Node -> Int]
  BY DEF TypeOK, Inv, IncarnationsFit
<1> QED BY <1>1, <1>2, FailureKeeps DEF preparedVars

-----------------------------------------------------------------------------
(* connectPairsUnlocked. *)

(* No pending edge has an entry, and none comes twice: the guard of the     *)
(* insertion does not fire.                                                 *)
LEMMA NothingIsTaken ==
    ASSUME TypeOK, Inv, NEW pending, NewEdges(pending)
    PROVE  {i \in DOMAIN pending : \/ relationships[pending[i]] # 0
                                   \/ \E j \in 1 .. i - 1 : pending[j] = pending[i]} = {}
<1> SUFFICES ASSUME NEW i \in DOMAIN pending
             PROVE  /\ relationships[pending[i]] = 0
                    /\ \A j \in 1 .. i - 1 : pending[j] # pending[i]
  OBVIOUS
<1>1. pending \in Seq(EdgeKey) /\ i \in 1 .. Len(pending) /\ Len(pending) \in Nat
  BY DEF NewEdges
<1>2. pending[i] \in EdgeKey /\ pending[i] \notin Edges
  BY <1>1 DEF NewEdges
<1>3. relationships[pending[i]] = 0
  BY <1>2 DEF Inv, LifecycleMatchesBridges
<1>4. ASSUME NEW j \in 1 .. i - 1, pending[j] = pending[i] PROVE FALSE
  <2>1. j \in 1 .. Len(pending) /\ j # i
    BY <1>1
  <2>2. \A p, q \in 1 .. Len(pending) : pending[p] = pending[q] => p = q
    BY DEF NewEdges
  <2> QED BY <1>1, <1>4, <2>1, <2>2
<1> QED BY <1>3, <1>4

(* The rollback restores the entries. *)
LEMMA RollbackRestores ==
    ASSUME TypeOK, Inv, NEW pending, NewEdges(pending), NEW k \in 0 .. Len(pending)
    PROVE  Rollback(Inserted(pending, k), pending, k) = relationships
<1>1. relationships \in [EdgeKey -> Nat] /\ Len(pending) \in Nat
  BY DEF TypeOK, NewEdges
<1>2. ASSUME NEW e \in EdgeKey
      PROVE  Rollback(Inserted(pending, k), pending, k)[e] = relationships[e]
  <2>1. CASE \E i \in 1 .. k : pending[i] = e
    <3>1. e \notin Edges
      <4>1. PICK i \in 1 .. k : pending[i] = e
        BY <2>1
      <4>2. i \in 1 .. Len(pending)
        BY <1>1
      <4> QED BY <4>1, <4>2 DEF NewEdges
    <3>2. relationships[e] = 0
      BY <3>1 DEF Inv, LifecycleMatchesBridges
    <3> QED BY <2>1, <3>2 DEF Rollback
  <2>2. CASE ~ \E i \in 1 .. k : pending[i] = e
    BY <2>2 DEF Rollback, Inserted
  <2> QED BY <2>1, <2>2
<1> QED BY <1>1, <1>2 DEF Rollback

(* The entries once all are inserted. *)
LEMMA InsertedEntries ==
    ASSUME TypeOK, NEW pending, NewEdges(pending)
    PROVE  LET entries == Inserted(pending, Len(pending)) IN
           /\ entries \in [EdgeKey -> Nat]
           /\ \A i \in 1 .. Len(pending) :
                  entries[pending[i]] = nextRelationshipGeneration - 1 + i
           /\ \A e \in EdgeKey : (\A i \in 1 .. Len(pending) : pending[i] # e)
                                     => entries[e] = relationships[e]
<1> DEFINE entries == Inserted(pending, Len(pending))
<1>1. /\ Len(pending) \in Nat
      /\ \A i \in 1 .. Len(pending) : pending[i] \in EdgeKey
      /\ \A i, j \in 1 .. Len(pending) : pending[i] = pending[j] => i = j
      /\ relationships \in [EdgeKey -> Nat] /\ nextRelationshipGeneration \in Nat \ {0}
  <2>1. pending \in Seq(EdgeKey)
    BY DEF NewEdges
  <2>2. \A i, j \in 1 .. Len(pending) : pending[i] = pending[j] => i = j
    BY DEF NewEdges
  <2>3. relationships \in [EdgeKey -> Nat] /\ nextRelationshipGeneration \in Nat \ {0}
    BY DEF TypeOK
  <2> QED BY <2>1, <2>2, <2>3
<1>2. ASSUME NEW i \in 1 .. Len(pending)
      PROVE  entries[pending[i]] = nextRelationshipGeneration - 1 + i
  <2>1. (CHOOSE j \in 1 .. Len(pending) : pending[j] = pending[i]) = i
    BY <1>1
  <2> QED BY <1>1, <2>1 DEF Inserted
<1>3. ASSUME NEW e \in EdgeKey, \A i \in 1 .. Len(pending) : pending[i] # e
      PROVE  entries[e] = relationships[e]
  BY <1>3 DEF Inserted
<1>4. \A e \in EdgeKey : entries[e] \in Nat
  BY <1>1, <1>2, <1>3
<1>5. entries = [e \in EdgeKey |-> entries[e]]
  BY DEF Inserted
<1> HIDE DEF entries
<1>6. entries \in [EdgeKey -> Nat]
  BY <1>4, <1>5
<1> QED BY <1>2, <1>3, <1>6 DEF entries

(* The vectors that are published are the old ones with the pending edges   *)
(* added.                                                                   *)
LEMMA PublishedEdges ==
    ASSUME TypeOK, Inv, NEW pending, NewEdges(pending)
    PROVE  LET b == Published(pending) IN
           /\ b \in [Node -> Seq(Bridge)]
           /\ EdgesOf(b) = Edges \cup {pending[i] : i \in 1 .. Len(pending)}
           /\ \A n \in Node : \A i, j \in 1 .. Len(b[n]) : b[n][i].target = b[n][j].target => i = j
           /\ \A n \in Node \ Indices : b[n] = <<>>
           /\ Len(pending) = 0 => b = bridges
<1> DEFINE b == Published(pending)
<1>1. /\ pending \in Seq(EdgeKey) /\ Len(pending) \in Nat
      /\ \A p \in 1 .. Len(pending) : pending[p] \in EdgeKey
  BY DEF NewEdges
<1>2. \A n \in Node : Extends(b[n], bridges[n], pending, n)
  BY PublishedVector
<1>3. b = [n \in Node |-> b[n]]
  BY DEF Published
<1> HIDE DEF b
<1>4. /\ b \in [Node -> Seq(Bridge)]
      /\ \A n \in Node : Len(b[n]) \in Nat /\ DOMAIN b[n] = 1 .. Len(b[n])
  <2>1. \A n \in Node : b[n] \in Seq(Bridge)
    BY <1>2 DEF Extends
  <2> QED BY <1>3, <2>1, VectorFacts
<1>5. ASSUME NEW e \in EdgeKey
      PROVE  e \in EdgesOf(b) <=> e \in Edges \/ \E p \in 1 .. Len(pending) : pending[p] = e
  <2> DEFINE n == e[1]
             L == Len(bridges[n])
  <2>1. n \in Node /\ e = <<n, e[2]>>
    BY EdgeFacts
  <2>2. Extends(b[n], bridges[n], pending, n) /\ L \in Nat /\ Len(b[n]) \in Nat
    BY <1>2, <1>4, <2>1, TypesOfBridges
  <2>3. e \in EdgesOf(b) <=> \E i \in 1 .. Len(b[n]) : b[n][i].target = e[2]
    BY <1>4, <2>1, EdgeIsBridge
  <2>4. e \in Edges <=> \E i \in 1 .. L : bridges[n][i].target = e[2]
    BY <2>1, EdgeIsBridge, TypesOfBridges DEF Edges
  <2> HIDE DEF n, L
  <2>5. (\E i \in 1 .. Len(b[n]) : b[n][i].target = e[2]) <=>
            \/ \E i \in 1 .. L : b[n][i].target = e[2]
            \/ \E i \in L + 1 .. Len(b[n]) : b[n][i].target = e[2]
    BY <2>2 DEF Extends, L
  <2>6. (\E i \in 1 .. L : b[n][i].target = e[2]) <=> e \in Edges
    BY <2>2, <2>4 DEF Extends, L
  <2>7. (\E i \in L + 1 .. Len(b[n]) : b[n][i].target = e[2])
            <=> \E p \in 1 .. Len(pending) : pending[p] = e
    <3>1. ASSUME NEW i \in L + 1 .. Len(b[n]), b[n][i].target = e[2]
          PROVE  \E p \in 1 .. Len(pending) : pending[p] = e
      <4>1. PICK p \in 1 .. Len(pending) : pending[p] = <<n, b[n][i].target>>
        BY <2>2 DEF Extends, L
      <4> QED BY <2>1, <3>1, <4>1
    <3>2. ASSUME NEW p \in 1 .. Len(pending), pending[p] = e
          PROVE  \E i \in L + 1 .. Len(b[n]) : b[n][i].target = e[2]
      BY <2>1, <2>2, <3>2 DEF Extends, L, n
    <3> QED BY <3>1, <3>2
  <2> QED BY <2>3, <2>5, <2>6, <2>7
<1>6. EdgesOf(b) = Edges \cup {pending[i] : i \in 1 .. Len(pending)}
  <2>1. EdgesOf(b) \subseteq EdgeKey /\ Edges \subseteq EdgeKey
    BY DEF EdgesOf, Edges
  <2> QED BY <1>1, <1>5, <2>1
<1>7. ASSUME NEW n \in Node, NEW i \in 1 .. Len(b[n]), NEW j \in 1 .. Len(b[n]),
             b[n][i].target = b[n][j].target
      PROVE  i = j
  <2> DEFINE L == Len(bridges[n])
  <2>1. /\ Extends(b[n], bridges[n], pending, n) /\ L \in Nat /\ Len(b[n]) \in Nat
        /\ DOMAIN bridges[n] = 1 .. L
    BY <1>2, <1>4, TypesOfBridges
  <2>2. \A x, y \in 1 .. L : bridges[n][x].target = bridges[n][y].target => x = y
    BY <2>1 DEF Inv, LifecycleMatchesBridges
  <2>3. ASSUME NEW x \in 1 .. L, NEW y \in L + 1 .. Len(b[n]) PROVE b[n][x].target # b[n][y].target
    <3>1. PICK p \in 1 .. Len(pending) : pending[p] = <<n, b[n][y].target>>
      BY <2>1 DEF Extends
    <3>2. pending[p] \in EdgeKey /\ pending[p] \notin Edges
      BY <1>1 DEF NewEdges
    <3>3. \A z \in 1 .. L : bridges[n][z].target # b[n][y].target
      BY <2>1, <3>1, <3>2, EdgeIsBridge DEF Edges
    <3> QED BY <2>1, <3>3 DEF Extends
  <2>4. \A x \in 1 .. Len(b[n]) : x \in 1 .. L \/ x \in L + 1 .. Len(b[n])
    BY <2>1
  <2>5. CASE i \in 1 .. L /\ j \in 1 .. L
    BY <1>7, <2>1, <2>2, <2>5 DEF Extends
  <2>6. CASE i \in L + 1 .. Len(b[n]) /\ j \in L + 1 .. Len(b[n])
    BY <1>7, <2>1, <2>6 DEF Extends
  <2> HIDE DEF L
  <2> QED BY <1>7, <2>3, <2>4, <2>5, <2>6
<1>8. ASSUME NEW n \in Node, Len(bridges[n]) = 0,
             \A p \in 1 .. Len(pending) : pending[p][1] # n
      PROVE  b[n] = <<>>
  <2>1. Extends(b[n], bridges[n], pending, n) /\ Len(b[n]) \in Nat /\ b[n] \in Seq(Bridge)
    BY <1>2, <1>4
  <2>2. ASSUME Len(b[n]) > 0 PROVE FALSE
    <3>1. 1 \in Len(bridges[n]) + 1 .. Len(b[n])
      BY <1>8, <2>1, <2>2
    <3>2. PICK p \in 1 .. Len(pending) : pending[p] = <<n, b[n][1].target>>
      BY <2>1, <3>1 DEF Extends
    <3> QED BY <1>8, <3>2
  <2> QED BY <2>1, <2>2
<1>9. ASSUME NEW n \in Node \ Indices PROVE b[n] = <<>>
  <2>1. Len(bridges[n]) = 0
    BY DEF Inv, NewNodesAreBare
  <2>2. \A p \in 1 .. Len(pending) : pending[p][1] # n
    BY DEF NewEdges, IsIndex
  <2> QED BY <1>8, <2>1, <2>2
<1>10. ASSUME Len(pending) = 0 PROVE b = bridges
  <2>1. ASSUME NEW n \in Node PROVE b[n] = bridges[n]
    <3>1. /\ Extends(b[n], bridges[n], pending, n) /\ Len(b[n]) \in Nat
          /\ Len(bridges[n]) \in Nat /\ bridges[n] \in Seq(Bridge) /\ b[n] \in Seq(Bridge)
      BY <1>2, <1>4, TypesOfBridges
    <3>2. Len(b[n]) = Len(bridges[n])
      BY <1>10, <3>1 DEF Extends
    <3>3. \A i \in 1 .. Len(b[n]) : b[n][i] = bridges[n][i]
      BY <3>1, <3>2 DEF Extends
    <3> QED BY <3>1, <3>2, <3>3, SeqEqual
  <2> QED BY <1>4, <2>1, TypesOfBridges
<1> QED BY <1>4, <1>6, <1>7, <1>9, <1>10 DEF b

(* A batch that validates is connected or, memory running out, is not: the  *)
(* invariant holds again, and what failed changed nothing.                  *)
LEMMA ConnectPairsKeeps ==
    ASSUME TypeOK, Inv, NEW batch, ValidBatch(batch), NEW k \in 0 .. 2 * Len(batch),
           ConnectPairs(batch, k)
    PROVE  Kept
<1> DEFINE pending == Pending(batch)
           N == Len(pending)
<1>1. /\ NewEdges(pending)
      /\ N = 2 * Len(batch) /\ N \in Nat /\ Len(batch) \in Nat /\ k \in 0 .. N
      /\ \A p \in 1 .. N : pending[p] \in EdgeKey /\ pending[p] \notin Edges
  <2>1. NewEdges(pending)
    BY PendingIsNew DEF Inv, LifecycleMatchesBridges
  <2>2. Len(batch) \in Nat
    BY DEF ValidBatch
  <2>3. N = 2 * Len(batch)
    BY <2>2, PendingShape
  <2> HIDE DEF pending
  <2> QED BY <2>1, <2>2, <2>3 DEF NewEdges
<1>2. {i \in DOMAIN pending : \/ relationships[pending[i]] # 0
                              \/ \E j \in 1 .. i - 1 : pending[j] = pending[i]} = {}
  <2> HIDE DEF pending
  <2> QED BY <1>1, NothingIsTaken
<1>3. CASE k < N
  <2>1. /\ relationships' = Rollback(Inserted(pending, k), pending, k)
        /\ result' = "bad_alloc"
        /\ UNCHANGED <<bridges, nodeVars, nextRelationshipGeneration,
                       alphaDegree, simulationBufferShapeDirty,
                       topologyValidationRequired, bufferShape>>
    BY <1>2, <1>3 DEF ConnectPairs
  <2>2. relationships' = relationships
    <3> HIDE DEF pending
    <3> QED BY <1>1, <2>1, RollbackRestores
  <2>3. Fails("bad_alloc")
    BY <2>1, <2>2 DEF Fails, topologyVars, preparedVars, nodeVars
  <2> QED BY <2>3, FailsKeeps DEF Failure, Result
<1>4. CASE k = N
  <2>1. /\ relationships' = Inserted(pending, N)
        /\ bridges' = Published(pending)
        /\ nextRelationshipGeneration' = nextRelationshipGeneration + N
        /\ result' = "done"
        /\ \/ /\ batch = <<>>
              /\ UNCHANGED <<alphaDegree, simulationBufferShapeDirty,
                             topologyValidationRequired>>
           \/ /\ alphaDegree' = EnforcedDegree(bridges')
              /\ simulationBufferShapeDirty' = TRUE
              /\ topologyValidationRequired' = TRUE
        /\ UNCHANGED <<nodeCount, incarnations, incarnationCapacity, bufferShape>>
    BY <1>1, <1>2, <1>4 DEF ConnectPairs, nodeVars
  <2> HIDE DEF pending
  <2>2. /\ bridges' \in [Node -> Seq(Bridge)]
        /\ Edges' = Edges \cup {pending[i] : i \in 1 .. N}
        /\ \A n \in Node : \A i, j \in 1 .. Len(bridges'[n]) :
               bridges'[n][i].target = bridges'[n][j].target => i = j
        /\ \A n \in Node \ Indices : bridges'[n] = <<>>
        /\ N = 0 => bridges' = bridges
    BY <1>1, <2>1, PublishedEdges DEF Edges
  <2>3. /\ relationships' \in [EdgeKey -> Nat]
        /\ \A i \in 1 .. N : relationships'[pending[i]] = nextRelationshipGeneration - 1 + i
        /\ \A e \in EdgeKey : (\A i \in 1 .. N : pending[i] # e)
                                  => relationships'[e] = relationships[e]
    BY <1>1, <2>1, InsertedEntries
  <2>4. /\ nextRelationshipGeneration \in Nat \ {0} /\ nodeCount \in 0 .. MaxNode
        /\ Indices' = Indices /\ Indices \subseteq Node
        /\ \A n \in Node : DOMAIN bridges'[n] = 1 .. Len(bridges'[n])
    BY <2>1, <2>2, TypesOfBridges, VectorFacts DEF TypeOK, Indices
  <2>5. alphaDegree' = MaxDegreeOf(bridges')
    <3>1. CASE batch = <<>>
      BY <1>1, <2>1, <2>2, <3>1 DEF Inv, AlphaFitsDegree, EnforcedDegree
    <3>2. CASE alphaDegree' = EnforcedDegree(bridges')
      BY <3>2 DEF EnforcedDegree
    <3> QED BY <2>1, <3>1, <3>2
  <2>6. TypeOK'
    <3>1. alphaDegree' \in Nat
      BY <2>2, <2>5, MaxDegreeIsLargest
    <3>2. nextRelationshipGeneration' \in Nat \ {0}
      BY <1>1, <2>1, <2>4
    <3>3. simulationBufferShapeDirty' \in BOOLEAN /\ topologyValidationRequired' \in BOOLEAN
      BY <2>1 DEF TypeOK
    <3>4. /\ nodeCount' \in 0 .. MaxNode /\ incarnations' \in Nat
          /\ incarnationCapacity' \in Nat /\ bufferShape' \in [Node -> Int]
      BY <2>1 DEF TypeOK
    <3>5. result' \in Result
      BY <2>1 DEF Result
    <3> QED BY <2>2, <2>3, <3>1, <3>2, <3>3, <3>4, <3>5 DEF TypeOK
  <2>7. NewNodesAreBare'
    BY <2>2, <2>4 DEF NewNodesAreBare
  <2>8. TopologyValid'
    <3>1. ASSUME NEW e \in Edges'
          PROVE  /\ e[1] \in Indices /\ e[2] \in Indices \ {e[1]}
                 /\ Reverse(e) \in Edges'
      <4>1. CASE e \in Edges
        <5>1. e \in EdgeKey /\ \E i \in DOMAIN bridges[e[1]] : bridges[e[1]][i].target = e[2]
          BY <4>1 DEF Edges, EdgesOf
        <5>2. e[1] \in Indices
          BY <5>1, EdgeFacts DEF Inv, NewNodesAreBare
        <5>3. e[2] \in Indices \ {e[1]} /\ Reverse(e) \in Edges
          BY <4>1, <5>1, <5>2 DEF Inv, LifecycleMatchesBridges, TopologyValid
        <5> QED BY <2>2, <5>2, <5>3
      <4>2. CASE e \in {pending[i] : i \in 1 .. N}
        <5>1. PICK i \in 1 .. N : pending[i] = e
          BY <4>2
        <5>2. e \in EdgeKey /\ e[1] \in Indices /\ e[2] \in Indices
          BY <1>1, <5>1 DEF NewEdges, IsIndex
        <5>3. Reverse(e) \in {pending[j] : j \in 1 .. N}
          BY <5>1, <1>1 DEF NewEdges
        <5> QED BY <2>2, <5>2, <5>3, EdgeFacts
      <4> QED BY <2>2, <4>1, <4>2
    <3>2. ASSUME NEW n \in Indices, NEW i \in DOMAIN bridges'[n]
          PROVE  bridges'[n][i].target \in Indices \ {n}
      <4>1. CASE bridges'[n][i].target = n
        (* No bridge leads back: neither an old nor a new one. *)
        <5>1. n \in Node /\ DOMAIN bridges'[n] = 1 .. Len(bridges'[n]) /\ Len(bridges'[n]) \in Nat
          BY <2>2, <2>4, VectorFacts
        <5>2. Extends(bridges'[n], bridges[n], pending, n)
          BY <1>1, <2>1, <5>1, PublishedVector
        <5>3. CASE i \in 1 .. Len(bridges[n])
          <6>1. bridges[n][i].target = n /\ i \in DOMAIN bridges[n]
            BY <4>1, <5>1, <5>2, <5>3, TypesOfBridges DEF Extends
          <6> QED BY <6>1 DEF Inv, LifecycleMatchesBridges, TopologyValid
        <5>4. CASE i \in Len(bridges[n]) + 1 .. Len(bridges'[n])
          <6>1. PICK p \in 1 .. N : pending[p] = <<n, bridges'[n][i].target>>
            BY <5>2, <5>4 DEF Extends
          <6> QED BY <1>1, <4>1, <6>1, EdgeFacts
        <5> QED BY <5>1, <5>3, <5>4, TypesOfBridges
      <4>2. CASE bridges'[n][i].target # n
        <5>1. n \in Node /\ bridges'[n][i].target \in Node
          BY <2>2, <2>4, VectorFacts
        <5> DEFINE e == <<n, bridges'[n][i].target>>
        <5>2. e \in EdgeKey /\ e[1] = n /\ e[2] = bridges'[n][i].target
          BY <4>2, <5>1 DEF EdgeKey
        <5>3. e \in Edges'
          BY <5>2 DEF Edges, EdgesOf
        <5> QED BY <3>1, <5>2, <5>3
      <4> QED BY <4>1, <4>2
    <3> QED BY <2>4, <3>1, <3>2 DEF TopologyValid
  <2>9. LifecycleMatchesBridges'
    <3>1. ASSUME NEW e \in EdgeKey PROVE relationships'[e] # 0 <=> e \in Edges'
      <4>1. CASE \E i \in 1 .. N : pending[i] = e
        BY <1>1, <2>2, <2>3, <2>4, <4>1
      <4>2. CASE \A i \in 1 .. N : pending[i] # e
        BY <2>2, <2>3, <4>2 DEF Inv, LifecycleMatchesBridges
      <4> QED BY <4>1, <4>2
    <3>2. ASSUME NEW e \in Edges
          PROVE  /\ e \in EdgeKey /\ relationships'[e] = relationships[e]
                 /\ relationships[e] < nextRelationshipGeneration
                 /\ relationships[e] \in Nat
      <4>1. e \in EdgeKey
        BY DEF Edges, EdgesOf
      <4>2. \A i \in 1 .. N : pending[i] # e
        BY <1>1
      <4>3. relationships[e] < nextRelationshipGeneration
        BY DEF Inv, LifecycleMatchesBridges
      <4> QED BY <2>3, <4>1, <4>2, <4>3 DEF TypeOK
    <3>3. ASSUME NEW e \in Edges', NEW f \in Edges', relationships'[e] = relationships'[f]
          PROVE  e = f
      <4>1. CASE e \in Edges /\ f \in Edges
        BY <3>2, <3>3, <4>1 DEF Inv, LifecycleMatchesBridges
      <4>2. CASE e \notin Edges /\ f \notin Edges
        <5>1. PICK i \in 1 .. N : pending[i] = e
          BY <2>2, <4>2
        <5>2. PICK j \in 1 .. N : pending[j] = f
          BY <2>2, <4>2
        <5>3. i = j
          BY <1>1, <2>3, <2>4, <3>3, <5>1, <5>2
        <5> QED BY <5>1, <5>2, <5>3
      <4>3. ASSUME NEW x \in Edges, NEW y \in Edges' \ Edges
            PROVE  relationships'[x] # relationships'[y]
        <5>1. PICK i \in 1 .. N : pending[i] = y
          BY <2>2
        <5>2. relationships'[y] >= nextRelationshipGeneration
          BY <1>1, <2>3, <2>4, <5>1
        <5> QED BY <2>4, <3>2, <5>2
      <4> QED BY <3>3, <4>1, <4>2, <4>3
    <3>4. ASSUME NEW e \in Edges' PROVE relationships'[e] < nextRelationshipGeneration'
      <4>1. CASE e \in Edges
        BY <1>1, <2>1, <2>4, <3>2, <4>1
      <4>2. CASE e \notin Edges
        <5>1. PICK i \in 1 .. N : pending[i] = e
          BY <2>2, <4>2
        <5> QED BY <1>1, <2>1, <2>3, <2>4, <5>1
      <4> QED BY <4>1, <4>2
    <3>5. incarnations' = nodeCount'
      BY <2>1 DEF Inv, LifecycleMatchesBridges
    <3> QED BY <2>2, <2>4, <2>8, <3>1, <3>3, <3>4, <3>5 DEF LifecycleMatchesBridges
  <2>10. BuffersFit'
    <3>1. CASE batch = <<>>
      BY <1>1, <2>1, <2>2, <3>1 DEF Inv, BuffersFit, Shape
    <3>2. CASE simulationBufferShapeDirty' = TRUE
      BY <3>2 DEF BuffersFit
    <3> QED BY <2>1, <3>1, <3>2
  <2>11. AlphaFitsDegree' /\ GuardsNeverFire'
    BY <2>1, <2>5 DEF AlphaFitsDegree, GuardsNeverFire
  <2>12. Inv'
    BY <2>1, <2>7, <2>9, <2>10, <2>11 DEF Inv, IncarnationsFit
  <2> QED BY <2>1, <2>6, <2>12 DEF Kept, Failure
<1> QED BY <1>1, <1>3, <1>4

-----------------------------------------------------------------------------
(* The other operations. *)

(* There is room for one more incarnation, and no less than before. *)
LEMMA RoomIsReserved ==
    ASSUME TypeOK, Inv
    PROVE  ReservedCapacity \in Nat /\ incarnations < ReservedCapacity
BY DEF TypeOK, Inv, IncarnationsFit, ReservedCapacity, IncarnationsFull

LEMMA AddNodeKeeps ==
    ASSUME TypeOK, Inv, nodeCount < MaxNode,
           NEW exhausted \in Insertion \cup {"nothing"}, AddNode(exhausted)
    PROVE  Kept
<1>1. CASE exhausted = "reservation" /\ IncarnationsFull
  <2>1. Fails("bad_alloc")
    BY <1>1 DEF AddNode
  <2> QED BY <2>1, FailsKeeps DEF Failure, Result
<1>2. CASE exhausted = "node"
  <2>1. /\ UNCHANGED topologyVars
        /\ UNCHANGED <<simulationBufferShapeDirty, topologyValidationRequired, bufferShape>>
        /\ incarnationCapacity' = ReservedCapacity
        /\ result' = "bad_alloc"
    BY <1>2 DEF AddNode, topologyVars
  <2>2. /\ ReservedCapacity \in Nat /\ incarnations <= ReservedCapacity
        /\ topologyValidationRequired \in BOOLEAN /\ bufferShape \in [Node -> Int]
    BY RoomIsReserved DEF TypeOK
  <2> QED BY <2>1, <2>2, FailureKeeps DEF Failure, Result
<1>3. CASE ~(exhausted = "reservation" /\ IncarnationsFull) /\ exhausted # "node"
  <2>1. /\ nodeCount' = nodeCount + 1
        /\ incarnations' = incarnations + 1
        /\ incarnationCapacity' = ReservedCapacity
        /\ simulationBufferShapeDirty' = TRUE
        /\ topologyValidationRequired' = TRUE
        /\ result' = "done"
        /\ UNCHANGED <<bridges, relationships, nextRelationshipGeneration, alphaDegree,
                       bufferShape>>
    BY <1>3, RoomIsReserved DEF AddNode
  <2>2. nodeCount' \in 0 .. MaxNode /\ incarnations' \in Nat /\ Indices \subseteq Indices'
    BY <2>1, TopologyAssumption DEF TypeOK, Indices
  <2>3. TypeOK'
    BY <2>1, <2>2, RoomIsReserved DEF TypeOK, Result
  <2>4. NewNodesAreBare'
    BY <2>1, <2>2 DEF Inv, NewNodesAreBare
  <2>5. TopologyValid'
    <3>1. ASSUME NEW n \in Indices', NEW i \in DOMAIN bridges[n]
          PROVE  bridges[n][i].target \in Indices' \ {n}
      <4>1. n \in Indices
        <5>1. n \in Node
          BY <2>2, NodesAreNumbers DEF Indices
        <5>2. bridges[n] # <<>>
          OBVIOUS
        <5> QED BY <5>1, <5>2 DEF Inv, NewNodesAreBare
      <4> QED BY <2>2, <4>1 DEF Inv, LifecycleMatchesBridges, TopologyValid
    <3>2. Edges' = Edges
      BY <2>1 DEF Edges
    <3> QED BY <2>1, <3>1, <3>2 DEF TopologyValid, Inv, LifecycleMatchesBridges
  <2>6. LifecycleMatchesBridges'
    <3>1. Edges' = Edges
      BY <2>1 DEF Edges
    <3> QED BY <2>1, <2>5, <3>1 DEF Inv, LifecycleMatchesBridges
  <2>7. AlphaFitsDegree' /\ BuffersFit' /\ GuardsNeverFire'
    BY <2>1 DEF Inv, AlphaFitsDegree, BuffersFit, GuardsNeverFire
  <2>8. IncarnationsFit'
    BY <2>1, RoomIsReserved DEF IncarnationsFit, TypeOK
  <2> QED BY <2>1, <2>3, <2>4, <2>6, <2>7, <2>8 DEF Kept, Inv, Failure
<1> QED BY <1>1, <1>2, <1>3

LEMMA ConnectNodePairsKeeps ==
    ASSUME TypeOK, Inv, NEW batch \in Batch, NEW k \in 0 .. 2 * Len(batch),
           ConnectNodePairs(batch, k)
    PROVE  Kept
<1>1. CASE Fails("out_of_range") \/ Fails("invalid_argument")
  BY <1>1, FailsKeeps DEF Failure, Result
<1>2. CASE /\ ~ \E i \in DOMAIN batch : ~IsIndex(batch[i][1]) \/ ~IsIndex(batch[i][2])
           /\ ~ \/ \E i \in DOMAIN batch : batch[i][1] = batch[i][2] \/ batch[i] \in Edges
                \/ DuplicateInBatch(batch)
           /\ ConnectPairs(batch, k)
  <2>1. ValidBatch(batch)
    BY <1>2, TopologyAssumption DEF ValidBatch
  <2> QED BY <1>2, <2>1, ConnectPairsKeeps
<1> QED BY <1>1, <1>2 DEF ConnectNodePairs

(* alpha is computed anew, and nothing else changes but a flag. *)
LEMMA EnforceKeeps ==
    ASSUME TypeOK, Inv, EnforceStabilityCondition
    PROVE  Kept
<1>1. /\ alphaDegree' = MaxDegreeOf(bridges)
      /\ topologyValidationRequired' = TRUE
      /\ result' = "done"
      /\ UNCHANGED <<bridges, nodeCount, incarnations, incarnationCapacity, relationships,
                     nextRelationshipGeneration, simulationBufferShapeDirty, bufferShape>>
  BY DEF EnforceStabilityCondition, EnforcedDegree, nodeVars
<1>2. alphaDegree' \in Nat
  BY <1>1, MaxDegreeIsLargest DEF TypeOK
<1>3. TypeOK'
  BY <1>1, <1>2 DEF TypeOK, Result
<1>4. Inv'
  BY <1>1 DEF Inv, NewNodesAreBare, IncarnationsFit, Indices, LifecycleMatchesBridges,
              TopologyValid, Edges, AlphaFitsDegree, BuffersFit, Shape, GuardsNeverFire
<1> QED BY <1>1, <1>3, <1>4 DEF Kept, Failure

LEMMA AutoConnectKeeps ==
    ASSUME TypeOK, Inv, NEW radius, NEW k \in 0 .. 2 * Len(Nearby(radius)),
           AutoConnect(radius, k)
    PROVE  Kept
<1>1. CASE EnforceStabilityCondition
  BY <1>1, EnforceKeeps
<1>2. CASE ConnectPairs(Nearby(radius), k)
  BY <1>2, NearbyIsValid, ConnectPairsKeeps
<1> QED BY <1>1, <1>2 DEF AutoConnect, EnforceStabilityCondition

-----------------------------------------------------------------------------
(* The prune. *)

KeptBridges(n, threshold) ==
    Selected(bridges[n], {b \in Bridge : <<n, b.target>> \notin Invalid(threshold)})

(* The bridges of a node that stay. *)
LEMMA KeptVector ==
    ASSUME TypeOK, Inv, NEW threshold, NEW n \in Node
    PROVE  LET v == KeptBridges(n, threshold) IN
           /\ v \in Seq(Bridge) /\ Len(v) \in Nat
           /\ \A m : (\E i \in 1 .. Len(v) : v[i].target = m)
                 <=> /\ \E i \in 1 .. Len(bridges[n]) : bridges[n][i].target = m
                     /\ <<n, m>> \notin Invalid(threshold)
           /\ \A i, j \in 1 .. Len(v) : v[i].target = v[j].target => i = j
           /\ bridges[n] = <<>> => v = <<>>
<1> DEFINE S == {b \in Bridge : <<n, b.target>> \notin Invalid(threshold)}
           u == bridges[n]
           v == KeptBridges(n, threshold)
<1>1. u \in Seq(Bridge) /\ Len(u) \in Nat /\ \A i \in 1 .. Len(u) : u[i] \in Bridge
  BY TypesOfBridges, VectorFacts
<1>2. v = Selected(u, S)
  BY DEF KeptBridges
<1>3. \A i, j \in 1 .. Len(u) : u[i].target = u[j].target => i = j
  BY TypesOfBridges DEF Inv, LifecycleMatchesBridges
<1> HIDE DEF u, v, S
<1>4. v \in Seq(Bridge) /\ Len(v) \in Nat
  BY <1>1, <1>2, SelectedLists
<1>5. PICK h : Lists(v, h, Len(u), u, S)
  BY <1>1, <1>2, SelectedLists
<1>6. ASSUME NEW i \in 1 .. Len(v)
      PROVE  h[i] \in 1 .. Len(u) /\ v[i] = u[h[i]] /\ v[i] \in S
  BY <1>5 DEF Lists
<1>7. ASSUME NEW m, NEW i \in 1 .. Len(v), v[i].target = m
      PROVE  /\ \E j \in 1 .. Len(u) : u[j].target = m
             /\ <<n, m>> \notin Invalid(threshold)
  BY <1>6, <1>7 DEF S
<1>8. ASSUME NEW j \in 1 .. Len(u), <<n, u[j].target>> \notin Invalid(threshold)
      PROVE  \E i \in 1 .. Len(v) : v[i].target = u[j].target
  <2>1. u[j] \in S
    BY <1>1, <1>8 DEF S
  <2>2. PICK i \in 1 .. Len(v) : h[i] = j
    BY <1>5, <2>1 DEF Lists
  <2> QED BY <1>6, <2>2
<1>9. ASSUME NEW i \in 1 .. Len(v), NEW j \in 1 .. Len(v), v[i].target = v[j].target
      PROVE  i = j
  <2>1. h[i] = h[j]
    <3>1. /\ h[i] \in 1 .. Len(u) /\ h[j] \in 1 .. Len(u)
          /\ u[h[i]].target = u[h[j]].target
      BY <1>6, <1>9
    <3> QED BY <1>3, <3>1
  <2> QED BY <1>1, <1>4, <1>5, <2>1, ListsInjective
<1>10. u = <<>> => v = <<>>
  BY <1>2, NothingSelected
<1>11. \A m : (\E i \in 1 .. Len(v) : v[i].target = m)
           <=> /\ \E i \in 1 .. Len(u) : u[i].target = m
               /\ <<n, m>> \notin Invalid(threshold)
  BY <1>7, <1>8
<1> QED BY <1>4, <1>9, <1>10, <1>11 DEF u, v

(* Edges go in pairs. *)
LEMMA InvalidIsSymmetric ==
    ASSUME TypeOK, Inv, NEW threshold, NEW e \in Edges
    PROVE  /\ Reverse(e) \in Edges
           /\ e \in Invalid(threshold) <=> Reverse(e) \in Invalid(threshold)
<1>1. e \in EdgeKey
  BY DEF Edges, EdgesOf
<1>2. Reverse(e) \in Edges /\ Reverse(Reverse(e)) = e
  BY <1>1, EdgeFacts DEF Inv, LifecycleMatchesBridges, TopologyValid
<1> QED BY <1>2 DEF Invalid

LEMMA PruneKeeps ==
    ASSUME TypeOK, Inv, NEW threshold, PruneIsolatedBridges(threshold)
    PROVE  Kept
<1>1. /\ bridges' = [n \in Node |-> KeptBridges(n, threshold)]
      /\ alphaDegree' = MaxDegreeOf(bridges')
      /\ relationships' = IF bridges' # bridges THEN Discarded(bridges') ELSE relationships
      /\ simulationBufferShapeDirty' = DirtyAfterPrune(bridges')
      /\ topologyValidationRequired' = TRUE
      /\ result' = "done"
      /\ UNCHANGED <<nodeCount, incarnations, incarnationCapacity, nextRelationshipGeneration,
                     bufferShape>>
  BY DEF PruneIsolatedBridges, KeptBridges, EnforcedDegree, nodeVars
<1>2. /\ bridges' \in [Node -> Seq(Bridge)]
      /\ \A n \in Node :
            /\ \A m : (\E i \in 1 .. Len(bridges'[n]) : bridges'[n][i].target = m)
                  <=> /\ \E i \in 1 .. Len(bridges[n]) : bridges[n][i].target = m
                      /\ <<n, m>> \notin Invalid(threshold)
            /\ \A i, j \in 1 .. Len(bridges'[n]) :
                  bridges'[n][i].target = bridges'[n][j].target => i = j
            /\ bridges[n] = <<>> => bridges'[n] = <<>>
  BY <1>1, KeptVector
<1>3. \A n \in Node : DOMAIN bridges'[n] = 1 .. Len(bridges'[n])
  BY <1>2, VectorFacts
<1>4. Edges' = Edges \ Invalid(threshold)
  <2>1. ASSUME NEW e \in EdgeKey PROVE e \in Edges' <=> e \in Edges /\ e \notin Invalid(threshold)
    <3>1. e[1] \in Node /\ e = <<e[1], e[2]>>
      BY EdgeFacts
    <3>2. e \in Edges' <=> \E i \in 1 .. Len(bridges'[e[1]]) : bridges'[e[1]][i].target = e[2]
      BY <1>3, <3>1, EdgeIsBridge DEF Edges
    <3>3. e \in Edges <=> \E i \in 1 .. Len(bridges[e[1]]) : bridges[e[1]][i].target = e[2]
      BY <3>1, EdgeIsBridge, TypesOfBridges DEF Edges
    <3> QED BY <1>2, <3>1, <3>2, <3>3
  <2>2. Edges' \subseteq EdgeKey /\ Edges \subseteq EdgeKey
    BY DEF Edges, EdgesOf
  <2> QED BY <2>1, <2>2
<1>5. relationships' \in [EdgeKey -> Nat]
      /\ \A e \in EdgeKey : relationships'[e] = IF e \in Edges' THEN relationships[e] ELSE 0
  <2>1. CASE bridges' # bridges
    BY <1>1, <2>1 DEF Discarded, Edges, TypeOK
  <2>2. CASE bridges' = bridges
    <3>1. Edges' = Edges /\ relationships' = relationships
      BY <1>1, <2>2 DEF Edges
    <3> QED BY <3>1 DEF Inv, LifecycleMatchesBridges, TypeOK
  <2> QED BY <2>1, <2>2
<1>6. TypeOK'
  <2>1. alphaDegree' \in Nat
    BY <1>1, <1>2, MaxDegreeIsLargest
  <2>2. simulationBufferShapeDirty' \in BOOLEAN /\ topologyValidationRequired' \in BOOLEAN
    BY <1>1 DEF TypeOK, DirtyAfterPrune
  <2> QED BY <1>1, <1>2, <1>5, <2>1, <2>2 DEF TypeOK, Result
<1>7. NewNodesAreBare'
  BY <1>1, <1>2 DEF Inv, NewNodesAreBare, Indices
<1>8. TopologyValid'
  <2>1. ASSUME NEW n \in Indices, NEW i \in DOMAIN bridges'[n]
        PROVE  bridges'[n][i].target \in Indices \ {n}
    <3>1. n \in Node /\ DOMAIN bridges[n] = 1 .. Len(bridges[n])
      BY TypesOfBridges
    <3>2. i \in 1 .. Len(bridges'[n])
      BY <1>3, <3>1
    <3> DEFINE m == bridges'[n][i].target
    <3>3. \E j \in 1 .. Len(bridges'[n]) : bridges'[n][j].target = m
      BY <3>2
    <3> HIDE DEF m
    <3>4. \E j \in 1 .. Len(bridges[n]) : bridges[n][j].target = m
      BY <1>2, <3>1, <3>3
    <3>5. m \in Indices \ {n}
      BY <3>1, <3>4 DEF Inv, LifecycleMatchesBridges, TopologyValid
    <3> QED BY <3>5 DEF m
  <2>2. ASSUME NEW e \in Edges' PROVE Reverse(e) \in Edges'
    BY <1>4, InvalidIsSymmetric
  <2> QED BY <1>1, <2>1, <2>2 DEF TopologyValid, Indices
<1>9. LifecycleMatchesBridges'
  <2>1. Edges' \subseteq Edges /\ Edges \subseteq EdgeKey
    BY <1>4 DEF Edges, EdgesOf
  <2>2. \A e \in Edges' : relationships'[e] = relationships[e] /\ relationships[e] # 0
    BY <1>5, <2>1 DEF Inv, LifecycleMatchesBridges
  <2>3. \A e \in EdgeKey : relationships'[e] # 0 <=> e \in Edges'
    BY <1>5, <2>2
  <2>4. \A e, f \in Edges' : relationships'[e] = relationships'[f] => e = f
    BY <2>1, <2>2 DEF Inv, LifecycleMatchesBridges
  <2>5. \A e \in Edges' : relationships'[e] < nextRelationshipGeneration'
    BY <1>1, <2>1, <2>2 DEF Inv, LifecycleMatchesBridges
  <2>6. incarnations' = nodeCount'
    BY <1>1 DEF Inv, LifecycleMatchesBridges
  <2> QED BY <1>2, <1>3, <1>8, <2>3, <2>4, <2>5, <2>6 DEF LifecycleMatchesBridges
<1>10. BuffersFit'
  <2>1. CASE bridges' # bridges
    BY <1>1, <2>1 DEF BuffersFit, DirtyAfterPrune
  <2>2. CASE bridges' = bridges
    BY <1>1, <2>2 DEF Inv, BuffersFit, DirtyAfterPrune, Shape
  <2> QED BY <2>1, <2>2
<1>11. AlphaFitsDegree' /\ GuardsNeverFire' /\ IncarnationsFit'
  BY <1>1 DEF AlphaFitsDegree, GuardsNeverFire, Inv, IncarnationsFit
<1> QED BY <1>1, <1>6, <1>7, <1>9, <1>10, <1>11 DEF Kept, Inv, Failure

-----------------------------------------------------------------------------
(* simulationStep: the capacities change, the topology does not. *)

LEMMA CapacityChange ==
    ASSUME NEW b \in Bridge, NEW c \in {0, 1}
    PROVE  [b EXCEPT !.capacity = c] \in Bridge /\ [b EXCEPT !.capacity = c].target = b.target
BY DEF Bridge

LEMMA SimulationStepKeeps ==
    ASSUME TypeOK, Inv, NEW isolated, NEW throws \in BOOLEAN,
           SimulationStep(isolated, throws)
    PROVE  Kept
<1>1. TopologyValid
  BY DEF Inv, LifecycleMatchesBridges
<1>2. /\ topologyValidationRequired' = FALSE
      /\ bufferShape' = IF simulationBufferShapeDirty THEN Shape ELSE bufferShape
      /\ simulationBufferShapeDirty' = FALSE
      /\ bridges' = IF throws \/ nodeCount = 0 THEN bridges
                    ELSE [n \in Node |-> [i \in DOMAIN bridges[n] |->
                        [bridges[n][i] EXCEPT !.capacity =
                            IF <<n, bridges[n][i].target>> \in isolated THEN 0 ELSE 1]]]
      /\ result' = IF throws THEN "runtime_error" ELSE "done"
      /\ UNCHANGED <<nodeCount, incarnations, incarnationCapacity, relationships,
                     nextRelationshipGeneration, alphaDegree>>
  BY <1>1 DEF SimulationStep, Validates, nodeVars
<1>3. /\ bridges' \in [Node -> Seq(Bridge)]
      /\ \A n \in Node : /\ Len(bridges'[n]) = Len(bridges[n])
                         /\ DOMAIN bridges'[n] = DOMAIN bridges[n]
                         /\ \A i \in DOMAIN bridges[n] :
                                bridges'[n][i].target = bridges[n][i].target
  <2>1. CASE throws \/ nodeCount = 0
    BY <1>2, <2>1 DEF TypeOK
  <2>2. CASE ~(throws \/ nodeCount = 0)
    <3>1. ASSUME NEW n \in Node
          PROVE  /\ bridges'[n] \in Seq(Bridge)
                 /\ Len(bridges'[n]) = Len(bridges[n])
                 /\ DOMAIN bridges'[n] = DOMAIN bridges[n]
                 /\ \A i \in DOMAIN bridges[n] : bridges'[n][i].target = bridges[n][i].target
      <4> DEFINE u == bridges[n]
                 cap(i) == IF <<n, u[i].target>> \in isolated THEN 0 ELSE 1
                 new(i) == [u[i] EXCEPT !.capacity = cap(i)]
                 v == [i \in 1 .. Len(u) |-> new(i)]
      <4>1. u \in Seq(Bridge) /\ Len(u) \in Nat /\ DOMAIN u = 1 .. Len(u)
            /\ \A i \in 1 .. Len(u) : u[i] \in Bridge
        BY VectorFacts DEF TypeOK
      <4>2. bridges'[n] = v
        BY <1>2, <2>2, <4>1
      <4>3. \A i \in 1 .. Len(u) : cap(i) \in {0, 1}
        OBVIOUS
      <4> HIDE DEF u, cap
      <4>4. ASSUME NEW i \in 1 .. Len(u)
            PROVE  new(i) \in Bridge /\ new(i).target = u[i].target
        BY <4>1, <4>3, CapacityChange
      <4> HIDE DEF new
      <4>5. v \in Seq(Bridge)
        BY <4>1, <4>4, IsASeq
      <4>6. Len(v) = Len(u) /\ DOMAIN v = DOMAIN u
        BY <4>1
      <4>7. \A i \in DOMAIN u : v[i].target = u[i].target
        BY <4>1, <4>4
      <4> HIDE DEF v
      <4> QED BY <4>2, <4>5, <4>6, <4>7 DEF u
    <3>2. bridges' = [n \in Node |-> bridges'[n]]
      BY <1>2, <2>2
    <3> QED BY <3>1, <3>2
  <2> QED BY <2>1, <2>2
<1>4. Edges' = Edges
  <2>1. \A e \in EdgeKey : e \in Edges' <=> e \in Edges
    <3> SUFFICES ASSUME NEW e \in EdgeKey PROVE e \in Edges' <=> e \in Edges
      OBVIOUS
    <3>1. e[1] \in Node
      BY EdgeFacts
    <3>2. e \in Edges' <=> \E i \in DOMAIN bridges'[e[1]] : bridges'[e[1]][i].target = e[2]
      BY EdgeIsBridge DEF Edges
    <3>3. e \in Edges <=> \E i \in DOMAIN bridges[e[1]] : bridges[e[1]][i].target = e[2]
      BY EdgeIsBridge DEF Edges
    <3> QED BY <1>3, <3>1, <3>2, <3>3
  <2> QED BY <2>1 DEF Edges, EdgesOf
<1>5. MaxDegreeOf(bridges') = MaxDegreeOf(bridges)
  BY <1>3, SameDegree DEF TypeOK
<1>6. Indices' = Indices /\ Indices \subseteq Node
  BY <1>2, TypesOfBridges DEF Indices
<1>7. Shape' = Shape /\ Shape \in [Node -> Int]
  <2>1. \A n \in Node : Len(bridges[n]) \in Int
    BY TypesOfBridges
  <2> QED BY <1>2, <1>3, <2>1 DEF Shape
<1>8. TypeOK'
  BY <1>2, <1>3, <1>7 DEF TypeOK, Result
<1>9. NewNodesAreBare'
  <2>1. ASSUME NEW n \in Node \ Indices PROVE bridges'[n] = <<>>
    <3>1. Len(bridges'[n]) = 0 /\ bridges'[n] \in Seq(Bridge)
      BY <1>3 DEF Inv, NewNodesAreBare
    <3> QED BY <3>1
  <2> QED BY <1>6, <2>1 DEF NewNodesAreBare
<1>10. TopologyValid'
  BY <1>1, <1>3, <1>4, <1>6 DEF TopologyValid
<1>11. LifecycleMatchesBridges'
  <2>1. \A n \in Node : \A i, j \in DOMAIN bridges'[n] :
            bridges'[n][i].target = bridges'[n][j].target => i = j
    BY <1>3 DEF Inv, LifecycleMatchesBridges
  <2> QED BY <1>2, <1>4, <1>10, <2>1 DEF Inv, LifecycleMatchesBridges
<1>12. AlphaFitsDegree' /\ BuffersFit' /\ GuardsNeverFire' /\ IncarnationsFit'
  BY <1>2, <1>5, <1>7 DEF Inv, AlphaFitsDegree, BuffersFit, GuardsNeverFire, IncarnationsFit
<1>13. result' \in Failure => UNCHANGED topologyVars
  BY <1>2 DEF Failure, topologyVars
<1> QED BY <1>8, <1>9, <1>11, <1>12, <1>13 DEF Kept, Inv

(* A step that ends before its computation: it leaves the flag of the shape *)
(* up while it leaves the buffers half fitted.                              *)
LEMMA UnpreparedStepKeeps ==
    ASSUME TypeOK, Inv, NEW n, StepUnprepared \/ StepHalfPrepared(n)
    PROVE  Kept
<1>1. /\ UNCHANGED topologyVars
      /\ UNCHANGED <<incarnationCapacity, simulationBufferShapeDirty>>
      /\ topologyValidationRequired' = FALSE
      /\ result' \in {"runtime_error", "bad_alloc"}
      /\ \/ UNCHANGED bufferShape
         \/ simulationBufferShapeDirty /\ bufferShape' = FittedBelow(n)
  BY DEF StepUnprepared, StepHalfPrepared, Validates
<1>2. /\ incarnationCapacity \in Nat /\ incarnations <= incarnationCapacity
      /\ bufferShape \in [Node -> Int]
  BY DEF TypeOK, Inv, IncarnationsFit
<1>3. FittedBelow(n) \in [Node -> Int]
  <2>1. \A i \in Node : Len(bridges[i]) \in Int /\ bufferShape[i] \in Int
    BY <1>2, TypesOfBridges
  <2> QED BY <2>1 DEF FittedBelow
<1> QED BY <1>1, <1>2, <1>3, FailureKeeps DEF Failure, Result

-----------------------------------------------------------------------------
(* The theorems. *)

LEMMA InitInv == Init => TypeOK /\ Inv
<1> SUFFICES ASSUME Init PROVE TypeOK /\ Inv
  OBVIOUS
<1>1. /\ bridges = [n \in Node |-> <<>>]
      /\ nodeCount = 0 /\ incarnations = 0 /\ incarnationCapacity = 0
      /\ relationships = [e \in EdgeKey |-> 0] /\ nextRelationshipGeneration = 1
      /\ alphaDegree = 0 /\ simulationBufferShapeDirty = TRUE
      /\ topologyValidationRequired = TRUE /\ bufferShape = [n \in Node |-> -1]
      /\ result = "none"
  BY DEF Init
<1>2. bridges \in [Node -> Seq(Bridge)]
  BY <1>1
<1>3. TypeOK
  BY <1>1, <1>2, TopologyAssumption DEF TypeOK, Result
<1>4. Edges = {} /\ Indices = {}
  BY <1>1 DEF Edges, EdgesOf, EdgeKey, Indices
<1>5. NewNodesAreBare /\ IncarnationsFit /\ LifecycleMatchesBridges
  BY <1>1, <1>4 DEF NewNodesAreBare, IncarnationsFit, LifecycleMatchesBridges, TopologyValid
<1>6. AlphaFitsDegree
  <2>1. MaxDegreeOf(bridges) \in {Len(bridges[n]) : n \in Node} \cup {0}
    BY <1>2, MaxDegreeIsLargest
  <2>2. \A n \in Node : Len(bridges[n]) = 0
    BY <1>1
  <2> QED BY <1>1, <2>1, <2>2 DEF AlphaFitsDegree
<1> QED BY <1>1, <1>3, <1>5, <1>6 DEF Inv, BuffersFit, GuardsNeverFire

LEMMA NextKeeps ==
    ASSUME TypeOK, Inv, Next
    PROVE  Kept
<1>1. CASE /\ nodeCount < MaxNode
           /\ \E exhausted \in Insertion \cup {"nothing"} : AddNode(exhausted)
  BY <1>1, AddNodeKeeps
<1>2. CASE AddWrongNode
  BY <1>2, FailsKeeps DEF AddWrongNode, Failure, Result
<1>3. CASE \E batch \in Batch : \E k \in 0 .. 2 * Len(batch) : ConnectNodePairs(batch, k)
  BY <1>3, ConnectNodePairsKeeps
<1>4. CASE \E radius \in Radius : \E k \in 0 .. 2 * Len(Nearby(radius)) : AutoConnect(radius, k)
  BY <1>4, AutoConnectKeeps
<1>5. CASE EnforceStabilityCondition
  BY <1>5, EnforceKeeps
<1>6. CASE \E threshold \in 0 .. 2 : PruneIsolatedBridges(threshold)
  BY <1>6, PruneKeeps
<1>7. CASE \E isolated \in SUBSET Edges : SimulationStep(isolated, FALSE)
  BY <1>7, SimulationStepKeeps
<1>8. CASE nodeCount > 0 /\ SimulationStep({}, TRUE)
  BY <1>8, SimulationStepKeeps
<1>9. CASE StepUnprepared \/ \E n \in Indices : StepHalfPrepared(n)
  BY <1>9, UnpreparedStepKeeps
<1> QED BY <1>1, <1>2, <1>3, <1>4, <1>5, <1>6, <1>7, <1>8, <1>9 DEF Next

LEMMA StutterKeeps ==
    ASSUME TypeOK, Inv, UNCHANGED vars
    PROVE  TypeOK' /\ Inv'
<1>1. UNCHANGED <<bridges, nodeCount, incarnations, incarnationCapacity, relationships,
                  nextRelationshipGeneration, alphaDegree, simulationBufferShapeDirty,
                  topologyValidationRequired, bufferShape, result>>
  BY DEF vars, topologyVars, preparedVars
<1>2. TypeOK'
  BY <1>1 DEF TypeOK
<1> QED
  BY <1>1, <1>2 DEF Inv, NewNodesAreBare, IncarnationsFit, Indices, LifecycleMatchesBridges,
                    TopologyValid, Edges, AlphaFitsDegree, BuffersFit, Shape, GuardsNeverFire

(* The inductive invariant of the topology, in every reachable state. *)
THEOREM InvHolds == Spec => [](TypeOK /\ Inv)
<1>1. TypeOK /\ Inv /\ [Next]_vars => TypeOK' /\ Inv'
  BY NextKeeps, StutterKeeps DEF Kept
<1> QED BY InitInv, <1>1, PTL DEF Spec

(* Types: bridge vectors hold bridges to nodes, generations are naturals. *)
THEOREM TypeCorrect == Spec => []TypeOK
BY InvHolds, PTL

(* Bridges come in pairs, no node has two to one target, and each directed *)
(* bridge has one lifecycle entry of its own generation.                    *)
THEOREM LifecycleAlwaysMatches == Spec => []LifecycleMatchesBridges
<1>1. Inv => LifecycleMatchesBridges
  BY DEF Inv
<1> QED BY <1>1, InvHolds, PTL

(* alpha was computed for the largest degree the topology has now. *)
THEOREM AlphaAlwaysFits == Spec => []AlphaFitsDegree
<1>1. Inv => AlphaFitsDegree
  BY DEF Inv
<1> QED BY <1>1, InvHolds, PTL

(* The CFL condition itself: no node has more bridges than alpha allows. *)
THEOREM NoDegreeExceedsAlpha == Spec => [](\A n \in Node : Len(bridges[n]) <= alphaDegree)
<1>1. TypeOK /\ Inv => \A n \in Node : Len(bridges[n]) <= alphaDegree
  BY MaxDegreeIsLargest DEF TypeOK, Inv, AlphaFitsDegree
<1> QED BY <1>1, InvHolds, PTL

(* Unless marked dirty, the buffers a step indexes have the topology's shape. *)
THEOREM BuffersAlwaysFit == Spec => []BuffersFit
<1>1. Inv => BuffersFit
  BY DEF Inv
<1> QED BY <1>1, InvHolds, PTL

(* No call ends in the throw of an entry that exists already, or of a       *)
(* topology that does not validate.                                         *)
THEOREM InternalGuardsNeverFire == Spec => []GuardsNeverFire
<1>1. Inv => GuardsNeverFire
  BY DEF Inv
<1> QED BY <1>1, InvHolds, PTL

(* The strong guarantee: a call that fails, also for want of memory in the  *)
(* middle of a connection, leaves the topology as it was.                   *)
THEOREM FailuresChangeNothing == Spec => FailedCallsChangeNothing
<1>1. (TypeOK /\ Inv) /\ [Next]_vars => [result' \in Failure => UNCHANGED topologyVars]_vars
  BY NextKeeps DEF Kept
<1> QED BY <1>1, InvHolds, PTL DEF Spec, FailedCallsChangeNothing
=============================================================================
