---------------------------- MODULE ApiAccessProofs ----------------------------
(***************************************************************************)
(* Theorems about ApiAccess, for every number of threads, of coordinates   *)
(* and of calls, and every set of values.                                  *)
(***************************************************************************)
EXTENDS ApiAccess, SequenceTheorems, TLAPS

-----------------------------------------------------------------------------
(* The programs, access by access. *)

Len0 == Len(Coordinates)

LEMMA HealthRange == \A v \in Value : HealthOf[v] \in 0 .. 1000
BY AccessAssumption

LEMMA CoordinateFacts ==
    /\ Len0 \in Nat
    /\ Coordinates \in Seq(AccessName \cup Coordinate)
    /\ \A i \in 1 .. Len0 : Coordinates[i] \in Coordinate
    /\ \A c \in Coordinate : c \notin AccessName /\ \E i \in 1 .. Len0 : c = Coordinates[i]
<1>1. Coordinates \in Seq(STRING \ AccessName) /\ Len0 \in Nat
      /\ DOMAIN Coordinates = 1 .. Len0
  BY AccessAssumption DEF Len0
<1>2. \A i \in 1 .. Len0 : Coordinates[i] \in Coordinate /\ Coordinates[i] \notin AccessName
  BY <1>1 DEF Coordinate, Len0
<1>3. Coordinates \in Seq(AccessName \cup Coordinate)
  BY <1>1, <1>2 DEF Len0
<1> QED BY <1>1, <1>2, <1>3 DEF Coordinate

(* a, then b. *)
LEMMA Joined ==
    ASSUME NEW T, NEW a \in Seq(T), NEW b \in Seq(T), NEW q, q = a \o b
    PROVE  /\ q \in Seq(T) /\ Len(q) = Len(a) + Len(b)
           /\ \A i \in 1 .. Len(a) : q[i] = a[i]
           /\ \A i \in 1 .. Len(b) : q[Len(a) + i] = b[i]
<1>1. q \in Seq(T) /\ Len(q) = Len(a) + Len(b)
  BY ConcatProperties
<1>2. \A i \in 1 .. Len(a) + Len(b) : q[i] = IF i <= Len(a) THEN a[i] ELSE b[i - Len(a)]
  BY ConcatProperties
<1>3. Len(a) \in Nat /\ Len(b) \in Nat
  OBVIOUS
<1>4. \A i \in 1 .. Len(a) : q[i] = a[i]
  BY <1>2, <1>3
<1>5. \A i \in 1 .. Len(b) : q[Len(a) + i] = b[i]
  BY <1>2, <1>3
<1> QED BY <1>1, <1>4, <1>5

(* q, then one more. *)
LEMMA Appended ==
    ASSUME NEW T, NEW q \in Seq(T), NEW e \in T, NEW p, p = q \o <<e>>
    PROVE  /\ p \in Seq(T) /\ Len(p) = Len(q) + 1
           /\ \A i \in 1 .. Len(q) : p[i] = q[i]
           /\ p[Len(q) + 1] = e
<1>1. <<e>> \in Seq(T) /\ Len(<<e>>) = 1 /\ <<e>>[1] = e
  OBVIOUS
<1>2. p \in Seq(T) /\ Len(p) = Len(q) + 1
  BY <1>1, ConcatProperties
<1>3. \A i \in 1 .. Len(q) + 1 : p[i] = IF i <= Len(q) THEN q[i] ELSE <<e>>[i - Len(q)]
  BY <1>1, ConcatProperties
<1>4. Len(q) \in Nat
  OBVIOUS
<1>5. \A i \in 1 .. Len(q) : p[i] = q[i]
  BY <1>3, <1>4
<1>6. p[Len(q) + 1] = e
  BY <1>1, <1>3, <1>4
<1> QED BY <1>2, <1>5, <1>6

(* a, then s, then one more. *)
LEMMA Around ==
    ASSUME NEW T, NEW a \in Seq(T), NEW s \in Seq(T), NEW e \in T, NEW p,
           p = (a \o s) \o <<e>>
    PROVE  /\ p \in Seq(T) /\ Len(p) = Len(a) + Len(s) + 1
           /\ \A i \in 1 .. Len(a) : p[i] = a[i]
           /\ \A i \in 1 .. Len(s) : p[Len(a) + i] = s[i]
           /\ p[Len(a) + Len(s) + 1] = e
<1>1. PICK q : q = a \o s
  OBVIOUS
<1>2. /\ q \in Seq(T) /\ Len(q) = Len(a) + Len(s)
      /\ \A i \in 1 .. Len(a) : q[i] = a[i]
      /\ \A i \in 1 .. Len(s) : q[Len(a) + i] = s[i]
  BY <1>1, Joined
<1>3. p = q \o <<e>>
  BY <1>1
<1>4. q \in Seq(T)
  BY <1>2
<1>5. /\ p \in Seq(T) /\ Len(p) = Len(q) + 1
      /\ \A i \in 1 .. Len(q) : p[i] = q[i]
      /\ p[Len(q) + 1] = e
  <2>1. /\ q \o <<e>> \in Seq(T) /\ Len(q \o <<e>>) = Len(q) + 1
        /\ \A i \in 1 .. Len(q) : (q \o <<e>>)[i] = q[i]
        /\ (q \o <<e>>)[Len(q) + 1] = e
    BY <1>4, Appended
  <2> QED BY <1>3, <2>1, Zenon
<1>6. Len(a) \in Nat /\ Len(s) \in Nat
  OBVIOUS
<1>7. \A i \in 1 .. Len(a) : p[i] = a[i]
  BY <1>2, <1>5, <1>6
<1>8. \A i \in 1 .. Len(s) : p[Len(a) + i] = s[i]
  BY <1>2, <1>5, <1>6
<1>9. p[Len(a) + Len(s) + 1] = e
  BY <1>2, <1>5, <1>6
<1> QED BY <1>2, <1>5, <1>7, <1>8, <1>9

LEMMA SetterProgram ==
    ASSUME NEW op \in {"setNodeState", "setNodeHealthIndex"}
    PROVE  Program(op) = <<"lock", "store", "unlock">>
BY DEF Program

LEMMA PositionProgram ==
    LET p == Program("setNodePosition") IN
    /\ p \in Seq(AccessName \cup Coordinate) /\ Len(p) = Len0 + 2
    /\ p[1] = "lock" /\ p[Len0 + 2] = "unlock"
    /\ \A i \in 1 .. Len0 : p[i + 1] = Coordinates[i]
<1> DEFINE T == AccessName \cup Coordinate
           a == <<"lock">>
           p == Program("setNodePosition")
           e == "unlock"
<1>1. p = (a \o Coordinates) \o <<e>>
  BY DEF Program
<1>2. a \in Seq(T) /\ Len(a) = 1 /\ a[1] = "lock" /\ e \in T
  BY DEF AccessName
<1>3. Coordinates \in Seq(T) /\ Len(Coordinates) = Len0 /\ Len0 \in Nat
  BY CoordinateFacts DEF Len0
<1> HIDE DEF a, p, e, T
<1>4. /\ p \in Seq(T) /\ Len(p) = Len(a) + Len(Coordinates) + 1
      /\ \A i \in 1 .. Len(a) : p[i] = a[i]
      /\ \A i \in 1 .. Len(Coordinates) : p[Len(a) + i] = Coordinates[i]
      /\ p[Len(a) + Len(Coordinates) + 1] = e
  <2>1. a \in Seq(T) /\ e \in T
    BY <1>2
  <2> QED BY <1>1, <1>3, <2>1, Around
<1>5. /\ Len(p) = Len0 + 2 /\ p[Len0 + 2] = e
      /\ \A i \in 1 .. Len0 : p[i + 1] = Coordinates[i]
  BY <1>2, <1>3, <1>4
<1>6. \A i \in 1 .. 1 : p[i] = a[i]
  BY <1>2, <1>4
<1> QED BY <1>2, <1>4, <1>5, <1>6 DEF p, e, T

LEMMA SnapshotProgram ==
    LET p == Program("snapshotNode") IN
    /\ p \in Seq(AccessName \cup Coordinate) /\ Len(p) = Len0 + 5
    /\ p[1] = "lock" /\ p[2] = "validate" /\ p[3] = "loadState" /\ p[4] = "loadHealth"
    /\ p[Len0 + 5] = "unlock"
    /\ \A i \in 1 .. Len0 : p[i + 4] = Coordinates[i]
<1> DEFINE T == AccessName \cup Coordinate
           a == <<"lock", "validate", "loadState", "loadHealth">>
           p == Program("snapshotNode")
           e == "unlock"
<1>1. p = (a \o Coordinates) \o <<e>>
  BY DEF Program
<1>2. /\ a \in Seq(T) /\ Len(a) = 4 /\ e \in T
      /\ a[1] = "lock" /\ a[2] = "validate" /\ a[3] = "loadState" /\ a[4] = "loadHealth"
  BY DEF AccessName
<1>3. Coordinates \in Seq(T) /\ Len(Coordinates) = Len0 /\ Len0 \in Nat
  BY CoordinateFacts DEF Len0
<1> HIDE DEF a, p, e, T
<1>4. /\ p \in Seq(T) /\ Len(p) = Len(a) + Len(Coordinates) + 1
      /\ \A i \in 1 .. Len(a) : p[i] = a[i]
      /\ \A i \in 1 .. Len(Coordinates) : p[Len(a) + i] = Coordinates[i]
      /\ p[Len(a) + Len(Coordinates) + 1] = e
  <2>1. a \in Seq(T) /\ e \in T
    BY <1>2
  <2> QED BY <1>1, <1>3, <2>1, Around
<1>5. /\ Len(p) = Len0 + 5 /\ p[Len0 + 5] = e
      /\ \A i \in 1 .. Len0 : p[i + 4] = Coordinates[i]
  BY <1>2, <1>3, <1>4
<1>6. \A i \in 1 .. 4 : p[i] = a[i]
  BY <1>2, <1>4
<1> QED BY <1>2, <1>4, <1>5, <1>6 DEF p, e, T

LEMMA UpdateProgram == Program("updateHealth") = <<"loadState", "store">>
BY DEF Program

LEMMA CopyProgram ==
    LET p == Program("copy") IN
    /\ p \in Seq(AccessName \cup Coordinate) /\ Len(p) = Len0 + 2
    /\ p[Len0 + 1] = "loadState" /\ p[Len0 + 2] = "loadHealth"
    /\ \A i \in 1 .. Len0 : p[i] = Coordinates[i]
<1> DEFINE T == AccessName \cup Coordinate
           b == <<"loadState", "loadHealth">>
           p == Program("copy")
<1>1. p = Coordinates \o b
  BY DEF Program
<1>2. b \in Seq(T) /\ Len(b) = 2 /\ b[1] = "loadState" /\ b[2] = "loadHealth"
  BY DEF AccessName
<1>3. Coordinates \in Seq(T) /\ Len(Coordinates) = Len0 /\ Len0 \in Nat
  BY CoordinateFacts DEF Len0
<1> HIDE DEF b, p, T
<1>4. /\ p \in Seq(T) /\ Len(p) = Len(Coordinates) + Len(b)
      /\ \A i \in 1 .. Len(Coordinates) : p[i] = Coordinates[i]
      /\ \A i \in 1 .. Len(b) : p[Len(Coordinates) + i] = b[i]
  <2>1. PICK s : s = Coordinates
    OBVIOUS
  <2>2. b \in Seq(T) /\ s \in Seq(T) /\ p = s \o b
    BY <1>1, <1>2, <1>3, <2>1
  <2>3. /\ p \in Seq(T) /\ Len(p) = Len(s) + Len(b)
        /\ \A i \in 1 .. Len(s) : p[i] = s[i]
        /\ \A i \in 1 .. Len(b) : p[Len(s) + i] = b[i]
    BY <2>2, Joined
  <2> QED BY <2>1, <2>3
<1>5. Len(p) = Len0 + 2 /\ p[Len0 + 1] = "loadState" /\ p[Len0 + 2] = "loadHealth"
  BY <1>2, <1>3, <1>4
<1> QED BY <1>1, <1>3, <1>4, <1>5 DEF p, T

-----------------------------------------------------------------------------
(* The next access of a thread. *)

OpOf(t) == call[t].op

LEMMA CallTypes ==
    ASSUME TypeOK, NEW t \in Thread
    PROVE  /\ call[t] \in Call /\ OpOf(t) \in Op /\ call[t].read \in Reading
           /\ call[t].todo \in Seq(AccessName \cup Coordinate)
           /\ Len(call[t].todo) \in Nat
<1>1. call[t] \in Call
  BY DEF TypeOK
<1>2. call[t].todo \in Seq(AccessName \cup Coordinate) /\ OpOf(t) \in Op
      /\ call[t].read \in Reading
  BY <1>1 DEF Call, OpOf
<1> QED BY <1>1, <1>2

LEMMA StepsTypes ==
    ASSUME TypeOK, NEW t \in Thread
    PROVE  /\ Steps(t) \in Seq(AccessName \cup Coordinate) /\ Len(Steps(t)) \in Nat
           /\ Made(t) \in Int /\ Made(t) = Len(Steps(t)) - Len(call[t].todo)
           /\ OpOf(t) # "none" => Steps(t) = Program(OpOf(t))
           /\ OpOf(t) = "none" => Len(Steps(t)) = 0
<1>1. Program("setNodeState") \in Seq(AccessName \cup Coordinate)
      /\ Program("setNodeHealthIndex") \in Seq(AccessName \cup Coordinate)
  <2>1. <<"lock", "store", "unlock">> \in Seq(AccessName \cup Coordinate)
    BY DEF AccessName
  <2> QED BY <2>1, SetterProgram
<1>2. Program("updateHealth") \in Seq(AccessName \cup Coordinate)
  <2>1. <<"loadState", "store">> \in Seq(AccessName \cup Coordinate)
    BY DEF AccessName
  <2> QED BY <2>1, UpdateProgram
<1>3. \A op \in Op \ {"none"} : Program(op) \in Seq(AccessName \cup Coordinate)
  BY <1>1, <1>2, PositionProgram, SnapshotProgram, CopyProgram DEF Op, Locking
<1>4. OpOf(t) \in Op /\ Len(call[t].todo) \in Nat
  BY CallTypes
<1>5. CASE OpOf(t) = "none"
  <2>1. Steps(t) = <<>>
    BY <1>5 DEF Steps, OpOf
  <2> QED BY <1>4, <1>5, <2>1 DEF Made
<1>6. CASE OpOf(t) # "none"
  <2>1. Steps(t) = Program(OpOf(t))
    BY <1>6 DEF Steps, OpOf
  <2>2. Steps(t) \in Seq(AccessName \cup Coordinate)
    BY <1>3, <1>4, <1>6, <2>1
  <2> QED BY <1>4, <1>6, <2>1, <2>2 DEF Made
<1> QED BY <1>5, <1>6

LEMMA NextAccess ==
    ASSUME TypeOK, TodoIsRest, NEW t \in Thread, NEW access, Does(t, access)
    PROVE  /\ Made(t) \in 0 .. Len(Steps(t)) - 1
           /\ Steps(t)[Made(t) + 1] = access
           /\ OpOf(t) # "none" /\ Steps(t) = Program(OpOf(t))
<1> DEFINE todo == call[t].todo
<1>1. todo \in Seq(AccessName \cup Coordinate) /\ todo # <<>> /\ Head(todo) = access
  BY CallTypes DEF Does
<1>2. Len(todo) <= Len(Steps(t)) /\ \A i \in 1 .. Len(todo) : todo[i] = Steps(t)[Made(t) + i]
  BY DEF TodoIsRest
<1>3. /\ Len(Steps(t)) \in Nat /\ Made(t) = Len(Steps(t)) - Len(todo)
      /\ OpOf(t) # "none" => Steps(t) = Program(OpOf(t))
      /\ OpOf(t) = "none" => Len(Steps(t)) = 0
  BY StepsTypes
<1> HIDE DEF todo
<1>4. Len(todo) \in Nat /\ Len(todo) > 0 /\ todo[1] = access
  BY <1>1
<1>5. Made(t) \in 0 .. Len(Steps(t)) - 1
  BY <1>2, <1>3, <1>4
<1> QED BY <1>2, <1>3, <1>4, <1>5

(* Where in its program a thread is when it does a certain access. *)
LEMMA AccessCases ==
    ASSUME TypeOK, TodoIsRest, NEW t \in Thread, NEW access, Does(t, access)
    PROVE  /\ access = "lock" => OpOf(t) \in Locking /\ Made(t) = 0
           /\ access = "unlock" => OpOf(t) \in Locking /\ Made(t) = Len(Steps(t)) - 1
           /\ access = "store" =>
                 \/ OpOf(t) \in {"setNodeState", "setNodeHealthIndex"} /\ Made(t) = 1
                 \/ OpOf(t) = "updateHealth" /\ Made(t) = 1
           /\ access = "validate" => OpOf(t) = "snapshotNode" /\ Made(t) = 1
           /\ access = "loadState" => \/ OpOf(t) = "snapshotNode" /\ Made(t) = 2
                                      \/ OpOf(t) = "updateHealth" /\ Made(t) = 0
                                      \/ OpOf(t) = "copy"
           /\ access = "loadHealth" => \/ OpOf(t) = "snapshotNode" /\ Made(t) = 3
                                       \/ OpOf(t) = "copy"
           /\ access \in Coordinate =>
                 \/ /\ OpOf(t) = "setNodePosition" /\ Made(t) \in 1 .. Len0
                    /\ access = Coordinates[Made(t)]
                 \/ /\ OpOf(t) = "snapshotNode" /\ Made(t) \in 4 .. Len0 + 3
                    /\ access = Coordinates[Made(t) - 3]
                 \/ OpOf(t) = "copy"
           /\ OpOf(t) \in Locking => /\ Len(Steps(t)) >= 2
                                     /\ Made(t) = 0 <=> access = "lock"
                                     /\ Made(t) = Len(Steps(t)) - 1 <=> access = "unlock"
<1> DEFINE p == Steps(t)
           m == Made(t)
<1>1. /\ m \in 0 .. Len(p) - 1 /\ p[m + 1] = access
      /\ OpOf(t) # "none" /\ p = Program(OpOf(t)) /\ OpOf(t) \in Op
  BY NextAccess, CallTypes
<1>2. /\ Len0 \in Nat
      /\ \A i \in 1 .. Len0 : Coordinates[i] \in Coordinate
      /\ \A c \in Coordinate : c \notin {"lock", "unlock", "store", "validate", "loadState", "loadHealth"}
  BY CoordinateFacts DEF AccessName
<1> HIDE DEF p, m
<1>3. CASE OpOf(t) \in {"setNodeState", "setNodeHealthIndex"}
  <2>1. Len(p) = 3 /\ p[1] = "lock" /\ p[2] = "store" /\ p[3] = "unlock"
    BY <1>1, <1>3, SetterProgram
  <2>2. m = 0 \/ m = 1 \/ m = 2
    BY <1>1, <2>1
  <2> QED BY <1>1, <1>2, <1>3, <2>1, <2>2 DEF p, m, Locking
<1>4. CASE OpOf(t) = "setNodePosition"
  <2>1. /\ Len(p) = Len0 + 2 /\ p[1] = "lock" /\ p[Len0 + 2] = "unlock"
        /\ \A i \in 1 .. Len0 : p[i + 1] = Coordinates[i]
    BY <1>1, <1>4, PositionProgram
  <2>2. m = 0 \/ m = Len0 + 1 \/ m \in 1 .. Len0
    BY <1>1, <1>2, <2>1
  <2>3. CASE m = 0
    BY <1>1, <1>2, <1>4, <2>1, <2>3 DEF p, m, Locking
  <2>4. CASE m = Len0 + 1
    BY <1>1, <1>2, <1>4, <2>1, <2>4 DEF p, m, Locking
  <2>5. CASE m \in 1 .. Len0
    <3>1. access = Coordinates[m] /\ access \in Coordinate /\ m # 0 /\ m # Len(p) - 1
      BY <1>1, <1>2, <2>1, <2>5
    <3> QED BY <1>2, <1>4, <2>1, <2>5, <3>1 DEF p, m, Locking
  <2> QED BY <2>2, <2>3, <2>4, <2>5
<1>5. CASE OpOf(t) = "snapshotNode"
  <2>1. /\ Len(p) = Len0 + 5 /\ p[1] = "lock" /\ p[2] = "validate" /\ p[3] = "loadState"
        /\ p[4] = "loadHealth" /\ p[Len0 + 5] = "unlock"
        /\ \A i \in 1 .. Len0 : p[i + 4] = Coordinates[i]
    BY <1>1, <1>5, SnapshotProgram
  <2>2. m \in 0 .. 3 \/ m = Len0 + 4 \/ m \in 4 .. Len0 + 3
    BY <1>1, <1>2, <2>1
  <2>3. CASE m \in 0 .. 3
    <3>1. m = 0 \/ m = 1 \/ m = 2 \/ m = 3
      BY <2>3
    <3> QED BY <1>1, <1>2, <1>5, <2>1, <3>1 DEF p, m, Locking
  <2>4. CASE m = Len0 + 4
    BY <1>1, <1>2, <1>5, <2>1, <2>4 DEF p, m, Locking
  <2>5. CASE m \in 4 .. Len0 + 3
    <3>1. m - 3 \in 1 .. Len0 /\ (m - 3) + 4 = m + 1
      BY <1>2, <2>5
    <3>2. p[m + 1] = Coordinates[m - 3]
      BY <2>1, <3>1
    <3>3. access = Coordinates[m - 3] /\ access \in Coordinate
      BY <1>1, <1>2, <3>1, <3>2
    <3>4. m # 0 /\ m # Len(p) - 1
      BY <1>2, <2>1, <2>5
    <3> QED BY <1>2, <1>5, <2>1, <2>5, <3>3, <3>4 DEF p, m, Locking
  <2> QED BY <2>2, <2>3, <2>4, <2>5
<1>6. CASE OpOf(t) = "updateHealth"
  <2>1. Len(p) = 2 /\ p[1] = "loadState" /\ p[2] = "store"
    BY <1>1, <1>6, UpdateProgram
  <2>2. m = 0 \/ m = 1
    BY <1>1, <2>1
  <2> QED BY <1>1, <1>2, <1>6, <2>1, <2>2 DEF p, m, Locking
<1>7. CASE OpOf(t) = "copy"
  <2>1. /\ Len(p) = Len0 + 2 /\ p[Len0 + 1] = "loadState" /\ p[Len0 + 2] = "loadHealth"
        /\ \A i \in 1 .. Len0 : p[i] = Coordinates[i]
    BY <1>1, <1>7, CopyProgram
  <2>2. access \in Coordinate \/ access = "loadState" \/ access = "loadHealth"
    <3>1. m + 1 \in 1 .. Len0 \/ m + 1 = Len0 + 1 \/ m + 1 = Len0 + 2
      BY <1>1, <1>2, <2>1
    <3> QED BY <1>1, <1>2, <2>1, <3>1
  <2> QED BY <1>2, <1>7, <2>2 DEF Locking
<1> QED BY <1>1, <1>3, <1>4, <1>5, <1>6, <1>7 DEF Op, Locking

-----------------------------------------------------------------------------
(* The invariant thread by thread. *)

Fits(t) ==
    /\ OpOf(t) = "setNodeState"       => call[t].argument \in Value
    /\ OpOf(t) = "setNodeHealthIndex" => call[t].argument \in 0 .. 1000
    /\ OpOf(t) = "setNodePosition"    => call[t].argument \in Place
    /\ OpOf(t) = "updateHealth" /\ call[t].todo = <<"store">> => call[t].read.state \in Value

Rest(t) ==
    /\ Len(call[t].todo) <= Len(Steps(t))
    /\ \A i \in 1 .. Len(call[t].todo) : call[t].todo[i] = Steps(t)[Made(t) + i]

Written(t) ==
    Holds(t) /\ OpOf(t) = "setNodePosition" =>
        \A i \in 1 .. Len0 : i < Made(t) => position[Coordinates[i]] = call[t].argument

Uniform == \A c, d \in Coordinate : position[c] = position[d]

SoFar(t) ==
    OpOf(t) = "snapshotNode" /\ ~call[t].threw /\ Holds(t) =>
        /\ Made(t) >= 2 => \A c \in Coordinate : position[c] # Invalid
        /\ Made(t) >= 3 => call[t].read.state = state
        /\ Made(t) >= 4 =>
               /\ Invalid \notin {call[t].read.state, call[t].read.healthIndex}
               /\ Node(position, call[t].read.state, call[t].read.healthIndex) \in seen[t]
        /\ \A i \in 1 .. Len0 :
               i <= Made(t) - 4 => call[t].read.position[Coordinates[i]] = position[Coordinates[i]]

Instant(t) ==
    OpOf(t) = "snapshotNode" /\ call[t].todo = <<>> /\ ~call[t].threw =>
        /\ call[t].read \in seen[t]
        /\ \A c, d \in Coordinate : call[t].read.position[c] = call[t].read.position[d]
        /\ Invalid \notin {call[t].read.state, call[t].read.healthIndex}
        /\ \A c \in Coordinate : call[t].read.position[c] # Invalid

(* What the invariant says of a thread. *)
Good(t) == Rest(t) /\ Written(t) /\ SoFar(t) /\ Instant(t) /\ (mutex = t <=> Holds(t))

Whole == (\E t \in Thread : Holds(t) /\ OpOf(t) = "setNodePosition") \/ Uniform

LEMMA InvByThread ==
    Inv <=> (\A t \in Thread : Good(t)) /\ Whole /\ UpdateRestoresStatus
<1>1. TodoIsRest <=> \A t \in Thread : Rest(t)
  BY DEF TodoIsRest, Rest
<1>2. LockIsHeld <=> \A t \in Thread : (mutex = t <=> Holds(t))
  BY DEF LockIsHeld
<1>3. PositionIsWhole <=> Whole /\ \A t \in Thread : Written(t)
  BY DEF PositionIsWhole, Whole, Uniform, Written, OpOf, Len0
<1>4. SnapshotSoFar <=> \A t \in Thread : SoFar(t)
  BY DEF SnapshotSoFar, SoFar, OpOf, Len0
<1>5. SnapshotsAreInstants <=> \A t \in Thread : Instant(t)
  BY DEF SnapshotsAreInstants, Instant, OpOf
<1> QED BY <1>1, <1>2, <1>3, <1>4, <1>5 DEF Inv, Good

LEMMA TypesByThread ==
    TypeOK <=>
        /\ position \in [Coordinate -> Place \cup {Invalid}]
        /\ state \in Value \cup {Invalid}
        /\ healthIndex \in (0 .. 1000) \cup {Invalid}
        /\ mutex \in Thread \cup {None}
        /\ call \in [Thread -> Call] /\ calls \in [Thread -> Nat]
        /\ seen \in [Thread -> SUBSET Reading]
        /\ capacity \in 0 .. 1000 /\ overridden \in BOOLEAN
        /\ \A t \in Thread : Fits(t)
BY DEF TypeOK, Fits, OpOf

LEMMA OneHolds ==
    ASSUME Inv, NEW t \in Thread, NEW u \in Thread, Holds(t), Holds(u)
    PROVE  t = u
BY InvByThread DEF Good

(* What t does changes nothing of another thread. *)
Alone(t) == \A u \in Thread \ {t} : call'[u] = call[u]

LEMMA OthersStay ==
    ASSUME NEW t \in Thread, Alone(t), NEW u \in Thread \ {t}
    PROVE  /\ Steps(u)' = Steps(u) /\ Made(u)' = Made(u) /\ OpOf(u)' = OpOf(u)
           /\ Holds(u)' <=> Holds(u)
           /\ Fits(u)' <=> Fits(u)
           /\ Rest(u)' <=> Rest(u)
<1>1. call'[u] = call[u]
  BY DEF Alone
<1>2. Steps(u)' = Steps(u) /\ OpOf(u)' = OpOf(u)
  BY <1>1 DEF Steps, OpOf
<1>3. Made(u)' = Made(u)
  BY <1>1, <1>2 DEF Made
<1> QED BY <1>1, <1>2, <1>3 DEF Holds, Fits, Rest, OpOf

(* The types after a step of t. *)
LEMMA StepTypes ==
    ASSUME TypeOK, NEW t \in Thread, Alone(t), Watch, UNCHANGED bridgeVars,
           position' \in [Coordinate -> Place \cup {Invalid}],
           state' \in Value \cup {Invalid},
           healthIndex' \in (0 .. 1000) \cup {Invalid},
           mutex' \in Thread \cup {None},
           call' \in [Thread -> Call], calls' \in [Thread -> Nat], Fits(t)'
    PROVE  TypeOK'
<1>1. \A u \in Thread : Fits(u)'
  BY OthersStay, TypesByThread
<1>2. Node(position', state', healthIndex') \in Reading
  BY DEF Node, Reading
<1>3. seen' \in [Thread -> SUBSET Reading]
  <2>1. PICK x \in Reading : x = Node(position', state', healthIndex')
    BY <1>2
  <2>2. seen' = [u \in Thread |-> IF call'[u].op # "snapshotNode" THEN {} ELSE seen[u] \cup {x}]
    BY <2>1 DEF Watch
  <2>3. \A u \in Thread : seen[u] \in SUBSET Reading
    BY DEF TypeOK
  <2>4. \A u \in Thread : seen'[u] \in SUBSET Reading
    BY <2>1, <2>2, <2>3
  <2>5. seen' = [u \in Thread |-> seen'[u]]
    BY <2>2
  <2> QED BY <2>4, <2>5
<1>4. capacity' \in 0 .. 1000 /\ overridden' \in BOOLEAN
  BY DEF bridgeVars, TypeOK
<1> QED BY <1>1, <1>3, <1>4 DEF TypeOK, Fits, OpOf

(* seen grows while a snapshot goes on. *)
LEMMA SeenGrows ==
    ASSUME Watch, NEW u \in Thread, OpOf(u)' = "snapshotNode"
    PROVE  seen'[u] = seen[u] \cup {Node(position', state', healthIndex')}
BY DEF Watch, OpOf

(* The other threads are as good as before when t changes position and      *)
(* state only while it holds the mutex, and takes it only when it is free.  *)
LEMMA OthersGood ==
    ASSUME TypeOK, Inv, NEW t \in Thread, Alone(t), Watch,
           UNCHANGED <<position, state>> \/ Holds(t),
           \A u \in Thread \ {t} : mutex' = u <=> mutex = u,
           NEW u \in Thread \ {t}
    PROVE  Good(u)'
<1>1. Good(u) /\ call'[u] = call[u]
  BY InvByThread DEF Alone
<1>2. /\ Steps(u)' = Steps(u) /\ Made(u)' = Made(u) /\ OpOf(u)' = OpOf(u)
      /\ Holds(u)' <=> Holds(u)
      /\ Rest(u)' <=> Rest(u)
  BY OthersStay
<1>3. OpOf(u)' = "snapshotNode" => seen[u] \subseteq seen'[u]
  BY SeenGrows
<1>4. Holds(u) => UNCHANGED <<position, state>>
  BY OneHolds
<1>5. Written(u)'
  BY <1>1, <1>2, <1>4 DEF Good, Written
<1>6. SoFar(u)'
  <2> SUFFICES ASSUME OpOf(u)' = "snapshotNode", ~call'[u].threw, Holds(u)'
               PROVE  /\ Made(u)' >= 2 => \A c \in Coordinate : position'[c] # Invalid
                      /\ Made(u)' >= 3 => call'[u].read.state = state'
                      /\ Made(u)' >= 4 =>
                            /\ Invalid \notin {call'[u].read.state, call'[u].read.healthIndex}
                            /\ Node(position', call'[u].read.state, call'[u].read.healthIndex)
                                  \in seen'[u]
                      /\ \A i \in 1 .. Len0 : i <= Made(u)' - 4 =>
                            call'[u].read.position[Coordinates[i]] = position'[Coordinates[i]]
    BY DEF SoFar, Node
  <2> QED BY <1>1, <1>2, <1>3, <1>4 DEF Good, SoFar
<1>7. Instant(u)'
  BY <1>1, <1>2, <1>3 DEF Good, Instant
<1> QED BY <1>1, <1>2, <1>5, <1>6, <1>7 DEF Good

-----------------------------------------------------------------------------
(* t goes on. *)

LEMMA TailFacts ==
    ASSUME NEW T, NEW s \in Seq(T), s # <<>>
    PROVE  /\ Tail(s) \in Seq(T) /\ Len(Tail(s)) \in Nat /\ Len(s) > 0
           /\ Len(Tail(s)) = Len(s) - 1
           /\ \A i \in 1 .. Len(Tail(s)) : Tail(s)[i] = s[i + 1]
           /\ Tail(s) = <<>> <=> Len(s) = 1
<1>1. Tail(s) \in Seq(T) /\ Len(s) > 0 /\ Len(s) \in Nat
  OBVIOUS
<1>2. Len(Tail(s)) = Len(s) - 1
  OBVIOUS
<1>3. \A i \in 1 .. Len(Tail(s)) : Tail(s)[i] = s[i + 1]
  OBVIOUS
<1>4. Tail(s) = <<>> <=> Len(Tail(s)) = 0
  BY <1>1, EmptySeq
<1> QED BY <1>1, <1>2, <1>3, <1>4

LEMMA ProceedFacts ==
    ASSUME TypeOK, Inv, NEW t \in Thread, NEW access, Does(t, access),
           NEW read \in Reading, Proceed(t, read)
    PROVE  /\ Alone(t) /\ call' \in [Thread -> Call]
           /\ OpOf(t)' = OpOf(t) /\ call'[t].argument = call[t].argument
           /\ call'[t].threw = call[t].threw /\ call'[t].read = read
           /\ Steps(t)' = Steps(t) /\ Made(t)' = Made(t) + 1
           /\ call'[t].todo = <<>> <=> Made(t) = Len(Steps(t)) - 1
           /\ Rest(t)'
           /\ Holds(t)' <=> OpOf(t) \in Locking /\ access # "unlock"
           /\ Holds(t) <=> OpOf(t) \in Locking /\ access # "lock"
<1>1. /\ call[t] \in Call /\ OpOf(t) \in Op /\ Len(call[t].todo) \in Nat
      /\ call[t].todo \in Seq(AccessName \cup Coordinate) /\ call[t].todo # <<>>
      /\ call \in [Thread -> Call]
  BY CallTypes DEF Does, TypeOK
<1>2. call' = [call EXCEPT ![t].todo = Tail(@), ![t].read = read]
  BY DEF Proceed
<1> DEFINE c == call[t]
           d == [c EXCEPT !.todo = Tail(c.todo), !.read = read]
<1>3. call' = [call EXCEPT ![t] = d]
  BY <1>1, <1>2 DEF Call
<1>4. /\ d \in Call /\ d.op = c.op /\ d.argument = c.argument /\ d.threw = c.threw
      /\ d.read = read /\ d.todo = Tail(c.todo)
  <2>1. c.todo \in Seq(AccessName \cup Coordinate) /\ c.todo # <<>> /\ c \in Call
    BY <1>1
  <2>2. Tail(c.todo) \in Seq(AccessName \cup Coordinate)
    BY <2>1, TailFacts
  <2> HIDE DEF c
  <2>3. PICK q \in Seq(AccessName \cup Coordinate) : q = Tail(c.todo)
    BY <2>2
  <2> DEFINE e == [c EXCEPT !.todo = q, !.read = read]
  <2>4. d = e
    BY <2>3
  <2>5. e \in Call
    BY <2>1 DEF Call
  <2>6. e.op = c.op /\ e.argument = c.argument /\ e.threw = c.threw
    BY <2>1 DEF Call
  <2>7. e.read = read /\ e.todo = q
    BY <2>1 DEF Call
  <2> HIDE DEF d, e
  <2> QED BY <2>3, <2>4, <2>5, <2>6, <2>7
<1>5. /\ Len(d.todo) = Len(c.todo) - 1 /\ Len(c.todo) > 0
      /\ \A i \in 1 .. Len(d.todo) : d.todo[i] = c.todo[i + 1]
      /\ Len(d.todo) \in Nat /\ (d.todo = <<>> <=> Len(c.todo) = 1)
  <2>1. c.todo \in Seq(AccessName \cup Coordinate) /\ c.todo # <<>> /\ d.todo = Tail(c.todo)
    BY <1>1, <1>4
  <2> HIDE DEF c, d
  <2> QED BY <2>1, TailFacts
<1> HIDE DEF d
<1>6. call'[t] = d /\ Alone(t) /\ call' \in [Thread -> Call]
  BY <1>1, <1>3, <1>4 DEF Alone
<1>7. Steps(t)' = Steps(t) /\ OpOf(t)' = OpOf(t)
  BY <1>4, <1>6 DEF Steps, OpOf
<1>8. /\ Len(Steps(t)) \in Nat /\ Made(t) = Len(Steps(t)) - Len(c.todo)
      /\ Made(t)' = Len(Steps(t)) - Len(d.todo)
  BY <1>6, <1>7, StepsTypes DEF Made
<1>9. Made(t)' = Made(t) + 1
  BY <1>1, <1>5, <1>8
<1>10. d.todo = <<>> <=> Made(t) = Len(Steps(t)) - 1
  BY <1>1, <1>5, <1>8
<1>11. Rest(t) /\ TodoIsRest
  BY InvByThread DEF Good, Inv
<1>12. Rest(t)'
  <2>1. Len(d.todo) <= Len(Steps(t))
    BY <1>1, <1>5, <1>8, <1>11 DEF Rest
  <2>2. \A i \in 1 .. Len(d.todo) : d.todo[i] = Steps(t)[(Made(t) + 1) + i]
    <3> SUFFICES ASSUME NEW i \in 1 .. Len(d.todo) PROVE d.todo[i] = Steps(t)[(Made(t) + 1) + i]
      OBVIOUS
    <3>1. i + 1 \in 1 .. Len(c.todo) /\ Made(t) + (i + 1) = (Made(t) + 1) + i
      BY <1>1, <1>5, <1>8
    <3>2. c.todo[i + 1] = Steps(t)[Made(t) + (i + 1)]
      BY <1>11, <3>1 DEF Rest
    <3> QED BY <1>5, <3>1, <3>2
  <2> QED BY <1>6, <1>7, <1>9, <2>1, <2>2 DEF Rest
<1>13. /\ Made(t) \in 0 .. Len(Steps(t)) - 1
       /\ OpOf(t) \in Locking => /\ Made(t) = 0 <=> access = "lock"
                                 /\ Made(t) = Len(Steps(t)) - 1 <=> access = "unlock"
  BY <1>11, NextAccess, AccessCases
<1>14. Holds(t)' <=> OpOf(t) \in Locking /\ access # "unlock"
  BY <1>6, <1>7, <1>8, <1>9, <1>10, <1>13 DEF Holds, OpOf
<1>15. Holds(t) <=> OpOf(t) \in Locking /\ access # "lock"
  BY <1>1, <1>8, <1>13 DEF Holds, OpOf
<1> QED BY <1>4, <1>6, <1>7, <1>9, <1>10, <1>12, <1>14, <1>15

LEMMA ProgramEnds ==
    ASSUME NEW op \in Locking
    PROVE  /\ op # "none" /\ Len(Program(op)) \in Nat /\ Len(Program(op)) >= 2
           /\ Program(op)[Len(Program(op))] = "unlock"
<1>1. CASE op \in {"setNodeState", "setNodeHealthIndex"}
  <2>1. Program(op) = <<"lock", "store", "unlock">>
    BY <1>1, SetterProgram
  <2> QED BY <1>1, <2>1
<1>2. CASE op = "setNodePosition"
  BY <1>2, PositionProgram, CoordinateFacts
<1>3. CASE op = "snapshotNode"
  BY <1>3, SnapshotProgram, CoordinateFacts
<1> QED BY <1>1, <1>2, <1>3 DEF Locking

LEMMA ProgramTypes ==
    ASSUME NEW op \in Op \ {"none"}
    PROVE  Program(op) \in Seq(AccessName \cup Coordinate) /\ Len(Program(op)) \in Nat
<1>1. /\ Program("setNodeState") \in Seq(AccessName \cup Coordinate)
      /\ Program("setNodeHealthIndex") \in Seq(AccessName \cup Coordinate)
  <2>1. <<"lock", "store", "unlock">> \in Seq(AccessName \cup Coordinate)
    BY DEF AccessName
  <2> QED BY <2>1, SetterProgram
<1>2. Program("updateHealth") \in Seq(AccessName \cup Coordinate)
  <2>1. <<"loadState", "store">> \in Seq(AccessName \cup Coordinate)
    BY DEF AccessName
  <2> QED BY <2>1, UpdateProgram
<1>3. Program(op) \in Seq(AccessName \cup Coordinate)
  BY <1>1, <1>2, PositionProgram, SnapshotProgram, CopyProgram DEF Op, Locking
<1> HIDE DEF Program
<1> QED BY <1>3

LEMMA IdleIsCall == Idle \in Call /\ Nothing \in Reading
<1>1. Nothing \in Reading
  BY DEF Nothing, Node, Reading
<1>2. <<>> \in Seq(AccessName \cup Coordinate) /\ None \in Argument /\ "none" \in Op
  BY DEF Argument, Op
<1> QED BY <1>1, <1>2 DEF Idle, Call

LEMMA ThrowFacts ==
    ASSUME TypeOK, Inv, NEW t \in Thread, call[t].todo # <<>>, Throw(t)
    PROVE  /\ Alone(t) /\ call' \in [Thread -> Call]
           /\ OpOf(t)' = OpOf(t) /\ call'[t].argument = call[t].argument
           /\ call'[t].threw /\ call'[t].todo # <<"store">>
           /\ Rest(t)'
           /\ Holds(t)' <=> Holds(t)
<1>1. /\ call[t] \in Call /\ OpOf(t) \in Op /\ call \in [Thread -> Call]
      /\ Len(Steps(t)) \in Nat /\ OpOf(t) # "none" => Steps(t) = Program(OpOf(t))
  BY CallTypes, StepsTypes DEF TypeOK
<1> DEFINE c == call[t]
           q == AfterThrow(t)
           d == [c EXCEPT !.todo = q, !.threw = TRUE]
<1>2. /\ q \in Seq(AccessName \cup Coordinate) /\ q # <<"store">>
      /\ q = IF Holds(t) THEN <<"unlock">> ELSE <<>>
  <2>1. mutex = t <=> Holds(t)
    BY InvByThread DEF Good
  <2>2. <<"unlock">> \in Seq(AccessName \cup Coordinate) /\ <<"unlock">> # <<"store">>
    BY DEF AccessName
  <2>3. <<>> \in Seq(AccessName \cup Coordinate) /\ <<>> # <<"store">>
    OBVIOUS
  <2> QED BY <2>1, <2>2, <2>3 DEF AfterThrow
<1> HIDE DEF q
<1>3. call' = [call EXCEPT ![t] = d]
  BY <1>1 DEF Throw, q, Call
<1>4. d \in Call
  BY <1>1, <1>2 DEF Call
<1>5. d.op = c.op /\ d.argument = c.argument
  BY <1>1 DEF Call
<1>6. d.threw /\ d.todo = q
  BY <1>1 DEF Call
<1> HIDE DEF d
<1>7. call'[t] = d /\ Alone(t) /\ call' \in [Thread -> Call]
  BY <1>1, <1>3, <1>4 DEF Alone
<1>8. Steps(t)' = Steps(t) /\ OpOf(t)' = OpOf(t)
  BY <1>5, <1>7 DEF Steps, OpOf
<1>9. Made(t)' = Len(Steps(t)) - Len(q)
  BY <1>6, <1>7, <1>8 DEF Made
<1>10. CASE Holds(t)
  <2>1. OpOf(t) \in Locking /\ q = <<"unlock">>
    BY <1>2, <1>10 DEF Holds, OpOf
  <2>2. /\ Len(Steps(t)) >= 2 /\ Steps(t)[Len(Steps(t))] = "unlock"
    BY <1>1, <2>1, ProgramEnds
  <2>3. Len(q) = 1 /\ q # <<>> /\ q[1] = "unlock"
    BY <2>1
  <2>4. Holds(t)'
    <3>1. OpOf(t)' \in Locking /\ call'[t].todo # <<>>
      BY <1>6, <1>7, <1>8, <2>1, <2>3
    <3>2. Made(t)' > 0
      BY <1>1, <1>9, <2>2, <2>3
    <3> QED BY <3>1, <3>2 DEF Holds, OpOf
  <2>5. Made(t)' + 1 = Len(Steps(t))
    BY <1>1, <1>9, <2>3
  <2>6. Rest(t)'
    <3>1. Len(q) <= Len(Steps(t))
      BY <1>1, <2>2, <2>3
    <3>2. \A i \in 1 .. Len(q) : q[i] = Steps(t)[Made(t)' + i]
      BY <2>2, <2>3, <2>5
    <3> QED BY <1>6, <1>7, <1>8, <3>1, <3>2 DEF Rest
  <2> QED BY <1>2, <1>5, <1>6, <1>7, <1>8, <1>10, <2>4, <2>6
<1>11. CASE ~Holds(t)
  <2>1. q = <<>> /\ Len(q) = 0
    BY <1>2, <1>11
  <2>2. ~Holds(t)'
    BY <1>6, <1>7, <2>1 DEF Holds
  <2>3. Rest(t)'
    BY <1>1, <1>6, <1>7, <1>8, <2>1 DEF Rest
  <2> QED BY <1>2, <1>5, <1>6, <1>7, <1>8, <1>11, <2>2, <2>3
<1> QED BY <1>10, <1>11

-----------------------------------------------------------------------------
(* The steps. *)

LEMMA WholeStays ==
    ASSUME Inv, NEW t \in Thread, Alone(t), UNCHANGED position,
           OpOf(t)' = OpOf(t), Holds(t)' <=> Holds(t)
    PROVE  Whole'
<1>1. \A u \in Thread : (Holds(u)' <=> Holds(u)) /\ OpOf(u)' = OpOf(u)
  BY OthersStay
<1>2. Whole
  BY InvByThread
<1> QED BY <1>1, <1>2 DEF Whole, Uniform

LEMMA GoodIsInv ==
    ASSUME \A t \in Thread : Good(t)', Whole', UpdateRestoresStatus'
    PROVE  Inv'
<1>1. TodoIsRest'
  BY DEF TodoIsRest, Good, Rest
<1>2. LockIsHeld'
  BY DEF LockIsHeld, Good
<1>3. PositionIsWhole'
  BY DEF PositionIsWhole, Whole, Uniform, Good, Written, OpOf, Len0
<1>4. SnapshotSoFar'
  BY DEF SnapshotSoFar, SoFar, Good, OpOf, Len0
<1>5. SnapshotsAreInstants'
  BY DEF SnapshotsAreInstants, Instant, Good, OpOf
<1> QED BY <1>1, <1>2, <1>3, <1>4, <1>5 DEF Inv

(* A step of t that leaves t good and the position whole. *)
LEMMA StepKeeps ==
    ASSUME TypeOK, Inv, NEW t \in Thread, Alone(t), Watch, UNCHANGED bridgeVars,
           position' \in [Coordinate -> Place \cup {Invalid}],
           state' \in Value \cup {Invalid},
           healthIndex' \in (0 .. 1000) \cup {Invalid},
           mutex' \in Thread \cup {None},
           call' \in [Thread -> Call], calls' \in [Thread -> Nat], Fits(t)',
           UNCHANGED <<position, state>> \/ Holds(t),
           \A u \in Thread \ {t} : mutex' = u <=> mutex = u,
           Good(t)', Whole'
    PROVE  TypeOK' /\ Inv'
<1>1. TypeOK'
  BY StepTypes
<1>2. \A u \in Thread : Good(u)'
  BY OthersGood
<1>3. UpdateRestoresStatus'
  BY DEF Inv, UpdateRestoresStatus, bridgeVars
<1> QED BY <1>1, <1>2, <1>3, GoodIsInv

LEMMA LockKeeps ==
    ASSUME TypeOK, Inv, NEW t \in Thread, Lock(t), Watch, UNCHANGED <<calls, bridgeVars>>
    PROVE  TypeOK' /\ Inv'
<1>1. /\ Does(t, "lock") /\ mutex = None /\ mutex' = t /\ Proceed(t, call[t].read)
      /\ UNCHANGED <<position, state, healthIndex>> /\ call[t].read \in Reading
  BY CallTypes DEF Lock, nodeVars
<1>2. /\ Alone(t) /\ call' \in [Thread -> Call]
      /\ OpOf(t)' = OpOf(t) /\ call'[t].argument = call[t].argument
      /\ Steps(t)' = Steps(t) /\ Made(t)' = Made(t) + 1
      /\ Rest(t)' /\ (Holds(t)' <=> OpOf(t) \in Locking)
  BY <1>1, ProceedFacts
<1>3. OpOf(t) \in Locking /\ Made(t) = 0
  BY <1>1, AccessCases DEF Inv
<1>4. None \notin Thread
  BY AccessAssumption
<1>5. \A u \in Thread : ~Holds(u)
  BY <1>1, <1>4, InvByThread DEF Good
<1>6. Whole'
  BY <1>1, <1>5, InvByThread DEF Whole, Uniform
<1>7. Fits(t)'
  BY <1>2, <1>3, TypesByThread DEF Fits, Locking, OpOf
<1>8. Made(t)' = 1 /\ Holds(t)' /\ Len0 \in Nat
  BY <1>2, <1>3, CoordinateFacts
<1>9. Written(t)' /\ SoFar(t)'
  BY <1>8 DEF Written, SoFar
<1>10. Instant(t)'
  BY <1>8 DEF Instant, Holds
<1>11. Good(t)'
  BY <1>1, <1>2, <1>8, <1>9, <1>10 DEF Good
<1>12. /\ position' \in [Coordinate -> Place \cup {Invalid}]
       /\ state' \in Value \cup {Invalid}
       /\ healthIndex' \in (0 .. 1000) \cup {Invalid}
       /\ mutex' \in Thread \cup {None}
       /\ calls' \in [Thread -> Nat]
       /\ UNCHANGED <<position, state>>
  BY <1>1 DEF TypeOK
<1>13. \A u \in Thread \ {t} : mutex' = u <=> mutex = u
  BY <1>1, <1>4
<1>14. UNCHANGED bridgeVars
  OBVIOUS
<1> QED BY <1>2, <1>6, <1>7, <1>11, <1>12, <1>13, <1>14, StepKeeps

LEMMA UnlockKeeps ==
    ASSUME TypeOK, Inv, NEW t \in Thread, Unlock(t), Watch, UNCHANGED <<calls, bridgeVars>>
    PROVE  TypeOK' /\ Inv'
<1>1. /\ Does(t, "unlock") /\ mutex' = None /\ Proceed(t, call[t].read)
      /\ UNCHANGED <<position, state, healthIndex>> /\ call[t].read \in Reading
  BY CallTypes DEF Unlock, nodeVars
<1>2. /\ Alone(t) /\ call' \in [Thread -> Call]
      /\ OpOf(t)' = OpOf(t) /\ call'[t].argument = call[t].argument
      /\ call'[t].threw = call[t].threw /\ call'[t].read = call[t].read
      /\ Steps(t)' = Steps(t) /\ Made(t)' = Made(t) + 1
      /\ (call'[t].todo = <<>> <=> Made(t) = Len(Steps(t)) - 1)
      /\ Rest(t)' /\ ~Holds(t)'
      /\ (Holds(t) <=> OpOf(t) \in Locking)
  BY <1>1, ProceedFacts
<1>3. /\ OpOf(t) \in Locking /\ Made(t) = Len(Steps(t)) - 1 /\ Steps(t) = Program(OpOf(t))
  BY <1>1, AccessCases, NextAccess DEF Inv
<1>4. None \notin Thread
  BY AccessAssumption
<1>5. Good(t) /\ Holds(t) /\ Whole
  BY <1>2, <1>3, InvByThread
<1>6. /\ Len0 \in Nat
      /\ \A c \in Coordinate : \E i \in 1 .. Len0 : c = Coordinates[i]
  BY CoordinateFacts
<1>7. OpOf(t) = "setNodePosition" => Uniform
  <2> SUFFICES ASSUME OpOf(t) = "setNodePosition" PROVE Uniform
    OBVIOUS
  <2>1. Made(t) = Len0 + 1
    BY <1>3, <1>6, PositionProgram
  <2>2. \A i \in 1 .. Len0 : position[Coordinates[i]] = call[t].argument
    BY <1>5, <1>6, <2>1 DEF Good, Written
  <2> QED BY <1>6, <2>2 DEF Uniform
<1>8. Uniform
  BY <1>5, <1>7, OneHolds DEF Whole
<1>9. Whole'
  BY <1>1, <1>8 DEF Whole, Uniform
<1>10. Instant(t)'
  <2> SUFFICES ASSUME OpOf(t) = "snapshotNode", ~call[t].threw PROVE Instant(t)'
    BY <1>2 DEF Instant
  <2> DEFINE r == call[t].read
  <2>1. Made(t) = Len0 + 4
    BY <1>3, <1>6, SnapshotProgram
  <2>2. /\ \A c \in Coordinate : position[c] # Invalid
        /\ Invalid \notin {r.state, r.healthIndex}
        /\ Node(position, r.state, r.healthIndex) \in seen[t]
        /\ \A i \in 1 .. Len0 : r.position[Coordinates[i]] = position[Coordinates[i]]
    BY <1>5, <1>6, <2>1 DEF Good, SoFar
  <2>3. /\ r \in Reading /\ position \in [Coordinate -> Place \cup {Invalid}]
    BY <1>1 DEF TypeOK
  <2>4. r.position = position
    <3>1. \A c \in Coordinate : r.position[c] = position[c]
      BY <1>6, <2>2
    <3>2. r.position \in [Coordinate -> Place \cup {Invalid, None}]
      BY <2>3 DEF Reading
    <3> QED BY <2>3, <3>1, <3>2
  <2>5. r = Node(position, r.state, r.healthIndex)
    BY <2>3, <2>4 DEF Reading, Node
  <2>6. seen[t] \subseteq seen'[t]
    BY <1>2, SeenGrows
  <2> HIDE DEF r
  <2>7. /\ r \in seen'[t]
        /\ \A c, d \in Coordinate : r.position[c] = r.position[d]
        /\ \A c \in Coordinate : r.position[c] # Invalid
    BY <1>8, <2>2, <2>4, <2>5, <2>6 DEF Uniform
  <2>8. call'[t].read = r
    BY <1>2 DEF r
  <2> QED BY <2>2, <2>7, <2>8 DEF Instant
<1>11. Fits(t)'
  BY <1>2, <1>3, TypesByThread DEF Fits, Locking, OpOf
<1>12. Good(t)'
  BY <1>1, <1>2, <1>4, <1>10 DEF Good, Written, SoFar
<1>13. \A u \in Thread \ {t} : mutex' = u <=> mutex = u
  BY <1>1, <1>4, <1>5 DEF Good
<1>14. /\ position' \in [Coordinate -> Place \cup {Invalid}]
       /\ state' \in Value \cup {Invalid}
       /\ healthIndex' \in (0 .. 1000) \cup {Invalid}
       /\ mutex' \in Thread \cup {None}
       /\ calls' \in [Thread -> Nat]
  BY <1>1 DEF TypeOK
<1>15. UNCHANGED bridgeVars /\ UNCHANGED <<position, state>>
  BY <1>1
<1> QED BY <1>2, <1>9, <1>11, <1>12, <1>13, <1>14, <1>15, StepKeeps

(* The types when nothing but the call, and nothing of the node, changes. *)
LEMMA NodeTypes ==
    ASSUME TypeOK, UNCHANGED <<nodeVars, mutex>>
    PROVE  /\ position' \in [Coordinate -> Place \cup {Invalid}]
           /\ state' \in Value \cup {Invalid}
           /\ healthIndex' \in (0 .. 1000) \cup {Invalid}
           /\ mutex' \in Thread \cup {None}
           /\ position' = position /\ state' = state /\ healthIndex' = healthIndex
           /\ mutex' = mutex
BY DEF TypeOK, nodeVars

(* A step of t between two accesses that change the node, or the first that *)
(* t makes, or its return.                                                 *)
LEMMA QuietKeeps ==
    ASSUME TypeOK, Inv, NEW t \in Thread, Alone(t), Watch,
           UNCHANGED <<nodeVars, mutex>>, UNCHANGED bridgeVars,
           call' \in [Thread -> Call], calls' \in [Thread -> Nat],
           Holds(t)' <=> Holds(t), Holds(t) => OpOf(t)' = OpOf(t),
           Fits(t)', Rest(t)', Written(t)', SoFar(t)', Instant(t)'
    PROVE  TypeOK' /\ Inv'
<1>1. /\ position' \in [Coordinate -> Place \cup {Invalid}]
      /\ state' \in Value \cup {Invalid}
      /\ healthIndex' \in (0 .. 1000) \cup {Invalid}
      /\ mutex' \in Thread \cup {None}
      /\ position' = position /\ state' = state /\ mutex' = mutex
  BY NodeTypes
<1>2. (mutex = t <=> Holds(t)) /\ Whole
  BY InvByThread DEF Good
<1>3. Good(t)'
  BY <1>1, <1>2 DEF Good
<1>4. Whole'
  <2>1. \A u \in Thread : (Holds(u)' <=> Holds(u)) /\ (Holds(u) => OpOf(u)' = OpOf(u))
    BY OthersStay
  <2> QED BY <1>1, <1>2, <2>1 DEF Whole, Uniform
<1>5. UNCHANGED <<position, state>> /\ \A u \in Thread \ {t} : mutex' = u <=> mutex = u
  BY <1>1
<1> QED BY <1>1, <1>3, <1>4, <1>5, StepKeeps

LEMMA ReadKeeps ==
    ASSUME TypeOK, Inv, NEW t \in Thread, NEW c \in Coordinate,
           Read(t, c), Watch, UNCHANGED <<calls, bridgeVars>>
    PROVE  TypeOK' /\ Inv'
<1> DEFINE old == call[t].read
           new == [old EXCEPT !.position[c] = position[c]]
<1>1. /\ Does(t, c) /\ OpOf(t) # "setNodePosition" /\ Proceed(t, new)
      /\ UNCHANGED <<nodeVars, mutex>> /\ UNCHANGED bridgeVars
      /\ calls' \in [Thread -> Nat]
  BY DEF Read, OpOf, TypeOK
<1>2. old \in Reading /\ position[c] \in Place \cup {Invalid, None}
  BY CallTypes DEF TypeOK
<1> HIDE DEF old
<1>3. /\ new \in Reading /\ new.state = old.state /\ new.healthIndex = old.healthIndex
      /\ new.position = [old.position EXCEPT ![c] = position[c]]
  BY <1>2 DEF Reading
<1>4. old.position \in [Coordinate -> Place \cup {Invalid, None}]
  BY <1>2 DEF Reading
<1>5. \A d \in Coordinate : new.position[d] = IF d = c THEN position[c] ELSE old.position[d]
  BY <1>3, <1>4
<1> HIDE DEF new
<1>6. /\ Alone(t) /\ call' \in [Thread -> Call]
      /\ OpOf(t)' = OpOf(t) /\ call'[t].argument = call[t].argument
      /\ call'[t].threw = call[t].threw /\ call'[t].read = new
      /\ Steps(t)' = Steps(t) /\ Made(t)' = Made(t) + 1
      /\ Rest(t)'
      /\ (Holds(t)' <=> OpOf(t) \in Locking /\ c # "unlock")
      /\ (Holds(t) <=> OpOf(t) \in Locking /\ c # "lock")
  BY <1>1, <1>3, ProceedFacts
<1>7. c # "lock" /\ c # "unlock" /\ Len0 \in Nat /\ \A i \in 1 .. Len0 : Coordinates[i] \in Coordinate
  BY CoordinateFacts DEF AccessName
<1>8. \/ OpOf(t) = "snapshotNode" /\ Made(t) \in 4 .. Len0 + 3 /\ c = Coordinates[Made(t) - 3]
      \/ OpOf(t) = "copy"
  BY <1>1, AccessCases DEF Inv
<1>9. position' = position /\ state' = state /\ healthIndex' = healthIndex
  BY <1>1, NodeTypes
<1>10. Fits(t)'
  BY <1>6, <1>8 DEF Fits
<1>11. Written(t)'
  BY <1>6, <1>8 DEF Written
<1>12. Instant(t)'
  BY <1>6, <1>7, <1>8 DEF Instant, Holds, Locking
<1>13. CASE OpOf(t) = "copy"
  <2>1. SoFar(t)'
    BY <1>6, <1>13 DEF SoFar
  <2> QED BY <1>1, <1>6, <1>7, <1>10, <1>11, <1>12, <2>1, QuietKeeps
<1>14. CASE OpOf(t) = "snapshotNode"
  <2>1. Made(t) \in 4 .. Len0 + 3 /\ c = Coordinates[Made(t) - 3] /\ Holds(t) /\ Holds(t)'
    BY <1>6, <1>7, <1>8, <1>14 DEF Locking
  <2>2. seen[t] \subseteq seen'[t]
    BY <1>6, <1>14, SeenGrows
  <2>3. SoFar(t)
    BY InvByThread DEF Good
  <2>4. SoFar(t)'
    <3> SUFFICES ASSUME ~call[t].threw PROVE SoFar(t)'
      BY <1>6 DEF SoFar
    <3>1. /\ \A d \in Coordinate : position[d] # Invalid
          /\ old.state = state
          /\ Invalid \notin {old.state, old.healthIndex}
          /\ Node(position, old.state, old.healthIndex) \in seen[t]
      BY <1>14, <2>1, <2>3 DEF SoFar, old
    <3>2. \A i \in 1 .. Len0 : i <= Made(t) - 4 =>
              old.position[Coordinates[i]] = position[Coordinates[i]]
      BY <1>14, <2>1, <2>3 DEF SoFar, old
    <3>3. \A i \in 1 .. Len0 : i <= Made(t)' - 4 =>
              new.position[Coordinates[i]] = position[Coordinates[i]]
      <4> SUFFICES ASSUME NEW i \in 1 .. Len0, i <= Made(t)' - 4
                   PROVE  new.position[Coordinates[i]] = position[Coordinates[i]]
        OBVIOUS
      <4>1. i <= Made(t) - 4 \/ i = Made(t) - 3
        BY <1>6, <2>1
      <4> QED BY <1>5, <1>7, <2>1, <3>2, <4>1
    <3>4. Node(position', new.state, new.healthIndex) \in seen'[t]
      BY <1>3, <1>9, <2>2, <3>1
    <3> QED BY <1>3, <1>6, <1>9, <3>1, <3>3, <3>4 DEF SoFar, Node
  <2> QED BY <1>1, <1>6, <1>7, <1>10, <1>11, <1>12, <2>1, <2>4, QuietKeeps
<1> QED BY <1>8, <1>13, <1>14

LEMMA ValidateKeeps ==
    ASSUME TypeOK, Inv, NEW t \in Thread, Validate(t), Watch, UNCHANGED <<calls, bridgeVars>>
    PROVE  TypeOK' /\ Inv'
<1>1. /\ Does(t, "validate") /\ UNCHANGED <<nodeVars, mutex>> /\ UNCHANGED bridgeVars
      /\ calls' \in [Thread -> Nat] /\ call[t].read \in Reading /\ call[t].todo # <<>>
      /\ position' = position
  BY CallTypes, NodeTypes DEF Validate, TypeOK, Does
<1>2. OpOf(t) = "snapshotNode" /\ Made(t) = 1
  BY <1>1, AccessCases DEF Inv
<1>3. CASE Throw(t)
  <2>1. /\ Alone(t) /\ call' \in [Thread -> Call]
        /\ OpOf(t)' = OpOf(t) /\ call'[t].threw /\ Rest(t)' /\ (Holds(t)' <=> Holds(t))
    BY <1>1, <1>3, ThrowFacts
  <2>2. Fits(t)' /\ Written(t)' /\ SoFar(t)' /\ Instant(t)'
    BY <1>2, <2>1 DEF Fits, Written, SoFar, Instant
  <2> QED BY <1>1, <2>1, <2>2, QuietKeeps
<1>4. CASE Proceed(t, call[t].read) /\ ~\E c \in Coordinate : position[c] = Invalid
  <2>1. /\ Alone(t) /\ call' \in [Thread -> Call]
        /\ OpOf(t)' = OpOf(t) /\ Made(t)' = Made(t) + 1 /\ Rest(t)'
        /\ Holds(t)' /\ Holds(t)
    BY <1>1, <1>2, <1>4, ProceedFacts DEF Locking
  <2>2. Fits(t)' /\ Written(t)'
    BY <1>2, <2>1 DEF Fits, Written
  <2>3. Instant(t)'
    BY <2>1 DEF Instant, Holds
  <2>4. Made(t)' = 2 /\ Len0 \in Nat /\ \A c \in Coordinate : position'[c] # Invalid
    BY <1>1, <1>2, <1>4, <2>1, CoordinateFacts
  <2>5. SoFar(t)'
    BY <2>4 DEF SoFar
  <2> QED BY <1>1, <2>1, <2>2, <2>3, <2>5, QuietKeeps
<1> QED BY <1>3, <1>4 DEF Validate

LEMMA LoadStateKeeps ==
    ASSUME TypeOK, Inv, NEW t \in Thread, LoadState(t), Watch, UNCHANGED <<calls, bridgeVars>>
    PROVE  TypeOK' /\ Inv'
<1> DEFINE old == call[t].read
           new == [old EXCEPT !.state = state]
<1>1. /\ Does(t, "loadState") /\ UNCHANGED <<nodeVars, mutex>> /\ UNCHANGED bridgeVars
      /\ calls' \in [Thread -> Nat] /\ old \in Reading /\ call[t].todo # <<>>
      /\ position' = position /\ state' = state /\ healthIndex' = healthIndex
      /\ state \in Value \cup {Invalid}
  BY CallTypes, NodeTypes DEF LoadState, TypeOK, Does
<1>2. \/ OpOf(t) = "snapshotNode" /\ Made(t) = 2
      \/ OpOf(t) = "updateHealth" /\ Made(t) = 0
      \/ OpOf(t) = "copy"
  BY <1>1, AccessCases DEF Inv
<1>3. CASE OpOf(t) = "updateHealth" /\ Throw(t)
  <2>1. /\ Alone(t) /\ call' \in [Thread -> Call]
        /\ OpOf(t)' = OpOf(t) /\ Rest(t)' /\ (Holds(t)' <=> Holds(t))
        /\ call'[t].todo # <<"store">>
    BY <1>1, <1>3, ThrowFacts
  <2>2. Fits(t)' /\ Written(t)' /\ SoFar(t)' /\ Instant(t)'
    BY <1>3, <2>1 DEF Fits, Written, SoFar, Instant
  <2> QED BY <1>1, <2>1, <2>2, QuietKeeps
<1>4. CASE ~(OpOf(t) = "updateHealth" /\ state = Invalid) /\ Proceed(t, new)
  <2>1. new \in Reading /\ new.state = state
    <3>1. PICK x \in Value \cup {Invalid, None} : x = state
      BY <1>1
    <3>2. PICK r \in Reading : r = old
      BY <1>1
    <3>3. [r EXCEPT !.state = x] \in Reading /\ [r EXCEPT !.state = x].state = x
      BY DEF Reading
    <3> QED BY <3>1, <3>2, <3>3
  <2> HIDE DEF old
  <2> HIDE DEF new
  <2>2. /\ Alone(t) /\ call' \in [Thread -> Call]
        /\ OpOf(t)' = OpOf(t) /\ Made(t)' = Made(t) + 1 /\ Rest(t)'
        /\ call'[t].read = new
        /\ (Holds(t)' <=> OpOf(t) \in Locking)
        /\ (Holds(t) <=> OpOf(t) \in Locking)
    BY <1>1, <1>4, <2>1, ProceedFacts
  <2>3. Written(t)'
    BY <1>2, <2>2 DEF Written
  <2>4. Fits(t)'
    BY <1>1, <1>2, <1>4, <2>1, <2>2 DEF Fits
  <2>5. Instant(t)'
    BY <2>2 DEF Instant, Holds, Locking
  <2>6. CASE OpOf(t) = "snapshotNode"
    <3>1. Made(t) = 2 /\ Made(t)' = 3 /\ Holds(t) /\ Len0 \in Nat
      BY <1>2, <2>2, <2>6, CoordinateFacts DEF Locking
    <3>2. SoFar(t)
      BY InvByThread DEF Good
    <3>3. call'[t].threw = call[t].threw
      BY <1>1, <1>4, <2>1, ProceedFacts
    <3>4. SoFar(t)'
      BY <1>1, <2>1, <2>2, <2>6, <3>1, <3>2, <3>3 DEF SoFar
    <3> QED BY <1>1, <2>2, <2>3, <2>4, <2>5, <3>4, QuietKeeps
  <2>7. CASE OpOf(t) # "snapshotNode"
    <3>1. SoFar(t)'
      BY <2>2, <2>7 DEF SoFar
    <3> QED BY <1>1, <2>2, <2>3, <2>4, <2>5, <3>1, QuietKeeps
  <2> QED BY <2>6, <2>7
<1> QED BY <1>3, <1>4 DEF LoadState, OpOf

LEMMA LoadHealthKeeps ==
    ASSUME TypeOK, Inv, NEW t \in Thread, LoadHealth(t), Watch, UNCHANGED <<calls, bridgeVars>>
    PROVE  TypeOK' /\ Inv'
<1> DEFINE old == call[t].read
           new == [old EXCEPT !.healthIndex = healthIndex]
<1>1. /\ Does(t, "loadHealth") /\ UNCHANGED <<nodeVars, mutex>> /\ UNCHANGED bridgeVars
      /\ calls' \in [Thread -> Nat] /\ old \in Reading /\ call[t].todo # <<>>
      /\ position' = position /\ state' = state /\ healthIndex' = healthIndex
      /\ healthIndex \in (0 .. 1000) \cup {Invalid}
  BY CallTypes, NodeTypes DEF LoadHealth, TypeOK, Does
<1>2. \/ OpOf(t) = "snapshotNode" /\ Made(t) = 3
      \/ OpOf(t) = "copy"
  BY <1>1, AccessCases DEF Inv
<1>3. CASE OpOf(t) = "snapshotNode" /\ Throw(t)
  <2>1. /\ Alone(t) /\ call' \in [Thread -> Call]
        /\ OpOf(t)' = OpOf(t) /\ call'[t].threw /\ Rest(t)' /\ (Holds(t)' <=> Holds(t))
    BY <1>1, <1>3, ThrowFacts
  <2>2. Fits(t)' /\ Written(t)' /\ SoFar(t)' /\ Instant(t)'
    BY <1>3, <2>1 DEF Fits, Written, SoFar, Instant
  <2> QED BY <1>1, <2>1, <2>2, QuietKeeps
<1>4. CASE /\ ~(OpOf(t) = "snapshotNode" /\ Invalid \in {old.state, healthIndex})
           /\ Proceed(t, new)
  <2>1. new \in Reading /\ new.state = old.state /\ new.healthIndex = healthIndex
    <3>1. PICK x \in (0 .. 1000) \cup {Invalid, None} : x = healthIndex
      BY <1>1
    <3>2. PICK r \in Reading : r = old
      BY <1>1
    <3>3. /\ [r EXCEPT !.healthIndex = x] \in Reading
          /\ [r EXCEPT !.healthIndex = x].healthIndex = x
          /\ [r EXCEPT !.healthIndex = x].state = r.state
      BY DEF Reading
    <3> QED BY <3>1, <3>2, <3>3
  <2> HIDE DEF new
  <2>2. /\ Alone(t) /\ call' \in [Thread -> Call]
        /\ OpOf(t)' = OpOf(t) /\ Made(t)' = Made(t) + 1 /\ Rest(t)'
        /\ call'[t].read = new /\ call'[t].threw = call[t].threw
        /\ (Holds(t)' <=> OpOf(t) \in Locking)
        /\ (Holds(t) <=> OpOf(t) \in Locking)
    BY <1>1, <1>4, <2>1, ProceedFacts
  <2>3. Written(t)' /\ Fits(t)'
    BY <1>2, <2>2 DEF Written, Fits
  <2>4. Instant(t)'
    BY <2>2 DEF Instant, Holds, Locking
  <2>5. CASE OpOf(t) = "snapshotNode"
    <3>1. Made(t) = 3 /\ Made(t)' = 4 /\ Holds(t) /\ Len0 \in Nat
      BY <1>2, <2>2, <2>5, CoordinateFacts DEF Locking
    <3>2. SoFar(t)
      BY InvByThread DEF Good
    <3>3. SoFar(t)'
      <4> SUFFICES ASSUME ~call[t].threw PROVE SoFar(t)'
        BY <2>2 DEF SoFar
      <4>1. old.state = state /\ \A c \in Coordinate : position[c] # Invalid
        BY <2>5, <3>1, <3>2 DEF SoFar
      <4> HIDE DEF old
      <4>2. new.state = state' /\ new.healthIndex = healthIndex'
        BY <1>1, <2>1, <4>1
      <4>3. Invalid \notin {new.state, new.healthIndex}
        BY <1>4, <2>1, <2>5
      <4>4. Node(position', new.state, new.healthIndex) \in seen'[t]
        BY <2>2, <2>5, <4>2, SeenGrows
      <4> QED BY <1>1, <2>2, <3>1, <4>1, <4>2, <4>3, <4>4 DEF SoFar, Node
    <3> QED BY <1>1, <2>2, <2>3, <2>4, <3>3, QuietKeeps
  <2>6. CASE OpOf(t) # "snapshotNode"
    <3>1. SoFar(t)'
      BY <2>2, <2>6 DEF SoFar
    <3> QED BY <1>1, <2>2, <2>3, <2>4, <3>1, QuietKeeps
  <2> QED BY <2>5, <2>6
<1> QED BY <1>3, <1>4 DEF LoadHealth, OpOf

LEMMA StoreKeeps ==
    ASSUME TypeOK, Inv, NEW t \in Thread, Store(t), Watch, UNCHANGED <<calls, bridgeVars>>
    PROVE  TypeOK' /\ Inv'
<1>1. /\ Does(t, "store") /\ Proceed(t, call[t].read) /\ call[t].read \in Reading
      /\ UNCHANGED bridgeVars /\ calls' \in [Thread -> Nat]
      /\ position' = position /\ mutex' = mutex
      /\ position' \in [Coordinate -> Place \cup {Invalid}] /\ mutex' \in Thread \cup {None}
      /\ call[t] \in Call
  BY CallTypes DEF Store, TypeOK
<1>2. \/ OpOf(t) \in {"setNodeState", "setNodeHealthIndex"} /\ Made(t) = 1
      \/ OpOf(t) = "updateHealth" /\ Made(t) = 1
  BY <1>1, AccessCases DEF Inv
<1>3. /\ Alone(t) /\ call' \in [Thread -> Call]
      /\ OpOf(t)' = OpOf(t) /\ call'[t].argument = call[t].argument
      /\ Made(t)' = Made(t) + 1 /\ Rest(t)'
      /\ (call'[t].todo = <<>> <=> Made(t) = Len(Steps(t)) - 1)
      /\ (Holds(t)' <=> OpOf(t) \in Locking)
      /\ (Holds(t) <=> OpOf(t) \in Locking)
  BY <1>1, ProceedFacts
<1>4. Good(t) /\ Whole /\ Fits(t)
  BY InvByThread, TypesByThread
<1>5. Written(t)' /\ SoFar(t)' /\ Instant(t)'
  BY <1>2, <1>3 DEF Written, SoFar, Instant
<1>6. Good(t)'
  BY <1>1, <1>3, <1>4, <1>5 DEF Good
<1>7. Whole'
  BY <1>1, <1>3, WholeStays
<1>8. \A u \in Thread \ {t} : mutex' = u <=> mutex = u
  BY <1>1
<1>9. CASE OpOf(t) = "setNodeState"
  <2>1. /\ state' \in Value \cup {Invalid} /\ healthIndex' \in (0 .. 1000) \cup {Invalid}
    BY <1>4, <1>9 DEF Store, OpOf, Fits, TypeOK
  <2>2. Fits(t)'
    BY <1>3, <1>4, <1>9 DEF Fits
  <2>3. Holds(t)
    BY <1>3, <1>9 DEF Locking
  <2> QED BY <1>1, <1>3, <1>6, <1>7, <1>8, <2>1, <2>2, <2>3, StepKeeps
<1>10. CASE OpOf(t) = "setNodeHealthIndex"
  <2>1. /\ state' \in Value \cup {Invalid} /\ healthIndex' \in (0 .. 1000) \cup {Invalid}
    BY <1>4, <1>10 DEF Store, OpOf, Fits, TypeOK
  <2>2. Fits(t)'
    BY <1>3, <1>4, <1>10 DEF Fits
  <2>3. Holds(t)
    BY <1>3, <1>10 DEF Locking
  <2> QED BY <1>1, <1>3, <1>6, <1>7, <1>8, <2>1, <2>2, <2>3, StepKeeps
<1>11. CASE OpOf(t) = "updateHealth"
  <2>1. /\ Steps(t) = <<"loadState", "store">> /\ Made(t) = 1
    BY <1>1, <1>2, <1>11, NextAccess, UpdateProgram DEF Inv
  <2>2. call[t].todo = <<"store">>
    <3>1. Len(Steps(t)) = 2
      BY <2>1
    <3>2. Len(call[t].todo) = 1
      <4>1. Made(t) = Len(Steps(t)) - Len(call[t].todo) /\ Len(call[t].todo) \in Nat
        BY StepsTypes, CallTypes
      <4>2. Made(t) = 1
        BY <2>1
      <4>3. PICK n \in Nat : n = Len(call[t].todo)
        BY <4>1
      <4>4. 1 = 2 - n
        BY <3>1, <4>1, <4>2, <4>3
      <4>5. n = 1
        BY <4>4
      <4> QED BY <4>3, <4>5
    <3>3. call[t].todo \in Seq(AccessName \cup Coordinate) /\ Head(call[t].todo) = "store"
      BY <1>1, CallTypes DEF Does
    <3>4. PICK q \in Seq(AccessName \cup Coordinate) : q = call[t].todo
      BY <3>3
    <3>5. Len(q) = 1 /\ q[1] = "store"
      BY <3>2, <3>3, <3>4
    <3>6. q = <<"store">>
      BY <3>5
    <3> QED BY <3>4, <3>6
  <2>3. call[t].read.state \in Value
    BY <1>4, <1>11, <2>2 DEF Fits
  <2>4. /\ state' = state
        /\ healthIndex' = HealthOf[call[t].read.state]
    BY <1>11 DEF Store, OpOf
  <2>5. /\ state' \in Value \cup {Invalid} /\ healthIndex' \in (0 .. 1000) \cup {Invalid}
    <3>1. HealthOf[call[t].read.state] \in 0 .. 1000
      BY <2>3, HealthRange, Zenon
    <3> QED BY <2>4, <3>1 DEF TypeOK
  <2>6. call'[t].todo = <<>>
    BY <1>3, <2>1
  <2>7. Fits(t)'
    BY <1>3, <1>11, <2>6 DEF Fits
  <2>8. UNCHANGED <<position, state>>
    BY <1>1, <2>4
  <2> QED BY <1>1, <1>3, <1>6, <1>7, <1>8, <2>5, <2>7, <2>8, StepKeeps
<1> QED BY <1>2, <1>9, <1>10, <1>11

LEMMA WriteKeeps ==
    ASSUME TypeOK, Inv, NEW t \in Thread, NEW c \in Coordinate,
           Write(t, c), Watch, UNCHANGED <<calls, bridgeVars>>
    PROVE  TypeOK' /\ Inv'
<1>1. /\ Does(t, c) /\ OpOf(t) = "setNodePosition" /\ Proceed(t, call[t].read)
      /\ call[t].read \in Reading /\ UNCHANGED bridgeVars /\ calls' \in [Thread -> Nat]
      /\ mutex' = mutex /\ state' = state /\ healthIndex' = healthIndex
      /\ position' = [position EXCEPT ![c] = call[t].argument]
  BY CallTypes DEF Write, OpOf, TypeOK
<1>2. /\ mutex' \in Thread \cup {None} /\ state' \in Value \cup {Invalid}
      /\ healthIndex' \in (0 .. 1000) \cup {Invalid}
      /\ position \in [Coordinate -> Place \cup {Invalid}]
  BY <1>1 DEF TypeOK
<1>3. Good(t) /\ Fits(t)
  BY InvByThread, TypesByThread
<1>4. call[t].argument \in Place
  BY <1>1, <1>3 DEF Fits
<1>5. /\ position' \in [Coordinate -> Place \cup {Invalid}]
      /\ \A d \in Coordinate : position'[d] = IF d = c THEN call[t].argument ELSE position[d]
  BY <1>1, <1>2, <1>4
<1>6. c # "lock" /\ c # "unlock" /\ Len0 \in Nat /\ \A i \in 1 .. Len0 : Coordinates[i] \in Coordinate
  BY CoordinateFacts DEF AccessName
<1>7. /\ Alone(t) /\ call' \in [Thread -> Call]
      /\ OpOf(t)' = OpOf(t) /\ call'[t].argument = call[t].argument
      /\ Made(t)' = Made(t) + 1 /\ Rest(t)'
      /\ Holds(t)' /\ Holds(t)
  BY <1>1, <1>6, ProceedFacts DEF Locking
<1>8. Made(t) \in 1 .. Len0 /\ c = Coordinates[Made(t)]
  BY <1>1, AccessCases DEF Inv
<1>9. Written(t)'
  <2> SUFFICES ASSUME NEW i \in 1 .. Len0, i < Made(t)'
               PROVE  position'[Coordinates[i]] = call[t].argument
    BY <1>7 DEF Written
  <2>1. i < Made(t) \/ i = Made(t)
    BY <1>7, <1>8
  <2>2. i < Made(t) => position[Coordinates[i]] = call[t].argument
    BY <1>1, <1>3, <1>7 DEF Good, Written
  <2> QED BY <1>5, <1>6, <1>8, <2>1, <2>2
<1>10. SoFar(t)' /\ Instant(t)' /\ Fits(t)'
  BY <1>1, <1>4, <1>7 DEF SoFar, Instant, Fits
<1>11. Good(t)'
  BY <1>1, <1>3, <1>7, <1>9, <1>10 DEF Good
<1>12. Whole'
  BY <1>1, <1>7 DEF Whole
<1>13. \A u \in Thread \ {t} : mutex' = u <=> mutex = u
  BY <1>1
<1> QED BY <1>1, <1>2, <1>5, <1>7, <1>10, <1>11, <1>12, <1>13, StepKeeps

LEMMA ReturnKeeps ==
    ASSUME TypeOK, Inv, NEW t \in Thread, Return(t), Watch, UNCHANGED <<calls, bridgeVars>>
    PROVE  TypeOK' /\ Inv'
<1>1. /\ call[t].todo = <<>> /\ call' = [call EXCEPT ![t] = Idle]
      /\ UNCHANGED <<nodeVars, mutex>> /\ UNCHANGED bridgeVars
      /\ calls' \in [Thread -> Nat] /\ call \in [Thread -> Call]
  BY DEF Return, TypeOK
<1>2. Idle \in Call
  BY IdleIsCall
<1>3. call'[t] = Idle /\ Alone(t) /\ call' \in [Thread -> Call]
  BY <1>1, <1>2 DEF Alone
<1>4. ~Holds(t)
  BY <1>1 DEF Holds
<1>5. OpOf(t)' = "none" /\ call'[t].todo = <<>> /\ Len(call'[t].todo) = 0
  BY <1>3 DEF OpOf, Idle
<1>6. ~Holds(t)' /\ Fits(t)' /\ Written(t)' /\ SoFar(t)' /\ Instant(t)'
  BY <1>5 DEF Holds, Fits, Written, SoFar, Instant
<1>7. Rest(t)'
  <2>1. Steps(t)' = <<>>
    BY <1>5 DEF Steps, OpOf
  <2> QED BY <1>5, <2>1 DEF Rest
<1> QED BY <1>1, <1>3, <1>4, <1>6, <1>7, QuietKeeps

(* A call begins. *)
LEMMA BeginKeeps ==
    ASSUME TypeOK, Inv, NEW t \in Thread, NEW op \in Op \ {"none"}, NEW argument \in Argument,
           Begin(t, op, argument), Watch, UNCHANGED bridgeVars,
           op = "setNodeState"       => argument \in Value,
           op = "setNodeHealthIndex" => argument \in 0 .. 1000,
           op = "setNodePosition"    => argument \in Place
    PROVE  TypeOK' /\ Inv'
<1> DEFINE d == [op |-> op, argument |-> argument, todo |-> Program(op),
                 read |-> Nothing, threw |-> FALSE]
<1>1. /\ call[t] = Idle /\ call' = [call EXCEPT ![t] = d]
      /\ calls' = [calls EXCEPT ![t] = @ + 1]
      /\ UNCHANGED <<nodeVars, mutex>> /\ call \in [Thread -> Call]
      /\ calls \in [Thread -> Nat]
  BY DEF Begin, TypeOK
<1>2. Program(op) \in Seq(AccessName \cup Coordinate) /\ Len(Program(op)) \in Nat
  BY ProgramTypes
<1>3. d \in Call
  <2>1. PICK p \in Seq(AccessName \cup Coordinate) : p = Program(op)
    BY <1>2
  <2>2. Nothing \in Reading
    BY IdleIsCall
  <2>3. [op |-> op, argument |-> argument, todo |-> p, read |-> Nothing, threw |-> FALSE] \in Call
    BY <2>2 DEF Call
  <2> QED BY <2>1, <2>3
<1>4. d.op = op /\ d.argument = argument /\ d.todo = Program(op) /\ d.threw = FALSE
  OBVIOUS
<1> HIDE DEF d
<1>5. call'[t] = d /\ Alone(t) /\ call' \in [Thread -> Call]
  BY <1>1, <1>3 DEF Alone
<1>6. calls' \in [Thread -> Nat]
  BY <1>1
<1>7. OpOf(t)' = op /\ Steps(t)' = Program(op) /\ call'[t].todo = Program(op)
  BY <1>4, <1>5 DEF OpOf, Steps
<1>8. Made(t)' = 0
  BY <1>2, <1>7 DEF Made
<1>9. ~Holds(t)' /\ ~Holds(t)
  <2>1. call[t].todo = <<>>
    BY <1>1 DEF Idle
  <2> QED BY <1>8, <2>1 DEF Holds
<1>10. Rest(t)'
  <2>1. \A i \in 1 .. Len(Program(op)) : Program(op)[i] = Program(op)[0 + i]
    OBVIOUS
  <2> QED BY <1>2, <1>7, <1>8, <2>1 DEF Rest
<1>11. Written(t)' /\ SoFar(t)'
  BY <1>9 DEF Written, SoFar
<1>12. Instant(t)'
  <2> SUFFICES ASSUME op = "snapshotNode" PROVE Program(op) # <<>>
    BY <1>7 DEF Instant
  <2>1. Len(Program(op)) >= 2
    BY ProgramEnds DEF Locking
  <2> QED BY <2>1
<1>13. Fits(t)'
  <2>1. op = "updateHealth" => Program(op) # <<"store">>
    <3>1. <<"loadState", "store">> # <<"store">>
      OBVIOUS
    <3> QED BY <3>1, UpdateProgram
  <2> QED BY <1>4, <1>5, <1>7, <2>1 DEF Fits
<1> QED BY <1>1, <1>5, <1>6, <1>9, <1>10, <1>11, <1>12, <1>13, QuietKeeps

LEMMA CallsKeep ==
    ASSUME TypeOK, Inv, NEW t \in Thread, Calls(t), Watch, UNCHANGED bridgeVars
    PROVE  TypeOK' /\ Inv'
<1>1. CASE \E v \in Value : Begin(t, "setNodeState", v)
  <2>1. PICK v \in Value : Begin(t, "setNodeState", v)
    BY <1>1
  <2>2. v \in Argument /\ "setNodeState" \in Op \ {"none"}
    BY DEF Argument, Op, Locking
  <2> QED BY <2>1, <2>2, BeginKeeps
<1>2. CASE \E h \in {HealthOf[v] : v \in Value} : Begin(t, "setNodeHealthIndex", h)
  <2>1. PICK v \in Value : Begin(t, "setNodeHealthIndex", HealthOf[v])
    BY <1>2
  <2>2. PICK h \in 0 .. 1000 : h = HealthOf[v]
    <3>1. HealthOf \in [Value -> 0 .. 1000]
      BY AccessAssumption
    <3> QED BY <3>1
  <2>3. h \in Argument /\ "setNodeHealthIndex" \in Op \ {"none"}
    BY DEF Argument, Op, Locking
  <2>4. Begin(t, "setNodeHealthIndex", h)
    BY <2>1, <2>2
  <2> QED BY <2>2, <2>3, <2>4, BeginKeeps
<1>3. CASE \E p \in Place : Begin(t, "setNodePosition", p)
  <2>1. PICK p \in Place : Begin(t, "setNodePosition", p)
    BY <1>3
  <2>2. p \in Argument /\ "setNodePosition" \in Op \ {"none"}
    BY DEF Argument, Op, Locking
  <2> QED BY <2>1, <2>2, BeginKeeps
<1>4. CASE \E op \in {"snapshotNode", "updateHealth", "copy"} : Begin(t, op, None)
  <2>1. PICK op \in {"snapshotNode", "updateHealth", "copy"} : Begin(t, op, None)
    BY <1>4
  <2>2. None \in Argument /\ op \in Op \ {"none"}
    BY DEF Argument, Op, Locking
  <2> QED BY <2>1, <2>2, BeginKeeps
<1> QED BY <1>1, <1>2, <1>3, <1>4 DEF Calls

LEMMA WriteFieldKeeps ==
    ASSUME TypeOK, Inv, WriteField, Watch, UNCHANGED bridgeVars
    PROVE  TypeOK' /\ Inv'
<1>1. /\ UNCHANGED <<mutex, call, calls>> /\ call = [t \in Thread |-> Idle]
  BY DEF WriteField
<1>2. \A t \in Thread : OpOf(t) = "none" /\ call[t].todo = <<>>
  BY <1>1 DEF OpOf, Idle
<1>3. \A t \in Thread : ~Holds(t)
  BY <1>2 DEF Holds
<1>4. /\ position' \in [Coordinate -> Place \cup {Invalid}]
      /\ state' \in Value \cup {Invalid}
      /\ healthIndex' \in (0 .. 1000) \cup {Invalid}
      /\ mutex' \in Thread \cup {None} /\ call' \in [Thread -> Call]
      /\ calls' \in [Thread -> Nat]
  BY <1>1 DEF WriteField, TypeOK
<1>5. Uniform'
  BY <1>3, InvByThread DEF WriteField, Whole, Uniform
<1>6. seen' \in [Thread -> SUBSET Reading]
  <2>1. seen' = [t \in Thread |-> {}]
    BY <1>1, <1>2 DEF Watch, OpOf
  <2> QED BY <2>1
<1>7. \A t \in Thread : Fits(t)'
  BY <1>1, <1>2 DEF Fits, OpOf
<1>8. TypeOK'
  BY <1>4, <1>6, <1>7 DEF TypeOK, bridgeVars, Fits, OpOf
<1>9. \A t \in Thread : Good(t)
  BY InvByThread
<1>10. \A t \in Thread : Good(t)'
  <2> SUFFICES ASSUME NEW t \in Thread PROVE Good(t)'
    OBVIOUS
  <2>1. OpOf(t)' = "none" /\ ~Holds(t)'
    BY <1>1, <1>2, <1>3 DEF OpOf, Holds
  <2>2. Rest(t)'
    BY <1>1, <1>9 DEF Good, Rest, Steps, Made
  <2> QED BY <1>1, <1>3, <1>9, <2>1, <2>2 DEF Good, Written, SoFar, Instant
<1>11. UpdateRestoresStatus'
  BY DEF Inv, UpdateRestoresStatus, bridgeVars
<1>12. Whole'
  BY <1>5 DEF Whole, Uniform
<1> QED BY <1>8, <1>10, <1>11, <1>12, GoodIsInv

(* Nothing happens to the node. *)
LEMMA NodeStays ==
    ASSUME TypeOK, Inv, UNCHANGED <<nodeVars, mutex, call, calls, seen>>,
           capacity' \in 0 .. 1000, overridden' \in BOOLEAN, UpdateRestoresStatus'
    PROVE  TypeOK' /\ Inv'
<1>1. /\ position' = position /\ state' = state /\ healthIndex' = healthIndex
      /\ mutex' = mutex /\ call' = call /\ calls' = calls /\ seen' = seen
  BY DEF nodeVars
<1>2. TypeOK'
  BY <1>1 DEF TypeOK
<1>3. (\A t \in Thread : Good(t)) /\ Whole
  BY InvByThread
<1>4. \A t \in Thread : Good(t)'
  <2> SUFFICES ASSUME NEW t \in Thread PROVE Good(t)'
    OBVIOUS
  <2>1. /\ Steps(t)' = Steps(t) /\ Made(t)' = Made(t) /\ OpOf(t)' = OpOf(t)
        /\ Holds(t)' <=> Holds(t)
    BY <1>1 DEF OpOf, Holds, Steps, Made
  <2>2. Rest(t)' /\ Written(t)' /\ Instant(t)'
    BY <1>1, <1>3, <2>1 DEF Good, Rest, Written, Instant
  <2>3. SoFar(t) /\ call'[t] = call[t] /\ seen'[t] = seen[t]
    BY <1>1, <1>3 DEF Good
  <2>4. SoFar(t)'
    BY <1>1, <2>1, <2>3 DEF SoFar, Node
  <2> QED BY <1>1, <1>3, <2>1, <2>2, <2>4 DEF Good
<1>5. Whole'
  BY <1>1, <1>3 DEF Whole, Uniform, OpOf, Holds, Steps, Made
<1> QED BY <1>2, <1>4, <1>5, GoodIsInv

(* What a signal leaves of a capacity, and the status it gives, agree. *)
LEMMA SignalCoherent ==
    ASSUME NEW category \in SignalCategory, NEW c \in 0 .. 1000
    PROVE  /\ CapacityAfter(category, c) \in 0 .. 1000
           /\ Coherent(CapacityAfter(category, c), StatusAfter(category, c))
<1>1. CASE category = "DESTRUCTIVE_DRIFT"
  BY <1>1 DEF CapacityAfter, StatusAfter, Coherent
<1>2. CASE category = "CREATIVE_SIGNAL"
  <2>1. CapacityAfter(category, c) = Supported(c) /\ Supported(c) \in 150 .. 1000
    BY <1>2 DEF CapacityAfter, Supported
  <2>2. StatusAfter(category, c) = IF Supported(c) >= 900 THEN "NORMAL" ELSE "RECOVERY"
    BY <1>2 DEF StatusAfter, SupportedStatus
  <2> QED BY <2>1, <2>2 DEF Coherent
<1>3. CASE category = "NOISE"
  <2>1. (85 * c) \div 100 \in 0 .. 850
    OBVIOUS
  <2>2. CapacityAfter(category, c) = Constrained(c) /\ Constrained(c) \in 10 .. 850
    BY <1>3, <2>1 DEF CapacityAfter, Constrained
  <2>3. StatusAfter(category, c) = "DAMPING"
    BY <1>3 DEF StatusAfter
  <2> QED BY <2>2, <2>3 DEF Coherent
<1> QED BY <1>1, <1>2, <1>3 DEF SignalCategory

LEMMA BridgeKeeps ==
    ASSUME TypeOK, Inv, BridgeStep, UNCHANGED <<nodeVars, mutex, call, calls, seen>>
    PROVE  TypeOK' /\ Inv'
<1>1. CASE \E value \in Capacity : SetBridgeCapacity(value)
  <2>1. capacity' \in 0 .. 1000 /\ overridden'
    BY <1>1, AccessAssumption DEF SetBridgeCapacity
  <2> QED BY <2>1, NodeStays DEF UpdateRestoresStatus, SetBridgeCapacity
<1>2. CASE \E g \in Geometry : SetBridgeGeometry(g)
  <2>1. capacity' = capacity /\ status' = status /\ overridden' = overridden
    BY <1>2 DEF SetBridgeGeometry
  <2>2. capacity' \in 0 .. 1000 /\ overridden' \in BOOLEAN /\ UpdateRestoresStatus'
    BY <2>1 DEF TypeOK, Inv, UpdateRestoresStatus
  <2> QED BY <2>2, NodeStays
<1>3. CASE \E category \in SignalCategory : UpdateBridgeState(category)
  <2>1. PICK category \in SignalCategory : UpdateBridgeState(category)
    BY <1>3
  <2>2. capacity \in 0 .. 1000
    BY DEF TypeOK
  <2>3. /\ CapacityAfter(category, capacity) \in 0 .. 1000
        /\ Coherent(CapacityAfter(category, capacity), StatusAfter(category, capacity))
    BY <2>1, <2>2, SignalCoherent, Zenon
  <2>4. /\ capacity' = CapacityAfter(category, capacity)
        /\ status' = StatusAfter(category, capacity) /\ overridden' = FALSE
    BY <2>1 DEF UpdateBridgeState
  <2>5. capacity' \in 0 .. 1000 /\ Coherent(capacity', status')
    BY <2>3, <2>4 DEF Coherent
  <2>6. overridden' \in BOOLEAN /\ UpdateRestoresStatus'
    BY <2>4, <2>5 DEF UpdateRestoresStatus, Coherent
  <2> QED BY <2>5, <2>6, NodeStays
<1> QED BY <1>1, <1>2, <1>3 DEF BridgeStep

-----------------------------------------------------------------------------
LEMMA InitInv == ASSUME Init PROVE TypeOK /\ Inv
<1>1. /\ position \in [Coordinate -> Place \cup {Invalid}] /\ Uniform
      /\ state \in Value \cup {Invalid} /\ healthIndex = 1000
      /\ mutex = None /\ call = [t \in Thread |-> Idle] /\ calls = [t \in Thread |-> 0]
      /\ seen = [t \in Thread |-> {}]
      /\ capacity = 1000 /\ status = "NORMAL" /\ overridden = FALSE
  BY DEF Init, Uniform
<1>2. \A t \in Thread : OpOf(t) = "none" /\ call[t].todo = <<>> /\ Len(call[t].todo) = 0
  BY <1>1 DEF OpOf, Idle
<1>3. call \in [Thread -> Call]
  BY <1>1, IdleIsCall
<1>4. \A t \in Thread : Fits(t)
  BY <1>2 DEF Fits
<1>5. TypeOK
  <2>1. healthIndex \in (0 .. 1000) \cup {Invalid} /\ capacity \in 0 .. 1000
    BY <1>1
  <2>2. calls \in [Thread -> Nat] /\ seen \in [Thread -> SUBSET Reading]
    BY <1>1
  <2> QED BY <1>1, <1>3, <1>4, <2>1, <2>2 DEF TypeOK, Fits, OpOf
<1>6. \A t \in Thread : Good(t)
  <2> SUFFICES ASSUME NEW t \in Thread PROVE Good(t)
    OBVIOUS
  <2>1. Steps(t) = <<>>
    BY <1>2 DEF Steps, OpOf
  <2>2. Rest(t)
    BY <1>2, <2>1 DEF Rest
  <2>3. ~Holds(t) /\ mutex # t
    BY <1>1, <1>2, AccessAssumption DEF Holds
  <2> QED BY <1>2, <2>2, <2>3 DEF Good, Written, SoFar, Instant
<1>7. Whole /\ UpdateRestoresStatus
  BY <1>1 DEF Whole, UpdateRestoresStatus, Coherent
<1> QED BY <1>5, <1>6, <1>7, InvByThread

LEMMA ThreadKeeps ==
    ASSUME TypeOK, Inv, NEW t \in Thread, ThreadStep(t)
    PROVE  TypeOK' /\ Inv'
<1>1. Accesses(t) /\ Watch /\ UNCHANGED <<calls, bridgeVars>>
  BY DEF ThreadStep
<1>2. \/ Lock(t) \/ Unlock(t) \/ Store(t) \/ Validate(t) \/ LoadState(t) \/ LoadHealth(t)
      \/ (\E c \in Coordinate : Write(t, c)) \/ (\E c \in Coordinate : Read(t, c))
      \/ Return(t)
  BY <1>1 DEF Accesses
<1> QED BY <1>1, <1>2, LockKeeps, UnlockKeeps, StoreKeeps, ValidateKeeps, LoadStateKeeps,
           LoadHealthKeeps, WriteKeeps, ReadKeeps, ReturnKeeps

LEMMA NextKeeps ==
    ASSUME TypeOK, Inv, [Next]_vars
    PROVE  TypeOK' /\ Inv'
<1>1. CASE (\E t \in Thread : Calls(t)) /\ Watch /\ UNCHANGED bridgeVars
  BY <1>1, CallsKeep
<1>2. CASE WriteField /\ Watch /\ UNCHANGED bridgeVars
  BY <1>2, WriteFieldKeeps
<1>3. CASE \E t \in Thread : ThreadStep(t)
  BY <1>3, ThreadKeeps
<1>4. CASE BridgeStep /\ UNCHANGED <<nodeVars, mutex, call, calls, seen>>
  BY <1>4, BridgeKeeps
<1>5. CASE UNCHANGED vars
  <2>1. UNCHANGED <<nodeVars, mutex, call, calls, seen>>
    BY <1>5 DEF vars
  <2>2. capacity' = capacity /\ status' = status /\ overridden' = overridden
    BY <1>5 DEF vars, bridgeVars
  <2>3. capacity' \in 0 .. 1000 /\ overridden' \in BOOLEAN /\ UpdateRestoresStatus'
    BY <2>2 DEF TypeOK, Inv, UpdateRestoresStatus
  <2> QED BY <2>1, <2>3, NodeStays
<1> QED BY <1>1, <1>2, <1>3, <1>4, <1>5 DEF Next

(* The invariant, of which the two properties below are parts: what is left *)
(* of a call is the end of its program, the mutex is held from the first   *)
(* access to the last, and only its holder changes position or state.      *)
THEOREM InvHolds == Spec => [](TypeOK /\ Inv)
<1>1. Init => TypeOK /\ Inv
  BY InitInv
<1>2. TypeOK /\ Inv /\ [Next]_vars => TypeOK' /\ Inv'
  BY NextKeeps
<1> QED BY <1>1, <1>2, PTL DEF Spec

(* The variables have their types, an argument and a state that was read fit *)
(* the field they are for.                                                 *)
THEOREM TypeCorrect == Spec => []TypeOK
BY InvHolds, PTL

(* snapshotNode returns what the node was at one instant of the call, with  *)
(* every value valid, however many threads set, update and copy meanwhile. *)
THEOREM SnapshotsAreAlwaysInstants == Spec => []SnapshotsAreInstants
<1>1. TypeOK /\ Inv => SnapshotsAreInstants
  BY DEF Inv
<1> QED BY <1>1, InvHolds, PTL

(* The mutex is held exactly from the first access of a locking call to its *)
(* last, also when the call throws: no thread is left holding it.          *)
THEOREM LockIsAlwaysHeld == Spec => []LockIsHeld
<1>1. TypeOK /\ Inv => LockIsHeld
  BY DEF Inv
<1> QED BY <1>1, InvHolds, PTL

(* After updateBridgeState the status tells what the capacity is, whatever *)
(* capacities were set before.                                             *)
THEOREM UpdatesRestoreStatus == Spec => []UpdateRestoresStatus
<1>1. TypeOK /\ Inv => UpdateRestoresStatus
  BY DEF Inv
<1> QED BY <1>1, InvHolds, PTL
=============================================================================
