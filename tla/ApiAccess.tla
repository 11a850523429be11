------------------------------ MODULE ApiAccess ------------------------------
(***************************************************************************)
(* The validated helpers of api_access.hpp and the methods of the objects  *)
(* they work on: an AutopoieticNode several threads share, and a           *)
(* SpatialBridge that one caller owns.  Both are standalone: a mesh hands  *)
(* out none of its nodes or bridges.                                       *)
(*                                                                         *)
(* The setters and snapshotNode lock nodeMutex; updateHealth and the copy  *)
(* constructor do not, and the position is several words wide.  What       *)
(* docs/production-mutation-surface.md leaves to the caller is a guard     *)
(* here: no copy overlaps a change of the position, and public fields are  *)
(* written while nobody else uses the node.  A helper that refuses its     *)
(* argument does so before it locks, and changes nothing.                  *)
(***************************************************************************)
EXTENDS SpatialBridge, Sequences, FiniteSets

CONSTANTS
    Thread,
    Coordinates,  \* of a position, in the order they are copied: x, y, z
    Place,     \* values of a coordinate of the position
    Value,     \* values of the state
    HealthOf,  \* the health updateHealth makes of a state
    Invalid,   \* what validation refuses: not finite, or out of range
    MaxCalls,  \* bound: calls of one thread
    Capacity,  \* capacities the caller sets on the bridge
    Geometry,  \* target, distance and orientation weight of a bridge, valid ones
    None

(* The accesses of the helpers to a node, but for those to a coordinate. *)
AccessName == {"lock", "unlock", "store", "validate", "loadState", "loadHealth"}

ASSUME AccessAssumption ==
    /\ Coordinates \in Seq(STRING \ AccessName)
    /\ Invalid \notin Place \cup Value /\ None \notin Thread
    /\ HealthOf \in [Value -> 0 .. 1000]
    /\ MaxCalls \in Nat
    /\ Capacity \subseteq 0 .. 1000

VARIABLES
    position, state, healthIndex,  \* of the node
    mutex,                         \* the thread that holds nodeMutex, or None
    call,                          \* per thread: what it does, what is left of it, what it read
    calls,                         \* history: the calls a thread began
    seen,                          \* history: per snapshot, what the node was since it was called
    capacity, status, geometry,    \* of the bridge
    overridden                     \* history: setBridgeCapacity is the last that changed it

nodeVars == <<position, state, healthIndex>>

bridgeVars == <<capacity, status, geometry, overridden>>

vars == <<nodeVars, mutex, call, calls, seen, bridgeVars>>

-----------------------------------------------------------------------------
Coordinate == {Coordinates[i] : i \in DOMAIN Coordinates}

Node(p, s, h) == [position |-> p, state |-> s, healthIndex |-> h]

Nothing == Node([c \in Coordinate |-> None], None, None)

Program_SnapshotWithoutLock(op) ==
    CASE op \in {"setNodeState", "setNodeHealthIndex"} -> <<"lock", "store", "unlock">>
      [] op = "setNodePosition" -> <<"lock">> \o Coordinates \o <<"unlock">>
      [] op = "snapshotNode" -> <<"validate", "loadState", "loadHealth">> \o Coordinates
      [] op = "updateHealth" -> <<"loadState", "store">>
      [] op = "copy" -> Coordinates \o <<"loadState", "loadHealth">>

(* The accesses of an operation to the node, in the order of the code. *)
Program(op) ==
    CASE op \in {"setNodeState", "setNodeHealthIndex"} -> <<"lock", "store", "unlock">>
      [] op = "setNodePosition" -> <<"lock">> \o Coordinates \o <<"unlock">>
      [] op = "snapshotNode" ->
             <<"lock", "validate", "loadState", "loadHealth">> \o Coordinates \o <<"unlock">>
      [] op = "updateHealth" -> <<"loadState", "store">>
      [] op = "copy" -> Coordinates \o <<"loadState", "loadHealth">>

Idle == [op |-> "none", argument |-> None, todo |-> <<>>, read |-> Nothing, threw |-> FALSE]

BridgeUnused == capacity = 1000 /\ status = "NORMAL" /\ geometry = None /\ ~overridden

Quiet(op) == \A t \in Thread : call[t].op # op

(* The node, and a bridge (with some geometry: None), as they are made. *)
Init ==
    /\ \E p \in Place : position = [c \in Coordinate |-> p]
    /\ state \in Value /\ healthIndex = HealthOf[state] /\ healthIndex = 1000
    /\ mutex = None
    /\ call = [t \in Thread |-> Idle]
    /\ calls = [t \in Thread |-> 0]
    /\ seen = [t \in Thread |-> {}]
    /\ capacity = 1000 /\ status = "NORMAL" /\ geometry = None /\ overridden = FALSE

-----------------------------------------------------------------------------
Begin(t, op, argument) ==
    /\ call[t] = Idle
    /\ calls[t] < MaxCalls
    /\ op = "setNodePosition" => Quiet("copy")
    /\ op = "copy" => Quiet("setNodePosition")
    /\ calls' = [calls EXCEPT ![t] = @ + 1]
    /\ call' = [call EXCEPT ![t] = [op |-> op, argument |-> argument, todo |-> Program(op),
                                    read |-> Nothing, threw |-> FALSE]]
    /\ UNCHANGED <<nodeVars, mutex>>

Calls(t) ==
    \/ \E v \in Value : Begin(t, "setNodeState", v)
    \/ \E h \in {HealthOf[v] : v \in Value} : Begin(t, "setNodeHealthIndex", h)
    \/ \E p \in Place : Begin(t, "setNodePosition", p)
    \/ \E op \in {"snapshotNode", "updateHealth", "copy"} : Begin(t, op, None)

AfterThrow_KeepsLock(t) == <<>>

(* An exception leaves through the lock_guard. *)
AfterThrow(t) == IF mutex = t THEN <<"unlock">> ELSE <<>>

(* The next access of t; it goes on with what it read, or throws.          *)
Does(t, access) == call[t].todo # <<>> /\ Head(call[t].todo) = access

Proceed(t, read) ==
    call' = [call EXCEPT ![t].todo = Tail(@), ![t].read = read]

Throw(t) == call' = [call EXCEPT ![t].todo = AfterThrow(t), ![t].threw = TRUE]

Lock(t) ==
    /\ Does(t, "lock")
    /\ mutex = None
    /\ mutex' = t
    /\ Proceed(t, call[t].read)
    /\ UNCHANGED nodeVars

Unlock(t) ==
    /\ Does(t, "unlock")
    /\ mutex' = None
    /\ Proceed(t, call[t].read)
    /\ UNCHANGED nodeVars

Store(t) ==
    /\ Does(t, "store")
    /\ IF call[t].op = "setNodeState"
       THEN state' = call[t].argument /\ UNCHANGED healthIndex
       ELSE /\ healthIndex' = IF call[t].op = "updateHealth" THEN HealthOf[call[t].read.state]
                              ELSE call[t].argument
            /\ UNCHANGED state
    /\ Proceed(t, call[t].read)
    /\ UNCHANGED <<position, mutex>>

Write(t, c) ==
    /\ Does(t, c) /\ call[t].op = "setNodePosition"
    /\ position' = [position EXCEPT ![c] = call[t].argument]
    /\ Proceed(t, call[t].read)
    /\ UNCHANGED <<state, healthIndex, mutex>>

Read(t, c) ==
    /\ Does(t, c) /\ call[t].op # "setNodePosition"
    /\ Proceed(t, [call[t].read EXCEPT !.position[c] = position[c]])
    /\ UNCHANGED <<nodeVars, mutex>>

(* Vector3D::validate *)
Validate(t) ==
    /\ Does(t, "validate")
    /\ IF \E c \in Coordinate : position[c] = Invalid
       THEN Throw(t) ELSE Proceed(t, call[t].read)
    /\ UNCHANGED <<nodeVars, mutex>>

(* A state that is not finite: updateHealth throws at once, snapshotNode    *)
(* when it has loaded the health too, and the copy constructor copies it.   *)
LoadState(t) ==
    /\ Does(t, "loadState")
    /\ IF call[t].op = "updateHealth" /\ state = Invalid
       THEN Throw(t) ELSE Proceed(t, [call[t].read EXCEPT !.state = state])
    /\ UNCHANGED <<nodeVars, mutex>>

LoadHealth(t) ==
    /\ Does(t, "loadHealth")
    /\ IF call[t].op = "snapshotNode" /\ Invalid \in {call[t].read.state, healthIndex}
       THEN Throw(t) ELSE Proceed(t, [call[t].read EXCEPT !.healthIndex = healthIndex])
    /\ UNCHANGED <<nodeVars, mutex>>

Return(t) ==
    /\ call[t] # Idle
    /\ call[t].todo = <<>>
    /\ call' = [call EXCEPT ![t] = Idle]
    /\ UNCHANGED <<nodeVars, mutex>>

Accesses(t) ==
    \/ Lock(t) \/ Unlock(t) \/ Store(t) \/ Validate(t) \/ LoadState(t) \/ LoadHealth(t)
    \/ \E c \in Coordinate : Write(t, c) \/ Read(t, c)
    \/ Return(t)

(* The caller writes a public field, past validation, while nobody uses the *)
(* node; what validation would accept is written as by a setter.  Bound:   *)
(* one field at a time holds a value validation refuses.                   *)
AllValid ==
    Invalid \notin {state, healthIndex} \cup {position[c] : c \in Coordinate}

WriteField ==
    /\ call = [t \in Thread |-> Idle]
    /\ AllValid
    /\ \/ position' = [c \in Coordinate |-> Invalid] /\ UNCHANGED <<state, healthIndex>>
       \/ state' = Invalid /\ UNCHANGED <<position, healthIndex>>
       \/ healthIndex' = Invalid /\ UNCHANGED <<position, state>>
    /\ UNCHANGED <<mutex, call, calls>>

Watch ==
    seen' = [t \in Thread |->
                IF call'[t].op # "snapshotNode" THEN {}
                ELSE seen[t] \cup {Node(position', state', healthIndex')}]

-----------------------------------------------------------------------------
SetBridgeCapacity(value) ==
    /\ capacity' = value
    /\ overridden' = TRUE
    /\ UNCHANGED <<status, geometry>>

SetBridgeGeometry(g) ==
    /\ geometry' = g
    /\ UNCHANGED <<capacity, status, overridden>>

(* SpatialBridge::updateBridgeState *)
UpdateBridgeState(category) ==
    /\ capacity' = CapacityAfter(category, capacity)
    /\ status' = StatusAfter(category, capacity)
    /\ overridden' = FALSE
    /\ UNCHANGED geometry

BridgeStep ==
    \/ \E value \in Capacity : SetBridgeCapacity(value)
    \/ \E g \in Geometry : SetBridgeGeometry(g)
    \/ \E category \in SignalCategory : UpdateBridgeState(category)

ThreadStep(t) == Accesses(t) /\ Watch /\ UNCHANGED <<calls, bridgeVars>>

(* Node and bridge share nothing, so they are used one at a time: the       *)
(* bridge before the first call on the node, or not at all.                *)
NodeUnused == \A t \in Thread : calls[t] = 0

Next ==
    \/ BridgeUnused /\ (\E t \in Thread : Calls(t)) /\ Watch /\ UNCHANGED bridgeVars
    \/ BridgeUnused /\ WriteField /\ Watch /\ UNCHANGED bridgeVars
    \/ \E t \in Thread : ThreadStep(t)
    \/ NodeUnused /\ BridgeStep /\ UNCHANGED <<nodeVars, mutex, call, calls, seen>>

(* Threads that run take their next access; a mutex need not be fair, but  *)
(* the calls that compete for it end.                                      *)
Spec == Init /\ [][Next]_vars /\ \A t \in Thread : WF_vars(ThreadStep(t))

-----------------------------------------------------------------------------
(* What snapshotNode returns was the node at one instant of the call, and  *)
(* valid: no position of which another thread has written half, no state   *)
(* of before a change with a health of after it, although updateHealth     *)
(* stores the health without the lock.                                     *)
SnapshotsAreInstants ==
    \A t \in Thread :
        call[t].op = "snapshotNode" /\ call[t].todo = <<>> /\ ~call[t].threw =>
            /\ call[t].read \in seen[t]
            /\ \A c, d \in Coordinate : call[t].read.position[c] = call[t].read.position[d]
            /\ Invalid \notin {call[t].read.state, call[t].read.healthIndex}
            /\ \A c \in Coordinate : call[t].read.position[c] # Invalid

(* Every call returns, also when another one threw while it held the lock. *)
CallsReturn ==
    \A t \in Thread : call[t] # Idle ~> call[t] = Idle

(* setBridgeCapacity leaves the status behind, as documented; the next     *)
(* update of the bridge makes them agree again, whatever was set.          *)
UpdateRestoresStatus == ~overridden => Coherent(capacity, status)

-----------------------------------------------------------------------------
(* The inductive invariant, in parts. *)

Locking == {"setNodeState", "setNodeHealthIndex", "setNodePosition", "snapshotNode"}

Op == Locking \cup {"none", "updateHealth", "copy"}

Reading == [position: [Coordinate -> Place \cup {Invalid, None}],
            state: Value \cup {Invalid, None},
            healthIndex: (0 .. 1000) \cup {Invalid, None}]

Argument == Value \cup (0 .. 1000) \cup Place \cup {None}

Call == [op: Op, argument: Argument, todo: Seq(AccessName \cup Coordinate),
         read: Reading, threw: BOOLEAN]

(* All accesses of what t does, and the number of those t has made. *)
Steps(t) == IF call[t].op = "none" THEN <<>> ELSE Program(call[t].op)

Made(t) == Len(Steps(t)) - Len(call[t].todo)

Holds(t) == call[t].op \in Locking /\ Made(t) > 0 /\ call[t].todo # <<>>

(* The types of the state; an argument and a state that is read fit the     *)
(* field they are for.                                                      *)
TypeOK ==
    /\ position \in [Coordinate -> Place \cup {Invalid}]
    /\ state \in Value \cup {Invalid}
    /\ healthIndex \in (0 .. 1000) \cup {Invalid}
    /\ mutex \in Thread \cup {None}
    /\ call \in [Thread -> Call]
    /\ calls \in [Thread -> Nat]
    /\ seen \in [Thread -> SUBSET Reading]
    /\ capacity \in 0 .. 1000
    /\ overridden \in BOOLEAN
    /\ \A t \in Thread :
           /\ call[t].op = "setNodeState"       => call[t].argument \in Value
           /\ call[t].op = "setNodeHealthIndex" => call[t].argument \in 0 .. 1000
           /\ call[t].op = "setNodePosition"    => call[t].argument \in Place
           /\ call[t].op = "updateHealth" /\ call[t].todo = <<"store">>
                  => call[t].read.state \in Value

(* What is left to do is the end of what there was to do. *)
TodoIsRest ==
    \A t \in Thread : /\ Len(call[t].todo) <= Len(Steps(t))
                      /\ \A i \in 1 .. Len(call[t].todo) :
                             call[t].todo[i] = Steps(t)[Made(t) + i]

(* The mutex is held from the first access of a call to its last. *)
LockIsHeld == \A t \in Thread : mutex = t <=> Holds(t)

(* Only a thread that holds the mutex has the position half written. *)
PositionIsWhole ==
    /\ \/ \E t \in Thread : Holds(t) /\ call[t].op = "setNodePosition"
       \/ \A c, d \in Coordinate : position[c] = position[d]
    /\ \A t \in Thread :
           Holds(t) /\ call[t].op = "setNodePosition" =>
               \A i \in 1 .. Len(Coordinates) :
                   i < Made(t) => position[Coordinates[i]] = call[t].argument

(* What a snapshot in progress has read is what the node still is, but for  *)
(* the health, and with that health it was the node when that was read.     *)
SnapshotSoFar ==
    \A t \in Thread :
        call[t].op = "snapshotNode" /\ ~call[t].threw /\ Holds(t) =>
            /\ Made(t) >= 2 => \A c \in Coordinate : position[c] # Invalid
            /\ Made(t) >= 3 => call[t].read.state = state
            /\ Made(t) >= 4 =>
                   /\ Invalid \notin {call[t].read.state, call[t].read.healthIndex}
                   /\ Node(position, call[t].read.state, call[t].read.healthIndex) \in seen[t]
            /\ \A i \in 1 .. Len(Coordinates) :
                   i <= Made(t) - 4 =>
                       call[t].read.position[Coordinates[i]] = position[Coordinates[i]]

Inv ==
    /\ TodoIsRest /\ LockIsHeld /\ PositionIsWhole /\ SnapshotSoFar
    /\ SnapshotsAreInstants /\ UpdateRestoresStatus
=============================================================================
