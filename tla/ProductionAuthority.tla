------------------------- MODULE ProductionAuthority -------------------------
(***************************************************************************)
(* Authority over production transitions: threads derive an execution      *)
(* capability from an eligible decision (ProductionAuthorityLiveDerivation *)
(* ::evaluate), the mesh keeps its lifecycle in a ledger, and a holder     *)
(* commits it (SpatialAdaptiveMesh::Impl::commitProductionTransition).     *)
(*                                                                         *)
(* The derivation reads the mesh in separate shared-lock sections, so every*)
(* other operation interleaves between two of its reads, and no lock is    *)
(* held between the last read and the registration.  The commit holds the  *)
(* topology lock exclusively and the record's lock, and is one step.       *)
(* Moving from a capability leaves it as it was, so a holder may present   *)
(* one any number of times, from any thread, to any mesh.                  *)
(*                                                                         *)
(* A bridge is abstracted to its status: BridgeState has its capacity.     *)
(***************************************************************************)
EXTENDS RelationshipLifecycle

CONSTANTS
    Thread,              \* the threads that derive authority
    MaxCapability,       \* bound: capability ids 1 .. MaxCapability are drawn
    DirectionAvailable,  \* can the backend derive a direction?  The live one cannot
    TransitionClass,     \* transition classes requests name; 1 is the contract
    RequestedDirection,  \* bound: the directions requests name
    PublishedStatus      \* bound: the statuses a simulation step publishes

CapabilityId == 1 .. MaxCapability

Status == {"NORMAL", "DAMPING", "RECOVERY", "ISOLATED"}

Direction == {"constrain", "support"}

ASSUME AuthorityAssumption ==
    /\ MaxCapability \in Nat
    /\ DirectionAvailable \in BOOLEAN
    /\ TransitionClass \subseteq Nat
    /\ RequestedDirection \subseteq Direction
    /\ PublishedStatus \subseteq Status

VARIABLES
    bridgeStatus,      \* status of a directed bridge, "absent" when there is none
    ledger,            \* per mesh: the records of ProductionAuthorityLedger
    nextCapabilityId,  \* the process-wide counter
    capability,        \* the capabilities in the hands of callers
    derivation,        \* per thread: the derivation in progress
    changedRequest,    \* history: what changed on the edge since the request
    changedCapability, \* history: the same, per capability
    effects,           \* history: the commits that took effect
    answers            \* history: what the presentations of an id answered

vars == <<lifecycleVars, bridgeStatus, ledger, nextCapabilityId, capability,
          derivation, changedRequest, changedCapability, effects, answers>>

-----------------------------------------------------------------------------
LedgerState == {"unknown", "issued", "consumed", "expired", "invalidated"}

Terminal == {"consumed", "expired", "invalidated"}

Result == {"committed", "target_mismatch", "capability_invalid",
           "capability_consumed", "stale_state", "transition_rejected"}

(* ProductionTransitionRequestBinding *)
Binding == [edge: Edge, generation: Nat, version: Nat,
            class: TransitionClass, direction: Direction]

NoBinding == [edge |-> <<>>]

LedgerRecord == [state: LedgerState, binding: Binding \cup {NoBinding}, epoch: Nat]

Capability == [binding: Binding \cup {NoBinding}, epoch: Nat]

(* What a derivation established, in the order the policy asks for it. *)
Check == {"binding", "state", "class", "freshness", "revalidation"}

Phase == {"idle", "resolve", "capture", "derive", "freshness", "revalidate",
          "policy", "register"}

Derivation == [phase: Phase, binding: Binding \cup {NoBinding},
               snapshot: [lineage: Nat, persistence: Nat],
               epoch: Nat, passed: SUBSET Check, id: Nat]

(* What may change under a request: its relationship or its bridge. *)
Change == {"relationship", "bridge"}

Effect == [id: CapabilityId, edge: Edge, version: Nat, since: SUBSET Change]

NoDerivation == [phase |-> "idle", binding |-> NoBinding,
                 snapshot |-> [lineage |-> 0, persistence |-> 0],
                 epoch |-> 0, passed |-> {}, id |-> 0]

(* The types of the state. *)
TypeOK ==
    /\ LifecycleTypeOK
    /\ bridgeStatus \in [Edge -> Status \cup {"absent"}]
    /\ ledger \in [Mesh -> [CapabilityId -> LedgerRecord]]
    /\ nextCapabilityId \in 1 .. MaxCapability + 1
    /\ capability \in [CapabilityId -> Capability]
    /\ derivation \in [Thread -> Derivation]
    /\ \A t \in Thread : derivation[t].phase = "idle" <=> derivation[t].binding = NoBinding
    /\ changedRequest \in [Thread -> SUBSET Change]
    /\ changedCapability \in [CapabilityId -> SUBSET Change]
    /\ effects \subseteq Effect
    /\ answers \in [CapabilityId -> SUBSET Result]

Init ==
    /\ LifecycleInit
    /\ bridgeStatus = [e \in Edge |-> "absent"]
    /\ ledger = [m \in Mesh |-> [id \in CapabilityId |->
                    [state |-> "unknown", binding |-> NoBinding, epoch |-> 0]]]
    /\ nextCapabilityId = 1
    /\ capability = [id \in CapabilityId |-> [binding |-> NoBinding, epoch |-> 0]]
    /\ derivation = [t \in Thread |-> NoDerivation]
    /\ changedRequest = [t \in Thread |-> {}]
    /\ changedCapability = [id \in CapabilityId |-> {}]
    /\ effects = {}
    /\ answers = [id \in CapabilityId |-> {}]

(* A capability is in a caller's hands once the derivation returned it. *)
Held(id) == capability[id].binding # NoBinding

(* The mesh whose ledger registered the capability: its authority domain. *)
DomainOf(id) == MeshOf(capability[id].binding.edge)

(* Records, for every request and capability about an edge of E, the change c. *)
Touch(E, c) ==
    /\ changedRequest' = [t \in Thread |->
           IF derivation[t].binding # NoBinding /\ derivation[t].binding.edge \in E
           THEN changedRequest[t] \cup {c} ELSE changedRequest[t]]
    /\ changedCapability' = [id \in CapabilityId |->
           IF Held(id) /\ capability[id].binding.edge \in E
           THEN changedCapability[id] \cup {c} ELSE changedCapability[id]]

authorityVars == <<ledger, nextCapabilityId, capability, derivation, effects, answers>>

-----------------------------------------------------------------------------
(* The mesh's own operations. *)

Connect(e) ==
    /\ ConnectLifecycle(e)
    /\ bridgeStatus' = Both(bridgeStatus, e, "NORMAL", "NORMAL")
    /\ Touch(Pair(e), "relationship")
    /\ UNCHANGED authorityVars

(* pruneIsolatedBridges: an isolated bridge takes its reverse with it; a   *)
(* threshold the caller chooses adds any other pairs.                      *)
Isolated(m) ==
    {e \in Edge : MeshOf(e) = m
        /\ (bridgeStatus[e] = "ISOLATED" \/ bridgeStatus[Reverse(e)] = "ISOLATED")}

Prune(m, pruned) ==
    /\ pruned # {}
    /\ \A e \in pruned : MeshOf(e) = m /\ bridgeStatus[e] # "absent" /\ Reverse(e) \in pruned
    /\ Isolated(m) \subseteq pruned
    /\ DiscardLifecycle(pruned)
    /\ bridgeStatus' = [e \in Edge |-> IF e \in pruned THEN "absent" ELSE bridgeStatus[e]]
    /\ Touch(pruned, "relationship")
    /\ UNCHANGED authorityVars

(* simulationStep publishes the bridges its workers changed.  The lifecycle *)
(* entry of a bridge does not change with it.                               *)
SimulationStep(e, status) ==
    /\ bridgeStatus[e] # "absent"
    /\ bridgeStatus[e] # status
    /\ bridgeStatus' = [bridgeStatus EXCEPT ![e] = status]
    /\ Touch({e}, "bridge")
    /\ UNCHANGED <<lifecycleVars, authorityVars>>

Evolve(e) ==
    /\ EvolvePersistence(e)
    /\ UNCHANGED <<bridgeStatus, authorityVars, changedRequest, changedCapability>>

-----------------------------------------------------------------------------
(* The derivation. *)

derivationFrame == <<lifecycleVars, bridgeStatus, ledger, nextCapabilityId,
                     capability, changedCapability, effects, answers>>

Goto(t, phase, passed) ==
    derivation' = [derivation EXCEPT ![t] = [@ EXCEPT !.phase = phase, !.passed = passed]]

(* An eligible decision binds a relationship that was current when its     *)
(* evaluation captured it.  From here on anything may change under it.     *)
Request(t, e, class, direction) ==
    /\ derivation[t].phase = "idle"
    /\ Exists(e)
    /\ nextCapabilityId <= MaxCapability
    /\ derivation' = [derivation EXCEPT ![t] =
           [NoDerivation EXCEPT
               !.phase = "resolve",
               !.binding = [edge |-> e, generation |-> relationshipGeneration[e],
                            version |-> authorityLineage[e],
                            class |-> class, direction |-> direction]]]
    /\ changedRequest' = [changedRequest EXCEPT ![t] = {}]
    /\ UNCHANGED derivationFrame

(* resolveCurrentRelationship, and the comparison of what it answered. *)
Resolve(t) ==
    LET r == derivation[t].binding
    IN /\ derivation[t].phase = "resolve"
       /\ IF Current(r.edge, r.generation)
          THEN Goto(t, "capture", {"binding"})
          ELSE Goto(t, "policy", {})
       /\ UNCHANGED <<derivationFrame, changedRequest>>

(* The request's version and class against the snapshot's. *)
CapturedChecks(r) ==
    {"binding"} \cup (IF authorityLineage[r.edge] = r.version THEN {"state"} ELSE {})
                \cup (IF r.class = 1 THEN {"class"} ELSE {})

(* captureSnapshot: the epoch is the lineage it saw, whatever follows. *)
Capture(t) ==
    LET r == derivation[t].binding
        passed == CapturedChecks(r)
        phase == IF {"state", "class"} \subseteq passed THEN "derive" ELSE "policy"
    IN /\ derivation[t].phase = "capture"
       /\ IF Current(r.edge, r.generation)
          THEN derivation' = [derivation EXCEPT ![t] =
                   [@ EXCEPT !.snapshot = Snapshot(r.edge), !.epoch = authorityLineage[r.edge],
                             !.passed = passed, !.phase = phase]]
          ELSE Goto(t, "policy", {"binding"})
       /\ UNCHANGED <<derivationFrame, changedRequest>>

(* deriveDirection: the live backend answers requestDerivationFailed() in  *)
(* every case; another backend may derive while the lineage is current.    *)
DeriveDirection(t) ==
    LET d == derivation[t]
        r == d.binding
    IN /\ d.phase = "derive"
       /\ \/ /\ DirectionAvailable
             /\ Current(r.edge, r.generation)
             /\ authorityLineage[r.edge] = d.snapshot.lineage
             /\ Goto(t, "freshness", d.passed)
          \/ Goto(t, "policy", d.passed \ {"binding"})
       /\ UNCHANGED <<derivationFrame, changedRequest>>

(* validateFreshness: a domain outside the mesh answers. *)
ValidateFreshness(t) ==
    LET d == derivation[t]
    IN /\ d.phase = "freshness"
       /\ \/ DirectionAvailable /\ Goto(t, "revalidate", d.passed \cup {"freshness"})
          \/ Goto(t, "policy", d.passed)
       /\ UNCHANGED <<derivationFrame, changedRequest>>

Revalidate(t) ==
    LET d == derivation[t]
    IN /\ d.phase = "revalidate"
       /\ IF Revalidates(d.binding.edge, d.binding.generation, d.snapshot)
          THEN Goto(t, "policy", d.passed \cup {"revalidation"})
          ELSE Goto(t, "policy", d.passed)
       /\ UNCHANGED <<derivationFrame, changedRequest>>

(* ProductionAuthorityDerivationPolicy::evaluate, after its eligibility test: *)
(* the first check that failed names the reason.                            *)
Rejection(passed, authorityPolicySatisfied) ==
    IF "binding" \notin passed THEN "binding_mismatch"
    ELSE IF "state" \notin passed THEN "stale_state"
    ELSE IF "class" \notin passed THEN "transition_class_mismatch"
    ELSE IF "freshness" \notin passed THEN "freshness_invalid"
    ELSE IF "revalidation" \notin passed THEN "revalidation_failed"
    ELSE IF ~authorityPolicySatisfied THEN "authority_policy_denied"
    ELSE "none"

(* A rejected derivation returns; an accepted one draws its capability id. *)
EvaluatePolicy(t, authorityPolicySatisfied) ==
    LET d == derivation[t]
    IN /\ d.phase = "policy"
       /\ IF Rejection(d.passed, authorityPolicySatisfied) = "none"
          THEN /\ nextCapabilityId <= MaxCapability
               /\ nextCapabilityId' = nextCapabilityId + 1
               /\ derivation' = [derivation EXCEPT ![t] =
                      [@ EXCEPT !.phase = "register", !.id = nextCapabilityId]]
               /\ UNCHANGED changedRequest
          ELSE /\ derivation' = [derivation EXCEPT ![t] = NoDerivation]
               /\ changedRequest' = [changedRequest EXCEPT ![t] = {}]
               /\ UNCHANGED nextCapabilityId
       /\ UNCHANGED <<lifecycleVars, bridgeStatus, ledger, capability,
                      changedCapability, effects, answers>>

(* registerIssued under the ledger's lock, and the return of the capability. *)
RegisterIssued(t) ==
    LET d == derivation[t]
        m == MeshOf(d.binding.edge)
    IN /\ d.phase = "register"
       /\ ledger[m][d.id].state = "unknown"
       /\ ledger' = [ledger EXCEPT ![m][d.id] =
              [state |-> "issued", binding |-> d.binding, epoch |-> d.epoch]]
       /\ capability' = [capability EXCEPT ![d.id] =
              [binding |-> d.binding, epoch |-> d.epoch]]
       /\ derivation' = [derivation EXCEPT ![t] = NoDerivation]
       /\ changedCapability' = [changedCapability EXCEPT ![d.id] = changedRequest[t]]
       /\ changedRequest' = [changedRequest EXCEPT ![t] = {}]
       /\ UNCHANGED <<lifecycleVars, bridgeStatus, nextCapabilityId, effects, answers>>

-----------------------------------------------------------------------------
(* The commit of capability id presented to mesh m. *)

WrongDomain_Unchecked(m, id) == FALSE

WrongDomain(m, id) == DomainOf(id) # m

(* The record and the capability must name the same request and epoch. *)
MatchesRecord(c, record) == record.binding = c.binding /\ record.epoch = c.epoch

(* The lineage is still the one requested and the one seen at issuance. *)
VersionIsCurrent(c, record) ==
    /\ authorityLineage[c.binding.edge] = c.binding.version
    /\ authorityLineage[c.binding.edge] = record.epoch

IsStale_Never(c, record) == FALSE

(* The relationship or its version is another one by now. *)
IsStale(c, record) ==
    \/ ~Current(c.binding.edge, c.binding.generation)
    \/ ~VersionIsCurrent(c, record)

(***************************************************************************)
(* The answer of commitProductionTransition, in the order of its early     *)
(* returns.  A commit would assign nextAuthorityLineage[m], which must be  *)
(* neither 0 nor the last value of the counter.  Three refusals that no    *)
(* capability of this mesh meets are left out: a node that is not there    *)
(* (nodes are never removed), a direction that is none, and a prepared     *)
(* capacity out of range (TypeCorrect of BridgeDynamicsProofs).            *)
(***************************************************************************)
CommitResult(m, id) ==
    LET c == capability[id]
        record == ledger[m][id]
    IN IF WrongDomain(m, id) THEN "target_mismatch"
       ELSE IF record.state = "consumed" THEN "capability_consumed"
       ELSE IF record.state # "issued" THEN "capability_invalid"
       ELSE IF ~MatchesRecord(c, record) THEN "capability_invalid"
       ELSE IF IsStale(c, record) THEN "stale_state"
       ELSE IF c.binding.class # 1 THEN "transition_rejected"
       ELSE IF bridgeStatus[c.binding.edge] = "absent" THEN "stale_state"
       ELSE IF nextAuthorityLineage[m] \in {0, MaxVersion} THEN "capability_invalid"
       ELSE "committed"

(* The status a commit of this direction prepares: constrain damps the      *)
(* bridge; support ends in NORMAL or RECOVERY depending on its capacity.    *)
PreparedStatus(direction) ==
    IF direction = "constrain" THEN {"DAMPING"} ELSE {"NORMAL", "RECOVERY"}

Answer(id, result) == answers' = [answers EXCEPT ![id] = @ \cup {result}]

LedgerAfterRefusal_ConsumedFirst(m, id) ==
    IF ledger[m][id].state = "issued" /\ ~WrongDomain(m, id)
    THEN [ledger EXCEPT ![m][id].state = "consumed"]
    ELSE ledger

(* Every refusal of an issued record, but the one for a foreign domain, *)
(* invalidates it.                                                      *)
LedgerAfterRefusal(m, id) ==
    IF ledger[m][id].state = "issued" /\ ~WrongDomain(m, id)
    THEN [ledger EXCEPT ![m][id].state = "invalidated"]
    ELSE ledger

RefuseCommit(m, id) ==
    LET result == CommitResult(m, id)
    IN /\ Held(id)
       /\ result # "committed"
       /\ Answer(id, result)
       /\ ledger' = LedgerAfterRefusal(m, id)
       /\ UNCHANGED <<lifecycleVars, bridgeStatus, nextCapabilityId, capability,
                      derivation, changedRequest, changedCapability, effects>>

(* Publication, consumption and version advance in one critical section. *)
Commit(m, id) ==
    LET b == capability[id].binding
    IN /\ Held(id)
       /\ CommitResult(m, id) = "committed"
       /\ \E status \in PreparedStatus(b.direction) :
              bridgeStatus' = [bridgeStatus EXCEPT ![b.edge] = status]
       /\ ledger' = [ledger EXCEPT ![m][id].state = "consumed"]
       /\ AdvanceLineage(b.edge)
       /\ Touch({b.edge}, "relationship")
       /\ effects' = effects \cup {[id |-> id, edge |-> b.edge, version |-> b.version,
                                    since |-> changedCapability[id]]}
       /\ Answer(id, "committed")
       /\ UNCHANGED <<nextCapabilityId, capability, derivation>>

(* markExpired and invalidate: transitionFromIssued. *)
LeaveIssued(m, id, terminal) ==
    /\ ledger[m][id].state = "issued"
    /\ ledger' = [ledger EXCEPT ![m][id].state = terminal]
    /\ UNCHANGED <<lifecycleVars, bridgeStatus, nextCapabilityId, capability, derivation,
                   changedRequest, changedCapability, effects, answers>>

-----------------------------------------------------------------------------
MeshNext ==
    \/ \E e \in Edge : Connect(e)
    \/ \E m \in Mesh : \E pruned \in SUBSET Edge : Prune(m, pruned)
    \/ \E e \in Edge : \E status \in PublishedStatus : SimulationStep(e, status)
    \/ \E e \in Edge : Evolve(e)

DerivationNext ==
    \E t \in Thread :
        \/ \E e \in Edge, class \in TransitionClass, direction \in RequestedDirection :
               Request(t, e, class, direction)
        \/ Resolve(t)
        \/ Capture(t)
        \/ DeriveDirection(t)
        \/ ValidateFreshness(t)
        \/ Revalidate(t)
        \/ \E satisfied \in BOOLEAN : EvaluatePolicy(t, satisfied)
        \/ RegisterIssued(t)

CommitNext ==
    \E m \in Mesh : \E id \in CapabilityId :
        \/ Commit(m, id)
        \/ RefuseCommit(m, id)
        \/ \E terminal \in {"expired", "invalidated"} : LeaveIssued(m, id, terminal)

Next == MeshNext \/ DerivationNext \/ CommitNext

Spec == Init /\ [][Next]_vars

-----------------------------------------------------------------------------
(* Properties. *)

(* A commit takes effect only if the relationship was not connected, pruned *)
(* or committed to since the request behind the capability was captured:    *)
(* generation, version and epoch together leave no way back to a value that *)
(* was current before (commitProductionTransition's stale_state checks).    *)
NoInterveningChange ==
    \A c \in effects : "relationship" \notin c.since

(* Of all the capabilities derived for one version of a relationship, by    *)
(* whatever threads, at most one takes effect, and it does so once.         *)
OneEffectPerVersion ==
    \A c, d \in effects :
        MeshOf(c.edge) = MeshOf(d.edge) /\ c.version = d.version => c = d

(* The ledger says consumed exactly for the capabilities that took effect,  *)
(* in the ledger of the mesh they took effect on: no effect is left         *)
(* unrecorded and no capability is used up by a refusal.                    *)
ConsumedIffEffect ==
    \A m \in Mesh, id \in CapabilityId :
        ledger[m][id].state = "consumed"
            <=> \E c \in effects : c.id = id /\ MeshOf(c.edge) = m

(* A holder who was told by the issuing mesh that a capability is stale,    *)
(* invalid or rejected never sees it commit later, and one told it was      *)
(* consumed is told so because of an earlier commit.                        *)
RefusalIsFinal ==
    \A id \in CapabilityId :
        /\ "committed" \in answers[id] =>
               answers[id] \subseteq {"committed", "capability_consumed", "target_mismatch"}
        /\ "capability_consumed" \in answers[id] => "committed" \in answers[id]

(* Every version ever given out is below the counter, and two directed      *)
(* edges of a mesh never carry the same generation or version: the numbers  *)
(* name one relationship, which is what a capability relies on.             *)
VersionsAreUnique ==
    \A e, f \in Edge :
        MeshOf(e) = MeshOf(f) /\ Exists(e) =>
            /\ authorityLineage[e] < nextAuthorityLineage[MeshOf(e)]
            /\ relationshipGeneration[e] < nextRelationshipGeneration[MeshOf(e)]
            /\ (authorityLineage[e] = authorityLineage[f]
                \/ relationshipGeneration[e] = relationshipGeneration[f]) => e = f

(* A bridge and its lifecycle entry come and go together, in both           *)
(* directions: commitProductionTransition never finds one without the other.*)
BridgeIffRelationship ==
    \A e \in Edge :
        /\ Exists(e) <=> bridgeStatus[e] # "absent"
        /\ Exists(e) <=> Exists(Reverse(e))

(* With the live backend, which derives no direction, no capability is ever *)
(* registered and no production transition takes effect.                    *)
LiveFailsClosed ==
    ~DirectionAvailable =>
        /\ effects = {}
        /\ \A m \in Mesh, id \in CapabilityId : ledger[m][id].state = "unknown"

(* A record that left the issued state never changes again: an expiry that  *)
(* races a commit, or a commit that races another, cannot reopen a          *)
(* capability or turn one terminal state into another.                      *)
TerminalStaysTerminal ==
    [][\A m \in Mesh, id \in CapabilityId :
          ledger[m][id].state \in Terminal => ledger'[m][id] = ledger[m][id]]_vars

(* The bridge a capability commits to is the one its snapshot saw: what     *)
(* docs/k12-production-transition-evaluator.md says of relevant changes.    *)
NoInterveningBridgeChange ==
    \A c \in effects : "bridge" \notin c.since

-----------------------------------------------------------------------------
(* The inductive invariant, in parts. *)

(* An absent entry has no lineage; counters start above 0. *)
LifecycleInv ==
    \A e \in Edge :
        /\ Exists(e) => authorityLineage[e] # 0
        /\ ~Exists(e) => authorityLineage[e] = 0

(* The binding names a generation and a version that were given out. *)
GivenOut(b) ==
    /\ b \in Binding
    /\ b.generation \in 1 .. nextRelationshipGeneration[MeshOf(b.edge)] - 1
    /\ b.version \in 1 .. nextAuthorityLineage[MeshOf(b.edge)] - 1

Outdated(b) ==
    relationshipGeneration[b.edge] # b.generation \/ authorityLineage[b.edge] # b.version

(* A change under a request leaves it outdated for ever. *)
RequestInv ==
    \A t \in Thread : derivation[t].binding # NoBinding =>
        /\ GivenOut(derivation[t].binding)
        /\ "relationship" \in changedRequest[t] => Outdated(derivation[t].binding)

CapabilityInv ==
    \A id \in CapabilityId : Held(id) =>
        /\ GivenOut(capability[id].binding)
        /\ "relationship" \in changedCapability[id] => Outdated(capability[id].binding)

(* An id that was drawn and not yet registered belongs to one thread only. *)
RegisterInv ==
    /\ \A t \in Thread : derivation[t].phase = "register" =>
           /\ derivation[t].id \in CapabilityId
           /\ derivation[t].id < nextCapabilityId
           /\ ~Held(derivation[t].id)
           /\ \A u \in Thread \ {t} : derivation[u].phase = "register" =>
                  derivation[u].id # derivation[t].id
    /\ \A id \in CapabilityId : Held(id) => id < nextCapabilityId
    /\ \A id \in CapabilityId, m \in Mesh : ~Held(id) => ledger[m][id].state = "unknown"

(* The version a commit used is current nowhere in its mesh any more. *)
EffectInv ==
    \A c \in effects :
        /\ Held(c.id)
        /\ c.edge = capability[c.id].binding.edge
        /\ c.version = capability[c.id].binding.version
        /\ c.version < nextAuthorityLineage[MeshOf(c.edge)]
        /\ \A e \in Edge : MeshOf(e) = MeshOf(c.edge) => authorityLineage[e] # c.version

(* Without a direction a derivation never gets past its freshness check. *)
LiveInv ==
    ~DirectionAvailable =>
        \A t \in Thread :
            /\ derivation[t].phase \notin {"freshness", "revalidate", "register"}
            /\ "freshness" \notin derivation[t].passed

Inv ==
    /\ LifecycleInv /\ VersionsAreUnique /\ BridgeIffRelationship
    /\ RequestInv /\ CapabilityInv /\ RegisterInv
    /\ NoInterveningChange /\ EffectInv /\ OneEffectPerVersion /\ ConsumedIffEffect
    /\ LiveInv /\ LiveFailsClosed
=============================================================================
