------------------------ MODULE AuthorityRefinement ------------------------
(***************************************************************************)
(* ProductionAuthority implements OneUseToken: the lineage of a directed   *)
(* edge is its version, the lineage counter of its mesh bounds it, and a   *)
(* capability is the token whose state its own mesh's ledger keeps.        *)
(***************************************************************************)
EXTENDS ProductionAuthority

TokenState(s) ==
    CASE s = "unknown" -> "none"
      [] s = "issued" -> "issued"
      [] s = "consumed" -> "used"
      [] s \in {"expired", "invalidated"} -> "void"

TokenOf(id) ==
    IF Held(id)
    THEN [state |-> TokenState(ledger[DomainOf(id)][id].state),
          target |-> capability[id].binding.edge,
          version |-> capability[id].binding.version]
    ELSE [state |-> "none", target |-> <<>>, version |-> 0]

Contract == INSTANCE OneUseToken WITH
    Target <- Edge,
    Token <- CapabilityId,
    version <- authorityLineage,
    clock <- [e \in Edge |-> nextAuthorityLineage[MeshOf(e)] - 1],
    token <- [id \in CapabilityId |-> TokenOf(id)],
    uses <- {<<c.id, c.edge, c.version>> : c \in effects}

(* Every step of derivation, ledger, commit and mesh is a step of the       *)
(* one-use-token contract or changes nothing it speaks of: whatever the     *)
(* interleaving, a capability is used at most once, on the version it names.*)
ImplementsContract == Contract!Spec
=============================================================================
