---------------------------- MODULE OneUseToken ----------------------------
(***************************************************************************)
(* What a production commit promises, with no locks, no derivation and no  *)
(* ledger: a target has a version, a token is good for one version of one  *)
(* target and for one use, and using it gives the target a version it never*)
(* had.  A version that was left is never current again.                   *)
(***************************************************************************)
EXTENDS Naturals

CONSTANTS Target, Token

VARIABLES
    version,  \* current version of each target, 0 while it does not exist
    clock,    \* no version of the target so far is above its clock
    token,    \* [state, target, version] of each token
    uses      \* the <<token, target, version>> that took effect

vars == <<version, clock, token, uses>>

Init ==
    /\ version = [t \in Target |-> 0]
    /\ clock = [t \in Target |-> 0]
    /\ \A k \in Token : token[k].state = "none"
    /\ uses = {}

(* A target keeps its version, disappears, or takes a version it never had. *)
Moves(t) ==
    /\ version'[t] \in {0, version[t]} \/ version'[t] > clock[t]
    /\ clock'[t] >= clock[t] /\ clock'[t] >= version'[t]

(* Tokens other than k stay as they are. *)
OthersKept(k) == \A j \in Token \ {k} : token'[j] = token[j]

Change ==
    /\ \A t \in Target : Moves(t)
    /\ UNCHANGED <<token, uses>>

(* A token may be born stale: nothing is locked between looking and issuing. *)
Issue(k) ==
    /\ token[k].state = "none"
    /\ token'[k].state = "issued"
    /\ token'[k].target \in Target
    /\ token'[k].version \in 1 .. clock[token'[k].target]
    /\ OthersKept(k)
    /\ UNCHANGED <<version, clock, uses>>

Use(k) ==
    LET t == token[k].target
    IN /\ token[k].state = "issued"
       /\ version[t] = token[k].version
       /\ version'[t] > clock[t]
       /\ \A s \in Target : Moves(s)
       /\ token' = [token EXCEPT ![k].state = "used"]
       /\ uses' = uses \cup {<<k, t, token[k].version>>}

Void(k) ==
    /\ token[k].state = "issued"
    /\ token' = [token EXCEPT ![k].state = "void"]
    /\ UNCHANGED <<version, clock, uses>>

Next == Change \/ \E k \in Token : Issue(k) \/ Use(k) \/ Void(k)

Spec == Init /\ [][Next]_vars
=============================================================================
