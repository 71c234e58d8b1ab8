---------------------------- MODULE PendingAction ----------------------------
(***************************************************************************)
(* What the confirmation service promises about a pending R2/R3 action,    *)
(* with every operation a single step: the legal state graph, and a        *)
(* single-use warrant that exists only for an action that was confirmed.   *)
(* ActionLifecycle, where an operation is a sequence of transactions with  *)
(* crashes between them, implements it.                                    *)
(***************************************************************************)

CONSTANT Action    \* the identifiers an action may be created under

VARIABLES
  phase,           \* the ActionState of each action, "ABSENT" before creation
  warrant          \* its ExecutionAuthorization: "NONE", "LIVE" or "SPENT"

vars == <<phase, warrant>>

ActionState ==
  {"AWAITING_CONFIRMATION", "CONFIRMED", "READY_FOR_EXECUTION",
   "CANCELLED", "EXPIRED", "REPLAN_REQUIRED", "REJECTED"}

Warrant == {"NONE", "LIVE", "SPENT"}

(***************************************************************************)
(* The state graph of the action lifecycle.  A state that is missing from  *)
(* the left-hand side has no way out.                                      *)
(***************************************************************************)
LegalTransition ==
  {<<"AWAITING_CONFIRMATION", next>> :
      next \in {"CONFIRMED", "CANCELLED", "EXPIRED", "REJECTED"}}
  \cup {<<"CONFIRMED", next>> : next \in {"REPLAN_REQUIRED", "READY_FOR_EXECUTION"}}

Init ==
  /\ phase = [a \in Action |-> "ABSENT"]
  /\ warrant = [a \in Action |-> "NONE"]

\* The action is stored, awaiting its confirmation.
Propose(a) ==
  /\ phase[a] = "ABSENT"
  /\ phase' = [phase EXCEPT ![a] = "AWAITING_CONFIRMATION"]
  /\ UNCHANGED warrant

\* Any move of the state graph but the one that issues the authorization.
Advance(a) ==
  /\ \E next \in ActionState \ {"READY_FOR_EXECUTION"} :
        /\ <<phase[a], next>> \in LegalTransition
        /\ phase' = [phase EXCEPT ![a] = next]
  /\ UNCHANGED warrant

\* The authorization is issued together with the move to READY_FOR_EXECUTION.
Authorize(a) ==
  /\ <<phase[a], "READY_FOR_EXECUTION">> \in LegalTransition
  /\ warrant[a] = "NONE"
  /\ phase' = [phase EXCEPT ![a] = "READY_FOR_EXECUTION"]
  /\ warrant' = [warrant EXCEPT ![a] = "LIVE"]

\* The executor spends the authorization; the action stays where it is.
Spend(a) ==
  /\ phase[a] = "READY_FOR_EXECUTION"
  /\ warrant[a] = "LIVE"
  /\ warrant' = [warrant EXCEPT ![a] = "SPENT"]
  /\ UNCHANGED phase

Next == \E a \in Action : Propose(a) \/ Advance(a) \/ Authorize(a) \/ Spend(a)

Spec == Init /\ [][Next]_vars
==============================================================================
