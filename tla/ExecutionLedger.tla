--------------------------- MODULE ExecutionLedger ---------------------------
(***************************************************************************)
(* What the reliable executor promises about a side effect requested under *)
(* an idempotency key, however many callers, processes and crashes are     *)
(* involved: it is struck at most once, and the verdict recorded for the   *)
(* key is final and honest.  A failure does not say that nothing happened  *)
(* (the tool may have acted and answered unreadably), but that nothing     *)
(* will any more.  DurableExecution implements it.                         *)
(***************************************************************************)

CONSTANT Key       \* idempotency keys

VARIABLES
  verdict,         \* of each key: "ABSENT", "IN_PROGRESS" or how it ended
  struck           \* how often the side effect of the key has happened

vars == <<verdict, struck>>

Final == {"SUCCEEDED", "FAILED", "REJECTED", "OUTCOME_UNKNOWN"}

Init ==
  /\ verdict = [k \in Key |-> "ABSENT"]
  /\ struck = [k \in Key |-> 0]

Begin(k) ==
  /\ verdict[k] = "ABSENT"
  /\ verdict' = [verdict EXCEPT ![k] = "IN_PROGRESS"]
  /\ UNCHANGED struck

\* The effect happens, once, and never after it was declared failed or rejected.
Strike(k) ==
  /\ verdict[k] \in {"IN_PROGRESS", "OUTCOME_UNKNOWN"}
  /\ struck[k] = 0
  /\ struck' = [struck EXCEPT ![k] = 1]
  /\ UNCHANGED verdict

\* A success is declared only after the effect, a rejection only without one.
Settle(k) ==
  /\ verdict[k] = "IN_PROGRESS"
  /\ \E v \in Final :
       /\ v = "SUCCEEDED" => struck[k] = 1
       /\ v = "REJECTED" => struck[k] = 0
       /\ verdict' = [verdict EXCEPT ![k] = v]
  /\ UNCHANGED struck

Next == \E k \in Key : Begin(k) \/ Strike(k) \/ Settle(k)

Spec == Init /\ [][Next]_vars
==============================================================================
