--------------------------- MODULE ReliableExecutor ---------------------------
(***************************************************************************)
(* The attempts of executions at one dependency: what an answer, or none,  *)
(* is taken to mean, who tries again, what reconciliation decides, and the *)
(* circuit breaker all of them share.  An action is what the executor does *)
(* between two awaits; a delivery of events that is awaited may fail.      *)
(***************************************************************************)
EXTENDS CircuitBreaker, FiniteSets

CONSTANTS
  Execution,
  ReadOnly,      \* executions of tools without a side effect
  Idempotent,    \* executions of reserve_charging_slot, at one station
  Replayed,      \* executions whose record a conflicting replay may delete
  MaxAttempts,
  AttemptTime    \* how long an attempt holds its permit at most

\* Tool timeouts are far below the cooldown; event deliveries are taken to be.
ASSUME ExecutorAssumption ==
  /\ ReadOnly \subseteq Execution
  /\ Idempotent \subseteq Execution \ ReadOnly
  /\ Replayed \subseteq Execution
  /\ MaxAttempts \in Nat \ {0}
  /\ AttemptTime \in Nat
  /\ AttemptTime < Cooldown

VARIABLES
  pc,         \* what an execution awaits, or how it ended
  attempt,    \* the last attempt begun
  permit,     \* the circuit permit of the attempt, until it is settled
  age,        \* how long the permit has been held
  outcome,    \* how the attempt is classified
  lost,       \* executions whose record is gone
  circuit,
  sent,       \* requests the dependency has not acted on and may act on
  effects,    \* how often the effect of an execution happened
  booked,     \* is a reservation active at the station?
  seen        \* executions of which the reconciler says EXECUTED, and one was active

executor == <<pc, attempt, permit, age, outcome>>
downstream == <<sent, effects, booked>>
vars == <<executor, lost, circuit, downstream, seen>>

Verdict == {"REJECTED", "FAILED", "SUCCEEDED", "RETRY_EXHAUSTED", "OUTCOME_UNKNOWN"}

\* An effect may have happened, and the reconciler is asked or has answered.
Doubt == {"reconciling", "executed", "notExecuted"}

Outcome == {"SUCCEEDED", "RETRYABLE", "NON_RETRYABLE", "AMBIGUOUS"}

\* Side effects that must not be asked for twice.
Plain == Execution \ (ReadOnly \cup Idempotent)

TypeOK ==
  /\ pc \in [Execution -> {"created", "acquiring", "announcing", "calling",
                           "reporting"} \cup Doubt \cup Verdict]
  /\ attempt \in [Execution -> 0..MaxAttempts]
  /\ permit \in [Execution -> {"NONE", "CLOSED", "HALF_OPEN"}]
  /\ age \in [Execution -> 0..AttemptTime]
  /\ outcome \in [Execution -> Outcome \cup {"NONE"}]
  /\ lost \subseteq Replayed
  /\ circuit \in CircuitEntry
  /\ sent \subseteq Execution \X (1..MaxAttempts)
  /\ effects \in [Execution -> Nat]
  /\ booked \in BOOLEAN
  /\ seen \subseteq Idempotent

Init ==
  /\ pc = [e \in Execution |-> "created"]
  /\ attempt = [e \in Execution |-> 0]
  /\ permit = [e \in Execution |-> "NONE"]
  /\ age = [e \in Execution |-> 0]
  /\ outcome = [e \in Execution |-> "NONE"]
  /\ lost = {}
  /\ circuit = NewEntry
  /\ sent = {}
  /\ effects = [e \in Execution |-> 0]
  /\ booked = FALSE
  /\ seen = {}

------------------------------------------------------------------------------
(* The executor.                                                           *)

Goto(e, next) == pc' = [pc EXCEPT ![e] = next]

(***************************************************************************)
(* The policy permit or the authorization is consumed, or not; then the    *)
(* execution runs, unless its record or the delivery of an event fails.    *)
(***************************************************************************)
Begin(e) ==
  /\ pc[e] = "created"
  /\ \/ Goto(e, "REJECTED")
     \/ Goto(e, "FAILED")
     \/ e \notin lost /\ Goto(e, "acquiring")
  /\ UNCHANGED <<attempt, permit, age, outcome, lost, circuit, downstream>>

\* An attempt asks the breaker for a permit.
AcquirePermit(e) ==
  /\ pc[e] = "acquiring"
  /\ Allowed(circuit)
  /\ attempt' = [attempt EXCEPT ![e] = @ + 1]
  /\ permit' = [permit EXCEPT ![e] = Acquired(circuit).state]
  /\ age' = [age EXCEPT ![e] = 0]
  /\ circuit' = Acquired(circuit)
  /\ Goto(e, "announcing")
  /\ UNCHANGED <<outcome, lost, downstream>>

\* A fault: an execution waits for the circuit to close.
CircuitOpen_Waits(e) ==
  /\ pc[e] = "acquiring"
  /\ ~Allowed(circuit)
  /\ UNCHANGED vars

CircuitOpen(e) ==
  /\ pc[e] = "acquiring"
  /\ ~Allowed(circuit)
  /\ Goto(e, "FAILED")
  /\ UNCHANGED <<attempt, permit, age, outcome, lost, circuit, downstream>>

\* The events before the call are delivered, and the tool sends its request.
Announce(e) ==
  /\ pc[e] = "announcing"
  /\ sent' = sent \cup {<<e, attempt[e]>>}
  /\ Goto(e, "calling")
  /\ UNCHANGED <<attempt, permit, age, outcome, lost, circuit, effects, booked>>

\* A fault: the probe stays with an execution that has ended.
AnnounceFails_KeepsProbe(e) ==
  /\ pc[e] = "announcing"
  /\ permit' = [permit EXCEPT ![e] = "NONE"]
  /\ age' = [age EXCEPT ![e] = 0]
  /\ Goto(e, "FAILED")
  /\ UNCHANGED <<attempt, outcome, lost, circuit, downstream>>

\* One of those deliveries fails; a probe must be given back.
AnnounceFails(e) ==
  /\ pc[e] = "announcing"
  /\ circuit' = IF permit[e] = "HALF_OPEN" THEN Failed(circuit) ELSE circuit
  /\ permit' = [permit EXCEPT ![e] = "NONE"]
  /\ age' = [age EXCEPT ![e] = 0]
  /\ Goto(e, "FAILED")
  /\ UNCHANGED <<attempt, outcome, lost, downstream>>

\* A fault: a side effect that timed out counts as one that failed.
Classified_TimeoutFails(e, answer) ==
  IF answer = "done" THEN {"SUCCEEDED", "NON_RETRYABLE"}
  ELSE IF answer = "none" /\ e \in ReadOnly THEN {"RETRYABLE"}
  ELSE {"NON_RETRYABLE"}

\* A fault: whatever is transient is tried again.
Classified_RetriesAll(e, answer) ==
  CASE answer = "done" -> {"SUCCEEDED", "NON_RETRYABLE"}
    [] answer = "refused" -> {"NON_RETRYABLE"}
    [] answer \in {"none", "unavailable"} -> {"RETRYABLE"}

(***************************************************************************)
(* What an answer means: success, unless it cannot be read; a definite     *)
(* refusal; an unavailable dependency; or, with no answer, a timeout or an *)
(* aborted connection, after which a side effect may still happen.         *)
(***************************************************************************)
Classified(e, answer) ==
  CASE answer = "done" -> {"SUCCEEDED", "NON_RETRYABLE"}
    [] answer = "refused" -> {"NON_RETRYABLE"}
    [] answer = "unavailable" -> IF e \in Plain THEN {"NON_RETRYABLE"} ELSE {"RETRYABLE"}
    [] answer = "none" -> IF e \in ReadOnly THEN {"RETRYABLE"} ELSE {"AMBIGUOUS"}

\* A fault: a definite refusal leaves the probe as it is.
Settled_TransientOnly(p, result) ==
  CASE result = "SUCCEEDED" -> Succeeded(circuit)
    [] result \in {"RETRYABLE", "AMBIGUOUS"} -> Failed(circuit)
    [] result = "NON_RETRYABLE" -> circuit

(***************************************************************************)
(* The answers the attempt under way may get, none if it takes too long: a *)
(* request that is not acted on yet may be refused or not be served, one   *)
(* that was acted on is done, though a reservation may be made and yet be  *)
(* answered by a gateway timeout.                                          *)
(***************************************************************************)
Answers(e) ==
  IF <<e, attempt[e]>> \in sent THEN {"none", "refused", "unavailable"}
  ELSE IF e \in Plain THEN {"none", "done"}
  ELSE {"none", "done", "unavailable"}

\* An answered request is no longer under way, and a read has no consequence.
HangUp(e, answer) ==
  sent' = IF answer # "none" \/ e \in ReadOnly THEN sent \ {<<e, attempt[e]>>} ELSE sent

\* How an attempt with permit p and that outcome settles the circuit.
Settled(p, result) ==
  CASE result = "SUCCEEDED" -> Succeeded(circuit)
    [] result \in {"RETRYABLE", "AMBIGUOUS"} -> Failed(circuit)
    [] result = "NON_RETRYABLE" -> IF p = "HALF_OPEN" THEN Succeeded(circuit) ELSE circuit

\* The call returns or times out: the attempt is recorded and the circuit settled.
ToolReturns(e) ==
  /\ pc[e] = "calling"
  /\ e \notin lost
  /\ \E answer \in Answers(e) : \E result \in Classified(e, answer) :
       /\ outcome' = [outcome EXCEPT ![e] = result]
       /\ circuit' = Settled(permit[e], result)
       /\ HangUp(e, answer)
  /\ permit' = [permit EXCEPT ![e] = "NONE"]
  /\ age' = [age EXCEPT ![e] = 0]
  /\ Goto(e, "reporting")
  /\ UNCHANGED <<attempt, lost, effects, booked>>

\* Without a record the attempt cannot be recorded: addAttempt throws, twice.
RecordMissing(e) ==
  /\ pc[e] = "calling"
  /\ e \in lost
  /\ \E answer \in Answers(e) : HangUp(e, answer)
  /\ Goto(e, "FAILED")
  /\ UNCHANGED <<attempt, permit, age, outcome, lost, circuit, effects, booked>>

\* A fault: the last attempt is not noticed.
Again_Always(e) == "acquiring"

\* Where an execution goes that may try again if attempts are left.
Again(e) == IF attempt[e] < MaxAttempts THEN "acquiring" ELSE "RETRY_EXHAUSTED"

\* The events after the call are delivered.
Report(e) ==
  /\ pc[e] = "reporting"
  /\ Goto(e, CASE outcome[e] = "SUCCEEDED" -> "SUCCEEDED"
               [] outcome[e] = "NON_RETRYABLE" -> "FAILED"
               [] outcome[e] = "RETRYABLE" -> Again(e)
               [] outcome[e] = "AMBIGUOUS" -> "reconciling")
  /\ outcome' = [outcome EXCEPT ![e] = "NONE"]
  /\ UNCHANGED <<attempt, permit, age, lost, circuit, downstream>>

\* A fault: a failed delivery always ends in FAILED.
ReportFails_Forgets(e) ==
  /\ pc[e] = "reporting"
  /\ Goto(e, "FAILED")
  /\ outcome' = [outcome EXCEPT ![e] = "NONE"]
  /\ UNCHANGED <<attempt, permit, age, lost, circuit, downstream>>

\* One of those deliveries fails; what may have happened is not denied.
ReportFails(e) ==
  /\ pc[e] = "reporting"
  /\ Goto(e, IF \/ outcome[e] = "AMBIGUOUS"
                \/ outcome[e] = "SUCCEEDED" /\ e \notin ReadOnly
               THEN "OUTCOME_UNKNOWN"
               ELSE "FAILED")
  /\ outcome' = [outcome EXCEPT ![e] = "NONE"]
  /\ UNCHANGED <<attempt, permit, age, lost, circuit, downstream>>

\* A fault: any reservation at the station counts, a cancelled one too.
Reconcile_AnyStatus(e) ==
  /\ pc[e] = "reconciling"
  /\ \/ e \in Idempotent /\ Goto(e, "executed")
     \/ Goto(e, "OUTCOME_UNKNOWN")
  /\ UNCHANGED <<attempt, permit, age, outcome, lost, circuit, downstream>>

(***************************************************************************)
(* The reconciler looks for an active reservation at the station, whoever  *)
(* made it.  It knows of nothing but reservations, and may fail.           *)
(***************************************************************************)
Reconcile(e) ==
  /\ pc[e] = "reconciling"
  /\ \/ e \in Idempotent /\ Goto(e, IF booked THEN "executed" ELSE "notExecuted")
     \/ Goto(e, "OUTCOME_UNKNOWN")
  /\ UNCHANGED <<attempt, permit, age, outcome, lost, circuit, downstream>>

(***************************************************************************)
(* What it answered is announced and the verdict drawn from it, while the  *)
(* reservation may be cancelled or another be made.  Without one the       *)
(* execution tries again, if attempts are left and the retry can be        *)
(* announced; if any other event is not delivered, the outcome stays       *)
(* unknown.                                                                *)
(***************************************************************************)
Conclude(e) ==
  /\ \/ pc[e] = "executed" /\ Goto(e, "SUCCEEDED")
     \/ /\ pc[e] = "notExecuted" /\ attempt[e] < MaxAttempts
        /\ \E next \in {"acquiring", "FAILED"} : Goto(e, next)
     \/ pc[e] \in {"executed", "notExecuted"} /\ Goto(e, "OUTCOME_UNKNOWN")
  /\ UNCHANGED <<attempt, permit, age, outcome, lost, circuit, downstream>>

------------------------------------------------------------------------------
(* The surroundings.                                                       *)

\* From the look-up to the verdict every step records whether the station was reserved.
Watch == seen' = {e \in Idempotent : pc'[e] = "executed" /\ (booked' \/ e \in seen)}

(***************************************************************************)
(* The dependency acts on a request, at any time after it was sent.  A     *)
(* reservation is made once per idempotency key, and none while another is *)
(* active at the station.                                                  *)
(***************************************************************************)
Act(e, a) ==
  /\ <<e, a>> \in sent
  /\ sent' = sent \ {<<e, a>>}
  /\ \/ /\ e \in ReadOnly \/ (e \in Idempotent /\ effects[e] > 0)
        /\ UNCHANGED <<effects, booked>>
     \/ /\ e \in Plain
        /\ effects' = [effects EXCEPT ![e] = @ + 1]
        /\ UNCHANGED booked
     \/ /\ e \in Idempotent /\ effects[e] = 0 /\ ~booked
        /\ effects' = [effects EXCEPT ![e] = @ + 1]
        /\ booked' = TRUE
  /\ UNCHANGED <<executor, lost, circuit>>
  /\ Watch

\* Somebody else makes a reservation at the station, or cancels the active one.
OthersReserve ==
  /\ booked' = ~booked
  /\ UNCHANGED <<executor, lost, circuit, sent, effects>>
  /\ Watch

\* A conflicting replay, on its way out, deletes the record of e.
LoseRecord(e) ==
  /\ e \in Replayed \ lost
  /\ pc[e] \notin Verdict
  /\ lost' = lost \cup {e}
  /\ UNCHANGED <<executor, circuit, downstream>>
  /\ Watch

\* Who holds a permit and has not settled the circuit yet.
Holders == {e \in Execution : permit[e] # "NONE" /\ pc[e] \notin Verdict}

Tick ==
  /\ \A e \in Holders : age[e] < AttemptTime
  /\ age' = [e \in Execution |-> IF e \in Holders THEN age[e] + 1 ELSE age[e]]
  /\ circuit' = Elapsed(circuit)
  /\ UNCHANGED <<pc, attempt, permit, outcome, lost, downstream>>
  /\ Watch

ExecutorStep(e) ==
  /\ \/ Begin(e) \/ AcquirePermit(e) \/ CircuitOpen(e) \/ Announce(e) \/ AnnounceFails(e)
     \/ ToolReturns(e) \/ RecordMissing(e) \/ Report(e) \/ ReportFails(e)
     \/ Reconcile(e) \/ Conclude(e)
  /\ Watch

Next ==
  \/ \E e \in Execution : ExecutorStep(e) \/ LoseRecord(e)
  \/ \E e \in Execution, a \in 1..MaxAttempts : Act(e, a)
  \/ OthersReserve
  \/ Tick

Spec == Init /\ [][Next]_vars

(***************************************************************************)
(* Fairness, for liveness only: every await of an execution ends, the call *)
(* of the tool by its timeout at the latest.  Nothing makes the dependency *)
(* answer or time pass.                                                    *)
(***************************************************************************)
FairSpec == Spec /\ \A e \in Execution : WF_vars(ExecutorStep(e))

------------------------------------------------------------------------------
(* Properties.                                                             *)

\* However requests are delayed and attempts repeated, the effect of an execution
\* happens at most once.
EffectOnce == \A e \in Execution : effects[e] <= 1

(***************************************************************************)
(* What a verdict says.  SUCCEEDED: the effect happened, or the station    *)
(* was reserved, by whomever, when the reconciler looked or since; that    *)
(* reservation may have been cancelled before the verdict is reached.      *)
(* REJECTED: nothing was asked for.  FAILED, for an effect that is not     *)
(* idempotent: nothing is under way, unless the record of the execution    *)
(* was lost.  A read is never in doubt, and only what is safe to repeat    *)
(* exhausts its retries.                                                   *)
(***************************************************************************)
Honest(e, verdict) ==
  CASE verdict = "SUCCEEDED" -> e \in ReadOnly \/ effects[e] = 1 \/ e \in seen
    [] verdict = "REJECTED" -> attempt[e] = 0
    [] verdict = "FAILED" -> e \in Plain \ lost => \A a \in 1..MaxAttempts : <<e, a>> \notin sent
    [] verdict = "OUTCOME_UNKNOWN" -> e \notin ReadOnly
    [] verdict = "RETRY_EXHAUSTED" -> e \notin Plain

\* Every step that ends an execution ends it with an honest verdict, and no step repeats
\* an effect, before the verdict or after it.
HonestVerdicts ==
  [][/\ \A e \in Execution : pc[e] # pc'[e] /\ pc'[e] \in Verdict => Honest(e, pc'[e])
     /\ EffectOnce']_vars

Probing(e) == permit[e] = "HALF_OPEN" /\ pc[e] \notin Verdict

\* At most one execution probes a half-open circuit, and no straggler from before the
\* circuit opened settles it meanwhile.
OneProbe ==
  \A e \in Execution : Probing(e) =>
    /\ circuit.state = "HALF_OPEN" /\ circuit.probeActive
    /\ \A f \in Execution : Probing(f) => f = e

(***************************************************************************)
(* A half-open circuit and its probe agree: at most one execution probes   *)
(* it, undisturbed, and a probe the circuit waits for is one that somebody *)
(* still makes, or one whose execution lost its record.                    *)
(***************************************************************************)
ProbeAccounted ==
  /\ OneProbe
  /\ circuit.probeActive => \E e \in Execution : permit[e] = "HALF_OPEN" /\ (Probing(e) \/ e \in lost)

(***************************************************************************)
(* The same without the exception, as ADR 0009 has it: no answer strands   *)
(* the probe.                                                              *)
(***************************************************************************)
ProbeReleased == circuit.probeActive => \E e \in Execution : Probing(e)

\* Every execution that begins comes to a verdict.
EveryExecutionEnds == \A e \in Execution : pc[e] = "acquiring" ~> pc[e] \in Verdict
==============================================================================
