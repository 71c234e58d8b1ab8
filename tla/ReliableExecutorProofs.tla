------------------------ MODULE ReliableExecutorProofs ------------------------
(***************************************************************************)
(* Proofs about ReliableExecutor, for any number of executions of any kind *)
(* and any limits.                                                         *)
(*                                                                         *)
(* Executions meet only in the circuit and at the station, so what makes   *)
(* verdicts honest is what one execution knows (Knows): an effect that is  *)
(* neither read nor idempotent is asked for once, an attempt whose request *)
(* is gone has had its effect, and an outcome was classified for a reason. *)
(* The probe rests on time (CircuitOK): who got its permit from a closed   *)
(* circuit is older than the circuit is open, and gives it back before the *)
(* cooldown is over, so it never meets a half-open one.                    *)
(*                                                                         *)
(* The second half is about the other end of these requests, the vehicle   *)
(* simulator, for any callers, stations, keys and scenarios (SimulatorInv):*)
(* a station is free or one reservation holds one of its slots, whatever   *)
(* was applied belongs to the epoch it arrived in, and what was reserved   *)
(* under a key since the keys were dropped is still found under it.        *)
(***************************************************************************)
EXTENDS ReliableExecutor, VehicleSimulator, FiniteSetTheorems, TLAPS

\* Requests of an execution that may still be acted on.
Pending(e) == {a \in 1..MaxAttempts : <<e, a>> \in sent}

\* What holds of one execution.
Knows(e) ==
  /\ pc[e] \in {"created", "acquiring", "reporting"} \cup Doubt => permit[e] = "NONE"
  /\ pc[e] = "created" => attempt[e] = 0
  /\ pc[e] = "acquiring" => attempt[e] < MaxAttempts
  /\ effects[e] <= 1
  /\ Pending(e) \subseteq 1..attempt[e]
  /\ e \in Plain => /\ attempt[e] <= 1
                    /\ pc[e] \in {"created", "acquiring"} => attempt[e] = 0
                    /\ attempt[e] = 0 \/ pc[e] = "announcing" => Pending(e) = {} /\ effects[e] = 0
                    /\ Pending(e) # {} => effects[e] = 0
  /\ pc[e] = "calling" /\ e \notin ReadOnly => attempt[e] \in Pending(e) \/ effects[e] = 1
  /\ pc[e] \in {"announcing", "calling"} => attempt[e] >= 1 /\ permit[e] # "NONE"
  /\ pc[e] = "reporting" =>
       /\ outcome[e] # "NONE"
       /\ outcome[e] = "SUCCEEDED" => e \in ReadOnly \/ effects[e] = 1
       /\ outcome[e] \in {"SUCCEEDED", "NON_RETRYABLE"} /\ e \in Plain => Pending(e) = {}
       /\ outcome[e] = "RETRYABLE" => e \notin Plain
       /\ outcome[e] = "AMBIGUOUS" => e \notin ReadOnly
  /\ pc[e] = "reconciling" => e \notin ReadOnly
  /\ pc[e] \in {"executed", "notExecuted"} => e \in Idempotent

\* Who holds a permit knows the circuit.
CircuitOK ==
  /\ \A e \in Holders : permit[e] = "CLOSED" =>
       circuit.state = "CLOSED" \/ (circuit.state = "OPEN" /\ circuit.openFor <= age[e])
  /\ ProbeAccounted

\* What the reconciler found was there.
SeenOK == \A e \in Execution : pc[e] = "executed" => e \in seen

IInv ==
  /\ TypeOK
  /\ \A e \in Execution : Knows(e)
  /\ CircuitOK
  /\ SeenOK

------------------------------------------------------------------------------
(* What a step of one execution is to the others.                          *)

Place == {"created", "acquiring", "announcing", "calling", "reporting"} \cup Doubt \cup Verdict

\* An execution moves, and nobody else.
Alone(e) ==
  /\ \A f \in Execution \ {e} :
       /\ pc'[f] = pc[f] /\ attempt'[f] = attempt[f] /\ permit'[f] = permit[f]
       /\ age'[f] = age[f] /\ outcome'[f] = outcome[f] /\ effects'[f] = effects[f]
       /\ Pending(f)' = Pending(f)
  /\ lost' = lost

\* What a step of the executor has to show.
Sound(e) ==
  /\ TypeOK' /\ Knows(e)' /\ Alone(e)
  /\ pc'[e] \in Verdict => Honest(e, pc'[e])

\* What every execution knows stays true when one of them moves alone.
LEMMA KnowledgeStands ==
  ASSUME IInv, NEW e \in Execution, Knows(e)', Alone(e)
  PROVE  \A f \in Execution : Knows(f)'
BY DEF IInv, Alone, Knows

\* A request is what the dependency holds of an attempt.
LEMMA Requests ==
  ASSUME NEW e \in Execution, NEW a \in 1..MaxAttempts,
         sent' \in {sent, sent \cup {<<e, a>>}, sent \ {<<e, a>>}}
  PROVE  /\ \A f \in Execution \ {e} : Pending(f)' = Pending(f)
         /\ sent' = sent => Pending(e)' = Pending(e)
         /\ sent' = sent \cup {<<e, a>>} => Pending(e)' = Pending(e) \cup {a}
         /\ sent' = sent \ {<<e, a>>} => Pending(e)' = Pending(e) \ {a}
BY DEF Pending

------------------------------------------------------------------------------
(* The circuit breaker.                                                    *)

\* The methods of the breaker keep its entry one; whatever settles it ends the probe.
LEMMA Breaker ==
  ASSUME NEW entry \in CircuitEntry
  PROVE  /\ Acquired(entry) \in CircuitEntry
         /\ Elapsed(entry) \in CircuitEntry
         /\ Succeeded(entry) \in CircuitEntry
         /\ Failed(entry) \in CircuitEntry
<1>1. PICK closed \in CircuitState, open \in CircuitState, half \in CircuitState :
        closed = "CLOSED" /\ open = "OPEN" /\ half = "HALF_OPEN"
  BY DEF CircuitState
<1>2. PICK zero \in 0..FailureThreshold, now \in 0..Cooldown : zero = 0 /\ now = 0
  BY BreakerAssumption
<1>3. entry.failures \in 0..FailureThreshold /\ entry.openFor \in 0..Cooldown
  BY DEF CircuitEntry
<1>4. Acquired(entry) \in CircuitEntry
  <2>1. [entry EXCEPT !.state = half, !.openFor = now, !.probeActive = TRUE] \in CircuitEntry
    BY DEF CircuitEntry
  <2> QED BY <1>1, <1>2, <2>1 DEF Acquired
<1>5. Elapsed(entry) \in CircuitEntry
  <2>1. ASSUME entry.openFor < Cooldown
        PROVE  [entry EXCEPT !.openFor = @ + 1] \in CircuitEntry
    <3>1. PICK t \in 0..Cooldown : t = entry.openFor + 1
      BY <1>3, <2>1, BreakerAssumption
    <3>2. [entry EXCEPT !.openFor = t] \in CircuitEntry
      BY DEF CircuitEntry
    <3> QED BY <3>1, <3>2
  <2> QED BY <2>1 DEF Elapsed
<1>6. Succeeded(entry) \in CircuitEntry
  <2>1. [entry EXCEPT !.state = closed, !.failures = zero, !.openFor = now, !.probeActive = FALSE]
          \in CircuitEntry
    BY DEF CircuitEntry
  <2> QED BY <1>1, <1>2, <2>1 DEF Succeeded
<1>7. Failed(entry) \in CircuitEntry
  <2>1. PICK n \in 0..FailureThreshold :
          n = IF entry.failures < FailureThreshold THEN entry.failures + 1 ELSE entry.failures
    BY <1>3, BreakerAssumption
  <2>2. [entry EXCEPT !.state = open, !.openFor = now, !.probeActive = FALSE] \in CircuitEntry
    BY DEF CircuitEntry
  <2>3. [entry EXCEPT !.failures = n, !.probeActive = FALSE] \in CircuitEntry
    BY DEF CircuitEntry
  <2>4. [[entry EXCEPT !.state = open, !.openFor = now, !.probeActive = FALSE] EXCEPT !.failures = n]
          \in CircuitEntry
    BY <2>2 DEF CircuitEntry
  <2> QED BY <1>1, <1>2, <2>1, <2>2, <2>3, <2>4 DEF Failed
<1> QED BY <1>4, <1>5, <1>6, <1>7

\* Whatever settles the circuit with a count of its own ends the probe; a failure leaves
\* an open circuit open, for no longer than before.
LEMMA Settling ==
  ASSUME NEW entry \in CircuitEntry
  PROVE  /\ Succeeded(entry).state = "CLOSED" /\ Succeeded(entry).probeActive = FALSE
         /\ Failed(entry).probeActive = FALSE
         /\ Failed(entry).state \in {"CLOSED", "OPEN"}
         /\ Failed(entry).state = "OPEN" =>
              \/ Failed(entry).openFor = 0
              \/ entry.state = "OPEN" /\ Failed(entry).openFor = entry.openFor
<1>1. PICK s \in CircuitState, n \in 0..FailureThreshold, t \in 0..Cooldown, p \in BOOLEAN :
        entry = [state |-> s, failures |-> n, openFor |-> t, probeActive |-> p]
  BY DEF CircuitEntry
<1>2. Succeeded(entry).state = "CLOSED" /\ Succeeded(entry).probeActive = FALSE
  BY <1>1 DEF Succeeded
<1>3. PICK m : m = IF entry.failures < FailureThreshold THEN entry.failures + 1 ELSE entry.failures
  OBVIOUS
<1>4. \/ Failed(entry) = [state |-> "OPEN", failures |-> n, openFor |-> 0, probeActive |-> FALSE]
      \/ /\ s # "HALF_OPEN"
         /\ Failed(entry) = [state |-> s, failures |-> m, openFor |-> t, probeActive |-> FALSE]
      \/ Failed(entry) = [state |-> "OPEN", failures |-> m, openFor |-> 0, probeActive |-> FALSE]
  BY <1>1, <1>3 DEF Failed
<1> QED BY <1>1, <1>2, <1>4 DEF CircuitState

------------------------------------------------------------------------------
(* The steps of the executor.                                              *)

\* Only executions of reservations are watched.
LEMMA Watched == ASSUME Watch PROVE seen' \subseteq Idempotent
BY DEF Watch

\* An execution begins.
LEMMA BeginStep ==
  ASSUME IInv, NEW e \in Execution, Begin(e), Watch PROVE Sound(e)
<1>1. PICK place \in {"REJECTED", "FAILED", "acquiring"} : pc' = [pc EXCEPT ![e] = place]
  BY DEF Begin, Goto
<1>2. /\ pc[e] = "created"
      /\ UNCHANGED <<attempt, permit, age, outcome, lost, circuit, sent, effects, booked>>
  BY DEF Begin, downstream
<1>3. TypeOK /\ Knows(e) /\ MaxAttempts \in Nat \ {0}
  BY ExecutorAssumption DEF IInv
<1>4. pc'[e] = place /\ \A f \in Execution \ {e} : pc'[f] = pc[f]
  BY <1>1, <1>3 DEF TypeOK
<1>5. \A f \in Execution : Pending(f)' = Pending(f)
  BY <1>2 DEF Pending
<1>6. TypeOK'
  BY Watched, <1>1, <1>2, <1>3 DEF TypeOK, Verdict
<1>7. Knows(e)'
  BY <1>2, <1>3, <1>4, <1>5 DEF Knows, Doubt
<1>8. place \in Verdict => Honest(e, place)
  <2>1. attempt[e] = 0 /\ (e \in Plain => Pending(e) = {})
    BY <1>2, <1>3 DEF Knows
  <2> QED BY <2>1 DEF Honest, Verdict, Pending
<1> QED BY <1>2, <1>4, <1>5, <1>6, <1>7, <1>8 DEF Sound, Alone

\* An attempt gets its permit from the circuit.
LEMMA AcquirePermitStep ==
  ASSUME IInv, NEW e \in Execution, AcquirePermit(e), Watch PROVE Sound(e)
<1>1. PICK p \in {"CLOSED", "HALF_OPEN"} : p = Acquired(circuit).state
  BY DEF Acquired, IInv, TypeOK, CircuitEntry, CircuitState
<1>2. PICK n \in 1..MaxAttempts : n = attempt[e] + 1
  BY ExecutorAssumption DEF AcquirePermit, IInv, Knows, TypeOK
<1>3. PICK place \in {"announcing"} : pc' = [pc EXCEPT ![e] = place]
  BY DEF AcquirePermit, Goto
<1>4. /\ pc[e] = "acquiring"
      /\ attempt' = [attempt EXCEPT ![e] = n]
      /\ permit' = [permit EXCEPT ![e] = p]
      /\ age' = [age EXCEPT ![e] = 0]
      /\ circuit' = Acquired(circuit)
      /\ UNCHANGED <<outcome, lost, sent, effects, booked>>
  BY <1>1, <1>2 DEF AcquirePermit, downstream
<1>5. TypeOK /\ Knows(e) /\ MaxAttempts \in Nat \ {0} /\ AttemptTime \in Nat
  BY ExecutorAssumption DEF IInv
<1>6. circuit' \in CircuitEntry
  BY <1>4, <1>5, Breaker DEF TypeOK
<1>7. TypeOK'
  BY Watched, <1>3, <1>4, <1>5, <1>6 DEF TypeOK
<1>8. /\ pc'[e] = place /\ attempt'[e] = n /\ permit'[e] = p
      /\ \A f \in Execution \ {e} : /\ pc'[f] = pc[f] /\ attempt'[f] = attempt[f]
                                    /\ permit'[f] = permit[f] /\ age'[f] = age[f]
  BY <1>3, <1>4, <1>5 DEF TypeOK
<1>9. \A f \in Execution : Pending(f)' = Pending(f)
  BY <1>4 DEF Pending
<1>10. Pending(e) \subseteq 1..n /\ attempt[e] \in Nat
  BY <1>2, <1>5 DEF Knows, TypeOK
<1>11. Knows(e)'
  BY <1>2, <1>4, <1>5, <1>8, <1>9, <1>10 DEF Knows, Doubt
<1> QED BY <1>4, <1>7, <1>8, <1>9, <1>11 DEF Sound, Alone, Verdict

\* An attempt finds the circuit open.
LEMMA CircuitOpenStep ==
  ASSUME IInv, NEW e \in Execution, CircuitOpen(e), Watch PROVE Sound(e)
<1>1. PICK place \in {"FAILED"} : pc' = [pc EXCEPT ![e] = place]
  BY DEF CircuitOpen, Goto
<1>2. /\ pc[e] = "acquiring"
      /\ UNCHANGED <<attempt, permit, age, outcome, lost, circuit, sent, effects, booked>>
  BY DEF CircuitOpen, downstream
<1>3. TypeOK /\ Knows(e)
  BY DEF IInv
<1>4. pc'[e] = place /\ \A f \in Execution \ {e} : pc'[f] = pc[f]
  BY <1>1, <1>3 DEF TypeOK
<1>5. \A f \in Execution : Pending(f)' = Pending(f)
  BY <1>2 DEF Pending
<1>6. TypeOK'
  BY Watched, <1>1, <1>2, <1>3 DEF TypeOK, Verdict
<1>7. Knows(e)'
  BY <1>2, <1>3, <1>4, <1>5 DEF Knows, Doubt
<1>8. Honest(e, place)
  BY <1>2, <1>3 DEF Honest, Knows, Pending
<1> QED BY <1>2, <1>4, <1>5, <1>6, <1>7, <1>8 DEF Sound, Alone

\* The event of an attempt is out, and its request is sent.
LEMMA AnnounceStep ==
  ASSUME IInv, NEW e \in Execution, Announce(e), Watch PROVE Sound(e)
<1>1. PICK place \in {"calling"} : pc' = [pc EXCEPT ![e] = place]
  BY DEF Announce, Goto
<1>2. /\ pc[e] = "announcing" /\ sent' = sent \cup {<<e, attempt[e]>>}
      /\ UNCHANGED <<attempt, permit, age, outcome, lost, circuit, effects, booked>>
  BY DEF Announce
<1>3. TypeOK /\ Knows(e)
  BY DEF IInv
<1>4. PICK a \in 1..MaxAttempts : a = attempt[e]
  BY <1>2, <1>3, ExecutorAssumption DEF TypeOK, Knows
<1>5. pc'[e] = place /\ \A f \in Execution \ {e} : pc'[f] = pc[f]
  BY <1>1, <1>3 DEF TypeOK
<1>6. /\ sent' = sent \cup {<<e, a>>}
      /\ Pending(e)' = Pending(e) \cup {a}
      /\ \A f \in Execution \ {e} : Pending(f)' = Pending(f)
  BY <1>2, <1>4, Requests
<1>7. TypeOK'
  BY Watched, <1>1, <1>2, <1>3, <1>6 DEF TypeOK
<1>8. Pending(e) \subseteq 1..a
  BY <1>3, <1>4 DEF Knows
<1>9. Knows(e)'
  BY <1>2, <1>3, <1>4, <1>5, <1>6, <1>8 DEF Knows, Doubt
<1> QED BY <1>2, <1>5, <1>6, <1>7, <1>9 DEF Sound, Alone, Verdict

\* The event of an attempt is not delivered.
LEMMA AnnounceFailsStep ==
  ASSUME IInv, NEW e \in Execution, AnnounceFails(e), Watch PROVE Sound(e)
<1>1. PICK place \in {"FAILED"} : pc' = [pc EXCEPT ![e] = place]
  BY DEF AnnounceFails, Goto
<1>2. PICK none \in {"NONE"} : permit' = [permit EXCEPT ![e] = none]
  BY DEF AnnounceFails
<1>3. /\ pc[e] = "announcing"
      /\ age' = [age EXCEPT ![e] = 0]
      /\ circuit' \in {circuit, Failed(circuit)}
      /\ UNCHANGED <<attempt, outcome, lost, sent, effects, booked>>
  BY DEF AnnounceFails, downstream
<1>4. TypeOK /\ Knows(e)
  BY DEF IInv
<1>5. circuit' \in CircuitEntry
  BY <1>3, <1>4, Breaker DEF TypeOK
<1>6. TypeOK'
  BY Watched, <1>1, <1>2, <1>3, <1>4, <1>5, ExecutorAssumption DEF TypeOK, Verdict
<1>7. /\ pc'[e] = place /\ permit'[e] = none
      /\ \A f \in Execution \ {e} : /\ pc'[f] = pc[f] /\ permit'[f] = permit[f]
                                    /\ age'[f] = age[f]
  BY <1>1, <1>2, <1>3, <1>4 DEF TypeOK
<1>8. \A f \in Execution : Pending(f)' = Pending(f)
  BY <1>3 DEF Pending
<1>9. Knows(e)'
  BY <1>3, <1>4, <1>7, <1>8 DEF Knows, Doubt
<1>10. Honest(e, place)
  BY <1>3, <1>4 DEF Honest, Knows, Pending
<1> QED BY <1>3, <1>6, <1>7, <1>8, <1>9, <1>10 DEF Sound, Alone

\* The tool answers, in time or by its own deadline.
LEMMA ToolReturnsStep ==
  ASSUME IInv, NEW e \in Execution, ToolReturns(e), Watch PROVE Sound(e)
<1>1. PICK place \in {"reporting"} : pc' = [pc EXCEPT ![e] = place]
  BY DEF ToolReturns, Goto
<1>2. PICK none \in {"NONE"} : permit' = [permit EXCEPT ![e] = none]
  BY DEF ToolReturns
<1>3. PICK answer \in Answers(e), result \in Outcome :
        /\ result \in Classified(e, answer)
        /\ outcome' = [outcome EXCEPT ![e] = result]
        /\ circuit' = Settled(permit[e], result)
        /\ HangUp(e, answer)
  BY DEF ToolReturns, Answers, Classified, Outcome
<1>4. /\ pc[e] = "calling"
      /\ age' = [age EXCEPT ![e] = 0]
      /\ UNCHANGED <<attempt, lost, effects, booked>>
  BY DEF ToolReturns
<1>5. TypeOK /\ Knows(e)
  BY DEF IInv
<1>6. circuit' \in CircuitEntry
  BY <1>3, <1>5, Breaker DEF TypeOK, Settled, Outcome
<1>7. PICK a \in 1..MaxAttempts : a = attempt[e]
  BY <1>4, <1>5, ExecutorAssumption DEF TypeOK, Knows
<1>8. sent' = IF answer # "none" \/ e \in ReadOnly THEN sent \ {<<e, a>>} ELSE sent
  BY <1>3, <1>7 DEF HangUp
<1>9. /\ sent' \in {sent, sent \ {<<e, a>>}}
      /\ Pending(e)' = IF answer # "none" \/ e \in ReadOnly THEN Pending(e) \ {a} ELSE Pending(e)
      /\ \A f \in Execution \ {e} : Pending(f)' = Pending(f)
  BY <1>8, Requests
<1>10. TypeOK'
  BY Watched, <1>1, <1>2, <1>3, <1>4, <1>5, <1>6, <1>9, ExecutorAssumption DEF TypeOK
<1>11. /\ pc'[e] = place /\ permit'[e] = none /\ outcome'[e] = result
       /\ \A f \in Execution \ {e} : /\ pc'[f] = pc[f] /\ permit'[f] = permit[f]
                                     /\ age'[f] = age[f] /\ outcome'[f] = outcome[f]
  BY <1>1, <1>2, <1>3, <1>4, <1>5 DEF TypeOK
<1>12. /\ result # "NONE"
       /\ result = "RETRYABLE" => e \notin Plain
       /\ result = "AMBIGUOUS" => e \notin ReadOnly
       /\ result = "SUCCEEDED" => answer = "done"
       /\ result \in {"SUCCEEDED", "NON_RETRYABLE"} => answer # "none"
  BY <1>3, ExecutorAssumption DEF Classified, Outcome, Answers, Plain
<1>13. answer = "done" => a \notin Pending(e)
  BY <1>3, <1>7 DEF Answers, Pending
<1>14. e \in Plain => a = 1 /\ Pending(e) \subseteq {1}
  BY <1>4, <1>5, <1>7 DEF Knows
<1>15. Knows(e)'
  <2>1. result = "SUCCEEDED" => e \in ReadOnly \/ effects[e] = 1
    BY <1>4, <1>5, <1>7, <1>12, <1>13 DEF Knows
  <2>2. result \in {"SUCCEEDED", "NON_RETRYABLE"} /\ e \in Plain => Pending(e)' = {}
    BY <1>9, <1>12, <1>14
  <2>3. Pending(e)' \subseteq Pending(e)
    BY <1>9
  <2> QED BY <1>4, <1>5, <1>11, <1>12, <2>1, <2>2, <2>3 DEF Knows, Doubt
<1> QED BY <1>4, <1>9, <1>10, <1>11, <1>15 DEF Sound, Alone, Verdict

\* An execution finds its circuit record gone.
LEMMA RecordMissingStep ==
  ASSUME IInv, NEW e \in Execution, RecordMissing(e), Watch PROVE Sound(e)
<1>1. PICK place \in {"FAILED"} : pc' = [pc EXCEPT ![e] = place]
  BY DEF RecordMissing, Goto
<1>2. /\ pc[e] = "calling" /\ e \in lost
      /\ \E answer \in Answers(e) : HangUp(e, answer)
      /\ UNCHANGED <<attempt, permit, age, outcome, lost, circuit, effects, booked>>
  BY DEF RecordMissing
<1>3. TypeOK /\ Knows(e)
  BY DEF IInv
<1>4. PICK a \in 1..MaxAttempts : a = attempt[e]
  BY <1>2, <1>3, ExecutorAssumption DEF TypeOK, Knows
<1>5. sent' \in {sent, sent \ {<<e, a>>}}
  BY <1>2, <1>4 DEF HangUp
<1>6. /\ Pending(e)' \subseteq Pending(e)
      /\ \A f \in Execution \ {e} : Pending(f)' = Pending(f)
  BY <1>5, Requests
<1>7. pc'[e] = place /\ \A f \in Execution \ {e} : pc'[f] = pc[f]
  BY <1>1, <1>3 DEF TypeOK
<1>8. TypeOK'
  BY Watched, <1>1, <1>2, <1>3, <1>5 DEF TypeOK, Verdict, Doubt
<1>9. Knows(e)'
  BY <1>2, <1>3, <1>6, <1>7 DEF Knows, Doubt
<1>10. Honest(e, place)
  BY <1>2 DEF Honest
<1> QED BY <1>2, <1>6, <1>7, <1>8, <1>9, <1>10 DEF Sound, Alone

\* The two ways of reporting, which have in common what they leave alone.
LEMMA ReportStep ==
  ASSUME IInv, NEW e \in Execution, Report(e) \/ ReportFails(e), Watch PROVE Sound(e)
<1>1. PICK none \in {"NONE"} : outcome' = [outcome EXCEPT ![e] = none]
  BY DEF Report, ReportFails
<1>2. /\ pc[e] = "reporting"
      /\ UNCHANGED <<attempt, permit, age, lost, circuit, sent, effects, booked>>
  BY DEF Report, ReportFails, downstream
<1>3. TypeOK /\ Knows(e) /\ MaxAttempts \in Nat \ {0}
  BY ExecutorAssumption DEF IInv
<1>4. outcome[e] \in Outcome /\ attempt[e] \in 0..MaxAttempts
  BY <1>2, <1>3 DEF TypeOK, Knows
<1>5. PICK place \in {"SUCCEEDED", "FAILED", "acquiring", "RETRY_EXHAUSTED", "reconciling",
                      "OUTCOME_UNKNOWN"} :
        /\ pc' = [pc EXCEPT ![e] = place]
        /\ place = "SUCCEEDED" => outcome[e] = "SUCCEEDED"
        /\ place = "acquiring" => outcome[e] = "RETRYABLE" /\ attempt[e] < MaxAttempts
        /\ place = "RETRY_EXHAUSTED" => outcome[e] = "RETRYABLE"
        /\ place = "reconciling" => outcome[e] = "AMBIGUOUS"
        /\ place = "OUTCOME_UNKNOWN" => e \notin ReadOnly
        /\ place = "FAILED" => \/ outcome[e] \in {"NON_RETRYABLE", "RETRYABLE"}
                              \/ e \in ReadOnly
  <2>1. CASE Report(e)
    BY <2>1, <1>4 DEF Report, Goto, Again, Outcome
  <2>2. CASE ReportFails(e)
    <3>1. outcome[e] = "AMBIGUOUS" => e \notin ReadOnly
      BY <1>2, <1>3 DEF Knows
    <3> QED BY <2>2, <3>1, <1>4 DEF ReportFails, Goto, Outcome
  <2> QED BY <2>1, <2>2
<1>6. /\ pc'[e] = place /\ outcome'[e] = none
      /\ \A f \in Execution \ {e} : pc'[f] = pc[f] /\ outcome'[f] = outcome[f]
  BY <1>1, <1>3, <1>5 DEF TypeOK
<1>7. \A f \in Execution : Pending(f)' = Pending(f)
  BY <1>2 DEF Pending
<1>8. TypeOK'
  BY Watched, <1>1, <1>2, <1>3, <1>5 DEF TypeOK, Verdict, Doubt
<1>9. Knows(e)'
  BY <1>2, <1>3, <1>5, <1>6, <1>7 DEF Knows, Doubt
<1>10. place \in Verdict => Honest(e, place)
  <2>1. /\ outcome[e] = "SUCCEEDED" => e \in ReadOnly \/ effects[e] = 1
        /\ outcome[e] = "NON_RETRYABLE" /\ e \in Plain => Pending(e) = {}
        /\ outcome[e] = "RETRYABLE" => e \notin Plain
    BY <1>2, <1>3 DEF Knows
  <2> QED BY <1>5, <2>1 DEF Honest, Verdict, Pending, Plain
<1> QED BY <1>2, <1>6, <1>7, <1>8, <1>9, <1>10 DEF Sound, Alone

\* An outcome in doubt is looked up, and a verdict drawn from the answer.
LEMMA ReconcileStep ==
  ASSUME IInv, NEW e \in Execution, Reconcile(e) \/ Conclude(e), Watch PROVE Sound(e)
<1>1. PICK place \in {"executed", "notExecuted", "SUCCEEDED", "acquiring", "FAILED",
                      "OUTCOME_UNKNOWN"} :
        /\ pc' = [pc EXCEPT ![e] = place]
        /\ place # "OUTCOME_UNKNOWN" => e \in Idempotent
        /\ place = "SUCCEEDED" => pc[e] = "executed"
        /\ place = "acquiring" => attempt[e] < MaxAttempts
  BY DEF Reconcile, Conclude, Goto, IInv, Knows
<1>2. /\ pc[e] \in Doubt
      /\ UNCHANGED <<attempt, permit, age, outcome, lost, circuit, sent, effects, booked>>
  BY DEF Reconcile, Conclude, downstream, Doubt
<1>3. /\ TypeOK /\ Knows(e) /\ (pc[e] = "executed" => e \in seen)
      /\ (e \in Idempotent => e \notin Plain /\ e \notin ReadOnly)
  BY ExecutorAssumption DEF IInv, SeenOK, Plain
<1>4. pc'[e] = place /\ \A f \in Execution \ {e} : pc'[f] = pc[f]
  BY <1>1, <1>3 DEF TypeOK
<1>5. \A f \in Execution : Pending(f)' = Pending(f)
  BY <1>2 DEF Pending
<1>6. TypeOK'
  BY Watched, <1>1, <1>2, <1>3 DEF TypeOK, Verdict, Doubt
<1>7. permit[e] = "NONE" /\ e \notin ReadOnly
  BY <1>2, <1>3 DEF Knows, Doubt
<1>8. Knows(e)'
  BY <1>1, <1>2, <1>3, <1>4, <1>5, <1>7 DEF Knows, Doubt
<1>9. place \in Verdict => Honest(e, place)
  BY <1>1, <1>3, <1>7 DEF Honest, Verdict
<1> QED BY <1>2, <1>4, <1>5, <1>6, <1>8, <1>9 DEF Sound, Alone

\* Every step of an execution keeps what it knows and ends honestly.
LEMMA ExecutorSteps ==
  ASSUME IInv, NEW e \in Execution, ExecutorStep(e) PROVE Sound(e)
BY BeginStep, AcquirePermitStep, CircuitOpenStep, AnnounceStep, AnnounceFailsStep,
   ToolReturnsStep, RecordMissingStep, ReportStep, ReconcileStep DEF ExecutorStep

------------------------------------------------------------------------------
(* What executions know stands.                                            *)

\* The dependency acts once, and on a request that was sent.
LEMMA ActStep ==
  ASSUME IInv, NEW e \in Execution, NEW a \in 1..MaxAttempts, Act(e, a)
  PROVE  TypeOK' /\ Knows(e)' /\ Alone(e)
<1>1. /\ <<e, a>> \in sent /\ sent' = sent \ {<<e, a>>}
      /\ UNCHANGED <<pc, attempt, permit, age, outcome, lost, circuit>>
  BY DEF Act, executor
<1>2. TypeOK /\ Knows(e)
  BY DEF IInv
<1>3. PICK n \in {0, 1} : n = effects[e]
  BY <1>2 DEF TypeOK, Knows
<1>4. PICK m \in {0, 1} :
        /\ effects' = [effects EXCEPT ![e] = m]
        /\ \/ e \in ReadOnly /\ m = n
           \/ e \in Idempotent /\ m = 1
           \/ e \in Plain /\ m = n + 1
  <2>1. CASE UNCHANGED <<effects, booked>> /\ (e \in ReadOnly \/ (e \in Idempotent /\ effects[e] > 0))
    <3>1. effects' = [effects EXCEPT ![e] = n]
      BY <1>2, <1>3, <2>1 DEF TypeOK
    <3> QED BY <1>2, <1>3, <2>1, <3>1 DEF TypeOK
  <2>2. CASE e \in Plain /\ effects' = [effects EXCEPT ![e] = @ + 1] /\ UNCHANGED booked
    <3>1. n = 0
      BY <1>1, <1>2, <1>3, <2>2 DEF Knows, Pending
    <3>2. effects' = [effects EXCEPT ![e] = 1]
      BY <1>2, <1>3, <2>2, <3>1 DEF TypeOK
    <3>3. 1 \in {0, 1} /\ 1 = n + 1
      BY <3>1
    <3> QED BY <2>2, <3>2, <3>3
  <2>3. CASE /\ e \in Idempotent /\ effects[e] = 0
             /\ effects' = [effects EXCEPT ![e] = @ + 1] /\ booked' = TRUE
    <3>1. effects' = [effects EXCEPT ![e] = 1]
      BY <1>2, <2>3 DEF TypeOK
    <3> QED BY <2>3, <3>1
  <2>4. \/ e \in Plain /\ effects' = [effects EXCEPT ![e] = @ + 1] /\ UNCHANGED booked
        \/ UNCHANGED <<effects, booked>> /\ (e \in ReadOnly \/ (e \in Idempotent /\ effects[e] > 0))
        \/ /\ e \in Idempotent /\ effects[e] = 0
           /\ effects' = [effects EXCEPT ![e] = @ + 1] /\ booked' = TRUE
    BY DEF Act
  <2> QED
    <3>1. CASE e \in Plain /\ effects' = [effects EXCEPT ![e] = @ + 1] /\ UNCHANGED booked
      BY <3>1, <2>2
    <3>2. CASE UNCHANGED <<effects, booked>> /\ (e \in ReadOnly \/ (e \in Idempotent /\ effects[e] > 0))
      BY <3>2, <2>1
    <3> QED BY <2>3, <2>4, <3>1, <3>2
<1>5. effects'[e] = m /\ \A f \in Execution \ {e} : effects'[f] = effects[f]
  BY <1>2, <1>4 DEF TypeOK
<1>6. /\ Pending(e)' = Pending(e) \ {a}
      /\ \A f \in Execution \ {e} : Pending(f)' = Pending(f)
  BY <1>1, Requests
<1>7. TypeOK'
  <2>1. booked' \in BOOLEAN
    BY <1>2 DEF Act, TypeOK
  <2>2. seen' \subseteq Idempotent
    BY Watched DEF Act
  <2> QED BY <1>1, <1>2, <1>4, <2>1, <2>2 DEF TypeOK
<1>8. Knows(e)'
  <2>1. a \in Pending(e) /\ a \in 1..attempt[e] /\ Pending(e) \subseteq 1..attempt[e]
    BY <1>1, <1>2 DEF Knows, Pending
  <2>2. CASE e \in Plain
    <3>1. attempt[e] = 1 /\ Pending(e)' = {} /\ n = 0 /\ m = 1 /\ e \notin ReadOnly
      BY <1>2, <1>3, <1>4, <1>6, <2>1, <2>2, ExecutorAssumption DEF Knows, TypeOK, Plain
    <3>2. /\ pc[e] \notin {"created", "acquiring", "announcing"}
          /\ pc[e] = "reporting" => outcome[e] \notin {"SUCCEEDED", "NON_RETRYABLE"}
      BY <1>2, <2>1, <2>2, <3>1 DEF Knows
    <3> QED BY <1>1, <1>2, <1>5, <2>2, <3>1, <3>2 DEF Knows
  <2>3. CASE e \in Idempotent
    <3>1. m = 1 /\ e \notin Plain
      BY <1>4, <2>3, ExecutorAssumption DEF Plain
    <3> QED BY <1>1, <1>2, <1>5, <1>6, <3>1 DEF Knows
  <2>4. CASE e \in ReadOnly
    <3>1. m = n /\ e \notin Plain
      BY <1>4, <2>4, ExecutorAssumption DEF Plain
    <3> QED BY <1>1, <1>2, <1>3, <1>5, <1>6, <2>4, <3>1 DEF Knows
  <2> QED BY <1>4, <2>2, <2>3, <2>4
<1> QED BY <1>1, <1>5, <1>6, <1>7, <1>8 DEF Alone

\* What an execution knows is about nothing else than these variables.
LEMMA Untouched ==
  ASSUME IInv, UNCHANGED <<pc, attempt, permit, outcome, sent, effects>>
  PROVE  \A e \in Execution : Knows(e)'
<1>1. \A e \in Execution : Pending(e)' = Pending(e)
  BY DEF Pending
<1> QED BY <1>1 DEF IInv, Knows

\* The clock goes on.
LEMMA TickStep ==
  ASSUME IInv, Tick PROVE TypeOK' /\ \A e \in Execution : Knows(e)'
<1>1. TypeOK
  BY DEF IInv
<1>2. circuit' \in CircuitEntry
  BY <1>1, Breaker DEF Tick, TypeOK
<1>3. age' \in [Execution -> 0..AttemptTime]
  <2>1. \A e \in Execution : e \in Holders => age[e] + 1 \in 0..AttemptTime
    BY <1>1, ExecutorAssumption DEF Tick, TypeOK
  <2>2. \A e \in Execution :
          (IF e \in Holders THEN age[e] + 1 ELSE age[e]) \in 0..AttemptTime
    BY <1>1, <2>1 DEF TypeOK
  <2> QED BY <2>2 DEF Tick
<1>4. TypeOK'
  BY Watched, <1>1, <1>2, <1>3 DEF Tick, TypeOK, downstream
<1> QED BY <1>4, Untouched DEF Tick, downstream

\* Every step keeps the types and what every execution knows.
LEMMA KnowledgeStep ==
  ASSUME IInv, [Next]_vars PROVE TypeOK' /\ \A e \in Execution : Knows(e)'
<1>1. ASSUME NEW e \in Execution, ExecutorStep(e)
      PROVE  TypeOK' /\ \A f \in Execution : Knows(f)'
  BY <1>1, ExecutorSteps, KnowledgeStands DEF Sound
<1>2. ASSUME NEW e \in Execution, NEW a \in 1..MaxAttempts, Act(e, a)
      PROVE  TypeOK' /\ \A f \in Execution : Knows(f)'
  BY <1>2, ActStep, KnowledgeStands
<1>3. ASSUME NEW e \in Execution, LoseRecord(e)
      PROVE  TypeOK' /\ \A f \in Execution : Knows(f)'
  <2>1. TypeOK'
    BY Watched, <1>3 DEF LoseRecord, executor, downstream, IInv, TypeOK
  <2> QED BY <1>3, <2>1, Untouched DEF LoseRecord, executor, downstream
<1>4. ASSUME OthersReserve
      PROVE  TypeOK' /\ \A f \in Execution : Knows(f)'
  <2>1. TypeOK'
    BY Watched, <1>4 DEF OthersReserve, executor, IInv, TypeOK
  <2> QED BY <1>4, <2>1, Untouched DEF OthersReserve, executor
<1>5. ASSUME UNCHANGED vars
      PROVE  TypeOK' /\ \A f \in Execution : Knows(f)'
  <2>1. TypeOK'
    BY <1>5 DEF vars, executor, downstream, IInv, TypeOK
  <2> QED BY <1>5, <2>1, Untouched DEF vars, executor, downstream
<1> QED BY <1>1, <1>2, <1>3, <1>4, <1>5, TickStep DEF Next

\* A reservation that was found is not forgotten before the verdict.
LEMMA SeenStep ==
  ASSUME IInv, [Next]_vars PROVE SeenOK'
<1> SUFFICES ASSUME NEW e \in Execution, pc'[e] = "executed" PROVE e \in seen'
  BY DEF SeenOK
<1>1. CASE UNCHANGED <<pc, seen>>
  BY <1>1 DEF IInv, SeenOK
<1>2. CASE Watch
  <2>1. CASE pc[e] = "executed"
    <3>1. e \in seen /\ e \in Idempotent
      BY <2>1 DEF IInv, SeenOK, Knows
    <3> QED BY <1>2, <3>1 DEF Watch
  <2>2. CASE pc[e] # "executed"
    <3>1. PICK f \in Execution : ExecutorStep(f)
      BY <2>2 DEF Next, LoseRecord, Act, OthersReserve, Tick, vars, executor
    <3>2. f = e
      BY <2>2, <3>1, ExecutorSteps DEF Sound, Alone
    <3>3. Reconcile(e)
      <4>1. ASSUME NEW place, pc' = [pc EXCEPT ![e] = place] PROVE place = "executed"
        BY <4>1 DEF IInv, TypeOK
      <4>2. ~Report(e) /\ ~ReportFails(e)
        <5>1. PICK next \in {"acquiring", "RETRY_EXHAUSTED"} : next = Again(e)
          BY DEF Again
        <5>2. ASSUME Report(e) PROVE FALSE
          <6>1. outcome[e] \in Outcome
            BY <5>2 DEF Report, IInv, Knows, TypeOK
          <6> QED BY <4>1, <5>1, <5>2, <6>1 DEF Report, Goto, Outcome
        <5>3. ~ReportFails(e)
          BY <4>1 DEF ReportFails, Goto
        <5> QED BY <5>2, <5>3
      <4>3. /\ ~Begin(e) /\ ~AcquirePermit(e) /\ ~CircuitOpen(e) /\ ~Announce(e)
            /\ ~AnnounceFails(e) /\ ~ToolReturns(e) /\ ~RecordMissing(e) /\ ~Conclude(e)
        BY <4>1 DEF Begin, AcquirePermit, CircuitOpen, Announce, AnnounceFails, ToolReturns,
                    RecordMissing, Conclude, Goto
      <4> QED BY <3>1, <3>2, <4>2, <4>3 DEF ExecutorStep
    <3>4. e \in Idempotent /\ booked'
      BY <3>3 DEF Reconcile, Goto, downstream, IInv, TypeOK
    <3> QED BY <1>2, <3>4 DEF Watch
  <2> QED BY <2>1, <2>2
<1> QED BY <1>1, <1>2 DEF Next, ExecutorStep, LoseRecord, Act, OthersReserve, Tick, vars, executor

------------------------------------------------------------------------------
(* The circuit and who holds a permit for it.                              *)

\* Permits and circuit are left alone, and an execution that ends has none to settle or
\* has lost its record.
Quietly ==
  /\ UNCHANGED <<permit, age, circuit>>
  /\ lost \subseteq lost'
  /\ \A e \in Execution : pc'[e] # pc[e] =>
       \/ pc[e] \notin Verdict /\ pc'[e] \notin Verdict
       \/ permit[e] = "NONE"
       \/ pc'[e] \in Verdict /\ e \in lost

\* A step that leaves the circuit, its permits and its probe alone.
LEMMA Quiet ==
  ASSUME IInv, Quietly PROVE CircuitOK'
<1>0. /\ UNCHANGED <<permit, age, circuit>>
      /\ lost \subseteq lost'
      /\ \A e \in Execution : pc'[e] # pc[e] =>
           \/ pc[e] \notin Verdict /\ pc'[e] \notin Verdict
           \/ permit[e] = "NONE"
           \/ pc'[e] \in Verdict /\ e \in lost
  BY DEF Quietly
<1>1. CircuitOK
  BY DEF IInv
<1>2. \A e \in Execution : Probing(e)' => Probing(e)
  BY <1>0 DEF Probing
<1>3. Holders' \subseteq Holders
  BY <1>0 DEF Holders
<1>4. \A e \in Holders' : permit'[e] = "CLOSED" =>
        circuit'.state = "CLOSED" \/ (circuit'.state = "OPEN" /\ circuit'.openFor <= age'[e])
  BY <1>0, <1>1, <1>3 DEF CircuitOK
<1>5. OneProbe'
  BY <1>0, <1>1, <1>2 DEF CircuitOK, ProbeAccounted, OneProbe
<1>6. ASSUME circuit'.probeActive
      PROVE  \E e \in Execution : permit'[e] = "HALF_OPEN" /\ (Probing(e)' \/ e \in lost')
  <2>1. PICK e \in Execution : permit[e] = "HALF_OPEN" /\ (Probing(e) \/ e \in lost)
    BY <1>0, <1>1, <1>6 DEF CircuitOK, ProbeAccounted
  <2>2. Probing(e)' \/ e \in lost'
    BY <1>0, <2>1 DEF Probing
  <2> QED BY <1>0, <2>1, <2>2
<1> QED BY <1>4, <1>5, <1>6 DEF CircuitOK, ProbeAccounted

\* The permit an execution gets is its own, and it is a probe's only if nobody probes.
LEMMA Acquiring ==
  ASSUME IInv, NEW e \in Execution, AcquirePermit(e) PROVE CircuitOK'
<1>1. TypeOK /\ CircuitOK /\ permit[e] = "NONE"
  BY DEF IInv, AcquirePermit, Knows
<1>2. /\ Allowed(circuit) /\ circuit' = Acquired(circuit) /\ lost' = lost
      /\ pc'[e] = "announcing" /\ permit'[e] = circuit'.state /\ age'[e] = 0
      /\ \A f \in Execution \ {e} : /\ pc'[f] = pc[f] /\ permit'[f] = permit[f]
                                    /\ age'[f] = age[f]
  BY <1>1 DEF AcquirePermit, Goto, TypeOK
<1>3. \A f \in Execution \ {e} : (f \in Holders)' <=> f \in Holders
  BY <1>2 DEF Holders
<1>4. \A f \in Execution \ {e} : Probing(f)' <=> Probing(f)
  BY <1>2 DEF Probing
<1>5. Holders \subseteq Execution /\ Holders' \subseteq Execution
  BY DEF Holders
<1>6. CASE circuit.state = "CLOSED"
  <2>1. circuit' = circuit /\ permit'[e] = "CLOSED"
    BY <1>2, <1>6 DEF Acquired
  <2>2. ~Probing(e)'
    BY <2>1 DEF Probing
  <2>3. \A f \in Execution : ~Probing(f)
    BY <1>1, <1>6 DEF CircuitOK, ProbeAccounted, OneProbe
  <2>4. OneProbe'
    BY <1>4, <2>2, <2>3 DEF OneProbe
  <2>5. ASSUME circuit'.probeActive
        PROVE  \E f \in Execution : permit'[f] = "HALF_OPEN" /\ (Probing(f)' \/ f \in lost')
    BY <1>1, <1>2, <1>4, <2>1, <2>5 DEF CircuitOK, ProbeAccounted
  <2> QED BY <1>6, <2>1, <2>4, <2>5 DEF CircuitOK, ProbeAccounted
<1>7. CASE circuit.state # "CLOSED"
  <2>1. circuit'.state = "HALF_OPEN" /\ circuit'.probeActive = TRUE
    <3>1. circuit' = [circuit EXCEPT !.state = "HALF_OPEN", !.openFor = 0, !.probeActive = TRUE]
      BY <1>2, <1>7 DEF Acquired
    <3> QED BY <1>1, <3>1 DEF TypeOK, CircuitEntry
  <2>2. Probing(e)'
    BY <1>2, <2>1 DEF Probing, Verdict
  <2>3. \A f \in Execution : ~Probing(f)
    BY <1>1, <1>2, <1>7 DEF CircuitOK, ProbeAccounted, OneProbe, Allowed
  <2>4. \A f \in Holders : permit[f] # "CLOSED"
    <3>1. ASSUME NEW f \in Holders, permit[f] = "CLOSED" PROVE FALSE
      <4>1. circuit.state = "OPEN" /\ circuit.openFor <= age[f] /\ circuit.openFor = Cooldown
        BY <1>1, <1>2, <1>7, <3>1 DEF CircuitOK, Allowed
      <4>2. age[f] \in 0..AttemptTime
        BY <1>1, <1>5 DEF TypeOK
      <4> QED BY <4>1, <4>2, ExecutorAssumption, BreakerAssumption
    <3> QED BY <3>1
  <2>5. \A f \in Holders' : permit'[f] # "CLOSED"
    BY <1>2, <1>3, <1>5, <2>1, <2>4
  <2>6. OneProbe'
    BY <1>4, <2>1, <2>3 DEF OneProbe
  <2> QED BY <1>2, <2>1, <2>2, <2>5, <2>6 DEF CircuitOK, ProbeAccounted
<1> QED BY <1>6, <1>7

\* Whoever settles the circuit held a permit for it; a probe always changes it.
LEMMA Settles ==
  ASSUME IInv, NEW e \in Execution, pc[e] \notin Verdict, permit[e] # "NONE",
         \/ circuit' = Succeeded(circuit)
         \/ circuit' = Failed(circuit)
         \/ circuit' = circuit /\ permit[e] # "HALF_OPEN",
         permit' = [permit EXCEPT ![e] = "NONE"],
         age' = [age EXCEPT ![e] = 0], lost' = lost,
         \A f \in Execution \ {e} : pc'[f] = pc[f]
  PROVE  CircuitOK'
<1>1. TypeOK /\ CircuitOK /\ e \in Holders /\ circuit \in CircuitEntry
  BY DEF IInv, Holders, TypeOK
<1>2. /\ permit'[e] = "NONE"
      /\ \A f \in Execution \ {e} : permit'[f] = permit[f] /\ age'[f] = age[f]
  BY <1>1 DEF TypeOK
<1>3. Holders' \subseteq Holders \ {e} /\ Holders \subseteq Execution
  BY <1>2 DEF Holders
<1>4. \A f \in Execution : Probing(f)' => f # e /\ Probing(f)
  BY <1>2 DEF Probing
<1>5. CASE permit[e] = "HALF_OPEN"
  <2>1. circuit.state = "HALF_OPEN" /\ \A f \in Execution : Probing(f) => f = e
    BY <1>1, <1>5 DEF CircuitOK, ProbeAccounted, OneProbe, Probing
  <2>2. circuit'.probeActive = FALSE
    <3>1. circuit' = Succeeded(circuit) \/ circuit' = Failed(circuit)
      BY <1>5
    <3>2. Succeeded(circuit).probeActive = FALSE /\ Failed(circuit).probeActive = FALSE
      BY <1>1, Settling
    <3> QED BY <3>1, <3>2
  <2>3. \A f \in Execution : ~Probing(f)'
    BY <1>4, <2>1
  <2>4. \A f \in Holders' : permit'[f] # "CLOSED"
    BY <1>1, <1>2, <1>3, <2>1 DEF CircuitOK
  <2> QED BY <2>2, <2>3, <2>4 DEF CircuitOK, ProbeAccounted, OneProbe
<1>6. CASE permit[e] = "CLOSED"
  <2>1. circuit.state # "HALF_OPEN"
    BY <1>1, <1>6 DEF CircuitOK
  <2>2. \A f \in Execution : ~Probing(f)
    BY <1>1, <2>1 DEF CircuitOK, ProbeAccounted, OneProbe
  <2>3. OneProbe'
    BY <1>4, <2>2 DEF OneProbe
  <2>4. ASSUME circuit'.probeActive
        PROVE  \E f \in Execution : permit'[f] = "HALF_OPEN" /\ (Probing(f)' \/ f \in lost')
    <3>1. circuit' = circuit
      <4>1. Succeeded(circuit).probeActive = FALSE /\ Failed(circuit).probeActive = FALSE
        BY <1>1, Settling
      <4> QED BY <2>4, <4>1
    <3>2. PICK f \in Execution : permit[f] = "HALF_OPEN" /\ f \in lost
      BY <1>1, <2>2, <2>4, <3>1 DEF CircuitOK, ProbeAccounted
    <3> QED BY <1>2, <1>6, <3>2
  <2>5. ASSUME NEW f \in Holders', permit'[f] = "CLOSED"
        PROVE  \/ circuit'.state = "CLOSED"
               \/ circuit'.state = "OPEN" /\ circuit'.openFor <= age'[f]
    <3>1. /\ circuit.state = "CLOSED" \/ (circuit.state = "OPEN" /\ circuit.openFor <= age[f])
          /\ age'[f] = age[f] /\ age[f] >= 0
      BY <1>1, <1>2, <1>3, <2>5 DEF CircuitOK, TypeOK
    <3>2. CASE circuit' = Succeeded(circuit)
      BY <1>1, <3>2, Settling
    <3>3. CASE circuit' = Failed(circuit)
      BY <1>1, <3>1, <3>3, Settling
    <3>4. CASE circuit' = circuit
      BY <3>1, <3>4
    <3> QED BY <3>2, <3>3, <3>4
  <2> QED BY <2>3, <2>4, <2>5 DEF CircuitOK, ProbeAccounted
<1> QED BY <1>1, <1>5, <1>6 DEF TypeOK

\* Time passes for who holds a permit no slower than for the circuit.
LEMMA Ticking ==
  ASSUME IInv, Tick PROVE CircuitOK'
<1>1. TypeOK /\ CircuitOK /\ circuit \in CircuitEntry
  BY DEF IInv, TypeOK
<1>2. /\ UNCHANGED <<pc, permit, lost>>
      /\ circuit' = Elapsed(circuit)
      /\ \A e \in Holders : e \in Execution /\ age'[e] = age[e] + 1
  BY DEF Tick, Holders
<1>3. /\ circuit'.state = circuit.state
      /\ circuit'.probeActive = circuit.probeActive
      /\ circuit'.openFor \in {circuit.openFor, circuit.openFor + 1}
  BY <1>1, <1>2 DEF Elapsed, CircuitEntry
<1>4. Holders' = Holders /\ \A e \in Execution : Probing(e)' <=> Probing(e)
  BY <1>2 DEF Holders, Probing
<1>5. ASSUME NEW e \in Holders, permit[e] = "CLOSED"
      PROVE  \/ circuit'.state = "CLOSED"
             \/ circuit'.state = "OPEN" /\ circuit'.openFor <= age'[e]
  <2>1. circuit.openFor \in Nat /\ age[e] \in Nat
    BY <1>1, <1>2, BreakerAssumption, ExecutorAssumption DEF TypeOK, CircuitEntry
  <2> QED BY <1>1, <1>2, <1>3, <1>5, <2>1 DEF CircuitOK
<1>6. OneProbe'
  BY <1>1, <1>3, <1>4 DEF CircuitOK, ProbeAccounted, OneProbe
<1>7. circuit'.probeActive =>
        \E e \in Execution : permit'[e] = "HALF_OPEN" /\ (Probing(e)' \/ e \in lost')
  BY <1>1, <1>2, <1>3, <1>4 DEF CircuitOK, ProbeAccounted
<1> QED BY <1>2, <1>4, <1>5, <1>6, <1>7 DEF CircuitOK, ProbeAccounted

\* Every step keeps the circuit and its probe in agreement.
LEMMA CircuitStep ==
  ASSUME IInv, [Next]_vars PROVE CircuitOK'
<1>1. TypeOK /\ \A e \in Execution : Knows(e)
  BY DEF IInv
<1>2. ASSUME NEW e \in Execution, ExecutorStep(e) PROVE CircuitOK'
  <2>1. CASE Begin(e) \/ CircuitOpen(e) \/ Report(e) \/ ReportFails(e)
             \/ Reconcile(e) \/ Conclude(e)
    <3>1. UNCHANGED <<permit, age, circuit, lost>> /\ permit[e] = "NONE"
      BY <1>1, <2>1
         DEF Begin, CircuitOpen, Report, ReportFails, Reconcile, Conclude, Knows, Doubt
    <3>2. \A f \in Execution \ {e} : pc'[f] = pc[f]
      BY <1>2, ExecutorSteps DEF Sound, Alone
    <3>3. Quietly
      BY <3>1, <3>2 DEF Quietly
    <3> QED BY <3>3, Quiet
  <2>2. CASE Announce(e)
    <3>1. UNCHANGED <<permit, age, circuit, lost>>
      BY <2>2 DEF Announce
    <3>2. \A f \in Execution : pc'[f] # pc[f] => pc[f] \notin Verdict /\ pc'[f] \notin Verdict
      BY <1>1, <2>2 DEF Announce, Goto, TypeOK, Verdict
    <3>3. Quietly
      BY <3>1, <3>2 DEF Quietly
    <3> QED BY <3>3, Quiet
  <2>3. CASE RecordMissing(e)
    <3>1. UNCHANGED <<permit, age, circuit, lost>> /\ e \in lost /\ pc'[e] \in Verdict
      BY <1>1, <2>3 DEF RecordMissing, Goto, TypeOK, Verdict
    <3>2. \A f \in Execution \ {e} : pc'[f] = pc[f]
      BY <1>2, ExecutorSteps DEF Sound, Alone
    <3>3. Quietly
      BY <3>1, <3>2 DEF Quietly
    <3> QED BY <3>3, Quiet
  <2>4. CASE AcquirePermit(e)
    BY <2>4, Acquiring
  <2>5. CASE AnnounceFails(e) \/ ToolReturns(e)
    <3>1. pc[e] \notin Verdict /\ permit[e] # "NONE"
      BY <1>1, <2>5 DEF AnnounceFails, ToolReturns, Knows, Verdict
    <3>2. /\ \/ circuit' = Succeeded(circuit)
             \/ circuit' = Failed(circuit)
             \/ circuit' = circuit /\ permit[e] # "HALF_OPEN"
          /\ permit' = [permit EXCEPT ![e] = "NONE"]
          /\ age' = [age EXCEPT ![e] = 0] /\ lost' = lost
      <4>1. CASE AnnounceFails(e)
        BY <4>1 DEF AnnounceFails
      <4>2. CASE ToolReturns(e)
        <5>1. PICK answer \in Answers(e), result \in Outcome :
                result \in Classified(e, answer) /\ circuit' = Settled(permit[e], result)
          BY <4>2 DEF ToolReturns, Answers, Classified, Outcome
        <5>2. \/ circuit' = Succeeded(circuit)
              \/ circuit' = Failed(circuit)
              \/ circuit' = circuit /\ permit[e] # "HALF_OPEN"
          BY <5>1 DEF Settled, Outcome
        <5> QED BY <4>2, <5>2 DEF ToolReturns
      <4> QED BY <2>5, <4>1, <4>2
    <3>3. \A f \in Execution \ {e} : pc'[f] = pc[f]
      BY <1>2, ExecutorSteps DEF Sound, Alone
    <3> QED BY <3>1, <3>2, <3>3, Settles
  <2> QED BY <1>2, <2>1, <2>2, <2>3, <2>4, <2>5 DEF ExecutorStep
<1>3. ASSUME NEW e \in Execution, NEW a \in 1..MaxAttempts, Act(e, a) PROVE CircuitOK'
  <2>1. Quietly
    BY <1>3 DEF Act, executor, Quietly
  <2> QED BY <2>1, Quiet
<1>4. ASSUME NEW e \in Execution, LoseRecord(e) PROVE CircuitOK'
  <2>1. Quietly
    BY <1>4 DEF LoseRecord, executor, Quietly
  <2> QED BY <2>1, Quiet
<1>5. CASE OthersReserve
  <2>1. Quietly
    BY <1>5 DEF OthersReserve, executor, Quietly
  <2> QED BY <2>1, Quiet
<1>6. CASE UNCHANGED vars
  <2>1. Quietly
    BY <1>6 DEF vars, executor, Quietly
  <2> QED BY <2>1, Quiet
<1> QED BY <1>2, <1>3, <1>4, <1>5, <1>6, Ticking DEF Next

------------------------------------------------------------------------------
(* The theorems.                                                           *)

\* The invariant holds at first.
LEMMA InitiallyIInv == ASSUME Init PROVE IInv
<1>1. TypeOK
  <2>1. NewEntry \in CircuitEntry
    BY BreakerAssumption DEF NewEntry, CircuitEntry, CircuitState
  <2>2. 0 \in 0..MaxAttempts /\ 0 \in 0..AttemptTime
    BY ExecutorAssumption
  <2> QED BY <2>1, <2>2 DEF Init, TypeOK
<1>2. ASSUME NEW e \in Execution PROVE Knows(e)
  <2>1. Pending(e) = {}
    BY DEF Init, Pending
  <2> QED BY <2>1 DEF Init, Knows
<1>3. CircuitOK
  BY DEF Init, CircuitOK, Holders, ProbeAccounted, OneProbe, Probing, NewEntry
<1>4. SeenOK
  BY DEF Init, SeenOK
<1> QED BY <1>1, <1>2, <1>3, <1>4 DEF IInv

\* However the attempts of any number of executions interleave with each other, with late
\* requests, with time and with lost records: what each execution knows stays true, and
\* the circuit agrees with the permits.
THEOREM Invariance == Spec => []IInv
<1>1. IInv /\ [Next]_vars => IInv'
  BY KnowledgeStep, CircuitStep, SeenStep DEF IInv
<1> QED BY <1>1, InitiallyIInv, PTL DEF Spec

\* Every variable keeps its type.
THEOREM TypeCorrect == Spec => []TypeOK
BY Invariance, PTL DEF IInv

\* ProbeAccounted: a half-open circuit is probed by one execution at most, undisturbed by
\* stragglers, and a probe it waits for is still made or lost its record.
THEOREM ProbeIsAccounted == Spec => []ProbeAccounted
<1>1. IInv => ProbeAccounted
  BY DEF IInv, CircuitOK
<1> QED BY <1>1, Invariance, PTL

\* HonestVerdicts: every verdict says what its execution may say (Honest), a reconciled one
\* that the station was reserved when it was looked up or since, and no step repeats an
\* effect, before the verdict or after it.
THEOREM VerdictsAreHonest == Spec => HonestVerdicts
<1>1. ASSUME IInv, [Next]_vars PROVE EffectOnce'
  BY <1>1, KnowledgeStep DEF EffectOnce, Knows
<1>2. ASSUME IInv, [Next]_vars, NEW e \in Execution, pc[e] # pc'[e], pc'[e] \in Verdict
      PROVE  Honest(e, pc'[e])
  <2>1. ASSUME NEW f \in Execution, ExecutorStep(f) PROVE Honest(e, pc'[e])
    <3>1. Sound(f)
      BY <1>2, <2>1, ExecutorSteps
    <3>2. e = f
      BY <1>2, <3>1 DEF Sound, Alone
    <3> QED BY <1>2, <3>1, <3>2 DEF Sound
  <2>2. ~UNCHANGED pc
    BY <1>2
  <2>3. \E f \in Execution : ExecutorStep(f)
    BY <1>2, <2>2 DEF Next, LoseRecord, Act, OthersReserve, Tick, vars, executor
  <2> QED BY <2>1, <2>3
<1>3. IInv /\ [Next]_vars =>
        [/\ \A e \in Execution : pc[e] # pc'[e] /\ pc'[e] \in Verdict => Honest(e, pc'[e])
         /\ EffectOnce']_vars
  BY <1>1, <1>2
<1> QED BY <1>3, Invariance, PTL DEF Spec, HonestVerdicts

------------------------------------------------------------------------------
(* The vehicle simulator, whose routes these executions call.              *)

\* A reservation, and the last numbers given.
Reservation == [id : Nat, station : Station]

Ids == [route : Nat, reservation : Nat, assistance : Nat]

\* The parts of a state of the simulator.
IsState(s) ==
  s \in [vehicle : {s.vehicle}, trip : {s.trip}, seat : {s.seat}, volume : {s.volume},
         slots : [Station -> Nat], reservations : SUBSET Reservation,
         requests : {s.requests}, version : {s.version}]

\* A station is free, or one reservation has taken one of its slots.
HeldAt(s, station) == {r \in s.reservations : r.station = station}

StationOK(s, station) ==
  \/ HeldAt(s, station) = {} /\ s.slots[station] = SlotsOf[station]
  \/ \E r \in Reservation :
       HeldAt(s, station) = {r} /\ s.slots[station] + 1 = SlotsOf[station]

StateOK(s) == IsState(s) /\ StateValid(s) /\ \A station \in Station : StationOK(s, station)

\* What holds of the server and of the control plane.
ServerOK ==
  /\ StateOK(sim) /\ ids \in Ids
  /\ resetEpoch \in 0 .. MaxResets /\ wipes \in 0 .. MaxResets /\ resetEpoch <= wipes
  /\ faults \in [Target -> Mode \cup {None}]
  /\ idempotency \in [Key -> [station : Station, id : Nat] \cup {None}]

\* Where a caller and its requests are.
CallersOK ==
  /\ command = [c \in Client |-> command[c]]
  /\ \A c \in Client : command[c] \in CommandsOf[c] \cup {None}
  /\ phase \in [Request -> {"idle", "sent", "delayed", "late", "answered"}]
  /\ arrived \in [Request -> 0 .. MaxResets \cup {None}]
  /\ view \in [Request -> Views]
  /\ applied \in [Request -> [epoch : Nat, wipes : Nat] \cup {None}]

\* What holds of one request.
RequestOK(r) ==
  /\ phase[r] # "idle" => command[r[1]] # None
  /\ phase[r] = "idle" => view[r] = "idle"
  /\ phase[r] \in {"sent", "delayed", "late"} => view[r] \in {"waiting", "TIMEOUT"}
  /\ phase[r] \in {"idle", "sent", "delayed"} => applied[r] = None
  /\ applied[r] # None =>
       /\ phase[r] = "late" => Keyed(r)
       /\ view[r] \in {"refused", "HTTP_503", "DEFINITE_FAILURE"} =>
            Keyed(r) /\ view[r] = "DEFINITE_FAILURE"
       /\ applied[r].epoch = arrived[r] /\ applied[r].epoch <= resetEpoch
       /\ applied[r].wipes <= wipes
       /\ Keyed(r) /\ applied[r].wipes = wipes => idempotency[KeyOf[r[1]]] # None

\* The inductive invariant of the simulator.
SimulatorInv ==
  /\ ServerOK /\ CallersOK
  /\ \A r \in Request : RequestOK(r)
  /\ OneReservationPerKey

------------------------------------------------------------------------------
(* The state and its transitions.                                          *)

\* A state is the record of its parts.
LEMMA Parts ==
  ASSUME NEW s, IsState(s)
  PROVE  \E v, t, w, x, q, n : \E l \in [Station -> Nat], h \in SUBSET Reservation :
           s = [vehicle |-> v, trip |-> t, seat |-> w, volume |-> x, slots |-> l,
                reservations |-> h, requests |-> q, version |-> n]
BY DEF IsState

\* And such a record is a state.
LEMMA PartsMake ==
  ASSUME NEW v, NEW t, NEW w, NEW x, NEW q, NEW n,
         NEW l \in [Station -> Nat], NEW h \in SUBSET Reservation
  PROVE  IsState([vehicle |-> v, trip |-> t, seat |-> w, volume |-> x, slots |-> l,
                  reservations |-> h, requests |-> q, version |-> n])
BY DEF IsState

\* A reservation is made at a station that is free, or one is cancelled, or neither.
Follows(s, next) ==
  /\ IsState(next)
  /\ \/ next.slots = s.slots /\ next.reservations = s.reservations
     \/ \E station \in Station, id \in Nat :
          /\ HeldAt(s, station) = {} /\ s.slots[station] >= 1
          /\ next.slots = [s.slots EXCEPT ![station] = @ - 1]
          /\ next.reservations = s.reservations \cup {[id |-> id, station |-> station]}
     \/ \E r \in s.reservations :
          /\ next.slots = [s.slots EXCEPT ![r.station] = @ + 1]
          /\ next.reservations = s.reservations \ {r}

\* A result is a refusal, or a state that follows with the numbers given.
SoundResult(result) ==
  /\ result.status \in Statuses
  /\ result.status = "ok" => Follows(sim, result.state) /\ result.ids \in Ids

\* What touches no station.
LEMMA UntouchedParts ==
  ASSUME NEW s, IsState(s), NEW v, NEW t, NEW w, NEW x, NEW q, NEW n
  PROVE  LET next == [vehicle |-> v, trip |-> t, seat |-> w, volume |-> x, slots |-> s.slots,
                      reservations |-> s.reservations, requests |-> q, version |-> n]
         IN Follows(s, next)
<1>1. s.slots \in [Station -> Nat] /\ s.reservations \in SUBSET Reservation
  BY DEF IsState
<1> QED BY <1>1, PartsMake DEF Follows

\* The transitions of the vehicle, of the trip and of the rest touch no station.
LEMMA Transitions ==
  ASSUME NEW s, IsState(s), NEW v, NEW w
  PROVE  /\ Follows(s, VehicleTransition(s, v))
         /\ Follows(s, TripTransition(s, v))
         /\ Follows(s, SimulatorOnlyTransition([s EXCEPT !.seat = w]))
         /\ Follows(s, SimulatorOnlyTransition([s EXCEPT !.volume = w]))
         /\ Follows(s, SimulatorOnlyTransition([s EXCEPT !.requests = w]))
<1>1. PICK a, b, c, d, q, n : \E l \in [Station -> Nat], h \in SUBSET Reservation :
        s = [vehicle |-> a, trip |-> b, seat |-> c, volume |-> d, slots |-> l,
             reservations |-> h, requests |-> q, version |-> n]
  BY Parts
<1>2. PICK l \in [Station -> Nat], h \in SUBSET Reservation :
        s = [vehicle |-> a, trip |-> b, seat |-> c, volume |-> d, slots |-> l,
             reservations |-> h, requests |-> q, version |-> n]
  BY <1>1
<1>3. s.slots = l /\ s.reservations = h
  BY <1>2
<1>4. \A e, f, g, i, j, k :
        Follows(s, [vehicle |-> e, trip |-> f, seat |-> g, volume |-> i, slots |-> l,
                    reservations |-> h, requests |-> j, version |-> k])
  BY <1>3, UntouchedParts
<1>5. Follows(s, VehicleTransition(s, v))
  <2>1. PICK e, m, z : /\ e = [v EXCEPT !.version = s.vehicle.version + 1] /\ m = s.version + 1
                      /\ z = [s EXCEPT !.vehicle = e, !.version = m]
    OBVIOUS
  <2>2. VehicleTransition(s, v) = z
    BY <2>1 DEF VehicleTransition
  <2>3. z =
          [vehicle |-> e, trip |-> b, seat |-> c, volume |-> d, slots |-> l,
           reservations |-> h, requests |-> q, version |-> m]
    BY <1>2, <2>1
  <2>4. Follows(s, [vehicle |-> e, trip |-> b, seat |-> c, volume |-> d, slots |-> l,
           reservations |-> h, requests |-> q, version |-> m])
    BY <1>4
  <2> QED BY <2>2, <2>3, <2>4
<1>6. Follows(s, TripTransition(s, v))
  <2>1. PICK e, m, z : /\ e = [v EXCEPT !.version = s.trip.version + 1] /\ m = s.version + 1
                      /\ z = [s EXCEPT !.trip = e, !.version = m]
    OBVIOUS
  <2>2. TripTransition(s, v) = z
    BY <2>1 DEF TripTransition
  <2>3. z =
          [vehicle |-> a, trip |-> e, seat |-> c, volume |-> d, slots |-> l,
           reservations |-> h, requests |-> q, version |-> m]
    BY <1>2, <2>1
  <2>4. Follows(s, [vehicle |-> a, trip |-> e, seat |-> c, volume |-> d, slots |-> l,
           reservations |-> h, requests |-> q, version |-> m])
    BY <1>4
  <2> QED BY <2>2, <2>3, <2>4
<1>7. Follows(s, SimulatorOnlyTransition([s EXCEPT !.seat = w]))
  <2>1. PICK u : u = [s EXCEPT !.seat = w]
    OBVIOUS
  <2>2. u =
          [vehicle |-> a, trip |-> b, seat |-> w, volume |-> d, slots |-> l,
           reservations |-> h, requests |-> q, version |-> n]
    BY <1>2, <2>1
  <2>3. PICK m : m = u.version + 1
    OBVIOUS
  <2>4. SimulatorOnlyTransition(u) = [u EXCEPT !.version = m]
    BY <2>3 DEF SimulatorOnlyTransition
  <2>5. [u EXCEPT !.version = m] =
          [vehicle |-> a, trip |-> b, seat |-> w, volume |-> d, slots |-> l,
           reservations |-> h, requests |-> q, version |-> m]
    BY <2>2
  <2>6. Follows(s, [vehicle |-> a, trip |-> b, seat |-> w, volume |-> d, slots |-> l,
           reservations |-> h, requests |-> q, version |-> m])
    BY <1>4
  <2> QED BY <2>1, <2>4, <2>5, <2>6
<1>8. Follows(s, SimulatorOnlyTransition([s EXCEPT !.volume = w]))
  <2>1. PICK u : u = [s EXCEPT !.volume = w]
    OBVIOUS
  <2>2. u =
          [vehicle |-> a, trip |-> b, seat |-> c, volume |-> w, slots |-> l,
           reservations |-> h, requests |-> q, version |-> n]
    BY <1>2, <2>1
  <2>3. PICK m : m = u.version + 1
    OBVIOUS
  <2>4. SimulatorOnlyTransition(u) = [u EXCEPT !.version = m]
    BY <2>3 DEF SimulatorOnlyTransition
  <2>5. [u EXCEPT !.version = m] =
          [vehicle |-> a, trip |-> b, seat |-> c, volume |-> w, slots |-> l,
           reservations |-> h, requests |-> q, version |-> m]
    BY <2>2
  <2>6. Follows(s, [vehicle |-> a, trip |-> b, seat |-> c, volume |-> w, slots |-> l,
           reservations |-> h, requests |-> q, version |-> m])
    BY <1>4
  <2> QED BY <2>1, <2>4, <2>5, <2>6
<1>9. Follows(s, SimulatorOnlyTransition([s EXCEPT !.requests = w]))
  <2>1. PICK u : u = [s EXCEPT !.requests = w]
    OBVIOUS
  <2>2. u =
          [vehicle |-> a, trip |-> b, seat |-> c, volume |-> d, slots |-> l,
           reservations |-> h, requests |-> w, version |-> n]
    BY <1>2, <2>1
  <2>3. PICK m : m = u.version + 1
    OBVIOUS
  <2>4. SimulatorOnlyTransition(u) = [u EXCEPT !.version = m]
    BY <2>3 DEF SimulatorOnlyTransition
  <2>5. [u EXCEPT !.version = m] =
          [vehicle |-> a, trip |-> b, seat |-> c, volume |-> d, slots |-> l,
           reservations |-> h, requests |-> w, version |-> m]
    BY <2>2
  <2>6. Follows(s, [vehicle |-> a, trip |-> b, seat |-> c, volume |-> d, slots |-> l,
           reservations |-> h, requests |-> w, version |-> m])
    BY <1>4
  <2> QED BY <2>1, <2>4, <2>5, <2>6
<1> QED BY <1>5, <1>6, <1>7, <1>8, <1>9

\* A refusal is sound, and so is a state that follows.
LEMMA Results ==
  /\ \A status \in {"notFound", "conflict", "invalid"} : SoundResult(Refused(status))
  /\ \A next : \A given \in Ids : Follows(sim, next) => SoundResult(Accepted(next, given))
BY DEF SoundResult, Refused, Accepted, Statuses

\* The numbers given stay numbers.
LEMMA Numbers ==
  ASSUME ids \in Ids
  PROVE  /\ NextRoute \in Ids
         /\ [ids EXCEPT !.reservation = @ + 1] \in Ids
         /\ [ids EXCEPT !.assistance = @ + 1] \in Ids
BY DEF Ids, NextRoute

\* The commands that touch no station.
LEMMA Settings ==
  ASSUME ServerOK, NEW arg
  PROVE  /\ SoundResult(SetVehicleSpeed(sim, arg)) /\ SoundResult(SetSoc(sim, arg))
         /\ SoundResult(SetCabinTemperature(sim, arg))
         /\ SoundResult(SetSeatHeating(sim, arg))
         /\ SoundResult(SetMediaVolume(sim, arg))
         /\ SoundResult(SetNavigationDestination(sim)) /\ SoundResult(Reroute(sim))
         /\ SoundResult(RequestRoadsideAssistance(sim))
<1>1. IsState(sim) /\ ids \in Ids
  BY DEF ServerOK, StateOK
<1>2. SoundResult(SetVehicleSpeed(sim, arg))
  <2>1. Follows(sim, VehicleTransition(sim, [sim.vehicle EXCEPT !.moving = arg]))
    BY <1>1, Transitions
  <2> QED BY <1>1, <2>1, Results DEF SetVehicleSpeed
<1>3. SoundResult(SetSoc(sim, arg))
  <2>1. Follows(sim, VehicleTransition(sim, [sim.vehicle EXCEPT !.soc = arg]))
    BY <1>1, Transitions
  <2> QED BY <1>1, <2>1, Results DEF SetSoc
<1>4. SoundResult(SetCabinTemperature(sim, arg))
  <2>1. Follows(sim, VehicleTransition(sim, [sim.vehicle EXCEPT !.cabin = arg]))
    BY <1>1, Transitions
  <2> QED BY <1>1, <2>1, Results DEF SetCabinTemperature
<1>5. SoundResult(SetSeatHeating(sim, arg))
  <2>1. Follows(sim, SimulatorOnlyTransition([sim EXCEPT !.seat = arg]))
    BY <1>1, Transitions
  <2> QED BY <1>1, <2>1, Results DEF SetSeatHeating
<1>6. SoundResult(SetMediaVolume(sim, arg))
  <2>1. Follows(sim, SimulatorOnlyTransition([sim EXCEPT !.volume = arg]))
    BY <1>1, Transitions
  <2> QED BY <1>1, <2>1, Results DEF SetMediaVolume
<1>7. SoundResult(SetNavigationDestination(sim))
  <2>1. Follows(sim, TripTransition(sim,
          [sim.trip EXCEPT !.active = TRUE, !.route = NextRoute.route]))
    BY <1>1, Transitions
  <2> QED BY <1>1, <2>1, Results, Numbers DEF SetNavigationDestination
<1>8. SoundResult(Reroute(sim))
  <2>1. Follows(sim, TripTransition(sim, [sim.trip EXCEPT !.route = NextRoute.route]))
    BY <1>1, Transitions
  <2> QED BY <1>1, <2>1, Results, Numbers DEF Reroute
<1>9. SoundResult(RequestRoadsideAssistance(sim))
  <2>1. PICK next \in Ids : next = [ids EXCEPT !.assistance = @ + 1]
    BY <1>1, Numbers
  <2>2. PICK given : given = sim.requests \cup {next.assistance}
    OBVIOUS
  <2>3. Follows(sim, SimulatorOnlyTransition([sim EXCEPT !.requests = given]))
    BY <1>1, Transitions
  <2>4. RequestRoadsideAssistance(sim) =
          Accepted(SimulatorOnlyTransition([sim EXCEPT !.requests = given]), next)
    BY <2>1, <2>2 DEF RequestRoadsideAssistance
  <2> QED BY <2>3, <2>4, Results
<1> QED BY <1>2, <1>3, <1>4, <1>5, <1>6, <1>7, <1>8, <1>9

\* A reservation takes a slot of a station nobody has reserved.
LEMMA Reserving ==
  ASSUME ServerOK, NEW station PROVE SoundResult(CreateReservation(sim, station))
<1>1. IsState(sim) /\ ids \in Ids
  BY DEF ServerOK, StateOK
<1>2. CASE \/ station \notin Station
           \/ station \in Station /\ sim.slots[station] < 1
           \/ \E r \in sim.reservations : r.station = station
  <2>1. CreateReservation(sim, station) \in {Refused("notFound"), Refused("conflict")}
    BY <1>1, <1>2 DEF CreateReservation, IsState
  <2> QED BY <2>1, Results
<1>3. CASE /\ station \in Station /\ ~ (sim.slots[station] < 1)
           /\ ~ \E r \in sim.reservations : r.station = station
  <2>1. PICK next \in Ids, id \in Nat :
          next = [ids EXCEPT !.reservation = @ + 1] /\ id = next.reservation
    BY <1>1, Numbers DEF Ids
  <2>2. PICK a, b, c, d, q, n : \E l \in [Station -> Nat], h \in SUBSET Reservation :
          sim = [vehicle |-> a, trip |-> b, seat |-> c, volume |-> d, slots |-> l,
                 reservations |-> h, requests |-> q, version |-> n]
    BY <1>1, Parts
  <2>3. PICK l \in [Station -> Nat], h \in SUBSET Reservation :
          sim = [vehicle |-> a, trip |-> b, seat |-> c, volume |-> d, slots |-> l,
                 reservations |-> h, requests |-> q, version |-> n]
    BY <2>2
  <2>4. PICK k \in [Station -> Nat], g \in SUBSET Reservation :
          /\ k = [l EXCEPT ![station] = @ - 1]
          /\ g = h \cup {[id |-> id, station |-> station]}
    <3>1. l[station] - 1 \in Nat
      BY <1>3, <2>3
    <3>2. [l EXCEPT ![station] = @ - 1] \in [Station -> Nat]
      BY <3>1
    <3>3. [id |-> id, station |-> station] \in Reservation
      BY <1>3 DEF Reservation
    <3> QED BY <3>2, <3>3
  <2>5. PICK u, m, z :
          /\ u = [sim EXCEPT !.slots[station] = @ - 1,
                             !.reservations = @ \cup {[id |-> id, station |-> station]}]
          /\ m = u.version + 1 /\ z = [u EXCEPT !.version = m]
    OBVIOUS
  <2>6. u = [vehicle |-> a, trip |-> b, seat |-> c, volume |-> d, slots |-> k,
             reservations |-> g, requests |-> q, version |-> n]
    <3>1. u = [sim EXCEPT !.slots = k, !.reservations = g]
      BY <1>3, <2>3, <2>4, <2>5
    <3> QED BY <2>3, <3>1
  <2>7. z = [vehicle |-> a, trip |-> b, seat |-> c, volume |-> d, slots |-> k,
             reservations |-> g, requests |-> q, version |-> m]
    <3>1. z = [u EXCEPT !.version = m]
      BY <2>5
    <3> QED BY <2>6, <3>1
  <2>8. CreateReservation(sim, station) = Accepted(z, next)
    <3>1. sim.slots[station] >= 1
      BY <1>1, <1>3 DEF IsState
    <3>2. SimulatorOnlyTransition(u) = z
      BY <2>5 DEF SimulatorOnlyTransition
    <3>3. CreateReservation(sim, station) = Accepted(SimulatorOnlyTransition(u), next)
      BY <1>3, <2>1, <2>5, <3>1 DEF CreateReservation
    <3> QED BY <3>2, <3>3
  <2>9. Follows(sim, z)
    <3>1. IsState(z)
      BY <2>7, PartsMake
    <3>2. HeldAt(sim, station) = {} /\ sim.slots[station] >= 1
      BY <1>1, <1>3 DEF HeldAt, IsState
    <3>3. /\ z.slots = [sim.slots EXCEPT ![station] = @ - 1]
          /\ z.reservations = sim.reservations \cup {[id |-> id, station |-> station]}
      BY <2>3, <2>4, <2>7
    <3> QED BY <1>3, <2>1, <3>1, <3>2, <3>3 DEF Follows
  <2> QED BY <2>1, <2>8, <2>9, Results
<1> QED BY <1>2, <1>3

\* A cancellation gives back the slot of the one reservation it names.
LEMMA Cancelling ==
  ASSUME ServerOK, NEW id PROVE SoundResult(CancelReservation(sim, id))
<1>1. IsState(sim) /\ ids \in Ids /\ StateValid(sim)
  BY DEF ServerOK, StateOK
<1>2. PICK named : named = {r \in sim.reservations : r.id = id}
  OBVIOUS
<1>3. CASE named = {}
  <2>1. CancelReservation(sim, id) = Refused("notFound")
    BY <1>2, <1>3 DEF CancelReservation
  <2> QED BY <2>1, Results
<1>4. CASE named # {}
  <2>1. PICK r \in sim.reservations : named = {r}
    <3>1. PICK r \in named : TRUE
      BY <1>4
    <3>2. \A q \in named : q = r
      BY <1>1, <1>2, <3>1 DEF StateValid
    <3> QED BY <1>2, <3>1, <3>2
  <2>2. PICK station : station = r.station /\ (CHOOSE q \in named : TRUE).station = station
    <3>1. (CHOOSE q \in named : TRUE) \in named
      BY <2>1
    <3> QED BY <2>1, <3>1
  <2>3. PICK a, b, c, d, q, n : \E l \in [Station -> Nat], h \in SUBSET Reservation :
          sim = [vehicle |-> a, trip |-> b, seat |-> c, volume |-> d, slots |-> l,
                 reservations |-> h, requests |-> q, version |-> n]
    BY <1>1, Parts
  <2>4. PICK l \in [Station -> Nat], h \in SUBSET Reservation :
          sim = [vehicle |-> a, trip |-> b, seat |-> c, volume |-> d, slots |-> l,
                 reservations |-> h, requests |-> q, version |-> n]
    BY <2>3
  <2>5. r \in h /\ r \in Reservation /\ station \in Station
    BY <2>1, <2>2, <2>4 DEF Reservation
  <2>6. PICK k \in [Station -> Nat], g \in SUBSET Reservation :
          k = [l EXCEPT ![station] = @ + 1] /\ g = h \ named
    <3>1. l[station] + 1 \in Nat
      BY <2>5
    <3>2. [l EXCEPT ![station] = @ + 1] \in [Station -> Nat]
      BY <3>1
    <3> QED BY <3>2
  <2>7. PICK u, m, z :
          /\ u = [sim EXCEPT !.slots[station] = @ + 1, !.reservations = @ \ named]
          /\ m = u.version + 1 /\ z = [u EXCEPT !.version = m]
    OBVIOUS
  <2>8. u = [vehicle |-> a, trip |-> b, seat |-> c, volume |-> d, slots |-> k,
             reservations |-> g, requests |-> q, version |-> n]
    <3>1. u = [sim EXCEPT !.slots = k, !.reservations = g]
      BY <2>4, <2>5, <2>6, <2>7
    <3> QED BY <2>4, <3>1
  <2>9. z = [vehicle |-> a, trip |-> b, seat |-> c, volume |-> d, slots |-> k,
             reservations |-> g, requests |-> q, version |-> m]
    <3>1. z = [u EXCEPT !.version = m]
      BY <2>7
    <3> QED BY <2>8, <3>1
  <2>10. CancelReservation(sim, id) = Accepted(z, ids)
    <3>1. SimulatorOnlyTransition(u) = z
      BY <2>7 DEF SimulatorOnlyTransition
    <3>2. CancelReservation(sim, id) = Accepted(SimulatorOnlyTransition(u), ids)
      BY <1>2, <1>4, <2>2, <2>7 DEF CancelReservation
    <3> QED BY <3>1, <3>2
  <2>11. Follows(sim, z)
    <3>1. IsState(z)
      BY <2>9, PartsMake
    <3>2. /\ z.slots = [sim.slots EXCEPT ![r.station] = @ + 1]
          /\ z.reservations = sim.reservations \ {r}
      BY <2>1, <2>2, <2>4, <2>6, <2>9
    <3> QED BY <2>1, <3>1, <3>2 DEF Follows
  <2> QED BY <1>1, <2>10, <2>11, Results
<1> QED BY <1>3, <1>4

\* So is every command.
LEMMA ConstructSound ==
  ASSUME ServerOK, NEW chosen, chosen.kind \in Kinds
  PROVE  SoundResult(Construct(chosen))
<1>1. CASE chosen.kind \in {"reserve", "cancel"}
  BY <1>1, Reserving, Cancelling DEF Construct
<1>2. CASE chosen.kind \in {"speed", "soc", "temperature", "seat", "volume"}
  BY <1>2, Settings DEF Construct
<1>3. CASE chosen.kind \in {"destination", "reroute", "assistance"}
  BY <1>3, Settings DEF Construct
<1> QED BY <1>1, <1>2, <1>3 DEF Kinds

------------------------------------------------------------------------------
(* The server.                                                             *)

\* Slots and reservations change together.
LEMMA StationsKept ==
  ASSUME NEW s, StateOK(s), NEW next, Follows(s, next), StateValid(next)
  PROVE  StateOK(next)
<1>1. IsState(s) /\ IsState(next) /\ \A station \in Station : StationOK(s, station)
  BY DEF StateOK, Follows
<1>2. s.slots \in [Station -> Nat] /\ s.reservations \subseteq Reservation
  BY <1>1 DEF IsState
<1>3. CASE next.slots = s.slots /\ next.reservations = s.reservations
  <2>1. \A station \in Station : HeldAt(next, station) = HeldAt(s, station)
    BY <1>3 DEF HeldAt
  <2>2. \A station \in Station : StationOK(next, station)
    BY <1>1, <1>3, <2>1 DEF StationOK
  <2> QED BY <1>1, <2>2 DEF StateOK
<1>4. ASSUME NEW at \in Station, NEW id \in Nat,
             HeldAt(s, at) = {}, s.slots[at] >= 1,
             next.slots = [s.slots EXCEPT ![at] = @ - 1],
             next.reservations = s.reservations \cup {[id |-> id, station |-> at]}
      PROVE  StateOK(next)
  <2>1. PICK r \in Reservation : r = [id |-> id, station |-> at]
    BY DEF Reservation
  <2>2. r.station = at
    BY <2>1
  <2>3. HeldAt(next, at) = {r} /\ next.slots[at] + 1 = SlotsOf[at]
    <3>1. HeldAt(next, at) = HeldAt(s, at) \cup {r}
      BY <1>4, <2>1, <2>2 DEF HeldAt
    <3>2. s.slots[at] = SlotsOf[at]
      BY <1>1, <1>4 DEF StationOK
    <3> QED BY <1>2, <1>4, <3>1, <3>2
  <2>4. \A station \in Station \ {at} :
          HeldAt(next, station) = HeldAt(s, station) /\ next.slots[station] = s.slots[station]
    BY <1>2, <1>4, <2>1, <2>2 DEF HeldAt
  <2>5. \A station \in Station : StationOK(next, station)
    BY <1>1, <2>3, <2>4 DEF StationOK
  <2> QED BY <1>1, <2>5 DEF StateOK
<1>5. ASSUME NEW r \in s.reservations,
             next.slots = [s.slots EXCEPT ![r.station] = @ + 1],
             next.reservations = s.reservations \ {r}
      PROVE  StateOK(next)
  <2>1. PICK at \in Station : at = r.station
    BY <1>2 DEF Reservation
  <2>2. HeldAt(next, at) = {} /\ next.slots[at] = SlotsOf[at]
    <3>1. r \in HeldAt(s, at) /\ HeldAt(next, at) = HeldAt(s, at) \ {r}
      BY <1>5, <2>1 DEF HeldAt
    <3>2. HeldAt(s, at) = {r} /\ s.slots[at] + 1 = SlotsOf[at]
      BY <1>1, <3>1 DEF StationOK
    <3> QED BY <1>2, <1>5, <2>1, <3>1, <3>2
  <2>3. \A station \in Station \ {at} :
          HeldAt(next, station) = HeldAt(s, station) /\ next.slots[station] = s.slots[station]
    BY <1>2, <1>5, <2>1 DEF HeldAt
  <2>4. \A station \in Station : StationOK(next, station)
    BY <1>1, <2>2, <2>3 DEF StationOK
  <2> QED BY <1>1, <2>4 DEF StateOK
<1> QED BY <1>3, <1>4, <1>5 DEF Follows

\* Every scenario starts with its stations free.
LEMMA LoadOK ==
  ASSUME NEW scenario \in Scenarios PROVE StateOK(Load(scenario))
<1>1. PICK parts : parts = ScenarioParts(scenario)
  OBVIOUS
<1>2. VehicleValid(parts.vehicle)
  BY <1>1 DEF ScenarioParts, Stationary, VehicleValid, InRange, Scenarios
<1>3. TripValid(parts.trip)
  BY <1>1, SimulatorAssumption
  DEF ScenarioParts, NoTrip, RouteToSomewhere, TripValid, Scenarios
<1>4. PICK s : s = Load(scenario)
  OBVIOUS
<1>5. s = [vehicle |-> parts.vehicle, trip |-> parts.trip, seat |-> 0, volume |-> 0,
           slots |-> SlotsOf, reservations |-> {}, requests |-> {}, version |-> 1]
  BY <1>1, <1>4 DEF Load
<1>6. IsState(s)
  BY <1>5, SimulatorAssumption, PartsMake
<1>7. StateValid(s)
  BY <1>2, <1>3, <1>5, SimulatorAssumption DEF StateValid, InRange
<1>8. \A station \in Station : StationOK(s, station)
  BY <1>5 DEF StationOK, HeldAt
<1> QED BY <1>4, <1>6, <1>7, <1>8 DEF StateOK

\* What a mutation leaves is a valid state, in the epoch it was made for.
LEMMA TransitionSound ==
  ASSUME ServerOK, NEW epoch, NEW chosen, chosen.kind \in Kinds,
         Transition(epoch, chosen).status = "ok"
  PROVE  /\ epoch = resetEpoch
         /\ StateOK(Transition(epoch, chosen).state)
         /\ Transition(epoch, chosen).ids \in Ids
         /\ chosen.kind = "reserve" => chosen.arg \in Station
<1>1. PICK result : result = Construct(chosen)
  OBVIOUS
<1>2. SoundResult(result)
  BY <1>1, ConstructSound
<1>3. /\ epoch = resetEpoch /\ result.status = "ok" /\ StateValid(result.state)
      /\ Transition(epoch, chosen) = result
  BY <1>1 DEF Transition, Refused
<1>4. Follows(sim, result.state) /\ result.ids \in Ids
  BY <1>2, <1>3 DEF SoundResult
<1>5. StateOK(result.state)
  BY <1>3, <1>4, StationsKept DEF ServerOK
<1>6. ASSUME chosen.kind = "reserve" PROVE chosen.arg \in Station
  <2>1. result = CreateReservation(sim, chosen.arg)
    BY <1>1, <1>6 DEF Construct
  <2>2. ASSUME chosen.arg \notin Station PROVE FALSE
    <3>1. result = Refused("notFound")
      BY <2>1, <2>2 DEF CreateReservation
    <3> QED BY <1>3, <3>1 DEF Refused
  <2> QED BY <2>2
<1> QED BY <1>3, <1>4, <1>5, <1>6

------------------------------------------------------------------------------
(* The requests.                                                           *)

\* A request is a caller and the number of its attempt.
LEMMA RequestShape ==
  /\ \A r \in Request : /\ r[1] \in Client /\ r[2] \in 1 .. AttemptsOf[r[1]]
                        /\ r = <<r[1], r[2]>>
  /\ \A c \in Client : <<c, 1>> \in Request /\ <<c, 1>>[1] = c
  /\ \A r \in Request : r[2] < AttemptsOf[r[1]] =>
       <<r[1], r[2] + 1>> \in Request /\ <<r[1], r[2] + 1>>[1] = r[1]
<1>1. \A c \in Client : AttemptsOf[c] \in Nat \ {0}
  BY SimulatorAssumption
<1>2. \A c \in Client : \A n \in 1 .. AttemptsOf[c] : <<c, n>> \in Request
  BY DEF Request
<1>3. ASSUME NEW r \in Request
      PROVE  r[1] \in Client /\ r[2] \in 1 .. AttemptsOf[r[1]] /\ r = <<r[1], r[2]>>
  <2>1. PICK c \in Client : r \in {c} \X (1 .. AttemptsOf[c])
    BY DEF Request
  <2> QED BY <2>1
<1>4. ASSUME NEW c \in Client PROVE <<c, 1>> \in Request /\ <<c, 1>>[1] = c
  <2>1. 1 \in 1 .. AttemptsOf[c]
    BY <1>1
  <2> QED BY <1>2, <2>1
<1>5. ASSUME NEW r \in Request, r[2] < AttemptsOf[r[1]]
      PROVE  <<r[1], r[2] + 1>> \in Request /\ <<r[1], r[2] + 1>>[1] = r[1]
  <2>1. r[1] \in Client /\ r[2] + 1 \in 1 .. AttemptsOf[r[1]]
    BY <1>1, <1>3, <1>5
  <2> QED BY <1>2, <2>1
<1> QED BY <1>3, <1>4, <1>5

\* What an operation does: it applies the request once, and keeps its key, or nothing.
Effect(r, epoch, status) ==
  \/ /\ status = "ok" /\ epoch = resetEpoch
     /\ StateOK(sim') /\ ids' \in Ids /\ wipes' = wipes
     /\ applied' = [applied EXCEPT ![r] = [epoch |-> resetEpoch, wipes |-> wipes]]
     /\ \/ /\ Keyed(r) /\ idempotency[KeyOf[r[1]]] = None
           /\ \E entry \in [station : Station, id : Nat] :
                idempotency' = [idempotency EXCEPT ![KeyOf[r[1]]] = entry]
        \/ ~ Keyed(r) /\ idempotency' = idempotency
  \/ status \in Statuses /\ UNCHANGED <<server, applied>> /\ (status = "ok" => Keyed(r))

LEMMA OperateEffect ==
  ASSUME SimulatorInv, NEW r \in Request, command[r[1]] # None, NEW epoch, NEW status \in Statuses,
         Operate(r, epoch, status)
  PROVE  Effect(r, epoch, status)
<1>1. PICK chosen : chosen = command[r[1]] /\ chosen.kind \in Kinds
  BY RequestShape, SimulatorAssumption DEF SimulatorInv, CallersOK
<1>2. CASE Keyed(r) /\ idempotency[KeyOf[r[1]]] # None
  BY <1>2 DEF Operate, Repeat, Effect
<1>3. CASE ~ (Keyed(r) /\ idempotency[KeyOf[r[1]]] # None)
  <2>1. Mutate(r, epoch, status)
    BY <1>3 DEF Operate
  <2>2. PICK result : result = Transition(epoch, chosen)
    OBVIOUS
  <2>3. status = result.status
    BY <1>1, <2>1, <2>2 DEF Mutate, Wanted
  <2>4. CASE status # "ok"
    <3>1. UNCHANGED <<server, applied>>
      BY <1>1, <2>1, <2>2, <2>3, <2>4 DEF Mutate, Wanted
    <3> QED BY <2>4, <3>1 DEF Effect
  <2>5. CASE status = "ok"
    <3>1. /\ sim' = result.state /\ ids' = result.ids /\ wipes' = wipes
          /\ applied' = [applied EXCEPT ![r] = [epoch |-> resetEpoch, wipes |-> wipes]]
          /\ idempotency' =
               IF Keyed(r)
               THEN [idempotency EXCEPT ![KeyOf[r[1]]] =
                       [station |-> chosen.arg, id |-> result.ids.reservation]]
               ELSE idempotency
      BY <1>1, <2>1, <2>2, <2>3, <2>5 DEF Mutate, Wanted
    <3>2. /\ epoch = resetEpoch /\ StateOK(result.state) /\ result.ids \in Ids
          /\ chosen.kind = "reserve" => chosen.arg \in Station
      BY <1>1, <2>2, <2>3, <2>5, TransitionSound DEF SimulatorInv
    <3>3. CASE ~ Keyed(r)
      BY <2>5, <3>1, <3>2, <3>3 DEF Effect
    <3>4. CASE Keyed(r)
      <4>1. PICK entry \in [station : Station, id : Nat] :
              entry = [station |-> chosen.arg, id |-> result.ids.reservation]
        BY <1>1, <3>2, <3>4 DEF Keyed, Wanted, Ids
      <4>2. idempotency' = [idempotency EXCEPT ![KeyOf[r[1]]] = entry]
        BY <3>1, <3>4, <4>1
      <4> QED BY <1>3, <2>5, <3>1, <3>2, <3>4, <4>2 DEF Effect
    <3> QED BY <3>3, <3>4
  <2> QED BY <2>4, <2>5
<1> QED BY <1>2, <1>3

\* An operation leaves the server as it has to be, and forgets no key.
LEMMA EffectOnServer ==
  ASSUME SimulatorInv, NEW r \in Request, NEW epoch, NEW status, Effect(r, epoch, status),
         UNCHANGED <<resetEpoch, faults>>
  PROVE  /\ ServerOK' /\ wipes' = wipes
         /\ \A k \in Key : idempotency[k] # None => idempotency'[k] # None
         /\ applied' \in [Request -> [epoch : Nat, wipes : Nat] \cup {None}]
         /\ \A q \in Request \ {r} : applied'[q] = applied[q]
<1>1. ServerOK /\ CallersOK
  BY DEF SimulatorInv
<1>2. CASE UNCHANGED <<server, applied>>
  BY <1>1, <1>2 DEF server, ServerOK, CallersOK
<1>3. ASSUME StateOK(sim'), ids' \in Ids, wipes' = wipes,
             applied' = [applied EXCEPT ![r] = [epoch |-> resetEpoch, wipes |-> wipes]],
             \/ \E entry \in [station : Station, id : Nat] :
                  Keyed(r) /\ idempotency' = [idempotency EXCEPT ![KeyOf[r[1]]] = entry]
             \/ idempotency' = idempotency
      PROVE  /\ ServerOK'
             /\ \A k \in Key : idempotency[k] # None => idempotency'[k] # None
             /\ applied' \in [Request -> [epoch : Nat, wipes : Nat] \cup {None}]
             /\ \A q \in Request \ {r} : applied'[q] = applied[q]
  <2>1. /\ idempotency' \in [Key -> [station : Station, id : Nat] \cup {None}]
        /\ \A k \in Key : idempotency[k] # None => idempotency'[k] # None
    BY <1>1, <1>3, SimulatorAssumption DEF ServerOK
  <2>2. PICK stamp \in [epoch : Nat, wipes : Nat] : stamp = [epoch |-> resetEpoch, wipes |-> wipes]
    <3>1. resetEpoch \in Nat /\ wipes \in Nat
      BY <1>1, SimulatorAssumption DEF ServerOK
    <3> QED BY <3>1
  <2>3. applied' = [applied EXCEPT ![r] = stamp]
    BY <1>3, <2>2
  <2>4. /\ applied' \in [Request -> [epoch : Nat, wipes : Nat] \cup {None}]
        /\ \A q \in Request \ {r} : applied'[q] = applied[q]
    BY <1>1, <2>3 DEF CallersOK
  <2>5. ServerOK'
    BY <1>1, <1>3, <2>1 DEF ServerOK
  <2> QED BY <2>1, <2>4, <2>5
<1> QED BY <1>2, <1>3 DEF Effect

\* A step of one request.
Only(r) ==
  /\ UNCHANGED <<resetEpoch, faults, command>>
  /\ \A q \in Request \ {r} :
       /\ phase'[q] = phase[q] /\ arrived'[q] = arrived[q] /\ view'[q] = view[q]
       /\ applied'[q] = applied[q]

\* The other requests stay what they are when one of them moves.
LEMMA OthersStand ==
  ASSUME SimulatorInv, NEW r \in Request, Only(r), wipes' = wipes,
         \A k \in Key : idempotency[k] # None => idempotency'[k] # None
  PROVE  \A q \in Request \ {r} : RequestOK(q)'
<1> SUFFICES ASSUME NEW q \in Request \ {r} PROVE RequestOK(q)'
  OBVIOUS
<1>1. RequestOK(q) /\ (Keyed(q) => KeyOf[q[1]] \in Key) /\ Keyed(q)' = Keyed(q)
  BY RequestShape, SimulatorAssumption DEF SimulatorInv, Keyed, Wanted, Only
<1>2. /\ phase'[q] = phase[q] /\ arrived'[q] = arrived[q] /\ view'[q] = view[q]
      /\ applied'[q] = applied[q] /\ command' = command /\ resetEpoch' = resetEpoch
  BY DEF Only
<1> QED BY <1>1, <1>2 DEF RequestOK

\* A key that is free has reserved nothing since it was dropped.
LEMMA KeysStand ==
  ASSUME SimulatorInv, NEW r \in Request, Only(r),
         \/ applied'[r] = applied[r]
         \/ applied'[r].wipes = wipes /\ (Keyed(r) => idempotency[KeyOf[r[1]]] = None)
  PROVE  OneReservationPerKey'
<1>1. /\ \A q \in Request : RequestOK(q) /\ Keyed(q)' = Keyed(q)
      /\ \A q \in Request \ {r} : applied'[q] = applied[q]
      /\ OneReservationPerKey
  BY DEF SimulatorInv, Keyed, Wanted, Only
<1>2. CASE applied'[r] = applied[r]
  BY <1>1, <1>2 DEF OneReservationPerKey
<1>3. CASE applied'[r].wipes = wipes /\ (Keyed(r) => idempotency[KeyOf[r[1]]] = None)
  <2>1. ASSUME NEW q \in Request \ {r}, applied[q] # None, Keyed(q), Keyed(r),
               KeyOf[q[1]] = KeyOf[r[1]], applied[q].wipes = wipes
        PROVE  FALSE
    BY <1>1, <1>3, <2>1 DEF RequestOK
  <2> QED BY <1>1, <1>3, <2>1 DEF OneReservationPerKey
<1> QED BY <1>2, <1>3

------------------------------------------------------------------------------
(* The steps of a request.                                                 *)

\* What an answer makes of a request that nobody has answered yet.
LEMMA Answering ==
  ASSUME CallersOK, NEW r \in Request, view[r] \in {"waiting", "TIMEOUT"},
         NEW status \in Statuses \cup {"http_500", "http_503", "http_504", "connection_abort"},
         Answer(r, status)
  PROVE  /\ phase' \in [Request -> {"idle", "sent", "delayed", "late", "answered"}]
         /\ view' \in [Request -> Views]
         /\ phase'[r] = "answered" /\ view'[r] \in {ViewOf(status), "TIMEOUT"}
         /\ \A q \in Request \ {r} : phase'[q] = phase[q] /\ view'[q] = view[q]
<1>1. ViewOf(status) \in Views
  BY DEF ViewOf, Views, Statuses
<1>2. PICK w \in Views : w = IF view[r] = "waiting" THEN ViewOf(status) ELSE view[r]
  BY <1>1 DEF Views
<1>3. w \in {ViewOf(status), "TIMEOUT"}
  BY <1>2
<1>4. view' = [view EXCEPT ![r] = w] /\ phase' = [phase EXCEPT ![r] = "answered"]
  BY <1>2 DEF Answer
<1> QED BY <1>3, <1>4 DEF CallersOK

\* The places and views of a step of one request.
Moves(r) ==
  /\ UNCHANGED <<resetEpoch, faults, command>>
  /\ phase' \in [Request -> {"idle", "sent", "delayed", "late", "answered"}]
  /\ view' \in [Request -> Views]
  /\ arrived' \in [Request -> 0 .. MaxResets \cup {None}]
  /\ \A q \in Request \ {r} :
       phase'[q] = phase[q] /\ view'[q] = view[q] /\ arrived'[q] = arrived[q]

\* A request that is under way or delayed is operated on, and answered or held back.
LEMMA OperatedStep ==
  ASSUME SimulatorInv, NEW r \in Request, phase[r] \in {"sent", "delayed"},
         NEW epoch, NEW status \in Statuses, Operate(r, epoch, status),
         Moves(r), arrived'[r] = epoch,
         \/ phase'[r] = "answered" /\ view'[r] \in {ViewOf(status), "TIMEOUT"}
         \/ phase'[r] = "late" /\ view'[r] = view[r] /\ Keyed(r)
  PROVE  SimulatorInv'
<1>1. ServerOK /\ CallersOK /\ RequestOK(r) /\ KeyOf \in [Client -> Key \cup {None}]
  BY SimulatorAssumption DEF SimulatorInv
<1>2. Effect(r, epoch, status)
  BY <1>1, OperateEffect DEF RequestOK
<1>3. /\ ServerOK' /\ wipes' = wipes
      /\ \A k \in Key : idempotency[k] # None => idempotency'[k] # None
      /\ applied' \in [Request -> [epoch : Nat, wipes : Nat] \cup {None}]
      /\ \A q \in Request \ {r} : applied'[q] = applied[q]
  BY <1>2, EffectOnServer DEF Moves
<1>4. Only(r)
  BY <1>3 DEF Only, Moves
<1>5. CallersOK'
  BY <1>1, <1>3 DEF CallersOK, Moves
<1>6. applied[r] = None
  BY <1>1 DEF RequestOK
<1>7. \/ applied'[r] = applied[r]
      \/ /\ status = "ok" /\ epoch = resetEpoch
         /\ applied'[r] = [epoch |-> resetEpoch, wipes |-> wipes]
         /\ Keyed(r) => idempotency[KeyOf[r[1]]] = None /\ idempotency'[KeyOf[r[1]]] # None
  <2>1. CASE UNCHANGED <<server, applied>>
    BY <2>1
  <2>2. CASE ~ UNCHANGED <<server, applied>>
    <3>1. /\ status = "ok" /\ epoch = resetEpoch
          /\ applied'[r] = [epoch |-> resetEpoch, wipes |-> wipes]
      BY <1>1, <1>2, <2>2 DEF Effect, CallersOK
    <3>2. ASSUME Keyed(r)
          PROVE  idempotency[KeyOf[r[1]]] = None /\ idempotency'[KeyOf[r[1]]] # None
      <4>1. KeyOf[r[1]] \in Key
        BY <1>1, <3>2, RequestShape DEF Keyed
      <4>2. PICK entry \in [station : Station, id : Nat] :
              /\ idempotency[KeyOf[r[1]]] = None
              /\ idempotency' = [idempotency EXCEPT ![KeyOf[r[1]]] = entry]
        BY <1>2, <2>2, <3>2 DEF Effect
      <4> QED BY <1>1, <4>1, <4>2, SimulatorAssumption DEF ServerOK
    <3> QED BY <3>1, <3>2
  <2> QED BY <2>1, <2>2
<1>8. OneReservationPerKey'
  BY <1>4, <1>7, KeysStand
<1>9. RequestOK(r)'
  <2>1. Keyed(r)' = Keyed(r) /\ command'[r[1]] # None /\ resetEpoch' = resetEpoch
    BY <1>1 DEF RequestOK, Keyed, Wanted, Moves
  <2>2. CASE applied'[r] = applied[r]
    BY <1>1, <1>6, <2>1, <2>2 DEF RequestOK
  <2>3. CASE applied'[r] # applied[r]
    <3>1. /\ status = "ok" /\ epoch = resetEpoch
          /\ applied'[r].epoch = epoch /\ applied'[r].wipes = wipes
          /\ Keyed(r) => idempotency'[KeyOf[r[1]]] # None
      BY <1>7, <2>3
    <3>2. \/ phase'[r] = "answered" /\ view'[r] \in {"ok", "TIMEOUT"}
          \/ phase'[r] = "late" /\ view'[r] \in {"waiting", "TIMEOUT"} /\ Keyed(r)
      BY <1>1, <3>1 DEF ViewOf, RequestOK
    <3>3. resetEpoch \in Nat /\ wipes \in Nat
      BY <1>1, SimulatorAssumption DEF ServerOK
    <3> QED BY <1>3, <2>1, <3>1, <3>2, <3>3 DEF RequestOK
  <2> QED BY <2>2, <2>3
<1>10. \A q \in Request \ {r} : RequestOK(q)'
  BY <1>3, <1>4, OthersStand
<1> QED BY <1>3, <1>5, <1>8, <1>9, <1>10 DEF SimulatorInv

\* A step of one request that leaves the server alone, and what was applied.
LEMMA PassiveStep ==
  ASSUME SimulatorInv, NEW r \in Request, Moves(r), UNCHANGED <<server, applied>>, RequestOK(r)'
  PROVE  SimulatorInv'
<1>1. ServerOK' /\ wipes' = wipes /\ idempotency' = idempotency
  BY DEF SimulatorInv, server, ServerOK, Moves
<1>2. CallersOK' /\ Only(r)
  BY DEF SimulatorInv, CallersOK, Moves, Only
<1>3. OneReservationPerKey'
  BY <1>2, KeysStand
<1>4. \A q \in Request \ {r} : RequestOK(q)'
  BY <1>1, <1>2, OthersStand
<1> QED BY <1>1, <1>2, <1>3, <1>4 DEF SimulatorInv

\* What a passive step keeps of the request.
LEMMA Passive ==
  ASSUME CallersOK, NEW r \in Request, Moves(r), UNCHANGED <<server, applied>>
  PROVE  /\ applied'[r] = applied[r] /\ command'[r[1]] = command[r[1]]
         /\ Keyed(r)' = Keyed(r) /\ wipes' = wipes /\ resetEpoch' = resetEpoch
         /\ idempotency' = idempotency
BY DEF Moves, server, Keyed, Wanted

\* A request arrives.
LEMMA ArriveStep ==
  ASSUME SimulatorInv, NEW r \in Request, Arrive(r) PROVE SimulatorInv'
<1>1. ServerOK /\ CallersOK /\ RequestOK(r)
  BY DEF SimulatorInv
<1>2. /\ phase[r] = "sent" /\ view[r] \in {"waiting", "TIMEOUT"} /\ applied[r] = None
      /\ command[r[1]] # None
      /\ arrived' = [arrived EXCEPT ![r] = resetEpoch] /\ Serve(r)
      /\ UNCHANGED <<resetEpoch, faults, command>>
  BY <1>1 DEF Arrive, RequestOK
<1>3. /\ arrived' \in [Request -> 0 .. MaxResets \cup {None}] /\ arrived'[r] = resetEpoch
      /\ \A q \in Request \ {r} : arrived'[q] = arrived[q]
  BY <1>1, <1>2 DEF CallersOK, ServerOK
<1>4. ASSUME NEW status \in Statuses, Operate(r, resetEpoch, status), Answer(r, status)
      PROVE  SimulatorInv'
  <2>1. /\ Moves(r)
        /\ phase'[r] = "answered" /\ view'[r] \in {ViewOf(status), "TIMEOUT"}
    BY <1>1, <1>2, <1>3, <1>4, Answering DEF Moves
  <2> QED BY <1>2, <1>3, <1>4, <2>1, OperatedStep
<1>5. ASSUME NEW place \in {"delayed", "late"}, phase' = [phase EXCEPT ![r] = place],
             UNCHANGED view
      PROVE  Moves(r) /\ phase'[r] = place /\ view'[r] = view[r]
  BY <1>1, <1>2, <1>3, <1>5 DEF Moves, CallersOK
<1>6. ASSUME NEW place \in {"delayed", "late"}, phase' = [phase EXCEPT ![r] = place],
             UNCHANGED <<server, applied, view>>
      PROVE  SimulatorInv'
  <2>1. Moves(r) /\ phase'[r] = place /\ view'[r] = view[r]
    BY <1>5, <1>6
  <2>2. /\ applied'[r] = None /\ command'[r[1]] # None
    BY <1>2, <1>6
  <2>3. RequestOK(r)'
    BY <1>2, <2>1, <2>2 DEF RequestOK
  <2> QED BY <1>6, <2>1, <2>3, PassiveStep
<1>7. ASSUME NEW fault \in {"http_500", "http_503", "connection_abort"}, Answer(r, fault),
             UNCHANGED <<server, applied>>
      PROVE  SimulatorInv'
  <2>1. Moves(r) /\ phase'[r] = "answered"
    BY <1>1, <1>2, <1>3, <1>7, Answering DEF Moves
  <2>2. applied'[r] = None /\ command'[r[1]] # None
    BY <1>2, <1>7
  <2>3. RequestOK(r)'
    BY <2>1, <2>2 DEF RequestOK
  <2> QED BY <1>7, <2>1, <2>3, PassiveStep
<1>8. ASSUME NEW status \in Statuses, Operate(r, resetEpoch, status), Keyed(r),
             phase' = [phase EXCEPT ![r] = "late"], UNCHANGED view
      PROVE  SimulatorInv'
  <2>1. PICK place \in {"delayed", "late"} : place = "late" /\ phase' = [phase EXCEPT ![r] = place]
    BY <1>8
  <2>2. Moves(r) /\ phase'[r] = "late" /\ view'[r] = view[r]
    BY <1>5, <1>8, <2>1
  <2> QED BY <1>2, <1>3, <1>8, <2>2, OperatedStep
<1>9. PICK fault \in Consumed(r) :
        \/ /\ fault = None
           /\ \E status \in Statuses :
                Operate(r, resetEpoch, status) /\ Answer(r, status)
        \/ /\ fault = "delay"
           /\ phase' = [phase EXCEPT ![r] = "delayed"]
           /\ UNCHANGED <<server, applied, view>>
        \/ /\ fault = "timeout" /\ Keyed(r)
           /\ \E status \in Statuses :
                /\ Operate(r, resetEpoch, status)
                /\ IF status = "ok"
                   THEN phase' = [phase EXCEPT ![r] = "late"] /\ UNCHANGED view
                   ELSE Answer(r, status)
        \/ /\ fault = "timeout" /\ ~ Keyed(r)
           /\ phase' = [phase EXCEPT ![r] = "late"]
           /\ UNCHANGED <<server, applied, view>>
        \/ /\ fault \in {"http_500", "http_503", "connection_abort"}
           /\ Answer(r, fault)
           /\ UNCHANGED <<server, applied>>
  BY <1>2 DEF Serve
<1>10. CASE \E status \in Statuses : Operate(r, resetEpoch, status) /\ Answer(r, status)
  BY <1>4, <1>10
<1>11. CASE /\ phase' = [phase EXCEPT ![r] = "delayed"] \/ phase' = [phase EXCEPT ![r] = "late"]
            /\ UNCHANGED <<server, applied, view>>
  BY <1>6, <1>11
<1>12. CASE \E status \in Statuses :
              /\ Operate(r, resetEpoch, status) /\ Keyed(r)
              /\ phase' = [phase EXCEPT ![r] = "late"] /\ UNCHANGED view
  BY <1>8, <1>12
<1>13. CASE /\ fault \in {"http_500", "http_503", "connection_abort"}
            /\ Answer(r, fault) /\ UNCHANGED <<server, applied>>
  BY <1>7, <1>13
<1> QED BY <1>9, <1>10, <1>11, <1>12, <1>13

\* A delay ends.
LEMMA EndDelayStep ==
  ASSUME SimulatorInv, NEW r \in Request, EndDelay(r) PROVE SimulatorInv'
<1>1. CallersOK /\ RequestOK(r)
  BY DEF SimulatorInv
<1>2. PICK status \in Statuses :
        /\ Operate(r, arrived[r], status) /\ Answer(r, status)
        /\ phase[r] = "delayed" /\ view[r] \in {"waiting", "TIMEOUT"}
        /\ UNCHANGED <<resetEpoch, faults, command, arrived>>
  BY <1>1 DEF EndDelay, RequestOK
<1>3. /\ Moves(r) /\ arrived'[r] = arrived[r]
      /\ phase'[r] = "answered" /\ view'[r] \in {ViewOf(status), "TIMEOUT"}
  <2>1. arrived' \in [Request -> 0 .. MaxResets \cup {None}]
    BY <1>1, <1>2 DEF CallersOK
  <2> QED BY <1>1, <1>2, <2>1, Answering DEF Moves
<1> QED BY <1>2, <1>3, OperatedStep

\* A timeout ends.
LEMMA EndTimeoutStep ==
  ASSUME SimulatorInv, NEW r \in Request, EndTimeout(r) PROVE SimulatorInv'
<1>1. CallersOK /\ RequestOK(r)
  BY DEF SimulatorInv
<1>2. /\ Answer(r, "http_504") /\ phase[r] = "late" /\ view[r] \in {"waiting", "TIMEOUT"}
      /\ UNCHANGED <<resetEpoch, faults, command, arrived>> /\ UNCHANGED <<server, applied>>
  BY <1>1 DEF EndTimeout, RequestOK
<1>3. /\ Moves(r) /\ arrived'[r] = arrived[r]
      /\ phase'[r] = "answered" /\ view'[r] \in {"DEFINITE_FAILURE", "TIMEOUT"}
  <2>1. arrived' \in [Request -> 0 .. MaxResets \cup {None}]
    BY <1>1, <1>2 DEF CallersOK
  <2>2. ViewOf("http_504") = "DEFINITE_FAILURE"
    BY DEF ViewOf
  <2> QED BY <1>1, <1>2, <2>1, <2>2, Answering DEF Moves
<1>4. /\ applied'[r] = applied[r] /\ command'[r[1]] = command[r[1]]
      /\ Keyed(r)' = Keyed(r) /\ wipes' = wipes /\ resetEpoch' = resetEpoch
      /\ idempotency' = idempotency
  BY <1>1, <1>2, <1>3, Passive
<1>5. RequestOK(r)'
  BY <1>1, <1>2, <1>3, <1>4 DEF RequestOK
<1> QED BY <1>2, <1>3, <1>5, PassiveStep

\* A caller gives up.
LEMMA GiveUpStep ==
  ASSUME SimulatorInv, NEW r \in Request, GiveUp(r) PROVE SimulatorInv'
<1>1. CallersOK /\ RequestOK(r)
  BY DEF SimulatorInv
<1>2. PICK w \in Views : w = "TIMEOUT" /\ view' = [view EXCEPT ![r] = w]
  BY DEF GiveUp, Views
<1>3. /\ phase[r] \in {"sent", "delayed", "late"}
      /\ UNCHANGED <<resetEpoch, faults, command, phase, arrived>>
      /\ UNCHANGED <<server, applied>>
  BY DEF GiveUp
<1>4. Moves(r) /\ phase'[r] = phase[r] /\ arrived'[r] = arrived[r] /\ view'[r] = "TIMEOUT"
  BY <1>1, <1>2, <1>3 DEF Moves, CallersOK
<1>5. /\ applied'[r] = applied[r] /\ command'[r[1]] = command[r[1]]
      /\ Keyed(r)' = Keyed(r) /\ wipes' = wipes /\ resetEpoch' = resetEpoch
      /\ idempotency' = idempotency
  BY <1>1, <1>3, <1>4, Passive
<1>6. RequestOK(r)'
  BY <1>1, <1>3, <1>4, <1>5 DEF RequestOK
<1> QED BY <1>3, <1>4, <1>6, PassiveStep

\* A caller sends a request again.
LEMMA RetryStep ==
  ASSUME SimulatorInv, NEW r \in Request, Retry(r) PROVE SimulatorInv'
<1>1. PICK next \in Request : next = <<r[1], r[2] + 1>> /\ next[1] = r[1]
  BY RequestShape DEF Retry
<1>2. CallersOK /\ RequestOK(next)
  BY DEF SimulatorInv
<1>3. /\ command[r[1]] # None /\ phase[next] = "idle"
      /\ phase' = [phase EXCEPT ![next] = "sent"] /\ view' = [view EXCEPT ![next] = "waiting"]
      /\ UNCHANGED <<resetEpoch, faults, command, arrived>> /\ UNCHANGED <<server, applied>>
  BY <1>1 DEF Retry
<1>4. Moves(next) /\ phase'[next] = "sent" /\ view'[next] = "waiting"
  BY <1>2, <1>3 DEF Moves, CallersOK, Views
<1>5. applied'[next] = None /\ command'[next[1]] # None
  BY <1>1, <1>2, <1>3 DEF RequestOK
<1>6. RequestOK(next)'
  BY <1>4, <1>5 DEF RequestOK
<1> QED BY <1>3, <1>4, <1>6, PassiveStep

------------------------------------------------------------------------------
(* The steps of a caller and of the control plane.                         *)

\* A caller decides.
LEMMA SubmitStep ==
  ASSUME SimulatorInv, NEW c \in Client, Submit(c) PROVE SimulatorInv'
<1>1. PICK r \in Request : r = <<c, 1>> /\ r[1] = c
  BY RequestShape
<1>2. PICK chosen \in CommandsOf[c] : command' = [command EXCEPT ![c] = chosen] /\ chosen # None
  BY SimulatorAssumption DEF Submit
<1>3. /\ command[c] = None
      /\ phase' = [phase EXCEPT ![r] = "sent"] /\ view' = [view EXCEPT ![r] = "waiting"]
      /\ UNCHANGED <<resetEpoch, faults, arrived>> /\ UNCHANGED <<server, applied>>
  BY <1>1 DEF Submit
<1>4. ServerOK /\ CallersOK /\ \A q \in Request : RequestOK(q)
  BY DEF SimulatorInv
<1>5. command'[c] = chosen /\ \A d \in Client \ {c} : command'[d] = command[d]
  BY <1>2, <1>4 DEF CallersOK
<1>6. \A q \in Request : q[1] = c => applied[q] = None /\ phase[q] = "idle" /\ view[q] = "idle"
  BY <1>3, <1>4 DEF RequestOK
<1>7. \A q \in Request : applied[q] # None => Keyed(q)' = Keyed(q)
  <2> SUFFICES ASSUME NEW q \in Request, applied[q] # None PROVE Keyed(q)' = Keyed(q)
    OBVIOUS
  <2>1. q[1] \in Client \ {c}
    BY <1>6, RequestShape
  <2>2. command'[q[1]] = command[q[1]]
    BY <1>5, <2>1
  <2> QED BY <2>2 DEF Keyed, Wanted
<1>8. CallersOK'
  <2>1. command' = [d \in Client |-> command'[d]]
    BY <1>2, <1>4 DEF CallersOK
  <2>2. \A d \in Client : command'[d] \in CommandsOf[d] \cup {None}
    BY <1>4, <1>5 DEF CallersOK
  <2>3. phase' \in [Request -> {"idle", "sent", "delayed", "late", "answered"}]
    BY <1>3, <1>4 DEF CallersOK
  <2>4. view' \in [Request -> Views]
    BY <1>3, <1>4 DEF CallersOK, Views
  <2>5. arrived' = arrived /\ applied' = applied
    BY <1>3
  <2> QED BY <1>4, <2>1, <2>2, <2>3, <2>4, <2>5 DEF CallersOK
<1>9. ServerOK'
  BY <1>3, <1>4 DEF ServerOK, server
<1>10. ASSUME NEW q \in Request PROVE RequestOK(q)'
  <2>1. /\ arrived' = arrived /\ applied' = applied /\ wipes' = wipes
        /\ resetEpoch' = resetEpoch /\ idempotency' = idempotency
    BY <1>3 DEF server
  <2>2. CASE q = r
    <3>1. phase'[q] = "sent" /\ view'[q] = "waiting"
      BY <1>3, <1>4, <2>2 DEF CallersOK
    <3>2. command'[q[1]] # None /\ applied'[q] = None
      BY <1>1, <1>2, <1>5, <1>6, <2>1, <2>2
    <3> QED BY <3>1, <3>2 DEF RequestOK
  <2>3. CASE q # r
    <3>1. phase'[q] = phase[q] /\ view'[q] = view[q]
      BY <1>3, <1>4, <2>3 DEF CallersOK
    <3>2. command[q[1]] # None => command'[q[1]] # None
      BY <1>3, <1>5, RequestShape
    <3>3. RequestOK(q)
      BY <1>4
    <3> QED BY <1>7, <2>1, <3>1, <3>2, <3>3 DEF RequestOK
  <2> QED BY <2>2, <2>3
<1>11. OneReservationPerKey'
  <2>1. applied' = applied
    BY <1>3
  <2> QED BY <1>7, <2>1 DEF SimulatorInv, OneReservationPerKey
<1> QED BY <1>8, <1>9, <1>10, <1>11 DEF SimulatorInv

\* The control plane resets the simulator, or fails to after it has dropped the keys.
LEMMA DropStep ==
  ASSUME SimulatorInv, DropKeys, StateOK(sim'), ids' \in Ids,
         resetEpoch' \in {resetEpoch, resetEpoch + 1},
         faults' \in [Target -> Mode \cup {None}],
         UNCHANGED <<command, phase, arrived, view, applied>>
  PROVE  SimulatorInv'
<1>1. ServerOK /\ CallersOK /\ (\A r \in Request : RequestOK(r)) /\ OneReservationPerKey
  BY DEF SimulatorInv
<1>2. /\ wipes < MaxResets /\ wipes' = wipes + 1
      /\ idempotency' = [k \in Key |-> None]
  BY DEF DropKeys
<1>3. /\ wipes \in Nat /\ resetEpoch \in Nat /\ MaxResets \in Nat
      /\ \A r \in Request : applied[r] # None =>
           applied[r].epoch \in Nat /\ applied[r].wipes \in Nat
  BY <1>1, SimulatorAssumption DEF ServerOK, CallersOK
<1>4. ServerOK'
  <2>1. resetEpoch' \in 0 .. MaxResets /\ wipes' \in 0 .. MaxResets /\ resetEpoch' <= wipes'
    BY <1>1, <1>2, <1>3 DEF ServerOK
  <2>2. idempotency' \in [Key -> [station : Station, id : Nat] \cup {None}]
    BY <1>2
  <2> QED BY <2>1, <2>2 DEF ServerOK
<1>5. CallersOK'
  BY <1>1 DEF CallersOK
<1>6. \A r \in Request : Keyed(r)' = Keyed(r)
  BY DEF Keyed, Wanted
<1>7. ASSUME NEW r \in Request PROVE RequestOK(r)'
  <2>1. /\ phase'[r] = phase[r] /\ view'[r] = view[r] /\ arrived'[r] = arrived[r]
        /\ applied'[r] = applied[r] /\ command'[r[1]] = command[r[1]]
    OBVIOUS
  <2>2. applied[r] # None =>
          /\ applied[r].epoch <= resetEpoch'
          /\ applied[r].wipes <= wipes' /\ applied[r].wipes # wipes'
    BY <1>1, <1>2, <1>3 DEF RequestOK
  <2>3. RequestOK(r)
    BY <1>1
  <2> QED BY <1>6, <2>1, <2>2, <2>3 DEF RequestOK
<1>8. OneReservationPerKey'
  BY <1>1, <1>6 DEF OneReservationPerKey
<1> QED BY <1>4, <1>5, <1>7, <1>8 DEF SimulatorInv

\* The control plane changes the faults.
LEMMA FaultsStep ==
  ASSUME SimulatorInv, faults' \in [Target -> Mode \cup {None}],
         UNCHANGED <<server, applied, resetEpoch, command, phase, arrived, view>>
  PROVE  SimulatorInv'
<1>1. ServerOK'
  BY DEF SimulatorInv, ServerOK, server
<1>2. CallersOK'
  BY DEF SimulatorInv, CallersOK
<1>3. /\ wipes' = wipes /\ idempotency' = idempotency
      /\ \A r \in Request : Keyed(r)' = Keyed(r)
  BY DEF server, Keyed, Wanted
<1>4. \A r \in Request : RequestOK(r)'
  BY <1>3 DEF SimulatorInv, RequestOK
<1>5. OneReservationPerKey'
  BY <1>3 DEF SimulatorInv, OneReservationPerKey
<1> QED BY <1>1, <1>2, <1>4, <1>5 DEF SimulatorInv

------------------------------------------------------------------------------
(* The theorems.                                                           *)

\* The invariant holds from the start.
LEMMA SimulatorStarts == SimulatorInit => SimulatorInv
<1> SUFFICES ASSUME SimulatorInit PROVE SimulatorInv
  OBVIOUS
<1>1. StateOK(sim)
  BY LoadOK, SimulatorAssumption DEF SimulatorInit
<1>2. ids \in Ids
  BY DEF SimulatorInit, NoIds, Ids
<1>3. ServerOK
  BY <1>1, <1>2, SimulatorAssumption DEF SimulatorInit, ServerOK
<1>4. CallersOK
  BY SimulatorAssumption DEF SimulatorInit, CallersOK, Views
<1>5. \A r \in Request : RequestOK(r)
  BY DEF SimulatorInit, RequestOK
<1>6. OneReservationPerKey
  BY DEF SimulatorInit, OneReservationPerKey
<1> QED BY <1>3, <1>4, <1>5, <1>6 DEF SimulatorInv

\* Every step keeps it.
LEMMA SimulatorSteps == SimulatorInv /\ [SimulatorNext]_simulatorVars => SimulatorInv'
<1> SUFFICES ASSUME SimulatorInv, [SimulatorNext]_simulatorVars PROVE SimulatorInv'
  OBVIOUS
<1>1. ASSUME NEW c \in Client, Submit(c) PROVE SimulatorInv'
  BY <1>1, SubmitStep
<1>2. ASSUME NEW r \in Request, Arrive(r) PROVE SimulatorInv'
  BY <1>2, ArriveStep
<1>3. ASSUME NEW r \in Request, EndDelay(r) PROVE SimulatorInv'
  BY <1>3, EndDelayStep
<1>4. ASSUME NEW r \in Request, EndTimeout(r) PROVE SimulatorInv'
  BY <1>4, EndTimeoutStep
<1>5. ASSUME NEW r \in Request, GiveUp(r) PROVE SimulatorInv'
  BY <1>5, GiveUpStep
<1>6. ASSUME NEW r \in Request, Retry(r) PROVE SimulatorInv'
  BY <1>6, RetryStep
<1>7. CASE Reset
  <2>1. PICK scenario \in NextScenario : sim' = Load(scenario)
    BY <1>7 DEF Reset
  <2>2. StateOK(sim')
    BY <2>1, LoadOK, SimulatorAssumption
  <2>3. ids' \in Ids
    BY <1>7 DEF Reset, NoIds, Ids
  <2>4. /\ DropKeys /\ resetEpoch' = resetEpoch + 1 /\ faults' = [t \in Target |-> None]
        /\ UNCHANGED <<command, phase, arrived, view, applied>>
    BY <1>7 DEF Reset
  <2>5. faults' \in [Target -> Mode \cup {None}]
    BY <2>4
  <2> QED BY <2>2, <2>3, <2>4, <2>5, DropStep
<1>8. CASE ResetUnknown
  <2>1. /\ DropKeys /\ sim' = sim /\ ids' = ids /\ resetEpoch' = resetEpoch /\ faults' = faults
        /\ UNCHANGED <<command, phase, arrived, view, applied>>
    BY <1>8 DEF ResetUnknown
  <2>2. StateOK(sim') /\ ids' \in Ids /\ faults' \in [Target -> Mode \cup {None}]
    BY <2>1 DEF SimulatorInv, ServerOK
  <2> QED BY <2>1, <2>2, DropStep
<1>9. CASE ConfigureFault
  <2>1. PICK t \in Target, mode \in Mode : faults' = [faults EXCEPT ![t] = mode]
    BY <1>9 DEF ConfigureFault
  <2>2. faults' \in [Target -> Mode \cup {None}]
    BY <2>1 DEF SimulatorInv, ServerOK
  <2> QED BY <1>9, <2>2, FaultsStep DEF ConfigureFault
<1>10. CASE ClearFaults
  <2>1. faults' \in [Target -> Mode \cup {None}]
    BY <1>10 DEF ClearFaults
  <2> QED BY <1>10, <2>1, FaultsStep DEF ClearFaults
<1>11. CASE UNCHANGED simulatorVars
  <2>1. /\ UNCHANGED <<server, applied, resetEpoch, command, phase, arrived, view>>
        /\ faults' = faults
    BY <1>11 DEF simulatorVars, server
  <2>2. faults' \in [Target -> Mode \cup {None}]
    BY <2>1 DEF SimulatorInv, ServerOK
  <2> QED BY <2>1, <2>2, FaultsStep
<1> QED
  BY <1>1, <1>2, <1>3, <1>4, <1>5, <1>6, <1>7, <1>8, <1>9, <1>10, <1>11 DEF SimulatorNext

\* The inductive invariant holds in every reachable state.
THEOREM SimulatorInvariance == SimulatorSpec => []SimulatorInv
<1>1. SimulatorInit => SimulatorInv
  BY SimulatorStarts
<1>2. SimulatorInv /\ [SimulatorNext]_simulatorVars => SimulatorInv'
  BY SimulatorSteps
<1> QED BY <1>1, <1>2, PTL DEF SimulatorSpec

\* The variables hold what the code keeps in them, and the state stays valid.
THEOREM SimulatorTypeCorrect == SimulatorSpec => []SimulatorTypeOK
<1>1. SimulatorInv => SimulatorTypeOK
  <2> SUFFICES ASSUME SimulatorInv PROVE SimulatorTypeOK
    OBVIOUS
  <2>1. ServerOK /\ CallersOK /\ \A r \in Request : RequestOK(r)
    BY DEF SimulatorInv
  <2>2. StateValid(sim) /\ sim.slots \in [Station -> Nat]
    BY <2>1 DEF ServerOK, StateOK, IsState
  <2>3. /\ DOMAIN ids = {"route", "reservation", "assistance"}
        /\ \A n \in DOMAIN ids : ids[n] \in Nat
    BY <2>1 DEF ServerOK, Ids
  <2>4. \A k \in Key : idempotency[k] = None \/ idempotency[k].station \in Station
    BY <2>1 DEF ServerOK
  <2>5. \A r \in Request : applied[r] = None \/ applied[r].epoch \in 0 .. resetEpoch
    <3> SUFFICES ASSUME NEW r \in Request, applied[r] # None
                 PROVE  applied[r].epoch \in 0 .. resetEpoch
      OBVIOUS
    <3>1. applied[r].epoch \in Nat /\ resetEpoch \in Nat
      BY <2>1, SimulatorAssumption DEF CallersOK, ServerOK
    <3>2. applied[r].epoch <= resetEpoch
      BY <2>1 DEF RequestOK
    <3> QED BY <3>1, <3>2
  <2>6. /\ resetEpoch \in 0 .. MaxResets /\ wipes \in 0 .. MaxResets /\ resetEpoch <= wipes
        /\ faults \in [Target -> Mode \cup {None}]
    BY <2>1 DEF ServerOK
  <2>7. /\ \A c \in Client : command[c] \in CommandsOf[c] \cup {None}
        /\ phase \in [Request -> {"idle", "sent", "delayed", "late", "answered"}]
        /\ arrived \in [Request -> 0 .. MaxResets \cup {None}]
        /\ view \in [Request -> Views]
    BY <2>1 DEF CallersOK
  <2> QED BY <2>2, <2>3, <2>4, <2>5, <2>6, <2>7 DEF SimulatorTypeOK
<1> QED BY <1>1, SimulatorInvariance, PTL

\* Slots and reservations add up whatever is reserved, cancelled, delayed and reset, and
\* what a request does belongs to the epoch it arrived in.
THEOREM SlotsAlwaysAddUp == SimulatorSpec => []StateAddsUp
<1>1. SimulatorInv => StateAddsUp
  <2> SUFFICES ASSUME SimulatorInv PROVE StateAddsUp
    OBVIOUS
  <2>1. ASSUME NEW station \in Station
        PROVE  /\ sim.slots[station] + Cardinality(HeldAt(sim, station)) = SlotsOf[station]
               /\ Cardinality(HeldAt(sim, station)) <= 1
    <3>1. StationOK(sim, station) /\ sim.slots[station] \in Nat
      BY DEF SimulatorInv, ServerOK, StateOK, IsState
    <3>2. CASE HeldAt(sim, station) = {} /\ sim.slots[station] = SlotsOf[station]
      BY <3>1, <3>2, FS_EmptySet
    <3>3. ASSUME NEW r \in Reservation, HeldAt(sim, station) = {r},
                 sim.slots[station] + 1 = SlotsOf[station]
          PROVE  /\ sim.slots[station] + Cardinality(HeldAt(sim, station)) = SlotsOf[station]
                 /\ Cardinality(HeldAt(sim, station)) <= 1
      <4>1. Cardinality({r}) = 1
        BY FS_Singleton
      <4> QED BY <3>1, <3>3, <4>1
    <3> QED BY <3>1, <3>2, <3>3 DEF StationOK
  <2>2. SlotsAddUp
    BY <2>1 DEF SlotsAddUp, HeldAt
  <2>3. NothingCrossesAReset
    BY DEF SimulatorInv, RequestOK, NothingCrossesAReset
  <2> QED BY <2>2, <2>3 DEF StateAddsUp
<1> QED BY <1>1, SimulatorInvariance, PTL

\* A key reserves once, and a failure taken to have had no effect had none.
THEOREM RetriesAreAlwaysSafe == SimulatorSpec => []RetriesAreSafe
<1>1. SimulatorInv => RetriesAreSafe
  BY DEF SimulatorInv, RequestOK, FailureHadNoEffect, RetriesAreSafe
<1> QED BY <1>1, SimulatorInvariance, PTL

=============================================================================
