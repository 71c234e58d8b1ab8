---------------------------- MODULE CircuitBreaker ----------------------------
(***************************************************************************)
(* The circuit breaker of one group of dependencies, as functions of its   *)
(* entry.  Its methods run to their end, so whoever keeps an entry applies *)
(* each of them in one step.  Instead of openedAt the entry has openFor,   *)
(* the time since, counted no further than the cooldown; failures are      *)
(* counted no further than the threshold.                                  *)
(***************************************************************************)
EXTENDS Integers

CONSTANTS
  FailureThreshold,   \* failures in a row that open the circuit
  Cooldown            \* how long it stays open

ASSUME BreakerAssumption ==
  /\ FailureThreshold \in Nat \ {0}
  /\ Cooldown \in Nat \ {0}

CircuitState == {"CLOSED", "OPEN", "HALF_OPEN"}

CircuitEntry == [state : CircuitState, failures : 0..FailureThreshold, openFor : 0..Cooldown, probeActive : BOOLEAN]

NewEntry == [state |-> "CLOSED", failures |-> 0, openFor |-> 0, probeActive |-> FALSE]

\* A fault: nobody looks whether a probe is under way.
Allowed_ManyProbes(entry) ==
  \/ entry.state \in {"CLOSED", "HALF_OPEN"}
  \/ entry.state = "OPEN" /\ entry.openFor = Cooldown

\* An open circuit whose cooldown is over admits a probe, a half-open one no second.
Allowed(entry) ==
  \/ entry.state = "CLOSED"
  \/ entry.state = "OPEN" /\ entry.openFor = Cooldown
  \/ entry.state = "HALF_OPEN" /\ ~entry.probeActive

\* Time passes for an open circuit.
Elapsed(entry) ==
  IF entry.state = "OPEN" /\ entry.openFor < Cooldown
    THEN [entry EXCEPT !.openFor = @ + 1]
    ELSE entry

\* The entry after an allowed acquire.
Acquired(entry) ==
  IF entry.state = "CLOSED"
    THEN entry
    ELSE [entry EXCEPT !.state = "HALF_OPEN", !.openFor = 0, !.probeActive = TRUE]

Succeeded(entry) ==
  [entry EXCEPT !.state = "CLOSED", !.failures = 0, !.openFor = 0, !.probeActive = FALSE]

\* A failed probe opens the circuit again, a failure of a closed one is counted,
\* and so is one of a straggler, which prolongs the cooldown of an open one.
Failed(entry) ==
  LET failures == IF entry.failures < FailureThreshold THEN entry.failures + 1 ELSE entry.failures
      counted == [entry EXCEPT !.failures = failures, !.probeActive = FALSE]
      opened == [entry EXCEPT !.state = "OPEN", !.openFor = 0, !.probeActive = FALSE]
  IN  IF entry.state = "HALF_OPEN" THEN opened
      ELSE IF failures < FailureThreshold THEN counted
      ELSE [opened EXCEPT !.failures = failures]
==============================================================================
