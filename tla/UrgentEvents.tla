----------------------------- MODULE UrgentEvents -----------------------------
(***************************************************************************)
(* Urgent events of a vehicle: messages of a JetStream consumer, delivered *)
(* again until they are acknowledged, to processes that claim the event's  *)
(* row under a lease, plan and dispatch an action, and record a verdict.   *)
(* An action is what one delivery does between two awaits.                 *)
(***************************************************************************)
EXTENDS Naturals

CONSTANTS
  Message,       \* published messages
  Consumer,      \* processes that consume them
  Event,
  EventOf,       \* the eventId a message carries
  ContentOf,     \* its fingerprint
  Types,         \* what may be published: eventTypes by message, of which the
                 \* types "INVALID" and "MALFORMED" are no events
  Foreign,       \* messages that name another vehicle than the context's
  MaxDeliver, AckWait, ClaimTime,
  None

EventType == {"LOW_SOC", "CHARGING_INTERRUPTED", "VEHICLE_FAULT", "ROUTE_BLOCKED",
              "ASSISTANCE_REQUIRED"}

ASSUME UrgentAssumption ==
  /\ \A m \in Message : EventOf[m] \in Event
  /\ Types \subseteq [Message -> EventType \cup {"INVALID", "MALFORMED"}]
  /\ {MaxDeliver, AckWait, ClaimTime} \subseteq Nat \ {0}
  /\ None \notin Consumer \cup Message

\* A fingerprint is a digest of the whole event: equal ones tell equal events.
ASSUME FingerprintAssumption ==
  \A m, n \in Message : EventOf[m] = EventOf[n] /\ ContentOf[m] = ContentOf[n] =>
    /\ m \in Foreign <=> n \in Foreign
    /\ \A published \in Types : published[m] = published[n]

VARIABLES
  type,          \* what was published
  broker,        \* "ready", "pending" or "acked"
  deliveries,    \* how often the broker has delivered a message
  wait,          \* ticks until a message that is not acknowledged comes again
  dead,          \* messages with an envelope in the dead-letter subject
  row,           \* urgent_events, by event
  execution,     \* the durable execution of an event's action
  action,        \* its pending action
  session,       \* whether its session is leased
  told,          \* events whose confirmation credential has been handed out
  pc, msg, count,\* what a process awaits, for which message, its deliveryCount
  verdict,       \* the status it is about to record
  retryDelay,    \* the delay it asks for with a NAK
  overran,       \* events whose claim ran out while its owner was at work
  raced,         \* messages taken for duplicates of an event just recorded FAILED
  died           \* messages whose last delivery its process did not survive

brokerVars == <<broker, deliveries, wait, dead>>
effectVars == <<execution, action, session, told>>
processVars == <<pc, msg, count, verdict, retryDelay>>
historyVars == <<type, overran, raced, died>>
vars == <<brokerVars, row, effectVars, processVars, historyVars>>

Terminal == {"HANDLED", "REJECTED", "REPLAN_REQUIRED"}

Row == [status : Terminal \cup {"NONE", "PROCESSING", "FAILED"},
        owner : Consumer \cup {None}, left : 0..ClaimTime,
        content : {ContentOf[m] : m \in Message} \cup {None}]

TypeOK ==
  /\ type \in Types
  /\ broker \in [Message -> {"ready", "pending", "acked"}]
  /\ deliveries \in [Message -> 0..MaxDeliver]
  /\ wait \in [Message -> 0..(AckWait + ClaimTime)]
  /\ dead \subseteq Message
  /\ row \in [Event -> Row]
  /\ \A e \in Event : row[e].owner # None => row[e].status = "PROCESSING"
  /\ execution \in [Event -> {"none", "pending", "SUCCEEDED", "FAILED"}]
  /\ action \in [Event -> {"none", "AWAITING_CONFIRMATION", "CONFIRMED", "CLOSED"}]
  /\ session \in [Event -> BOOLEAN]
  /\ told \subseteq Event
  /\ pc \in [Consumer -> {"idle", "rejecting", "claiming", "reading", "loading", "binding",
                          "recovering", "deciding", "confirming", "acquiring", "starting",
                          "executing", "releasing", "completing", "refusing", "failing",
                          "burying", "acking", "nacking"}]
  /\ msg \in [Consumer -> Message \cup {None}]
  /\ count \in [Consumer -> 0..MaxDeliver]
  /\ verdict \in [Consumer -> Terminal \cup {"NONE"}]
  /\ retryDelay \in [Consumer -> 0..ClaimTime]
  /\ overran \subseteq Event
  /\ raced \cup died \subseteq Message

Init ==
  /\ type \in Types
  /\ broker = [m \in Message |-> "ready"]
  /\ deliveries = [m \in Message |-> 0]
  /\ wait = [m \in Message |-> 0]
  /\ dead = {} /\ told = {} /\ overran = {} /\ raced = {} /\ died = {}
  /\ row = [e \in Event |-> [status |-> "NONE", owner |-> None, left |-> 0, content |-> None]]
  /\ execution = [e \in Event |-> "none"]
  /\ action = [e \in Event |-> "none"]
  /\ session = [e \in Event |-> FALSE]
  /\ pc = [c \in Consumer |-> "idle"]
  /\ msg = [c \in Consumer |-> None]
  /\ count = [c \in Consumer |-> 0]
  /\ verdict = [c \in Consumer |-> "NONE"]
  /\ retryDelay = [c \in Consumer |-> 0]

------------------------------------------------------------------------------
(* What the steps share.                                                   *)

At(c, label) == pc[c] = label

Goto(c, label) == pc' = [pc EXCEPT ![c] = label]

EventAt(c) == EventOf[msg[c]]

\* The process goes to its catch block, or on to record the given status.
Throw(c) == Goto(c, "failing") /\ UNCHANGED verdict

Conclude(c, status) ==
  Goto(c, "completing") /\ verdict' = [verdict EXCEPT ![c] = status]

(***************************************************************************)
(* The delivery is over for the process.  Every call of process draws a    *)
(* new owner: a row whose owner is gone is owned by nobody.                *)
(***************************************************************************)
Finish(c) ==
  /\ Goto(c, "idle")
  /\ msg' = [msg EXCEPT ![c] = None]
  /\ count' = [count EXCEPT ![c] = 0]
  /\ verdict' = [verdict EXCEPT ![c] = "NONE"]
  /\ retryDelay' = [retryDelay EXCEPT ![c] = 0]
  /\ row' = [e \in Event |-> IF row[e].owner = c THEN [row[e] EXCEPT !.owner = None] ELSE row[e]]

\* Steps of a delivery between its claim and its verdict.
Working == {"loading", "binding", "recovering", "deciding", "confirming", "acquiring",
            "starting", "executing", "releasing", "completing", "refusing", "failing"}

------------------------------------------------------------------------------
(* The broker: one message in flight, redelivered after the acknowledge    *)
(* wait or the delay of a NAK, MaxDeliver times.                           *)

InFlight(m) ==
  broker[m] # "acked" /\ deliveries[m] > 0 /\ (deliveries[m] < MaxDeliver \/ wait[m] > 0)

\* What the content of a message calls for: JSON or not, an event of a known type or not.
FirstStep(m) == CASE type[m] = "MALFORMED" -> "burying"
                  [] type[m] = "INVALID" -> "rejecting"
                  [] OTHER -> "claiming"

Deliver(c, m) ==
  /\ At(c, "idle")
  /\ broker[m] # "acked" /\ wait[m] = 0 /\ deliveries[m] < MaxDeliver
  /\ \A other \in Message \ {m} : ~InFlight(other)
  /\ broker' = [broker EXCEPT ![m] = "pending"]
  /\ deliveries' = [deliveries EXCEPT ![m] = @ + 1]
  /\ wait' = [wait EXCEPT ![m] = AckWait]
  /\ msg' = [msg EXCEPT ![c] = m]
  /\ count' = [count EXCEPT ![c] = deliveries[m] + 1]
  /\ Goto(c, FirstStep(m))
  /\ UNCHANGED <<dead, row, effectVars, verdict, retryDelay, historyVars>>

\* The acknowledgement of any delivery settles the message; it may be lost.
Ack(c) ==
  /\ At(c, "acking")
  /\ broker' \in {broker, [broker EXCEPT ![msg[c]] = "acked"]}
  /\ Finish(c)
  /\ UNCHANGED <<deliveries, wait, dead, effectVars, historyVars>>

Nak(c) ==
  /\ At(c, "nacking") /\ count[c] < MaxDeliver
  /\ \/ /\ broker[msg[c]] = "pending"
        /\ broker' = [broker EXCEPT ![msg[c]] = "ready"]
        /\ wait' = [wait EXCEPT ![msg[c]] = retryDelay[c]]
     \/ UNCHANGED <<broker, wait>>
  /\ Finish(c)
  /\ UNCHANGED <<deliveries, dead, effectVars, historyVars>>

\* What goes to the dead-letter subject: also a transient failure of the last delivery.
Buries(c) == At(c, "burying") \/ (At(c, "nacking") /\ count[c] = MaxDeliver)

\* If the envelope cannot be published the consume loop rejects: see Crash.
Bury(c) ==
  /\ Buries(c)
  /\ dead' = dead \cup {msg[c]}
  /\ Goto(c, "acking")
  /\ UNCHANGED <<broker, deliveries, wait, row, effectVars, msg, count, verdict, retryDelay,
                 historyVars>>

Tick ==
  /\ \/ \E m \in Message : wait[m] > 0
     \/ \E e \in Event : row[e].left > 0
  /\ wait' = [m \in Message |-> IF wait[m] > 0 THEN wait[m] - 1 ELSE 0]
  /\ row' = [e \in Event |-> [row[e] EXCEPT !.left = IF @ > 0 THEN @ - 1 ELSE 0]]
  /\ overran' = overran \cup {e \in Event : row[e].left = 1 /\ row[e].owner # None}
  /\ UNCHANGED <<broker, deliveries, dead, effectVars, processVars, type, raced, died>>

\* The lease of a session whose release was lost ends by itself.
SessionExpires(e) ==
  /\ session[e]
  /\ session' = [session EXCEPT ![e] = FALSE]
  /\ UNCHANGED <<brokerVars, row, execution, action, told, processVars, historyVars>>

Crash(c) ==
  /\ ~At(c, "idle")
  /\ died' = IF count[c] = MaxDeliver THEN died \cup {msg[c]} ELSE died
  /\ Finish(c)
  /\ UNCHANGED <<brokerVars, effectVars, type, overran, raced>>

------------------------------------------------------------------------------
(* The row of an event: the statements of PostgresUrgentEventRepository.   *)

Claimable(e, content) ==
  \/ row[e].status = "NONE"
  \/ /\ row[e].content = content
     /\ \/ row[e].status = "FAILED"
        \/ row[e].status = "PROCESSING" /\ row[e].left = 0

Claimed(owner, content) ==
  [status |-> "PROCESSING", owner |-> owner, left |-> ClaimTime, content |-> content]

(***************************************************************************)
(* The insert and the conditional update of claim, which lock the row.  If *)
(* its answer is lost the owner is nobody.                                 *)
(***************************************************************************)
ClaimUpdate(c) ==
  LET e == EventAt(c)
      content == ContentOf[msg[c]] IN
  /\ At(c, "claiming")
  /\ \/ /\ Claimable(e, content)
        /\ \/ row' = [row EXCEPT ![e] = Claimed(c, content)] /\ Goto(c, "loading")
           \/ row' = [row EXCEPT ![e] = Claimed(None, content)] /\ Goto(c, "nacking")
     \/ ~Claimable(e, content) /\ Goto(c, "reading") /\ UNCHANGED row
     \/ Goto(c, "nacking") /\ UNCHANGED row
  /\ UNCHANGED <<brokerVars, effectVars, msg, count, verdict, retryDelay, historyVars>>

ClaimRead_Acks(c) ==
  /\ At(c, "reading")
  /\ Goto(c, IF row[EventAt(c)].content = ContentOf[msg[c]] THEN "acking" ELSE "burying")
  /\ UNCHANGED <<brokerVars, row, effectVars, msg, count, verdict, retryDelay, historyVars>>

(***************************************************************************)
(* The row is read again, in the same transaction but without a lock, and  *)
(* its answer taken for the reason that the update found nothing: another  *)
(* content, an owner at work (come back when its lease is over), or else   *)
(* an event that is settled.                                               *)
(***************************************************************************)
ClaimRead(c) ==
  LET found == row[EventAt(c)] IN
  /\ At(c, "reading")
  /\ CASE found.content # ContentOf[msg[c]] ->
            Goto(c, "burying") /\ UNCHANGED <<retryDelay, raced>>
       [] found.content = ContentOf[msg[c]] /\ found.status = "PROCESSING" ->
            /\ Goto(c, "nacking")
            /\ retryDelay' = [retryDelay EXCEPT ![c] = found.left]
            /\ UNCHANGED raced
       [] OTHER ->
            /\ Goto(c, "acking")
            /\ raced' = IF found.status = "FAILED" THEN raced \cup {msg[c]} ELSE raced
            /\ UNCHANGED retryDelay
  /\ UNCHANGED <<brokerVars, row, effectVars, msg, count, verdict, type, overran, died>>

\* An invalid event gets a row of its own if its identifier has none, or the database fails.
RejectInvalid(c) ==
  LET e == EventAt(c) IN
  /\ At(c, "rejecting")
  /\ \/ /\ row[e].status = "NONE"
        /\ row' = [row EXCEPT ![e] = [status |-> "REJECTED", owner |-> None, left |-> 0,
                                      content |-> ContentOf[msg[c]]]]
     \/ UNCHANGED row
  /\ Goto(c, "burying")
  /\ UNCHANGED <<brokerVars, effectVars, msg, count, verdict, retryDelay, historyVars>>

Owns_ById(c) == row[EventAt(c)].status # "NONE"

\* The condition of complete: a claim that ran out still completes until it is taken over.
Owns(c) == row[EventAt(c)].status = "PROCESSING" /\ row[EventAt(c)].owner = c

Recorded_Owned(c, status) == [row EXCEPT ![EventAt(c)] = [@ EXCEPT !.status = status]]

Recorded(c, status) ==
  [row EXCEPT ![EventAt(c)] = [@ EXCEPT !.status = status, !.owner = None, !.left = 0]]

------------------------------------------------------------------------------
(* process: the context, the plan and its verdict.                         *)

\* What the planner may find, in one context or another.
Plans(t) ==
  CASE t \in {"LOW_SOC", "CHARGING_INTERRUPTED"} -> {"RESOLVED", "ACTION"}
    [] t = "ROUTE_BLOCKED" -> {"RESOLVED", "REPLAN_REQUIRED"}
    [] t \in {"VEHICLE_FAULT", "ASSISTANCE_REQUIRED"} -> {"ACTION"}

LoadAndPlan(c) ==
  /\ At(c, "loading")
  /\ \/ Conclude(c, "REPLAN_REQUIRED")
     \/ msg[c] \in Foreign /\ Goto(c, "refusing") /\ UNCHANGED verdict
     \/ /\ msg[c] \notin Foreign
        /\ \E plan \in Plans(type[msg[c]]) :
             CASE plan = "ACTION" -> Goto(c, "binding") /\ UNCHANGED verdict
               [] plan = "RESOLVED" -> Conclude(c, "HANDLED")
               [] plan = "REPLAN_REQUIRED" -> Conclude(c, "REPLAN_REQUIRED")
  /\ UNCHANGED <<brokerVars, row, effectVars, msg, count, retryDelay, historyVars>>

Complete_TellsFirst(c) ==
  /\ At(c, "completing")
  /\ told' = told \cup {e \in {EventAt(c)} : action[e] # "none"}
  /\ \/ Owns(c) /\ row' = Recorded(c, verdict[c]) /\ Goto(c, "acking")
     \/ Goto(c, "failing") /\ UNCHANGED row
  /\ UNCHANGED <<brokerVars, execution, action, session, msg, count, verdict, retryDelay,
                 historyVars>>

\* Those told, if there are listeners.
Told(c) ==
  IF verdict[c] = "HANDLED" /\ action[EventAt(c)] # "none" THEN told \cup {EventAt(c)} ELSE told

(***************************************************************************)
(* The verdict is recorded; it may be and the answer lost.  Then whoever   *)
(* listens is told, of a confirmation with its credential.  Only this      *)
(* process's listeners are.                                                *)
(***************************************************************************)
Complete(c) ==
  /\ At(c, "completing")
  /\ \/ /\ Owns(c)
        /\ row' = Recorded(c, verdict[c])
        /\ Goto(c, IF verdict[c] = "REJECTED" THEN "burying" ELSE "acking")
        /\ told' \in {told, Told(c)}
     \/ Owns(c) /\ row' = Recorded(c, verdict[c]) /\ Goto(c, "failing") /\ UNCHANGED told
     \/ Goto(c, "failing") /\ UNCHANGED <<row, told>>
  /\ UNCHANGED <<brokerVars, execution, action, session, msg, count, verdict, retryDelay,
                 historyVars>>

\* The catch block, of a permanent error: if its record fails the error is not transient either.
Refuse(c) ==
  /\ At(c, "refusing")
  /\ \/ Owns(c) /\ row' = Recorded(c, "REJECTED")
     \/ UNCHANGED row
  /\ Goto(c, "burying")
  /\ UNCHANGED <<brokerVars, effectVars, msg, count, verdict, retryDelay, historyVars>>

\* The catch block, of any other error: the event may be claimed again.
Fail(c) ==
  /\ At(c, "failing")
  /\ \/ Owns(c) /\ row' = Recorded(c, "FAILED")
     \/ UNCHANGED row
  /\ Goto(c, "nacking")
  /\ UNCHANGED <<brokerVars, effectVars, msg, count, verdict, retryDelay, historyVars>>

------------------------------------------------------------------------------
(* dispatch: identifiers are derived from the event's, the same for every  *)
(* delivery.                                                               *)

Reads(m) == type[m] = "CHARGING_INTERRUPTED"

BindIdentity(c) ==
  /\ At(c, "binding")
  /\ Goto(c, "recovering") \/ Goto(c, "failing")
  /\ UNCHANGED <<brokerVars, row, effectVars, msg, count, verdict, retryDelay, historyVars>>

Recover_Skips(c) ==
  /\ At(c, "recovering")
  /\ Goto(c, "deciding")
  /\ UNCHANGED <<brokerVars, row, effectVars, msg, count, verdict, retryDelay, historyVars>>

\* An earlier delivery's execution counts if it succeeded; if not it is not repeated.
Recover(c) ==
  /\ At(c, "recovering")
  /\ CASE execution[EventAt(c)] = "none" -> Goto(c, "deciding") /\ UNCHANGED verdict
       [] execution[EventAt(c)] = "SUCCEEDED" -> Conclude(c, "HANDLED")
       [] OTHER -> Throw(c)
  /\ UNCHANGED <<brokerVars, row, effectVars, msg, count, retryDelay, historyVars>>

\* The context is loaded again and the policy decides, or the database or the load fails.
Decide(c) ==
  /\ At(c, "deciding")
  /\ \/ Throw(c)
     \/ Conclude(c, "REJECTED")
     \/ Conclude(c, "REPLAN_REQUIRED")
     \/ Goto(c, IF Reads(msg[c]) THEN "acquiring" ELSE "confirming") /\ UNCHANGED verdict
  /\ UNCHANGED <<brokerVars, row, effectVars, msg, count, retryDelay, historyVars>>

(***************************************************************************)
(* The pending action is found, created, or found after its creation       *)
(* failed; creation undoes itself if its event is not delivered.  One that *)
(* does not await its confirmation is no longer this event's to offer.     *)
(***************************************************************************)
ConfirmOrRecover(c) ==
  LET e == EventAt(c) IN
  /\ At(c, "confirming")
  /\ \/ Throw(c) /\ UNCHANGED action
     \/ /\ action[e] \in {"none", "AWAITING_CONFIRMATION"}
        /\ action' = [action EXCEPT ![e] = "AWAITING_CONFIRMATION"]
        /\ Conclude(c, "HANDLED")
     \/ /\ action[e] # "AWAITING_CONFIRMATION"
        /\ action' = [action EXCEPT ![e] = IF @ = "none" THEN "CLOSED" ELSE @]
        /\ Goto(c, "refusing") /\ UNCHANGED verdict
  /\ UNCHANGED <<brokerVars, row, execution, session, told, msg, count, retryDelay, historyVars>>

\* The session of the event, which only its own deliveries take.
AcquireSession(c) ==
  LET e == EventAt(c) IN
  /\ At(c, "acquiring")
  /\ \/ /\ ~session[e]
        /\ session' = [session EXCEPT ![e] = TRUE]
        /\ Goto(c, "starting") \/ Goto(c, "failing")
     \/ Goto(c, "failing") /\ UNCHANGED session
  /\ UNCHANGED <<brokerVars, row, execution, action, told, msg, count, verdict, retryDelay,
                 historyVars>>

\* The durable executor: one execution per event, as DurableExecution has it.
Start(c) ==
  LET e == EventAt(c) IN
  /\ At(c, "starting")
  /\ execution' = [execution EXCEPT ![e] = IF @ = "none" THEN "pending" ELSE @]
  /\ Goto(c, "executing")
  /\ UNCHANGED <<brokerVars, row, action, session, told, msg, count, verdict, retryDelay,
                 historyVars>>

Execute(c) ==
  LET e == EventAt(c) IN
  /\ At(c, "executing")
  /\ IF execution[e] = "pending"
     THEN \E result \in {"SUCCEEDED", "FAILED"} : execution' = [execution EXCEPT ![e] = result]
     ELSE UNCHANGED execution
  /\ Goto(c, "releasing")
  /\ verdict' = [verdict EXCEPT ![c] = IF execution'[e] = "SUCCEEDED" THEN "HANDLED" ELSE "NONE"]
  /\ UNCHANGED <<brokerVars, row, action, session, told, msg, count, retryDelay, historyVars>>

\* The release in finally; every delivery has the same owner.  If it throws, so does dispatch.
ReleaseSession(c) ==
  /\ At(c, "releasing")
  /\ \/ /\ session' = [session EXCEPT ![EventAt(c)] = FALSE]
        /\ Goto(c, IF verdict[c] = "HANDLED" THEN "completing" ELSE "failing")
        /\ UNCHANGED verdict
     \/ /\ Goto(c, "failing")
        /\ UNCHANGED <<session, verdict>>
  /\ UNCHANGED <<brokerVars, row, execution, action, told, msg, count, retryDelay, historyVars>>

------------------------------------------------------------------------------
(* The user, or the expiry of the action.                                  *)

Confirm(e) ==
  /\ e \in told /\ action[e] = "AWAITING_CONFIRMATION"
  /\ action' = [action EXCEPT ![e] = "CONFIRMED"]
  /\ UNCHANGED <<brokerVars, row, execution, session, told, processVars, historyVars>>

Close(e) ==
  /\ action[e] = "AWAITING_CONFIRMATION"
  /\ action' = [action EXCEPT ![e] = "CLOSED"]
  /\ UNCHANGED <<brokerVars, row, execution, session, told, processVars, historyVars>>

ProcessStep(c) ==
  \/ RejectInvalid(c) \/ ClaimUpdate(c) \/ ClaimRead(c) \/ LoadAndPlan(c)
  \/ BindIdentity(c) \/ Recover(c) \/ Decide(c) \/ ConfirmOrRecover(c)
  \/ AcquireSession(c) \/ Start(c) \/ Execute(c) \/ ReleaseSession(c)
  \/ Complete(c) \/ Refuse(c) \/ Fail(c)

HandlerStep(c) == Ack(c) \/ Nak(c) \/ Bury(c)

Next ==
  \/ \E c \in Consumer : ProcessStep(c) \/ HandlerStep(c) \/ Crash(c)
  \/ \E c \in Consumer, m \in Message : Deliver(c, m)
  \/ \E e \in Event : Confirm(e) \/ Close(e) \/ SessionExpires(e)
  \/ Tick

Spec == Init /\ [][Next]_vars

------------------------------------------------------------------------------
(* What becomes of an event.                                               *)

Settled(m) == row[EventOf[m]].status \in Terminal /\ row[EventOf[m]].content = ContentOf[m]

(***************************************************************************)
(* A message is acknowledged only if its event has its verdict or its      *)
(* envelope is in the dead-letter subject (ADR 0013: terminal duplicates   *)
(* are acknowledged, transient failures are not).                          *)
(***************************************************************************)
AckedIsSettled ==
  \A m \in Message : broker[m] = "acked" => Settled(m) \/ m \in dead

\* Delivered for the last time, and with no process.
GivenUp(m) ==
  /\ broker[m] # "acked" /\ deliveries[m] = MaxDeliver
  /\ \A c \in Consumer : msg[c] # m

(***************************************************************************)
(* An event is never lost in silence: once the broker is done with its     *)
(* message it has a verdict or an envelope, unless the process died in     *)
(* the last delivery, or for one race: the event is recorded FAILED        *)
(* between the update and the read of another delivery's claim.            *)
(***************************************************************************)
NoSilentLoss ==
  \A m \in Message : broker[m] = "acked" \/ GivenUp(m) =>
    Settled(m) \/ m \in dead \cup raced \cup died

(***************************************************************************)
(* A recorded verdict stands, whatever a delivery whose claim was taken    *)
(* over still does (the condition of complete, claim and rejectInvalid).   *)
(***************************************************************************)
VerdictsStand ==
  [][\A e \in Event : row[e].status \in Terminal => row'[e] = row[e]]_row

\* A rejected event has had no effect, on the vehicle or through its user, unless its claim
\* ran out under a delivery that went on: no tool has succeeded for it and no action of its
\* was confirmed (the recovery of executions and actions by earlier deliveries).
RejectedHadNoEffect ==
  \A e \in Event : row[e].status = "REJECTED" /\ e \notin overran =>
    execution[e] # "SUCCEEDED" /\ action[e] # "CONFIRMED"

\* A user is asked to confirm only what is recorded as handled, so that no redelivery
\* comes between the user and the action.
AskedOnlyWhenHandled ==
  /\ \A e \in told : row[e].status = "HANDLED"
  /\ \A e \in Event : action[e] = "CONFIRMED" => row[e].status = "HANDLED"

(***************************************************************************)
(* What is recorded of an event agrees with what was done about it, by     *)
(* this delivery and the earlier ones.                                     *)
(***************************************************************************)
HonestRecords == RejectedHadNoEffect /\ AskedOnlyWhenHandled

================================================================================
