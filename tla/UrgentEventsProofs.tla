-------------------------- MODULE UrgentEventsProofs --------------------------
(***************************************************************************)
(* Proofs about UrgentEvents, for any number of messages, events,          *)
(* processes and deliveries, any waits and any claim.                      *)
(*                                                                         *)
(* The argument has three parts.  A process that is about to acknowledge   *)
(* has a reason that stands (WorkerOK), and whoever has the last delivery  *)
(* of a message does not leave it without one (MessageOK): no event is     *)
(* lost.  A row that has its verdict is owned by nobody and never changes  *)
(* (EventOK).  And as long as no claim ran out under its owner, a process  *)
(* at work is the owner of its event, hence alone: what it has found out   *)
(* about earlier executions still holds when it records a rejection.       *)
(***************************************************************************)
EXTENDS UrgentEvents, TLAPS

\* Why the broker may be done with a message.
Done(m) == Settled(m) \/ m \in dead \cup raced \cup died

\* Places of a delivery that needs the event's claim for what it does next.
Busy == Working \ {"failing"}

\* Places only a delivery that executes a tool itself comes to.
Executing == {"acquiring", "starting", "executing", "releasing"}

\* What a process knows of the event it works on.
WorkerOK(c) ==
  LET m == msg[c]
      e == EventOf[msg[c]] IN
  /\ pc[c] # "idle" <=> m # None
  /\ pc[c] \in {"claiming", "loading"} => type[m] \in EventType
  /\ pc[c] = "reading" => row[e].status # "NONE"
  /\ pc[c] \in Working => row[e].status # "NONE" /\ row[e].content = ContentOf[m]
  /\ pc[c] \in Busy /\ e \notin overran => row[e].owner = c
  /\ pc[c] = "acking" => Done(m)
  /\ pc[c] = "completing" => verdict[c] \in Terminal
  /\ pc[c] \in Executing => Reads(m)
  /\ pc[c] \in {"binding", "recovering", "deciding", "confirming"} \cup Executing => m \notin Foreign
  /\ pc[c] = "confirming" => ~Reads(m)
  /\ pc[c] = "refusing" => m \in Foreign \/ ~Reads(m)
  /\ pc[c] = "deciding" /\ e \notin overran => execution[e] = "none"
  /\ pc[c] = "completing" /\ verdict[c] = "REJECTED" /\ e \notin overran =>
       execution[e] # "SUCCEEDED"

\* What a row remembers, and who may own it.
EventOK(e) ==
  /\ row[e].status # "PROCESSING" => row[e].owner = None /\ row[e].left = 0
  /\ \A c \in Consumer : row[e].owner = c =>
       /\ msg[c] # None /\ EventOf[msg[c]] = e /\ row[e].content = ContentOf[msg[c]]
       /\ pc[c] \notin {"idle", "rejecting", "claiming", "reading"}
  /\ row[e].owner # None /\ row[e].left = 0 => e \in overran
  /\ execution[e] # "none" =>
       /\ row[e].status # "NONE"
       /\ \E m \in Message : /\ EventOf[m] = e /\ ContentOf[m] = row[e].content
                             /\ Reads(m) /\ m \notin Foreign
  /\ e \in told \/ action[e] = "CONFIRMED" => row[e].status = "HANDLED"
  /\ row[e].status = "REJECTED" /\ e \notin overran => execution[e] # "SUCCEEDED"

\* Whom the broker still waits for.
MessageOK(m) ==
  /\ broker[m] = "acked" => Done(m)
  /\ deliveries[m] = MaxDeliver =>
       Done(m) \/ \E c \in Consumer : msg[c] = m /\ count[c] = MaxDeliver

IInv ==
  /\ TypeOK
  /\ \A c \in Consumer : WorkerOK(c)
  /\ \A e \in Event : EventOK(e)
  /\ \A m \in Message : MessageOK(m)

------------------------------------------------------------------------------
(* What one process may do to the others.                                  *)

\* Places of a delivery that owns nothing yet.
Early == {"idle", "rejecting", "claiming", "reading"}

(***************************************************************************)
(* What every step respects, c being the process that takes it: the rest   *)
(* of a process's knowledge stays true, and a verdict stands.              *)
(***************************************************************************)
Respects(c) ==
  /\ type' = type
  /\ \A d \in Consumer \ {c} : /\ pc'[d] = pc[d] /\ msg'[d] = msg[d]
                               /\ count'[d] = count[d] /\ verdict'[d] = verdict[d]
  /\ \A e \in Event : row[e].status # "NONE" =>
       row'[e].status # "NONE" /\ row'[e].content = row[e].content
  /\ \A e \in Event : row[e].status \in Terminal => row'[e] = row[e]
  /\ dead \subseteq dead' /\ raced \subseteq raced' /\ died \subseteq died'
  /\ overran \subseteq overran'
  /\ \A e \in Event \ overran', d \in Consumer \ {c} : row[e].owner = d => row'[e].owner = d
  /\ \A e \in Event \ overran' : row[e].owner # c => execution'[e] = execution[e]

\* A reason to be done with a message does not go away.
LEMMA DoneStands ==
  ASSUME IInv, NEW c, Respects(c), NEW m \in Message, Done(m)
  PROVE  Done(m)'
<1>1. EventOf[m] \in Event
  BY UrgentAssumption
<1>2. CASE Settled(m)
  BY <1>1, <1>2 DEF Respects, Done, Settled
<1>3. CASE m \in dead \cup raced \cup died
  BY <1>3 DEF Respects, Done
<1> QED BY <1>2, <1>3 DEF Done

\* Whatever a process does, the others go on knowing what they know.
LEMMA OthersStand ==
  ASSUME IInv, NEW c, Respects(c), NEW d \in Consumer \ {c}
  PROVE  WorkerOK(d)'
<1>1. WorkerOK(d)
  BY DEF IInv
<1>2. /\ type' = type /\ pc'[d] = pc[d] /\ msg'[d] = msg[d] /\ verdict'[d] = verdict[d]
      /\ overran \subseteq overran'
  BY DEF Respects
<1>3. CASE pc[d] = "idle"
  BY <1>1, <1>2, <1>3 DEF WorkerOK, Busy, Working, Executing
<1>4. CASE pc[d] # "idle"
  <2> PICK m \in Message : m = msg[d]
    BY <1>1, <1>4 DEF WorkerOK, IInv, TypeOK
  <2> PICK e \in Event : e = EventOf[m]
    BY UrgentAssumption
  <2>2. row[e].status # "NONE" => row'[e].status # "NONE" /\ row'[e].content = row[e].content
    BY DEF Respects
  <2>3. Done(m) => Done(m)'
    BY DoneStands
  <2>4. e \notin overran' => (row[e].owner = d => row'[e].owner = d)
    BY DEF Respects
  <2>5. e \notin overran' /\ row[e].owner = d => execution'[e] = execution[e]
    BY DEF Respects
  <2>6. Done(msg[d]) = Done(m) /\ Done(msg[d])' = Done(m)'
    BY <1>2 DEF Done, Settled
  <2>7. pc[d] \in {"deciding", "completing"} => pc[d] \in Busy
    BY DEF Busy, Working
  <2> QED BY <1>1, <1>2, <2>2, <2>3, <2>4, <2>5, <2>6, <2>7 DEF WorkerOK, Reads
<1> QED BY <1>3, <1>4

\* A step that leaves the broker and the deliveries alone leaves nobody without a reason.
LEMMA MessagesStand ==
  ASSUME IInv, NEW c, Respects(c), UNCHANGED <<broker, deliveries, msg, count>>,
         NEW m \in Message
  PROVE  MessageOK(m)'
<1>1. MessageOK(m) /\ (Done(m) => Done(m)')
  BY DoneStands DEF IInv
<1> QED BY <1>1 DEF MessageOK

\* A step that leaves an event's row and what was done about it alone leaves their relation.
LEMMA EventsStand ==
  ASSUME IInv, NEW c,
         \A d \in Consumer \ {c} : pc'[d] = pc[d] /\ msg'[d] = msg[d],
         c \in Consumer => (msg'[c] = msg[c] /\ pc'[c] \notin Early) \/ pc[c] \in Early,
         type' = type, overran \subseteq overran', NEW e \in Event,
         row'[e] = row[e], execution'[e] = execution[e], e \in told' => e \in told,
         action'[e] = "CONFIRMED" => action[e] = "CONFIRMED"
  PROVE  EventOK(e)'
<1>1. EventOK(e)
  BY DEF IInv
<1>2. ASSUME NEW d \in Consumer, row[e].owner = d
      PROVE  /\ msg'[d] # None /\ EventOf[msg'[d]] = e /\ row[e].content = ContentOf[msg'[d]]
             /\ pc'[d] \notin Early
  BY <1>1, <1>2 DEF EventOK, Early
<1> QED BY <1>1, <1>2 DEF EventOK, Early, Reads

(***************************************************************************)
(* What is left to show of a step that only moves its process: what the    *)
(* process then knows.                                                     *)
(***************************************************************************)
LEMMA ProcessMoves ==
  ASSUME IInv, NEW c \in Consumer, TypeOK', WorkerOK(c)',
         UNCHANGED <<broker, deliveries, dead, row, execution, told, msg, count, type, overran,
                     died>>,
         raced \subseteq raced',
         \A d \in Consumer \ {c} : pc'[d] = pc[d] /\ verdict'[d] = verdict[d],
         pc'[c] \notin Early \/ pc[c] \in Early,
         \A e \in Event : action'[e] = "CONFIRMED" => action[e] = "CONFIRMED"
  PROVE  IInv' /\ Respects(c)
<1>1. Respects(c)
  BY DEF Respects
<1>2. \A d \in Consumer : WorkerOK(d)'
  BY <1>1, OthersStand
<1>3. \A m \in Message : MessageOK(m)'
  BY <1>1, MessagesStand
<1>4. \A e \in Event : EventOK(e)'
  <2> TAKE e \in Event
  <2> QED BY EventsStand
<1> QED BY <1>1, <1>2, <1>3, <1>4 DEF IInv

\* What a process at work and the row of its event have to do with each other.
LEMMA AtWork ==
  ASSUME IInv, NEW c \in Consumer, pc[c] # "idle"
  PROVE  /\ msg[c] \in Message /\ EventAt(c) \in Event
         /\ row[EventAt(c)] \in Row
         /\ WorkerOK(c) /\ EventOK(EventAt(c)) /\ MessageOK(msg[c])
<1>1. msg[c] \in Message
  BY DEF IInv, TypeOK, WorkerOK
<1> QED BY <1>1, UrgentAssumption DEF IInv, TypeOK, EventAt

------------------------------------------------------------------------------
(* Steps that move their process only.                                     *)

\* A plan is followed only for an event of this vehicle.
LEMMA LoadAndPlanStep ==
  ASSUME IInv, NEW c \in Consumer, LoadAndPlan(c) PROVE IInv' /\ Respects(c)
<1>1. WorkerOK(c) /\ msg[c] \in Message
  BY AtWork DEF LoadAndPlan, At
<1>2. /\ pc[c] = "loading"
      /\ \/ pc' = [pc EXCEPT ![c] = "completing"] /\ \E v \in {"HANDLED", "REPLAN_REQUIRED"} : verdict' = [verdict EXCEPT ![c] = v]
         \/ pc' = [pc EXCEPT ![c] = "refusing"] /\ verdict' = verdict /\ msg[c] \in Foreign
         \/ pc' = [pc EXCEPT ![c] = "binding"] /\ verdict' = verdict /\ msg[c] \notin Foreign
  <2>1. ASSUME NEW t \in EventType, NEW plan \in Plans(t)
        PROVE  plan \in {"RESOLVED", "ACTION", "REPLAN_REQUIRED"}
    BY <2>1 DEF Plans, EventType
  <2>2. type[msg[c]] \in EventType
    BY <1>1 DEF WorkerOK, LoadAndPlan, At
  <2> QED BY <2>1, <2>2 DEF LoadAndPlan, At, Goto, Conclude
<1>3. UNCHANGED <<broker, deliveries, wait, dead, row, execution, action, session, told, msg,
                  count, retryDelay, type, overran, raced, died>>
  BY DEF LoadAndPlan, brokerVars, effectVars, historyVars
<1>4. TypeOK'
  BY <1>2, <1>3 DEF IInv, TypeOK, Terminal
<1>5. WorkerOK(c)'
  BY <1>1, <1>2, <1>3 DEF WorkerOK, IInv, TypeOK, Busy, Working, Executing, Terminal
<1> QED BY <1>2, <1>3, <1>4, <1>5, ProcessMoves DEF IInv, TypeOK, Early

\* Binding tells nothing new.
LEMMA BindIdentityStep ==
  ASSUME IInv, NEW c \in Consumer, BindIdentity(c) PROVE IInv' /\ Respects(c)
<1>1. WorkerOK(c)
  BY AtWork DEF BindIdentity, At
<1>2. TypeOK'
  BY DEF IInv, TypeOK, BindIdentity, Goto, brokerVars, effectVars, historyVars
<1>3. WorkerOK(c)'
  BY <1>1 DEF WorkerOK, BindIdentity, At, Goto, IInv, TypeOK, brokerVars, effectVars,
     historyVars, Busy, Working, Executing, Reads
<1> QED BY <1>2, <1>3, ProcessMoves
    DEF BindIdentity, At, Goto, IInv, TypeOK, Early, brokerVars, effectVars, historyVars

\* Who goes on from here has found no execution, and is alone if its claim did not run out.
LEMMA RecoverStep ==
  ASSUME IInv, NEW c \in Consumer, Recover(c) PROVE IInv' /\ Respects(c)
<1>1. WorkerOK(c) /\ msg[c] \in Message
  BY AtWork DEF Recover, At
<1>2. /\ pc[c] = "recovering"
      /\ \/ /\ pc' = [pc EXCEPT ![c] = "deciding"] /\ verdict' = verdict
            /\ execution[EventOf[msg[c]]] = "none"
         \/ pc' = [pc EXCEPT ![c] = "completing"] /\ verdict' = [verdict EXCEPT ![c] = "HANDLED"]
         \/ pc' = [pc EXCEPT ![c] = "failing"] /\ verdict' = verdict
  BY DEF Recover, At, Goto, Conclude, Throw, EventAt
<1>3. UNCHANGED <<broker, deliveries, wait, dead, row, execution, action, session, told, msg,
                  count, retryDelay, type, overran, raced, died>>
  BY DEF Recover, brokerVars, effectVars, historyVars
<1>4. TypeOK'
  BY <1>2, <1>3 DEF IInv, TypeOK, Terminal
<1>5. WorkerOK(c)'
  BY <1>1, <1>2, <1>3 DEF WorkerOK, IInv, TypeOK, Busy, Working, Executing, Terminal
<1> QED BY <1>2, <1>3, <1>4, <1>5, ProcessMoves DEF IInv, TypeOK, Early

\* A rejection rests on there being no execution.
LEMMA DecideStep ==
  ASSUME IInv, NEW c \in Consumer, Decide(c) PROVE IInv' /\ Respects(c)
<1>1. WorkerOK(c) /\ msg[c] \in Message
  BY AtWork DEF Decide, At
<1>2. /\ pc[c] = "deciding"
      /\ \/ pc' = [pc EXCEPT ![c] = "failing"] /\ verdict' = verdict
         \/ /\ pc' = [pc EXCEPT ![c] = "completing"]
            /\ \E v \in {"REJECTED", "REPLAN_REQUIRED"} : verdict' = [verdict EXCEPT ![c] = v]
         \/ /\ pc' = [pc EXCEPT ![c] = IF Reads(msg[c]) THEN "acquiring" ELSE "confirming"]
            /\ verdict' = verdict
  BY DEF Decide, At, Goto, Conclude, Throw
<1>3. UNCHANGED <<broker, deliveries, wait, dead, row, execution, action, session, told, msg,
                  count, retryDelay, type, overran, raced, died>>
  BY DEF Decide, brokerVars, effectVars, historyVars
<1>4. TypeOK'
  BY <1>2, <1>3 DEF IInv, TypeOK, Terminal
<1>5. WorkerOK(c)'
  BY <1>1, <1>2, <1>3 DEF WorkerOK, IInv, TypeOK, Busy, Working, Executing, Terminal, Reads
<1> QED BY <1>2, <1>3, <1>4, <1>5, ProcessMoves DEF IInv, TypeOK, Early

\* A confirmation is offered, never given.
LEMMA ConfirmOrRecoverStep ==
  ASSUME IInv, NEW c \in Consumer, ConfirmOrRecover(c) PROVE IInv' /\ Respects(c)
<1>1. WorkerOK(c) /\ EventAt(c) \in Event
  BY AtWork DEF ConfirmOrRecover, At
<1>2. /\ pc[c] = "confirming"
      /\ \/ pc' = [pc EXCEPT ![c] = "failing"] /\ verdict' = verdict
         \/ pc' = [pc EXCEPT ![c] = "completing"] /\ verdict' = [verdict EXCEPT ![c] = "HANDLED"]
         \/ pc' = [pc EXCEPT ![c] = "refusing"] /\ verdict' = verdict
  BY DEF ConfirmOrRecover, At, Goto, Conclude, Throw
<1>3. UNCHANGED <<broker, deliveries, wait, dead, row, execution, session, told, msg, count,
                  retryDelay, type, overran, raced, died>>
  BY DEF ConfirmOrRecover, brokerVars, historyVars
<1>4. \/ action' = action
      \/ \E s \in {"AWAITING_CONFIRMATION", "CLOSED"} : action' = [action EXCEPT ![EventAt(c)] = s]
  BY DEF ConfirmOrRecover, IInv, TypeOK
<1>5. /\ action' \in [Event -> {"none", "AWAITING_CONFIRMATION", "CONFIRMED", "CLOSED"}]
      /\ \A e \in Event : action'[e] = "CONFIRMED" => action[e] = "CONFIRMED"
  BY <1>1, <1>4 DEF IInv, TypeOK
<1>6. TypeOK'
  BY <1>2, <1>3, <1>5 DEF IInv, TypeOK, Terminal
<1>7. WorkerOK(c)'
  BY <1>1, <1>2, <1>3 DEF WorkerOK, IInv, TypeOK, Busy, Working, Executing, Terminal, Reads
<1>8. /\ \A d \in Consumer \ {c} : pc'[d] = pc[d] /\ verdict'[d] = verdict[d]
      /\ pc'[c] \notin Early
  BY <1>2 DEF IInv, TypeOK, Early
<1> QED BY <1>3, <1>5, <1>6, <1>7, <1>8, ProcessMoves

\* The session of the event tells nothing of it.
LEMMA AcquireSessionStep ==
  ASSUME IInv, NEW c \in Consumer, AcquireSession(c) PROVE IInv' /\ Respects(c)
<1>1. WorkerOK(c) /\ EventAt(c) \in Event
  BY AtWork DEF AcquireSession, At
<1>2. TypeOK'
  BY <1>1 DEF IInv, TypeOK, AcquireSession, Goto, brokerVars, historyVars
<1>3. WorkerOK(c)'
  BY <1>1 DEF WorkerOK, AcquireSession, At, Goto, IInv, TypeOK, brokerVars,
     historyVars, Busy, Working, Executing, Reads
<1> QED BY <1>2, <1>3, ProcessMoves
    DEF AcquireSession, At, Goto, IInv, TypeOK, Early, brokerVars, historyVars

\* Only an execution that succeeded is recorded as handled.
LEMMA ReleaseSessionStep ==
  ASSUME IInv, NEW c \in Consumer, ReleaseSession(c) PROVE IInv' /\ Respects(c)
<1>1. WorkerOK(c) /\ EventAt(c) \in Event
  BY AtWork DEF ReleaseSession, At
<1>2. TypeOK'
  BY <1>1 DEF IInv, TypeOK, ReleaseSession, Goto, brokerVars, historyVars
<1>3. WorkerOK(c)'
  BY <1>1 DEF WorkerOK, ReleaseSession, At, Goto, IInv, TypeOK, brokerVars,
     historyVars, Busy, Working, Executing, Reads, Terminal
<1> QED BY <1>2, <1>3, ProcessMoves
    DEF ReleaseSession, At, Goto, IInv, TypeOK, Early, brokerVars, historyVars

\* A duplicate is acknowledged if its event is settled, or was just recorded FAILED.
LEMMA ClaimReadStep ==
  ASSUME IInv, NEW c \in Consumer, ClaimRead(c) PROVE IInv' /\ Respects(c)
<1>1. /\ WorkerOK(c) /\ msg[c] \in Message /\ EventAt(c) \in Event
      /\ row[EventAt(c)] \in Row /\ pc[c] = "reading"
  BY AtWork DEF ClaimRead, At
<1>2. \/ pc' = [pc EXCEPT ![c] = "burying"] /\ UNCHANGED <<retryDelay, raced>>
      \/ /\ pc' = [pc EXCEPT ![c] = "nacking"] /\ UNCHANGED raced
         /\ retryDelay' = [retryDelay EXCEPT ![c] = row[EventAt(c)].left]
      \/ /\ pc' = [pc EXCEPT ![c] = "acking"] /\ UNCHANGED retryDelay
         /\ row[EventAt(c)].content = ContentOf[msg[c]]
         /\ row[EventAt(c)].status # "PROCESSING"
         /\ raced' = IF row[EventAt(c)].status = "FAILED" THEN raced \cup {msg[c]} ELSE raced
  BY DEF ClaimRead, Goto
<1>3. UNCHANGED <<broker, deliveries, wait, dead, row, execution, action, session, told, msg,
                  count, verdict, type, overran, died>>
  BY DEF ClaimRead, brokerVars, effectVars
<1>4. row[EventAt(c)].left \in 0..ClaimTime
  BY <1>1 DEF Row
<1>5. /\ retryDelay' \in [Consumer -> 0..ClaimTime]
      /\ raced \subseteq raced' /\ raced' \subseteq Message
      /\ \E label \in {"burying", "nacking", "acking"} : pc' = [pc EXCEPT ![c] = label]
  BY <1>1, <1>2, <1>4 DEF IInv, TypeOK
<1>6. TypeOK'
  BY <1>3, <1>5 DEF IInv, TypeOK
<1>7. ASSUME pc'[c] = "acking" PROVE Done(msg[c])'
  <2>1. /\ row[EventAt(c)].content = ContentOf[msg[c]]
        /\ row[EventAt(c)].status # "PROCESSING"
        /\ raced' = IF row[EventAt(c)].status = "FAILED" THEN raced \cup {msg[c]} ELSE raced
    BY <1>2, <1>7 DEF IInv, TypeOK
  <2>2. row[EventAt(c)].status \in Terminal \cup {"FAILED"}
    BY <1>1, <2>1 DEF WorkerOK, EventAt, Row
  <2> QED BY <1>3, <2>1, <2>2 DEF Done, Settled, EventAt
<1>8. WorkerOK(c)'
  BY <1>1, <1>3, <1>5, <1>7 DEF WorkerOK, IInv, TypeOK, Busy, Working, Executing
<1> QED BY <1>1, <1>3, <1>5, <1>6, <1>8, ProcessMoves DEF IInv, TypeOK, Early

------------------------------------------------------------------------------
(* Steps of a process that change what is recorded of its event, or done   *)
(* about it.                                                               *)

\* What is left to show of such a step: its process and its event.
LEMMA EventMoves ==
  ASSUME IInv, NEW c \in Consumer, pc[c] # "idle", Respects(c), TypeOK', WorkerOK(c)',
         \A e \in Event : e = EventAt(c) => EventOK(e)',
         UNCHANGED <<broker, deliveries, msg, count, action>>,
         pc'[c] \notin Early \/ pc[c] \in Early,
         \A e \in Event \ {EventAt(c)} :
           /\ row'[e] = row[e] /\ execution'[e] = execution[e]
           /\ e \in told' => e \in told
  PROVE  IInv'
<1>1. \A d \in Consumer : WorkerOK(d)'
  BY OthersStand
<1>2. \A m \in Message : MessageOK(m)'
  BY MessagesStand
<1>3. \A e \in Event : EventOK(e)'
  <2> TAKE e \in Event
  <2>1. CASE e = EventAt(c)
    BY <2>1
  <2>2. CASE e # EventAt(c)
    BY <2>2, EventsStand DEF Respects
  <2> QED BY <2>1, <2>2
<1> QED BY <1>1, <1>2, <1>3 DEF IInv

\* The executor begins for an event whose message calls for a tool; nobody else is there.
LEMMA StartStep ==
  ASSUME IInv, NEW c \in Consumer, Start(c) PROVE IInv' /\ Respects(c)
<1> PICK e \in Event : e = EventAt(c)
  BY AtWork DEF Start, At
<1>1. WorkerOK(c) /\ EventOK(e) /\ msg[c] \in Message /\ pc[c] = "starting"
  BY AtWork DEF Start, At
<1>2. /\ pc' = [pc EXCEPT ![c] = "executing"]
      /\ execution' = [execution EXCEPT ![e] = IF @ = "none" THEN "pending" ELSE @]
      /\ UNCHANGED <<broker, deliveries, wait, dead, row, action, session, told, msg, count,
                     verdict, retryDelay, type, overran, raced, died>>
  BY DEF Start, Goto, brokerVars, historyVars
<1>3. TypeOK'
  BY <1>1, <1>2 DEF IInv, TypeOK
<1>4. Respects(c)
  BY <1>1, <1>2 DEF Respects, WorkerOK, IInv, TypeOK, Busy, Working, EventAt
<1>5. WorkerOK(c)'
  BY <1>1, <1>2 DEF WorkerOK, IInv, TypeOK, Busy, Working, Executing, Reads
<1>6. EventOK(e)'
  <2>1. /\ row[e].status # "NONE" /\ row[e].content = ContentOf[msg[c]]
        /\ Reads(msg[c]) /\ msg[c] \notin Foreign
    BY <1>1 DEF WorkerOK, EventAt, Working, Executing
  <2>2. execution'[e] = "SUCCEEDED" => execution[e] = "SUCCEEDED"
    BY <1>1, <1>2 DEF IInv, TypeOK
  <2>3. ASSUME NEW d \in Consumer, row[e].owner = d
        PROVE  /\ msg'[d] = msg[d] /\ pc'[d] \notin Early
               /\ msg[d] # None /\ EventOf[msg[d]] = e /\ row[e].content = ContentOf[msg[d]]
    BY <1>1, <1>2, <2>3 DEF EventOK, Early, IInv, TypeOK
  <2>4. EventOf[msg[c]] = e /\ Reads(msg[c])'
    BY <1>2, <2>1 DEF EventAt, Reads
  <2> QED BY <1>1, <1>2, <2>1, <2>2, <2>3, <2>4 DEF EventOK, Early
<1> QED BY <1>1, <1>2, <1>3, <1>4, <1>5, <1>6, EventMoves DEF EventAt, IInv, TypeOK, Early

\* Its result comes when the event is not rejected, unless the claim ran out.
LEMMA ExecuteStep ==
  ASSUME IInv, NEW c \in Consumer, Execute(c) PROVE IInv' /\ Respects(c)
<1> PICK e \in Event : e = EventAt(c)
  BY AtWork DEF Execute, At
<1>1. WorkerOK(c) /\ EventOK(e) /\ msg[c] \in Message /\ pc[c] = "executing"
  BY AtWork DEF Execute, At
<1>2. /\ pc' = [pc EXCEPT ![c] = "releasing"]
      /\ \E v \in {"HANDLED", "NONE"} : verdict' = [verdict EXCEPT ![c] = v]
      /\ UNCHANGED <<broker, deliveries, wait, dead, row, action, session, told, msg, count,
                     retryDelay, type, overran, raced, died>>
  BY DEF Execute, Goto, brokerVars, historyVars
<1>3. \/ execution' = execution
      \/ /\ execution[e] = "pending"
         /\ \E r \in {"SUCCEEDED", "FAILED"} : execution' = [execution EXCEPT ![e] = r]
  BY DEF Execute
<1>4. TypeOK'
  BY <1>1, <1>2, <1>3 DEF IInv, TypeOK, Terminal
<1>5. Respects(c)
  BY <1>1, <1>2, <1>3 DEF Respects, WorkerOK, IInv, TypeOK, Busy, Working, EventAt
<1>6. WorkerOK(c)'
  BY <1>1, <1>2 DEF WorkerOK, IInv, TypeOK, Busy, Working, Executing, Reads
<1>7. EventOK(e)'
  <2>1. e \notin overran => row[e].status = "PROCESSING"
    BY <1>1, UrgentAssumption DEF WorkerOK, EventOK, Busy, Working, EventAt
  <2>2. execution[e] = "none" => execution'[e] = "none"
    BY <1>3, <1>1 DEF IInv, TypeOK
  <2>3. ASSUME NEW d \in Consumer, row[e].owner = d
        PROVE  /\ msg'[d] = msg[d] /\ pc'[d] \notin Early
               /\ msg[d] # None /\ EventOf[msg[d]] = e /\ row[e].content = ContentOf[msg[d]]
    BY <1>1, <1>2, <2>3 DEF EventOK, Early, IInv, TypeOK
  <2>4. execution'[e] # "none" => \E m \in Message :
          /\ EventOf[m] = e /\ ContentOf[m] = row[e].content /\ Reads(m)' /\ m \notin Foreign
    BY <1>1, <1>2, <2>2 DEF EventOK, Reads
  <2> QED BY <1>1, <1>2, <2>1, <2>2, <2>3, <2>4 DEF EventOK, Early
<1> QED BY <1>1, <1>2, <1>3, <1>4, <1>5, <1>6, <1>7, EventMoves
        DEF EventAt, IInv, TypeOK, Early

\* A claim is taken of an event nobody has settled, from an owner whose time is up.
LEMMA ClaimUpdateStep ==
  ASSUME IInv, NEW c \in Consumer, ClaimUpdate(c) PROVE IInv' /\ Respects(c)
<1> DEFINE e == EventAt(c)
           content == ContentOf[msg[c]]
<1>1. /\ WorkerOK(c) /\ EventOK(e) /\ msg[c] \in Message /\ e \in Event /\ row[e] \in Row
      /\ pc[c] = "claiming"
  BY AtWork DEF ClaimUpdate, At
<1>2. UNCHANGED <<broker, deliveries, wait, dead, execution, action, session, told, msg, count,
                  verdict, retryDelay, type, overran, raced, died>>
  BY DEF ClaimUpdate, brokerVars, effectVars, historyVars
<1>3. CASE UNCHANGED row
  <2>1. \/ pc' = [pc EXCEPT ![c] = "nacking"]
        \/ pc' = [pc EXCEPT ![c] = "reading"] /\ ~Claimable(e, content)
        \/ /\ pc' = [pc EXCEPT ![c] = "loading"] /\ Claimable(e, content)
           /\ row' = [row EXCEPT ![e] = Claimed(c, content)]
    BY DEF ClaimUpdate, Goto
  <2>2. row[e] # Claimed(c, content)
    BY <1>1, UrgentAssumption DEF EventOK, Claimed
  <2>3. \/ pc' = [pc EXCEPT ![c] = "nacking"]
        \/ pc' = [pc EXCEPT ![c] = "reading"] /\ row[e].status # "NONE"
    BY <1>1, <1>3, <2>1, <2>2 DEF Claimable, IInv, TypeOK
  <2>4. TypeOK'
    BY <1>2, <1>3, <2>3 DEF IInv, TypeOK
  <2>5. WorkerOK(c)'
    BY <1>1, <1>2, <1>3, <2>3
    DEF WorkerOK, IInv, TypeOK, EventAt, Busy, Working, Executing, Reads
  <2> QED BY <1>1, <1>2, <1>3, <2>3, <2>4, <2>5, ProcessMoves DEF Early, IInv, TypeOK
<1>4. CASE \E owner \in {c, None} :
             /\ Claimable(e, content)
             /\ row' = [row EXCEPT ![e] = Claimed(owner, content)]
             /\ pc' = [pc EXCEPT ![c] = IF owner = c THEN "loading" ELSE "nacking"]
  <2>1. PICK owner \in {c, None} :
          /\ Claimable(e, content)
          /\ row' = [row EXCEPT ![e] = Claimed(owner, content)]
          /\ pc' = [pc EXCEPT ![c] = IF owner = c THEN "loading" ELSE "nacking"]
    BY <1>4
  <2>2. /\ row[e].status \in {"NONE", "FAILED", "PROCESSING"}
        /\ row[e].status # "NONE" => row[e].content = content
        /\ row[e].owner # None => e \in overran
    BY <1>1, <2>1 DEF Claimable, EventOK
  <2>3. /\ row'[e] = Claimed(owner, content) /\ Claimed(owner, content) \in Row
        /\ \A f \in Event \ {e} : row'[f] = row[f]
    BY <1>1, <2>1, UrgentAssumption DEF IInv, TypeOK, Claimed, Row
  <2>4. TypeOK'
    <3>1. \A f \in Event : row'[f].owner # None => row'[f].status = "PROCESSING"
      BY <2>3 DEF IInv, TypeOK, Claimed
    <3>2. row' \in [Event -> Row]
      BY <2>1, <2>3 DEF IInv, TypeOK
    <3> QED BY <1>2, <2>1, <3>1, <3>2 DEF IInv, TypeOK
  <2>5. Respects(c)
    <3>1. \A f \in Event : row[f].status # "NONE" =>
            row'[f].status # "NONE" /\ row'[f].content = row[f].content
      BY <2>2, <2>3 DEF Claimed
    <3>2. \A f \in Event : row[f].status \in Terminal => row'[f] = row[f]
      BY <2>2, <2>3 DEF Terminal
    <3>3. \A f \in Event \ overran, d \in Consumer \ {c} : row[f].owner = d => row'[f].owner = d
      BY <2>2, <2>3, UrgentAssumption
    <3> QED BY <1>2, <2>1, <3>1, <3>2, <3>3 DEF Respects, IInv, TypeOK
  <2>6. WorkerOK(c)'
    <3>1. /\ row'[e].status # "NONE" /\ row'[e].content = ContentOf[msg[c]]
          /\ row'[e].owner = owner
      BY <2>3 DEF Claimed
    <3>2. pc'[c] = IF owner = c THEN "loading" ELSE "nacking"
      BY <2>1 DEF IInv, TypeOK
    <3>3. msg[c] # None /\ type[msg[c]] \in EventType
      BY <1>1 DEF WorkerOK
    <3> QED BY <1>2, <3>1, <3>2, <3>3 DEF WorkerOK, EventAt, Busy, Working, Executing
  <2>7. EventOK(e)'
    <3>1. \A d \in Consumer : row'[e].owner = d => d = c /\ pc'[d] = "loading"
      BY <2>1, <2>3, UrgentAssumption DEF Claimed, IInv, TypeOK
    <3>2. row'[e].left # 0 /\ row'[e].status = "PROCESSING" /\ row'[e].content = content
      BY <2>3, UrgentAssumption DEF Claimed
    <3>3. e \notin told /\ action[e] # "CONFIRMED"
      BY <1>1, <2>2 DEF EventOK
    <3>4. execution[e] # "none" => \E m \in Message :
            /\ EventOf[m] = e /\ ContentOf[m] = content /\ Reads(m) /\ m \notin Foreign
      BY <1>1, <2>2 DEF EventOK
    <3>5. msg[c] # None
      BY <1>1 DEF WorkerOK
    <3> QED BY <1>1, <1>2, <3>1, <3>2, <3>3, <3>4, <3>5
            DEF EventOK, EventAt, Reads
  <2> QED BY <1>1, <1>2, <2>1, <2>3, <2>4, <2>5, <2>6, <2>7, EventMoves
          DEF EventAt, Early
<1> QED BY <1>3, <1>4, <1>1, UrgentAssumption DEF ClaimUpdate, Goto

(***************************************************************************)
(* The owner of a row ends its claim with a status.  Nobody else owns the  *)
(* row, so nobody else minds.                                              *)
(***************************************************************************)
LEMMA OwnerRecords ==
  ASSUME IInv, NEW c \in Consumer, pc[c] \in Working, Owns(c),
         NEW status \in Terminal \cup {"FAILED"}, row' = Recorded(c, status),
         NEW label \in {"failing", "burying", "acking", "nacking"}, Goto(c, label),
         label = "acking" => status \in Terminal,
         UNCHANGED <<broker, deliveries, wait, dead, execution, action, session, msg, count,
                     verdict, retryDelay, type, overran, raced, died>>,
         told' \in {told, told \cup {EventAt(c)}},
         told' # told => status = "HANDLED",
         status = "REJECTED" /\ EventAt(c) \notin overran => execution[EventAt(c)] # "SUCCEEDED"
  PROVE  IInv' /\ Respects(c)
<1> PICK e \in Event : e = EventAt(c)
  BY AtWork DEF Working
<1>1. WorkerOK(c) /\ EventOK(e) /\ msg[c] \in Message /\ row[e] \in Row
  BY AtWork DEF Working
<1>2. row[e].status = "PROCESSING" /\ row[e].owner = c
  BY DEF Owns
<1>3. \A f \in Event \ {e} : row'[f] = row[f]
  BY DEF Recorded, IInv, TypeOK
<1>4. /\ row'[e].status = status /\ row'[e].owner = None /\ row'[e].left = 0
      /\ row'[e].content = row[e].content /\ row'[e] \in Row
  <2>1. row'[e] = [row[e] EXCEPT !.status = status, !.owner = None, !.left = 0]
    BY DEF Recorded, IInv, TypeOK
  <2>2. 0 \in 0..ClaimTime /\ None \in Consumer \cup {None}
    BY UrgentAssumption
  <2>3. status \in Terminal \cup {"NONE", "PROCESSING", "FAILED"}
    OBVIOUS
  <2> QED BY <1>1, <2>1, <2>2, <2>3 DEF Row
<1>5. TypeOK'
  <2>1. row' \in [Event -> Row]
    BY <1>4 DEF IInv, TypeOK, Recorded
  <2>2. \A f \in Event : row'[f].owner # None => row'[f].status = "PROCESSING"
    BY <1>3, <1>4 DEF IInv, TypeOK
  <2>3. told' \subseteq Event
    BY DEF IInv, TypeOK
  <2> QED BY <2>1, <2>2, <2>3 DEF IInv, TypeOK, Goto
<1>6. pc'[c] = label /\ \A d \in Consumer \ {c} : pc'[d] = pc[d]
  BY DEF Goto, IInv, TypeOK
<1>7. Respects(c)
  <2>1. \A f \in Event : row[f].status # "NONE" =>
          row'[f].status # "NONE" /\ row'[f].content = row[f].content
    BY <1>3, <1>4 DEF Terminal
  <2>2. \A f \in Event : row[f].status \in Terminal => row'[f] = row[f]
    BY <1>2, <1>3 DEF Terminal
  <2>3. \A f \in Event, d \in Consumer \ {c} : row[f].owner = d => row'[f].owner = d
    BY <1>2, <1>3
  <2> QED BY <1>6, <2>1, <2>2, <2>3 DEF Respects
<1>8. WorkerOK(c)'
  <2>1. row'[e].status # "NONE" /\ row'[e].content = ContentOf[msg[c]]
    BY <1>1, <1>4 DEF WorkerOK, EventAt, Terminal
  <2>2. status \in Terminal => Done(msg[c])'
    BY <1>4, <2>1 DEF Done, Settled, EventAt
  <2> QED BY <1>1, <1>6, <2>1, <2>2 DEF WorkerOK, EventAt, Busy, Working, Executing
<1>9. EventOK(e)'
  <2>1. e \notin told /\ action[e] # "CONFIRMED"
    BY <1>1, <1>2 DEF EventOK
  <2>2. \A d \in Consumer : row'[e].owner # d
    BY <1>4, UrgentAssumption
  <2>3. e \in told' => status = "HANDLED"
    BY <2>1
  <2>4. execution'[e] # "none" => \E m \in Message :
            /\ EventOf[m] = e /\ ContentOf[m] = row'[e].content /\ Reads(m)' /\ m \notin Foreign
    BY <1>1, <1>4 DEF EventOK, Reads
  <2>5. row'[e].status # "NONE" /\ row'[e].status # "PROCESSING"
    BY <1>4 DEF Terminal
  <2> QED BY <1>4, <2>1, <2>2, <2>3, <2>4, <2>5 DEF EventOK
<1> QED BY <1>3, <1>5, <1>6, <1>7, <1>8, <1>9, EventMoves DEF EventAt, Working, Early

\* The verdict goes with what was done, and whoever is told is told of what is handled.
LEMMA CompleteStep ==
  ASSUME IInv, NEW c \in Consumer, Complete(c) PROVE IInv' /\ Respects(c)
<1>1. /\ WorkerOK(c) /\ msg[c] \in Message /\ EventAt(c) \in Event /\ pc[c] = "completing"
  BY AtWork DEF Complete, At
<1>2. UNCHANGED <<broker, deliveries, wait, dead, execution, action, session, msg, count,
                  verdict, retryDelay, type, overran, raced, died>>
  BY DEF Complete, brokerVars, historyVars
<1>3. verdict[c] \in Terminal
  BY <1>1 DEF WorkerOK
<1>4. verdict[c] = "REJECTED" /\ EventAt(c) \notin overran => execution[EventAt(c)] # "SUCCEEDED"
  BY <1>1 DEF WorkerOK, EventAt
<1>5. CASE /\ Owns(c) /\ row' = Recorded(c, verdict[c])
           /\ told' \in {told, Told(c)}
           /\ \E label \in {"burying", "acking", "failing"} : Goto(c, label)
  <2>1. told' \in {told, told \cup {EventAt(c)}} /\ (told' # told => verdict[c] = "HANDLED")
    BY <1>5 DEF Told
  <2>2. pc[c] \in Working
    BY <1>1 DEF Working
  <2> QED BY <1>2, <1>3, <1>4, <1>5, <2>1, <2>2, OwnerRecords
<1>6. CASE pc' = [pc EXCEPT ![c] = "failing"] /\ UNCHANGED <<row, told>>
  <2>1. TypeOK'
    BY <1>2, <1>6 DEF IInv, TypeOK
  <2>2. WorkerOK(c)'
    BY <1>1, <1>2, <1>6 DEF WorkerOK, IInv, TypeOK, Busy, Working, Executing
  <2> QED BY <1>1, <1>2, <1>6, <2>1, <2>2, ProcessMoves DEF Early, IInv, TypeOK
<1> QED BY <1>5, <1>6 DEF Complete, Goto

\* Nobody rejects an event of whose message a tool was called: only a foreign message, or one
\* that calls for no tool, is refused, and a row's messages are all alike.
LEMMA RefuseStep ==
  ASSUME IInv, NEW c \in Consumer, Refuse(c) PROVE IInv' /\ Respects(c)
<1> DEFINE e == EventAt(c)
<1>1. /\ WorkerOK(c) /\ EventOK(e) /\ msg[c] \in Message /\ e \in Event /\ pc[c] = "refusing"
  BY AtWork DEF Refuse, At
<1>2. /\ pc' = [pc EXCEPT ![c] = "burying"]
      /\ UNCHANGED <<broker, deliveries, wait, dead, execution, action, session, told, msg,
                     count, verdict, retryDelay, type, overran, raced, died>>
  BY DEF Refuse, Goto, brokerVars, effectVars, historyVars
<1>3. execution[e] = "none"
  <2>1. SUFFICES ASSUME execution[e] # "none" PROVE FALSE
    OBVIOUS
  <2>2. row[e].content = ContentOf[msg[c]] /\ (msg[c] \in Foreign \/ ~Reads(msg[c]))
    BY <1>1 DEF WorkerOK, Working, EventAt
  <2>3. PICK m \in Message : /\ EventOf[m] = e /\ ContentOf[m] = row[e].content
                             /\ Reads(m) /\ m \notin Foreign
    BY <1>1, <2>1 DEF EventOK
  <2>4. (m \in Foreign <=> msg[c] \in Foreign) /\ type[m] = type[msg[c]]
    BY <1>1, <2>2, <2>3, FingerprintAssumption DEF EventAt, IInv, TypeOK
  <2> QED BY <2>2, <2>3, <2>4 DEF Reads
<1>4. CASE Owns(c) /\ row' = Recorded(c, "REJECTED")
  <2>1. pc[c] \in Working /\ Goto(c, "burying") /\ told' \in {told, told \cup {EventAt(c)}}
    BY <1>1, <1>2 DEF Working, Goto
  <2> QED BY <1>2, <1>3, <1>4, <2>1, OwnerRecords DEF Terminal
<1>5. CASE UNCHANGED row
  <2>1. TypeOK'
    BY <1>2, <1>5 DEF IInv, TypeOK
  <2>2. WorkerOK(c)'
    BY <1>1, <1>2, <1>5 DEF WorkerOK, IInv, TypeOK, Busy, Working, Executing
  <2> QED BY <1>1, <1>2, <1>5, <2>1, <2>2, ProcessMoves DEF Early, IInv, TypeOK
<1> QED BY <1>4, <1>5 DEF Refuse

\* A failure is recorded by the owner, or not at all.
LEMMA FailStep ==
  ASSUME IInv, NEW c \in Consumer, Fail(c) PROVE IInv' /\ Respects(c)
<1>1. /\ WorkerOK(c) /\ msg[c] \in Message /\ pc[c] = "failing"
  BY AtWork DEF Fail, At
<1>2. /\ pc' = [pc EXCEPT ![c] = "nacking"]
      /\ UNCHANGED <<broker, deliveries, wait, dead, execution, action, session, told, msg,
                     count, verdict, retryDelay, type, overran, raced, died>>
  BY DEF Fail, Goto, brokerVars, effectVars, historyVars
<1>3. CASE Owns(c) /\ row' = Recorded(c, "FAILED")
  <2>1. pc[c] \in Working /\ Goto(c, "nacking") /\ told' \in {told, told \cup {EventAt(c)}}
    BY <1>1, <1>2 DEF Working, Goto
  <2> QED BY <1>2, <1>3, <2>1, OwnerRecords
<1>4. CASE UNCHANGED row
  <2>1. TypeOK'
    BY <1>2, <1>4 DEF IInv, TypeOK
  <2>2. WorkerOK(c)'
    BY <1>1, <1>2, <1>4 DEF WorkerOK, IInv, TypeOK, Busy, Working, Executing
  <2> QED BY <1>1, <1>2, <1>4, <2>1, <2>2, ProcessMoves DEF Early, IInv, TypeOK
<1> QED BY <1>3, <1>4 DEF Fail

\* An invalid event has a row of its own only where there was none, hence no execution.
LEMMA RejectInvalidStep ==
  ASSUME IInv, NEW c \in Consumer, RejectInvalid(c) PROVE IInv' /\ Respects(c)
<1> PICK e \in Event : e = EventAt(c)
  BY AtWork DEF RejectInvalid, At
<1>1. /\ WorkerOK(c) /\ EventOK(e) /\ msg[c] \in Message /\ row[e] \in Row
      /\ pc[c] = "rejecting"
  BY AtWork DEF RejectInvalid, At
<1>2. /\ pc' = [pc EXCEPT ![c] = "burying"]
      /\ UNCHANGED <<broker, deliveries, wait, dead, execution, action, session, told, msg,
                     count, verdict, retryDelay, type, overran, raced, died>>
  BY DEF RejectInvalid, Goto, brokerVars, effectVars, historyVars
<1>3. WorkerOK(c)'
  BY <1>1, <1>2 DEF WorkerOK, IInv, TypeOK, Busy, Working, Executing
<1>4. CASE UNCHANGED row
  <2>1. TypeOK'
    BY <1>2, <1>4 DEF IInv, TypeOK
  <2> QED BY <1>1, <1>2, <1>3, <1>4, <2>1, ProcessMoves DEF Early, IInv, TypeOK
<1>5. CASE /\ row[e].status = "NONE"
           /\ row' = [row EXCEPT ![e] = [status |-> "REJECTED", owner |-> None, left |-> 0,
                                         content |-> ContentOf[msg[c]]]]
  <2>1. /\ row'[e].status = "REJECTED" /\ row'[e].owner = None /\ row'[e].left = 0
        /\ row'[e] \in Row /\ \A f \in Event \ {e} : row'[f] = row[f]
    BY <1>1, <1>5, UrgentAssumption DEF IInv, TypeOK, Row, Terminal
  <2>2. TypeOK'
    <3>1. row' \in [Event -> Row]
      BY <1>5, <2>1 DEF IInv, TypeOK
    <3>2. \A f \in Event : row'[f].owner # None => row'[f].status = "PROCESSING"
      BY <2>1 DEF IInv, TypeOK
    <3> QED BY <1>2, <3>1, <3>2 DEF IInv, TypeOK
  <2>3. row[e].owner = None
    BY <1>1, <1>5 DEF EventOK
  <2>4. Respects(c)
    <3>1. \A f \in Event, d \in Consumer : row[f].owner = d => row'[f].owner = d
      BY <2>1, <2>3, UrgentAssumption
    <3>2. \A f \in Event : row[f].status # "NONE" => row'[f] = row[f]
      BY <1>5, <2>1
    <3>3. \A f \in Event : row[f].status \in Terminal => row[f].status # "NONE"
      BY DEF Terminal
    <3>4. \A d \in Consumer \ {c} : pc'[d] = pc[d]
      BY <1>2 DEF IInv, TypeOK
    <3> QED BY <1>2, <3>1, <3>2, <3>3, <3>4 DEF Respects
  <2>5. EventOK(e)'
    <3>1. e \notin told /\ action[e] # "CONFIRMED" /\ execution[e] = "none"
      BY <1>1, <1>5 DEF EventOK
    <3>2. \A d \in Consumer : row'[e].owner # d
      BY <2>1, UrgentAssumption
    <3> QED BY <1>2, <2>1, <3>1, <3>2 DEF EventOK
  <2> QED BY <1>1, <1>2, <1>3, <2>1, <2>2, <2>4, <2>5, EventMoves DEF EventAt, Early
<1> QED BY <1>4, <1>5 DEF RejectInvalid

------------------------------------------------------------------------------
(* The end of a delivery, and its beginning.                               *)

(***************************************************************************)
(* A delivery may end with its message acknowledged if there is a reason,  *)
(* and a last delivery only if there is one.                               *)
(***************************************************************************)
LEMMA Finished ==
  ASSUME IInv, NEW c \in Consumer, pc[c] # "idle", Finish(c),
         UNCHANGED <<deliveries, dead, execution, action, session, told, type, overran, raced>>,
         broker' \in [Message -> {"ready", "pending", "acked"}],
         wait' \in [Message -> 0..(AckWait + ClaimTime)],
         died \subseteq died', died' \subseteq Message,
         \A m \in Message : broker'[m] = "acked" => broker[m] = "acked" \/ Done(m),
         count[c] = MaxDeliver => Done(msg[c]) \/ msg[c] \in died'
  PROVE  IInv' /\ Respects(c)
<1>1. /\ pc'[c] = "idle" /\ msg'[c] = None /\ count'[c] = 0
      /\ \A d \in Consumer \ {c} : /\ pc'[d] = pc[d] /\ msg'[d] = msg[d]
                                   /\ count'[d] = count[d] /\ verdict'[d] = verdict[d]
  BY DEF Finish, Goto, IInv, TypeOK
<1>2. \A e \in Event :
        /\ row[e].owner # c => row'[e] = row[e]
        /\ row[e].owner = c => row'[e] = [row[e] EXCEPT !.owner = None]
        /\ row[e] \in Row
  BY DEF Finish, IInv, TypeOK
<1>3. \A e \in Event :
        /\ row'[e] \in Row
        /\ row'[e].status = row[e].status /\ row'[e].content = row[e].content
        /\ row'[e].left = row[e].left
        /\ row'[e].owner = IF row[e].owner = c THEN None ELSE row[e].owner
  <2> TAKE e \in Event
  <2>1. PICK r \in Row : r = row[e]
    BY <1>2
  <2>2. PICK n \in Consumer \cup {None} : n = None
    OBVIOUS
  <2>3. CASE r.owner = c
    <3>1. row'[e] = [r EXCEPT !.owner = n]
      BY <1>2, <2>1, <2>2, <2>3
    <3> QED BY <2>1, <2>2, <2>3, <3>1 DEF Row
  <2>4. CASE r.owner # c
    BY <1>2, <2>1, <2>4
  <2> QED BY <2>3, <2>4
<1>4. TypeOK'
  <2>1. row' \in [Event -> Row]
    BY <1>3 DEF Finish
  <2>2. \A e \in Event : row'[e].owner # None => row'[e].status = "PROCESSING"
    BY <1>3 DEF IInv, TypeOK
  <2>3. /\ pc' = [pc EXCEPT ![c] = "idle"] /\ msg' = [msg EXCEPT ![c] = None]
        /\ count' = [count EXCEPT ![c] = 0] /\ verdict' = [verdict EXCEPT ![c] = "NONE"]
        /\ retryDelay' = [retryDelay EXCEPT ![c] = 0]
    BY DEF Finish, Goto
  <2>4. 0 \in 0..MaxDeliver /\ 0 \in 0..ClaimTime
    BY UrgentAssumption
  <2>5. /\ raced' \cup died' \subseteq Message
        /\ pc' \in [Consumer -> {"idle", "rejecting", "claiming", "reading", "loading", "binding",
                          "recovering", "deciding", "confirming", "acquiring", "starting",
                          "executing", "releasing", "completing", "refusing", "failing",
                          "burying", "acking", "nacking"}]
        /\ msg' \in [Consumer -> Message \cup {None}] /\ count' \in [Consumer -> 0..MaxDeliver]
        /\ verdict' \in [Consumer -> Terminal \cup {"NONE"}]
        /\ retryDelay' \in [Consumer -> 0..ClaimTime]
    BY <2>3, <2>4 DEF IInv, TypeOK
  <2> QED BY <2>1, <2>2, <2>5 DEF IInv, TypeOK
<1>5. Respects(c)
  <2>1. \A e \in Event : row[e].status \in Terminal => row[e].owner # c
    BY UrgentAssumption DEF IInv, EventOK, Terminal
  <2>2. \A e \in Event : row[e].status \in Terminal => row'[e] = row[e]
    BY <1>2, <2>1
  <2> QED BY <1>1, <1>3, <2>2 DEF Respects
<1>6. \A d \in Consumer : WorkerOK(d)'
  <2>1. WorkerOK(c)'
    BY <1>1 DEF WorkerOK, Busy, Working, Executing
  <2> QED BY <1>5, <2>1, OthersStand
<1>7. \A m \in Message : MessageOK(m)'
  <2> TAKE m \in Message
  <2>1. MessageOK(m) /\ (Done(m) => Done(m)')
    BY <1>5, DoneStands DEF IInv
  <2>2. msg[c] = m /\ count[c] = MaxDeliver => Done(m)'
    BY <2>1 DEF Done
  <2>3. \A d \in Consumer : msg[d] = m /\ count[d] = MaxDeliver =>
          Done(m)' \/ (msg'[d] = m /\ count'[d] = MaxDeliver)
    BY <1>1, <2>2
  <2> QED BY <2>1, <2>3 DEF MessageOK
<1>8. \A e \in Event : EventOK(e)'
  <2> TAKE e \in Event
  <2>1. EventOK(e)
    BY DEF IInv
  <2>2. \A d \in Consumer : row'[e].owner = d => d # c /\ row[e].owner = d
    BY <1>3, UrgentAssumption
  <2>3. row'[e].owner # None => row[e].owner # None
    BY <1>3
  <2>4. \A d \in Consumer : row'[e].owner = d =>
          /\ msg'[d] # None /\ EventOf[msg'[d]] = e /\ row'[e].content = ContentOf[msg'[d]]
          /\ pc'[d] \notin {"idle", "rejecting", "claiming", "reading"}
    BY <1>1, <1>3, <2>1, <2>2 DEF EventOK
  <2>5. row'[e].status # "PROCESSING" => row'[e].owner = None /\ row'[e].left = 0
    BY <1>3, <2>1 DEF EventOK
  <2> QED BY <1>3, <2>1, <2>3, <2>4, <2>5 DEF EventOK, Reads
<1> QED BY <1>4, <1>5, <1>6, <1>7, <1>8 DEF IInv

\* Whoever acknowledges has a reason.
LEMMA AckStep ==
  ASSUME IInv, NEW c \in Consumer, Ack(c) PROVE IInv' /\ Respects(c)
<1>1. pc[c] = "acking" /\ msg[c] \in Message /\ Done(msg[c])
  BY AtWork DEF Ack, At, WorkerOK
<1>2. \A m \in Message : broker'[m] = "acked" => broker[m] = "acked" \/ m = msg[c]
  BY DEF Ack, IInv, TypeOK
<1>3. broker' \in [Message -> {"ready", "pending", "acked"}]
  BY DEF Ack, IInv, TypeOK
<1>4. /\ Finish(c)
      /\ UNCHANGED <<deliveries, wait, dead, execution, action, session, told, type, overran,
                     raced, died>>
  BY DEF Ack, effectVars, historyVars
<1>5. wait' \in [Message -> 0..(AckWait + ClaimTime)] /\ died' \subseteq Message
  BY <1>4 DEF IInv, TypeOK
<1> QED BY <1>1, <1>2, <1>3, <1>4, <1>5, Finished

\* Another delivery is asked for only if there is another.
LEMMA NakStep ==
  ASSUME IInv, NEW c \in Consumer, Nak(c) PROVE IInv' /\ Respects(c)
<1>1. /\ pc[c] = "nacking" /\ msg[c] \in Message /\ count[c] \in Nat /\ count[c] # MaxDeliver
      /\ retryDelay[c] \in 0..(AckWait + ClaimTime)
  BY AtWork, UrgentAssumption DEF Nak, At, IInv, TypeOK
<1>2. /\ Finish(c)
      /\ UNCHANGED <<deliveries, dead, execution, action, session, told, type, overran,
                     raced, died>>
  BY DEF Nak, effectVars, historyVars
<1>3. /\ broker' \in [Message -> {"ready", "pending", "acked"}]
      /\ \A m \in Message : broker'[m] = "acked" => broker[m] = "acked"
  BY <1>1 DEF Nak, IInv, TypeOK
<1>4. wait' \in [Message -> 0..(AckWait + ClaimTime)] /\ died' \subseteq Message
  BY <1>1, <1>2 DEF Nak, IInv, TypeOK
<1> QED BY <1>1, <1>2, <1>3, <1>4, Finished

\* A process that dies in the last delivery is the reason itself.
LEMMA CrashStep ==
  ASSUME IInv, NEW c \in Consumer, Crash(c) PROVE IInv' /\ Respects(c)
<1>1. pc[c] # "idle" /\ msg[c] \in Message
  BY AtWork DEF Crash, At
<1>2. /\ Finish(c)
      /\ UNCHANGED <<broker, wait, deliveries, dead, execution, action, session, told, type,
                     overran, raced>>
      /\ died' = IF count[c] = MaxDeliver THEN died \cup {msg[c]} ELSE died
  BY DEF Crash, brokerVars, effectVars
<1>3. /\ broker' \in [Message -> {"ready", "pending", "acked"}]
      /\ wait' \in [Message -> 0..(AckWait + ClaimTime)]
      /\ died \subseteq died' /\ died' \subseteq Message
  BY <1>1, <1>2 DEF IInv, TypeOK
<1> QED BY <1>1, <1>2, <1>3, Finished

\* An envelope is a reason.
LEMMA BuryStep ==
  ASSUME IInv, NEW c \in Consumer, Bury(c) PROVE IInv' /\ Respects(c)
<1>1. WorkerOK(c) /\ msg[c] \in Message /\ pc[c] \in {"burying", "nacking"}
  BY AtWork DEF Bury, Buries, At
<1>2. /\ pc' = [pc EXCEPT ![c] = "acking"] /\ dead' = dead \cup {msg[c]}
      /\ UNCHANGED <<broker, deliveries, wait, row, execution, action, session, told, msg, count,
                     verdict, retryDelay, type, overran, raced, died>>
  BY DEF Bury, Goto, effectVars, historyVars
<1>3. TypeOK'
  BY <1>1, <1>2 DEF IInv, TypeOK
<1>4. Respects(c)
  BY <1>2 DEF Respects, IInv, TypeOK
<1>5. \A d \in Consumer : WorkerOK(d)'
  <2>1. Done(msg[c])'
    BY <1>2 DEF Done
  <2>2. WorkerOK(c)'
    BY <1>1, <1>2, <2>1 DEF WorkerOK, IInv, TypeOK, Busy, Working, Executing
  <2> QED BY <1>4, <2>2, OthersStand
<1>6. \A m \in Message : MessageOK(m)'
  BY <1>2, <1>4, MessagesStand
<1>7. \A e \in Event : EventOK(e)'
  <2> TAKE e \in Event
  <2>1. /\ \A d \in Consumer \ {c} : pc'[d] = pc[d] /\ msg'[d] = msg[d]
        /\ msg'[c] = msg[c] /\ pc'[c] \notin Early
    BY <1>2 DEF IInv, TypeOK, Early
  <2> QED BY <1>2, <2>1, EventsStand
<1> QED BY <1>3, <1>4, <1>5, <1>6, <1>7 DEF IInv

\* The last delivery is in the hands of whoever takes it.
LEMMA DeliverStep ==
  ASSUME IInv, NEW c \in Consumer, NEW m \in Message, Deliver(c, m) PROVE IInv' /\ Respects(c)
<1>1. /\ pc[c] = "idle" /\ broker[m] # "acked" /\ deliveries[m] < MaxDeliver
      /\ broker' = [broker EXCEPT ![m] = "pending"]
      /\ deliveries' = [deliveries EXCEPT ![m] = deliveries[m] + 1]
      /\ wait' = [wait EXCEPT ![m] = AckWait]
      /\ msg' = [msg EXCEPT ![c] = m]
      /\ count' = [count EXCEPT ![c] = deliveries[m] + 1]
      /\ pc' = [pc EXCEPT ![c] = FirstStep(m)]
      /\ UNCHANGED <<dead, row, execution, action, session, told, verdict, retryDelay, type,
                     overran, raced, died>>
  BY DEF Deliver, At, Goto, effectVars, historyVars
<1>2. /\ FirstStep(m) \in {"burying", "rejecting", "claiming"}
      /\ FirstStep(m) = "claiming" => type[m] \in EventType
  BY UrgentAssumption DEF FirstStep, IInv, TypeOK
<1>3. deliveries[m] + 1 \in 0..MaxDeliver /\ AckWait \in 0..(AckWait + ClaimTime)
  BY <1>1, UrgentAssumption DEF IInv, TypeOK
<1>4. TypeOK'
  BY <1>1, <1>2, <1>3 DEF IInv, TypeOK
<1>5. /\ pc'[c] = FirstStep(m) /\ msg'[c] = m /\ count'[c] = deliveries[m] + 1
      /\ \A d \in Consumer \ {c} : /\ pc'[d] = pc[d] /\ msg'[d] = msg[d]
                                   /\ count'[d] = count[d] /\ verdict'[d] = verdict[d]
  BY <1>1 DEF IInv, TypeOK
<1>6. Respects(c)
  BY <1>1, <1>5 DEF Respects
<1>7. msg[c] = None
  BY <1>1 DEF IInv, WorkerOK
<1>8. \A d \in Consumer : WorkerOK(d)'
  <2>1. WorkerOK(c)'
    BY <1>1, <1>2, <1>5, UrgentAssumption DEF WorkerOK, Busy, Working, Executing
  <2> QED BY <1>6, <2>1, OthersStand
<1>9. \A n \in Message : MessageOK(n)'
  <2> TAKE n \in Message
  <2>1. MessageOK(n) /\ (Done(n) => Done(n)')
    BY <1>6, DoneStands DEF IInv
  <2>2. CASE n = m
    BY <1>1, <1>5, <2>2 DEF MessageOK, IInv, TypeOK
  <2>3. CASE n # m
    <3>1. broker'[n] = broker[n] /\ deliveries'[n] = deliveries[n]
      BY <1>1, <2>3 DEF IInv, TypeOK
    <3>2. \A d \in Consumer : msg[d] = n /\ count[d] = MaxDeliver => d # c
      BY <1>7, UrgentAssumption
    <3> QED BY <1>5, <2>1, <3>1, <3>2 DEF MessageOK
  <2> QED BY <2>2, <2>3
<1>10. \A e \in Event : EventOK(e)'
  <2> TAKE e \in Event
  <2>1. pc[c] \in Early
    BY <1>1 DEF Early
  <2> QED BY <1>1, <1>5, <2>1, EventsStand
<1> QED BY <1>4, <1>6, <1>8, <1>9, <1>10 DEF IInv

------------------------------------------------------------------------------
(* Time, and the user.                                                     *)

\* Time takes nobody's claim: it makes claims run out.
LEMMA TickStep == ASSUME IInv, Tick PROVE IInv' /\ Respects(None)
<1>1. /\ wait' = [m \in Message |-> IF wait[m] > 0 THEN wait[m] - 1 ELSE 0]
      /\ row' = [e \in Event |-> [row[e] EXCEPT !.left = IF @ > 0 THEN @ - 1 ELSE 0]]
      /\ overran' = overran \cup {e \in Event : row[e].left = 1 /\ row[e].owner # None}
      /\ UNCHANGED <<broker, deliveries, dead, execution, action, session, told, pc, msg, count,
                     verdict, retryDelay, type, raced, died>>
  BY DEF Tick, effectVars, processVars
<1>2. \A e \in Event :
        /\ row'[e] \in Row
        /\ row'[e].status = row[e].status /\ row'[e].content = row[e].content
        /\ row'[e].owner = row[e].owner
        /\ row'[e].left = IF row[e].left > 0 THEN row[e].left - 1 ELSE 0
        /\ row[e].left = 0 => row'[e] = row[e]
  <2> TAKE e \in Event
  <2>1. row[e] \in Row /\ row[e].left \in 0..ClaimTime
    BY DEF IInv, TypeOK, Row
  <2>2. row'[e] = [row[e] EXCEPT !.left = IF row[e].left > 0 THEN row[e].left - 1 ELSE 0]
    BY <1>1
  <2>3. (IF row[e].left > 0 THEN row[e].left - 1 ELSE 0) \in 0..ClaimTime
    BY <2>1, UrgentAssumption
  <2>4. row'[e] \in Row
    BY <2>1, <2>2, <2>3 DEF Row
  <2>5. row[e].left = 0 => row'[e] = row[e]
    BY <2>1, <2>2 DEF Row
  <2> QED BY <2>1, <2>2, <2>4, <2>5 DEF Row
<1>3. TypeOK'
  <2>1. row' \in [Event -> Row]
    BY <1>1, <1>2
  <2>2. \A e \in Event : row'[e].owner # None => row'[e].status = "PROCESSING"
    BY <1>2 DEF IInv, TypeOK
  <2>3. wait' \in [Message -> 0..(AckWait + ClaimTime)]
    BY <1>1, UrgentAssumption DEF IInv, TypeOK
  <2> QED BY <1>1, <2>1, <2>2, <2>3 DEF IInv, TypeOK
<1>4. Respects(None)
  <2>1. \A e \in Event : row[e].status \in Terminal => row[e].left = 0
    BY DEF IInv, EventOK, Terminal
  <2> QED BY <1>1, <1>2, <2>1 DEF Respects
<1>5. \A c \in Consumer : WorkerOK(c)'
  BY <1>4, OthersStand, UrgentAssumption
<1>6. \A m \in Message : MessageOK(m)'
  BY <1>1, <1>4, MessagesStand
<1>7. \A e \in Event : EventOK(e)'
  <2> TAKE e \in Event
  <2>1. EventOK(e) /\ row[e].left \in Nat
    BY DEF IInv, TypeOK, Row
  <2>2. row'[e].owner # None /\ row'[e].left = 0 => e \in overran'
    BY <1>1, <1>2, <2>1 DEF EventOK
  <2>3. row[e].left = 0 => row'[e].left = 0
    BY <1>2
  <2> QED BY <1>1, <1>2, <2>1, <2>2, <2>3 DEF EventOK, Reads
<1> QED BY <1>3, <1>4, <1>5, <1>6, <1>7 DEF IInv

\* What is left to show of a step of no process.
LEMMA BystanderMoves ==
  ASSUME IInv, TypeOK',
         UNCHANGED <<broker, deliveries, wait, dead, row, execution, told, pc, msg, count,
                     verdict, retryDelay, type, overran, raced, died>>,
         \A e \in Event : action'[e] = "CONFIRMED" => action[e] = "CONFIRMED" \/ e \in told
  PROVE  IInv' /\ Respects(None)
<1>1. Respects(None)
  BY DEF Respects
<1>2. \A c \in Consumer : WorkerOK(c)'
  BY <1>1, OthersStand, UrgentAssumption
<1>3. \A m \in Message : MessageOK(m)'
  BY <1>1, MessagesStand
<1>4. \A e \in Event : EventOK(e)'
  BY DEF IInv, EventOK, Reads
<1> QED BY <1>1, <1>2, <1>3, <1>4 DEF IInv

\* The user confirms what is handled, for only then is there a credential.
LEMMA UserStep ==
  ASSUME IInv, NEW e \in Event, Confirm(e) \/ Close(e) \/ SessionExpires(e)
  PROVE  IInv' /\ Respects(None)
<1>1. UNCHANGED <<broker, deliveries, wait, dead, row, execution, told, pc, msg, count,
                  verdict, retryDelay, type, overran, raced, died>>
  BY DEF Confirm, Close, SessionExpires, brokerVars, processVars, historyVars
<1>2. TypeOK'
  BY <1>1 DEF IInv, TypeOK, Confirm, Close, SessionExpires
<1>3. \A f \in Event : action'[f] = "CONFIRMED" => action[f] = "CONFIRMED" \/ f \in told
  BY DEF IInv, TypeOK, Confirm, Close, SessionExpires
<1> QED BY <1>1, <1>2, <1>3, BystanderMoves

------------------------------------------------------------------------------

\* Nothing has been delivered, recorded or done.
LEMMA InitIInv == Init => IInv
<1> SUFFICES ASSUME Init PROVE IInv
  OBVIOUS
<1>1. TypeOK
  <2>1. [status |-> "NONE", owner |-> None, left |-> 0, content |-> None] \in Row
    BY UrgentAssumption DEF Row
  <2> QED BY <2>1, UrgentAssumption DEF Init, TypeOK
<1>2. \A c \in Consumer : WorkerOK(c)
  BY DEF Init, WorkerOK, Busy, Working, Executing
<1>3. \A e \in Event : EventOK(e)
  BY UrgentAssumption DEF Init, EventOK
<1>4. \A m \in Message : MessageOK(m)
  BY UrgentAssumption DEF Init, MessageOK
<1> QED BY <1>1, <1>2, <1>3, <1>4 DEF IInv

\* Every step preserves the invariant and respects what the other processes rely on.
LEMMA NextStep ==
  ASSUME IInv, [Next]_vars PROVE IInv' /\ \E c : Respects(c)
<1>1. ASSUME NEW c \in Consumer, ProcessStep(c) PROVE IInv' /\ Respects(c)
  BY <1>1, RejectInvalidStep, ClaimUpdateStep, ClaimReadStep, LoadAndPlanStep, BindIdentityStep,
     RecoverStep, DecideStep, ConfirmOrRecoverStep, AcquireSessionStep, StartStep, ExecuteStep,
     ReleaseSessionStep, CompleteStep, RefuseStep, FailStep DEF ProcessStep
<1>2. ASSUME NEW c \in Consumer, HandlerStep(c) \/ Crash(c) PROVE IInv' /\ Respects(c)
  BY <1>2, AckStep, NakStep, BuryStep, CrashStep DEF HandlerStep
<1>3. ASSUME NEW c \in Consumer, NEW m \in Message, Deliver(c, m) PROVE IInv' /\ Respects(c)
  BY <1>3, DeliverStep
<1>4. ASSUME NEW e \in Event, Confirm(e) \/ Close(e) \/ SessionExpires(e)
      PROVE  IInv' /\ Respects(None)
  BY <1>4, UserStep
<1>5. ASSUME Tick PROVE IInv' /\ Respects(None)
  BY <1>5, TickStep
<1>6. ASSUME UNCHANGED vars PROVE IInv' /\ Respects(None)
  <2>1. UNCHANGED <<broker, deliveries, wait, dead, row, execution, told, pc, msg, count,
                    verdict, retryDelay, type, overran, raced, died, action, session>>
    BY <1>6 DEF vars, brokerVars, effectVars, processVars, historyVars
  <2>2. TypeOK'
    BY <2>1 DEF IInv, TypeOK
  <2> QED BY <2>1, <2>2, BystanderMoves
<1> QED BY <1>1, <1>2, <1>3, <1>4, <1>5, <1>6 DEF Next

\* The invariant is inductive.
THEOREM Invariance == Spec => []IInv
<1>1. IInv /\ [Next]_vars => IInv'
  BY NextStep
<1> QED BY <1>1, InitIInv, PTL DEF Spec

\* Everything stays within its type; in particular only a row in processing has an owner.
THEOREM TypeCorrect == Spec => []TypeOK
<1>1. IInv => TypeOK
  BY DEF IInv
<1> QED BY <1>1, Invariance, PTL

\* NoSilentLoss: a message the broker is done with has a final verdict or a dead letter,
\* however often it is delivered and to whom, unless it was acknowledged after the race of
\* its claim (raced) or its process died in the last delivery (died).
THEOREM NothingIsLost == Spec => []NoSilentLoss
<1>1. IInv => NoSilentLoss
  <2> SUFFICES ASSUME IInv, NEW m \in Message, broker[m] = "acked" \/ GivenUp(m) PROVE Done(m)
    BY DEF NoSilentLoss, Done
  <2>1. MessageOK(m)
    BY DEF IInv
  <2> QED BY <2>1 DEF MessageOK, GivenUp
<1> QED BY <1>1, Invariance, PTL

\* What is recorded of an event agrees with what was done about it by all its deliveries.
THEOREM RecordsAreHonest == Spec => []HonestRecords
<1>1. IInv => HonestRecords
  <2> SUFFICES ASSUME IInv PROVE HonestRecords
    OBVIOUS
  <2>1. \A e \in Event : EventOK(e)
    BY DEF IInv
  <2>2. RejectedHadNoEffect
    BY <2>1 DEF RejectedHadNoEffect, EventOK
  <2>3. AskedOnlyWhenHandled
    BY <2>1 DEF AskedOnlyWhenHandled, EventOK, IInv, TypeOK
  <2> QED BY <2>2, <2>3 DEF HonestRecords
<1> QED BY <1>1, Invariance, PTL

\* A verdict stands, whatever a delivery whose claim was taken over still does.
THEOREM VerdictsAreFinal == Spec => VerdictsStand
<1>1. IInv /\ [Next]_vars => [\A e \in Event : row[e].status \in Terminal => row'[e] = row[e]]_row
  <2> SUFFICES ASSUME IInv, [Next]_vars
               PROVE  \A e \in Event : row[e].status \in Terminal => row'[e] = row[e]
    OBVIOUS
  <2>1. PICK c : Respects(c)
    BY NextStep
  <2> QED BY <2>1 DEF Respects
<1> QED BY <1>1, Invariance, PTL DEF Spec, VerdictsStand
===============================================================================
