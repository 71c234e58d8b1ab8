------------------------------ MODULE ApiRequests ------------------------------
(***************************************************************************)
(* The requests of the HTTP API in one process: authentication, admission  *)
(* under a limit with a bounded queue, the handler, at most one agent run  *)
(* per session, clients that disconnect, and the graceful shutdown.        *)
(* Whatever the code does without an await is one step.                    *)
(***************************************************************************)
EXTENDS Naturals, FiniteSets, SequencesExt

CONSTANTS
  Request,
  Session,
  SessionOf,     \* the session a request names
  Routes,        \* the routes a request may be for
  MaxConcurrent, \* maxConcurrent of the admission controller
  MaxQueue,      \* maxQueue
  None

Kind == {"message",       \* POST .../messages
         "stream",        \* POST .../messages/stream
         "subscription",  \* GET .../urgent-events/stream
         "other"}         \* sessions, context, actions, executions

ASSUME ApiAssumption ==
  /\ SessionOf \in [Request -> Session]
  /\ Routes \in [Request -> SUBSET Kind]
  /\ MaxConcurrent \in Nat \ {0} /\ MaxQueue \in Nat \ {0}
  /\ None \notin Request

VARIABLES
  kind,          \* the route of a request
  server,        \* "up", "draining" (app.close), "expired" (timeout), "closed"
  accepting, active, queue,   \* the RequestAdmissionController
  pc,            \* what a request awaits
  client,        \* its connection
  permit,        \* "none", "held" (admissionPermits) or "released"
  running,       \* DriveGuardApiService.#active, by session
  slot,          \* where the events of a session's runtime go: slot.current
  budget,        \* the request's agentTimeoutMs timer
  cancelledBy,   \* what made runtime.cancel cancel its run
  aborted,       \* requests whose prompt was under way then, and stopped
  early,         \* requests whose client left before they were admitted (history)
  listening      \* subscriptions to the UrgentEventNotificationHub

admissionVars == <<accepting, active, queue>>
runVars == <<running, slot, budget, cancelledBy, aborted>>
vars == <<kind, server, admissionVars, pc, client, permit, runVars, early, listening>>

Waiting == {"authenticating", "queued"}
AtWork == {"entered", "working", "lookup", "starting", "opening", "running", "settling",
           "subscribed"}
InRun == {"starting", "opening", "running", "settling"}

Init ==
  /\ kind \in [Request -> Kind] /\ \A r \in Request : kind[r] \in Routes[r]
  /\ server = "up" /\ accepting = TRUE /\ active = 0 /\ queue = <<>>
  /\ pc = [r \in Request |-> "new"]
  /\ client = [r \in Request |-> "open"]
  /\ permit = [r \in Request |-> "none"]
  /\ running = [s \in Session |-> None] /\ slot = [s \in Session |-> None]
  /\ budget = [r \in Request |-> "off"]
  /\ cancelledBy = [r \in Request |-> "nobody"]
  /\ aborted = {} /\ early = {} /\ listening = {}

At(r, p) == pc[r] = p
GoTo(r, p) == pc' = [pc EXCEPT ![r] = p]

--------------------------------------------------------------------------------
(***************************************************************************)
(* Admission.                                                              *)
(***************************************************************************)

\* A connection of the process; the first hook authenticates.
Arrive(r) ==
  /\ At(r, "new") /\ server \in {"up", "draining"}
  /\ GoTo(r, "authenticating")
  /\ UNCHANGED <<kind, server, admissionVars, client, permit, runVars, early, listening>>

\* acquire, in the second hook.
Acquire(r) ==
  IF accepting /\ active < MaxConcurrent /\ queue = <<>>
  THEN /\ active' = active + 1
       /\ permit' = [permit EXCEPT ![r] = "held"]
       /\ GoTo(r, "entered") /\ UNCHANGED queue
  ELSE IF accepting /\ Len(queue) < MaxQueue
  THEN /\ queue' = Append(queue, r)
       /\ GoTo(r, "queued") /\ UNCHANGED <<active, permit>>
  ELSE /\ GoTo(r, "answering") /\ UNCHANGED <<active, queue, permit>>

Authenticate(r) ==
  /\ At(r, "authenticating")
  /\ \/ Acquire(r)
     \/ GoTo(r, "answering") /\ UNCHANGED <<active, queue, permit>>
  /\ UNCHANGED <<kind, server, accepting, client, runVars, early, listening>>

QueueTimeout(r) ==
  /\ At(r, "queued")
  /\ \E i \in DOMAIN queue : queue[i] = r /\ queue' = RemoveAt(queue, i)
  /\ GoTo(r, "answering")
  /\ UNCHANGED <<kind, server, accepting, active, client, permit, runVars, early, listening>>

\* A bug: the permit goes back and nobody is woken.
Woken_Nobody == {}

\* #drain once a permit is back: the first in the queue, as many as there is room for.
Woken ==
  LET room == (MaxConcurrent + 1) - active
      count == IF room < Len(queue) THEN room ELSE Len(queue)
  IN  IF accepting THEN {queue[i] : i \in 1..count} ELSE {}

\* A bug: releasing is left to the response.
Release_OnResponse(r, p) ==
  IF permit[r] = "held" /\ At(r, "answering")
  THEN /\ active' = active - 1 /\ permit' = [permit EXCEPT ![r] = "released"]
       /\ GoTo(r, p) /\ UNCHANGED queue
  ELSE GoTo(r, p) /\ UNCHANGED <<active, queue, permit>>

\* release() of the permit of r, if it still has one; r goes on at p.
Release(r, p) ==
  IF permit[r] = "held"
  THEN /\ active' = (active - 1) + Cardinality(Woken)
       /\ queue' = SubSeq(queue, Cardinality(Woken) + 1, Len(queue))
       /\ permit' = [q \in Request |-> IF q = r THEN "released"
                                       ELSE IF q \in Woken THEN "held" ELSE permit[q]]
       /\ pc' = [q \in Request |-> IF q = r THEN p ELSE IF q \in Woken THEN "entered" ELSE pc[q]]
  ELSE GoTo(r, p) /\ UNCHANGED <<active, queue, permit>>

\* The response is complete and onResponse runs; to a client that is gone nothing is
\* ever completed.
Answer(r) ==
  /\ At(r, "answering")
  /\ IF client[r] = "open" THEN Release(r, "done")
     ELSE GoTo(r, "done") /\ UNCHANGED <<active, queue, permit>>
  /\ UNCHANGED <<kind, server, accepting, client, runVars, early, listening>>

--------------------------------------------------------------------------------
(***************************************************************************)
(* Handlers.                                                               *)
(***************************************************************************)

\* The handler of subscriptions. That of a client that is gone registers its close
\* listener after the close.
Subscribe(r) ==
  /\ kind[r] = "subscription"
  /\ GoTo(r, "subscribed") /\ listening' = listening \cup {r}

\* The body is read and validated and the route's handler starts. A route with a body
\* whose client is gone may never get it.
Enter(r) ==
  /\ At(r, "entered")
  /\ \/ Subscribe(r)
     \/ /\ kind[r] # "subscription"
        /\ GoTo(r, IF kind[r] = "other" THEN "working" ELSE "lookup") /\ UNCHANGED listening
     \/ /\ kind[r] \in {"message", "stream"}
        /\ GoTo(r, IF client[r] = "open" THEN "answering" ELSE "lost") /\ UNCHANGED listening
  /\ UNCHANGED <<kind, server, admissionVars, client, permit, runVars, early>>

\* A session, a context, an action or an execution is read or changed, or that fails.
Work(r) ==
  /\ At(r, "working") /\ GoTo(r, "answering")
  /\ UNCHANGED <<kind, server, admissionVars, client, permit, runVars, early, listening>>

\* A bug: the check has been made before the lookup was awaited.
Free_Anyway(r) == TRUE

\* Nobody runs in the session of r.
Free(r) == running[SessionOf[r]] = None

\* The runtime of the session, cached or made, sends its events to r from now on.
Create(r) == slot' = [slot EXCEPT ![SessionOf[r]] = r]

\* sendMessage once it knows the session and nobody runs in it.
Begin(r) ==
  /\ At(r, "lookup") /\ Free(r)
  /\ running' = [running EXCEPT ![SessionOf[r]] = r]
  /\ Create(r)
  /\ budget' = [budget EXCEPT ![r] = "set"]
  /\ GoTo(r, "starting")
  /\ UNCHANGED <<kind, server, admissionVars, client, permit, cancelledBy, aborted, early,
                 listening>>

\* The session is unknown, somebody else's, unavailable or busy, or has no runtime.
Refused(r) ==
  /\ At(r, "lookup") /\ GoTo(r, "answering")
  /\ UNCHANGED <<kind, server, admissionVars, client, permit, runVars, early, listening>>

\* run has its session (from here cancel finds it), or fails before.
StartRun(r) ==
  /\ At(r, "starting")
  /\ \E p \in {"opening", "settling"} : GoTo(r, p)
  /\ UNCHANGED <<kind, server, admissionVars, client, permit, runVars, early, listening>>

\* run prompts the model, or fails before. It looks for a cancellation, then announces the
\* model's start: a cancellation in between is not seen and has no prompt to abort.
PromptModel(r) ==
  /\ At(r, "opening")
  /\ \/ GoTo(r, "running")
     \/ GoTo(r, "settling")
  /\ UNCHANGED <<kind, server, admissionVars, client, permit, runVars, early, listening>>

\* The run is terminal; challenges are taken and the last events emitted.
RunEnds(r) ==
  /\ At(r, "running") /\ GoTo(r, "settling")
  /\ UNCHANGED <<kind, server, admissionVars, client, permit, runVars, early, listening>>

\* The runtime forgets that the run of r was cancelled.
ForgetRun(r) ==
  /\ cancelledBy' = [cancelledBy EXCEPT ![r] = "nobody"]
  /\ aborted' = aborted \ {r}

\* A bug: the session stays taken.
Settle_KeepsSession(r) ==
  /\ At(r, "settling")
  /\ budget' = [budget EXCEPT ![r] = "off"]
  /\ GoTo(r, "answering")
  /\ ForgetRun(r)
  /\ UNCHANGED <<kind, server, admissionVars, client, permit, running, slot, early, listening>>

\* The finally of sendMessage, and of the stream's handler.
Settle(r) ==
  /\ At(r, "settling")
  /\ running' = [running EXCEPT ![SessionOf[r]] = IF @ = r THEN None ELSE @]
  /\ budget' = [budget EXCEPT ![r] = "off"]
  /\ ForgetRun(r)
  /\ GoTo(r, "answering")
  /\ UNCHANGED <<kind, server, admissionVars, client, permit, slot, early, listening>>

--------------------------------------------------------------------------------
(***************************************************************************)
(* Cancellation, disconnects and shutdown.                                 *)
(***************************************************************************)

\* cancel(sessionId) of the runtimes of these sessions: it reaches runs that have their session.
Cancelled(sessions, why) ==
  [r \in Request |-> IF /\ SessionOf[r] \in sessions /\ running[SessionOf[r]] = r
                        /\ pc[r] \in {"opening", "running"} /\ cancelledBy[r] = "nobody"
                     THEN why ELSE cancelledBy[r]]

\* It stops their prompts, of those that have begun to prompt.
Aborted(sessions) ==
  aborted \cup {r \in Request : SessionOf[r] \in sessions /\ running[SessionOf[r]] = r
                               /\ At(r, "running")}

\* The timer of r fires: in time, or before there is a prompt to stop, and then never again.
Fire(r) ==
  /\ budget[r] = "set"
  /\ budget' = [budget EXCEPT ![r] = IF pc[r] \in {"starting", "opening"} THEN "missed"
                                     ELSE "fired"]

\* A bug: the timer looks for a run that is not there.
BudgetFires_InVain(r) ==
  /\ Fire(r)
  /\ UNCHANGED <<kind, server, admissionVars, pc, client, permit, running, slot, cancelledBy,
                 aborted, early, listening>>

BudgetFires(r) ==
  /\ Fire(r)
  /\ cancelledBy' = Cancelled({SessionOf[r]}, "budget")
  /\ aborted' = Aborted({SessionOf[r]})
  /\ UNCHANGED <<kind, server, admissionVars, pc, client, permit, running, slot, early, listening>>

\* A bug: the close listener stays when the stream has been settled.
Unsettled_Ever(r) == kind[r] = "stream" /\ pc[r] \in {"lookup", "answering"} \cup InRun

\* The stream's close listener is registered and not settled.
Unsettled(r) == kind[r] = "stream" /\ pc[r] \in {"lookup"} \cup InRun

\* The client disconnects: the listeners on "close" and onRequestAbort. The handler of a
\* route without a body starts in the tick that admits the request.
Close(r) ==
  /\ client[r] = "open" /\ pc[r] \in Waiting \cup AtWork \cup {"answering"}
  /\ At(r, "entered") => kind[r] \in {"message", "stream"}
  /\ client' = [client EXCEPT ![r] = "closed"]
  /\ early' = IF pc[r] \in Waiting THEN early \cup {r} ELSE early
  /\ Release(r, IF At(r, "subscribed") THEN "done" ELSE pc[r])
  /\ listening' = listening \ {r}
  /\ cancelledBy' = IF Unsettled(r)
                    THEN Cancelled({SessionOf[r]},
                                   IF running[SessionOf[r]] = r THEN "own" ELSE
                                   IF At(r, "lookup") THEN "lookup" ELSE "other")
                    ELSE cancelledBy
  /\ aborted' = IF Unsettled(r) THEN Aborted({SessionOf[r]}) ELSE aborted
  /\ UNCHANGED <<kind, server, accepting, running, slot, budget>>

\* A bug: those who wait are forgotten.
Shutdown_ForgetsQueue ==
  /\ server = "up" /\ server' = "draining"
  /\ accepting' = FALSE /\ queue' = <<>>
  /\ UNCHANGED <<kind, active, pc, client, permit, runVars, early, listening>>

\* gracefulShutdown: beginShutdown and app.close.
Shutdown ==
  /\ server = "up" /\ server' = "draining"
  /\ accepting' = FALSE /\ queue' = <<>>
  /\ pc' = [r \in Request |-> IF At(r, "queued") THEN "answering" ELSE pc[r]]
  /\ UNCHANGED <<kind, active, client, permit, runVars, early, listening>>

\* GracefulShutdownTimeoutError: cancelAll and closeAllConnections (each a Close).
ShutdownExpires ==
  /\ server = "draining" /\ server' = "expired"
  /\ cancelledBy' = Cancelled(Session, "shutdown")
  /\ aborted' = Aborted(Session)
  /\ UNCHANGED <<kind, admissionVars, pc, client, permit, running, slot, budget, early, listening>>

Connected == {r \in Request : client[r] = "open" /\ pc[r] \notin {"new", "done"}}

\* No connection is left: app.close goes on to onClose, which closes the stores.
Closed ==
  /\ server \in {"draining", "expired"} /\ Connected = {}
  /\ server' = "closed"
  /\ UNCHANGED <<kind, admissionVars, pc, client, permit, runVars, early, listening>>

Handle(r) ==
  \/ Authenticate(r) \/ QueueTimeout(r) \/ Answer(r)
  \/ Enter(r) \/ Work(r) \/ Begin(r) \/ Refused(r)
  \/ StartRun(r) \/ PromptModel(r) \/ Settle(r)
  \/ RunEnds(r) /\ r \in aborted

Next ==
  \/ \E r \in Request : \/ Arrive(r) \/ Authenticate(r) \/ QueueTimeout(r) \/ Answer(r)
                        \/ Enter(r) \/ Work(r) \/ Begin(r) \/ Refused(r)
                        \/ StartRun(r) \/ PromptModel(r) \/ RunEnds(r) \/ Settle(r)
                        \/ BudgetFires(r) \/ Close(r)
  \/ Shutdown \/ ShutdownExpires \/ Closed

Spec == Init /\ [][Next]_vars

\* The event loop goes on, timers fire and destroyed sockets close. The model's provider
\* need not answer: a run surely ends only once its prompt has been aborted.
Fairness ==
  /\ \A r \in Request : /\ WF_vars(Handle(r)) /\ WF_vars(BudgetFires(r))
                        /\ WF_vars(server = "expired" /\ Close(r))
  /\ WF_vars(ShutdownExpires) /\ WF_vars(Closed)

FairSpec == Spec /\ Fairness

--------------------------------------------------------------------------------
(***************************************************************************)
(* Properties.                                                             *)
(***************************************************************************)

\* Types; the queue is bounded and holds exactly the requests that wait in it.
TypeOK ==
  /\ server \in {"up", "draining", "expired", "closed"} /\ accepting \in BOOLEAN
  /\ active \in 0..MaxConcurrent
  /\ queue \in Seq(Request) /\ Len(queue) <= MaxQueue
  /\ {queue[i] : i \in 1..Len(queue)} = {r \in Request : At(r, "queued")}
  /\ pc \in [Request -> {"new", "answering", "done", "lost"} \cup Waiting \cup AtWork]
  /\ client \in [Request -> {"open", "closed"}]
  /\ permit \in [Request -> {"none", "held", "released"}]
  /\ running \in [Session -> Request \cup {None}] /\ slot \in [Session -> Request \cup {None}]
  /\ budget \in [Request -> {"off", "set", "fired", "missed"}]
  /\ cancelledBy \in [Request -> {"nobody", "own", "lookup", "budget", "shutdown", "other"}]
  /\ aborted \subseteq Request /\ early \subseteq Request /\ listening \subseteq Request

\* The capacity of the process is accounted for: the count is that of the permits, a permit
\* and a subscription belong to a request that is served to a client that is there, and
\* nobody waits while there is room. The one exception: a client that left before its
\* request was admitted is not noticed again, and what that request holds is never given
\* back (app.ts, admission-control.ts, urgent.ts).
CapacityAccounted ==
  /\ active = Cardinality({r \in Request : permit[r] = "held"})
  /\ \A r \in Request \ early :
        /\ permit[r] = "held" => client[r] = "open" /\ pc[r] \in AtWork \cup {"answering"}
        /\ r \in listening => client[r] = "open" /\ At(r, "subscribed")
  /\ queue # <<>> => accepting /\ active = MaxConcurrent

\* Requests for one session keep apart: one of them runs at a time, the session is taken by
\* that one alone and no longer than it runs, its events go to nobody else, and only its own
\* client, its budget and the shutdown cancel it, or a stream that disconnects while its own
\* session is being looked up: cancelSession knows the session and not the request
\* (service.ts, routes.ts, production.ts).
RunsApart ==
  /\ \A s \in Session : {r \in Request : SessionOf[r] = s /\ pc[r] \in InRun} =
                        IF running[s] = None THEN {} ELSE {running[s]}
  /\ \A s \in Session : running[s] # None => slot[s] = running[s]
  /\ \A r \in Request : cancelledBy[r] # "other"

\* RunsApart without its exception: a run is cancelled by nobody else's client.
CancelledByItsOwn == \A r \in Request : cancelledBy[r] # "lookup"

\* Capacity never leaks: what a request that has gone held is back.
NothingLeaks == \A r \in Request : permit[r] = "held" => client[r] = "open"

\* Every request but a subscription is answered or its client gives up, although its run may
\* hang, its queue may stand still behind lost permits and the process may shut down; and a
\* shutdown ends with the stores closed, subscribers or not (service.ts, shutdown.ts). The one
\* exception: a message whose agentTimeoutMs passed before its run had begun to prompt. The
\* timer fires once, its cancellation finds no run or no prompt to abort, and nothing else
\* bounds the prompt that follows (service.ts, cancel and run of production-runtime.ts).
EveryRequestSettles ==
  /\ \A r \in Request : kind[r] # "subscription" =>
        (pc[r] = "authenticating" ~>
           (At(r, "done") \/ client[r] = "closed" \/ budget[r] = "missed"))
  /\ server = "draining" ~> server = "closed"
================================================================================
