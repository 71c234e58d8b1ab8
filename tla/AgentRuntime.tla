----------------------------- MODULE AgentRuntime -----------------------------
(***************************************************************************)
(* The requests of one session: runs of the agent and confirmed actions,   *)
(* in processes that keep the transcript in memory, under the session's    *)
(* lease in the database.  An action is what a request does between two    *)
(* awaits; a call to the database may fail before or after it commits.     *)
(***************************************************************************)
EXTENDS SessionLease, Sequences

CONSTANTS
  Process,
  ProcessOf,     \* the process a request is served by
  Tool,
  ToolsOf,       \* the tool calls a run may make, in parallel
  HistoryLimit   \* the turns a process keeps in memory

ASSUME RuntimeAssumption ==
  /\ \A x \in Request : ProcessOf[x] \in Process
  /\ HistoryLimit \in Nat \ {0}
  /\ None \notin Seq(Run)

VARIABLES
  lease,         \* of the session
  holder,        \* the request that took the lease as it stands
  pc,            \* what a request awaits
  outcome,       \* what its caller is told
  lost,          \* requests whose heartbeat has reported the lease lost
  lapsed,        \* requests whose lease ran out while they held it
  refused,       \* runs whose turn the database did not take
  tool,          \* how far each tool call of a run is
  inFlight,      \* runs with the flag reliableExecutionInFlight
  confirmed,     \* confirmations whose action has been executed
  cancelled,     \* the runtimes' cancelledRunIds
  aborted,       \* runs whose prompt was aborted
  active,        \* the active run of the process's session
  memory,        \* its transcript in memory, a turn being its run, or None
  checkpoint,    \* the length of the memory before a run's turn
  transcript,    \* the durable transcript
  base           \* its length when a run took the lease

leaseVars == <<lease, holder, lapsed>>
toolVars == <<tool, inFlight>>
sessionVars == <<cancelled, aborted, active, memory, checkpoint>>
durable == <<transcript, refused>>
vars == <<leaseVars, pc, outcome, lost, toolVars, confirmed, sessionVars, durable, base>>

\* FAILED stands for every other error code, and for a rejected request.
Outcome == {"SUCCEEDED", "SESSION_BUSY", "RUN_CANCELLED", "FAILED"}

TypeOK ==
  /\ lease \in Lease
  /\ holder \in Request \cup {None}
  /\ pc \in [Request -> {"idle", "acquiring", "loading", "restored", "leaving",
                         "preparing", "starting", "prompting", "repairing",
                         "appending", "announcing", "confirming", "executing",
                         "closing", "ended", "crashed"}]
  /\ outcome \in [Request -> Outcome \cup {"NONE"}]
  /\ lost \subseteq Request
  /\ lapsed \subseteq Request
  /\ refused \subseteq Run
  /\ tool \in [Run -> [Tool -> {"unused", "judged", "executing", "succeeded",
                                "failed"}]]
  /\ inFlight \subseteq Run
  /\ confirmed \subseteq Confirm
  /\ cancelled \subseteq {active[p] : p \in Process} \ {None}
  /\ aborted \subseteq Run
  /\ active \in [Process -> Run \cup {None}]
  /\ memory \in [Process -> Seq(Run) \cup {None}]
  /\ checkpoint \in [Run -> 0..HistoryLimit]
  /\ transcript \in Seq(Run)
  /\ base \in [Run -> Nat]

Init ==
  /\ lease = NoLease
  /\ holder = None
  /\ pc = [x \in Request |-> "idle"]
  /\ outcome = [x \in Request |-> "NONE"]
  /\ lost = {} /\ lapsed = {} /\ refused = {}
  /\ tool = [r \in Run |-> [t \in Tool |-> "unused"]]
  /\ inFlight = {} /\ confirmed = {} /\ cancelled = {} /\ aborted = {}
  /\ active = [p \in Process |-> None]
  /\ memory = [p \in Process |-> None]
  /\ checkpoint = [r \in Run |-> 0]
  /\ transcript = <<>>
  /\ base = [r \in Run |-> 0]

------------------------------------------------------------------------------
(* What the steps share.                                                   *)

Goto(x, next) == pc' = [pc EXCEPT ![x] = next]

End(x, next, result) == Goto(x, next) /\ outcome' = [outcome EXCEPT ![x] = result]

Session(r) == ProcessOf[r]

\* The last turns, as restoreRecent and trimHistory keep them.
Recent(turns) ==
  IF Len(turns) <= HistoryLimit THEN turns
  ELSE SubSeq(turns, Len(turns) - HistoryLimit + 1, Len(turns))

\* A reliable execution succeeded: reliableExecutionCommitted, or the result.
Committed(x) ==
  IF x \in Run THEN \E t \in Tool : tool[x][t] = "succeeded" ELSE x \in confirmed

Idle_Always(r) == TRUE

\* What waitForIdle of the tool adapter waits for.
Idle(r) == \A t \in Tool : tool[r][t] \notin {"judged", "executing"}

\* Lease lost, and nothing happened that the loss could belie.
LossCounts_Always(x) == x \in lost

LossCounts(x) == x \in lost /\ ~Committed(x)

\* AgentSession.abort: stops the prompt that is under way in the process's session, whose
\* ever it is, and is nothing to a session that is idle.
Aborted(p) ==
  aborted \cup {r \in Run : r = active[p] /\ pc[r] = "prompting"}

LeaveSession_StaysCancelled(r) ==
  /\ active' = [active EXCEPT ![Session(r)] = IF @ = r THEN None ELSE @]
  /\ aborted' = aborted \ {r}
  /\ checkpoint' = [checkpoint EXCEPT ![r] = 0]
  /\ UNCHANGED cancelled

\* The session forgets the run, at the end of it.
LeaveSession(r) ==
  /\ active' = [active EXCEPT ![Session(r)] = IF @ = r THEN None ELSE @]
  /\ cancelled' = cancelled \ {r}
  /\ aborted' = aborted \ {r}
  /\ checkpoint' = [checkpoint EXCEPT ![r] = 0]

RolledBack_Keeps(r) == memory[Session(r)]

RolledBack(r) == SubSeq(memory[Session(r)], 1, checkpoint[r])

\* The catch block of run: the turn is taken back from the memory.
Fail(r, code) ==
  /\ Idle(r)
  /\ End(r, "closing", IF LossCounts(r) THEN "SESSION_BUSY"
                       ELSE IF r \in cancelled THEN "RUN_CANCELLED"
                       ELSE code)
  /\ memory' = [memory EXCEPT ![Session(r)] = Recent(RolledBack(r))]
  /\ LeaveSession(r)

------------------------------------------------------------------------------
(* Taking the lease, keeping it, giving it back.                           *)

(***************************************************************************)
(* A request is accepted.  A run whose event of the start is not           *)
(* delivered, and a confirmation of an unknown action, end here.           *)
(***************************************************************************)
Submit(x) ==
  /\ pc[x] = "idle"
  /\ \/ Goto(x, "acquiring") /\ UNCHANGED outcome
     \/ End(x, "ended", "FAILED")
  /\ UNCHANGED <<leaseVars, lost, toolVars, confirmed, sessionVars, durable, base>>

Acquire(x) ==
  /\ pc[x] = "acquiring"
  /\ IF IsFree(lease)
     THEN /\ lease' = LeaseOf(x)
          /\ Goto(x, IF x \in Run THEN "loading" ELSE "confirming")
          /\ holder' = x
          /\ base' = IF x \in Run THEN [base EXCEPT ![x] = Len(transcript)] ELSE base
          /\ UNCHANGED outcome
     ELSE End(x, "ended", "SESSION_BUSY") /\ UNCHANGED <<lease, holder, base>>
  /\ UNCHANGED <<lapsed, lost, toolVars, confirmed, sessionVars, durable>>

\* The call throws: the request is rejected, and may have the lease all the same.
AcquireThrows(x) ==
  /\ pc[x] = "acquiring"
  /\ End(x, "ended", "FAILED")
  /\ \/ IsFree(lease) /\ lease' = LeaseOf(x) /\ holder' = x
     \/ UNCHANGED <<lease, holder>>
  /\ UNCHANGED <<lapsed, lost, toolVars, confirmed, sessionVars, durable, base>>

UnderLease == {"loading", "restored", "leaving", "preparing", "starting", "prompting",
               "repairing", "appending", "announcing", "confirming", "executing", "closing"}

\* The heartbeat runs until it fails once or the request stops it.
Beating(x) == pc[x] \in UnderLease /\ x \notin lost

\* sessionForLease is set: the run has come by its session, if only to find it busy.
HasSession(x) ==
  \/ pc[x] \in {"preparing", "starting", "prompting", "repairing", "appending", "announcing"}
  \/ x \in Run /\ pc[x] = "closing"
  \/ pc[x] = "leaving" /\ outcome[x] = "SESSION_BUSY"

(***************************************************************************)
(* A heartbeat.  The renewal may fail, or commit and answer too late; then *)
(* the loss is noted and the session of a run aborted, whichever run       *)
(* prompts in it, unless the one that lost its lease has executed          *)
(* something or its flag says that it is about to.                         *)
(***************************************************************************)
Renew(x) ==
  /\ Beating(x)
  /\ \/ Holds(lease, x) /\ lease' = Renewed(lease, x) /\ UNCHANGED <<lost, aborted>>
     \/ /\ lease' \in {lease, Renewed(lease, x)}
        /\ lost' = lost \cup {x}
        /\ aborted' = IF HasSession(x) /\ ~Committed(x) /\ x \notin inFlight
                      THEN Aborted(ProcessOf[x]) ELSE aborted
  /\ UNCHANGED <<holder, lapsed, pc, outcome, toolVars, confirmed, cancelled, active,
                 memory, checkpoint, durable, base>>

Tick ==
  /\ lease.left > 0
  /\ lease' = Aged(lease)
  /\ lapsed' = lapsed \cup {x \in Request : x = holder /\ lease.left = 1 /\ pc[x] \in UnderLease}
  /\ UNCHANGED <<holder, pc, outcome, lost, toolVars, confirmed, sessionVars, durable, base>>

\* Gives the lease back, or fails to.
GiveBack(x) ==
  \/ /\ lease' = Released(lease, x)
     /\ holder' = IF lease' = lease THEN holder ELSE None
  \/ UNCHANGED <<lease, holder>>

\* What a request knew of its lease goes with it.
Forget(gone) ==
  /\ lost' = lost \ gone
  /\ lapsed' = lapsed \ gone
  /\ base' = [r \in Run |-> IF r \in gone THEN 0 ELSE base[r]]

\* The release that follows a failure is awaited and may reject the request.
Leave(r) ==
  /\ pc[r] = "leaving"
  /\ GiveBack(r)
  /\ \/ Goto(r, "ended") /\ UNCHANGED outcome
     \/ End(r, "ended", "FAILED")
  /\ Forget({r})
  /\ UNCHANGED <<toolVars, confirmed, sessionVars, durable>>

\* The release at the end cannot change the outcome.
Close(x) ==
  /\ pc[x] = "closing"
  /\ GiveBack(x)
  /\ Goto(x, "ended")
  /\ Forget({x})
  /\ UNCHANGED <<outcome, toolVars, confirmed, sessionVars, durable>>

------------------------------------------------------------------------------
(* A run of the agent.                                                     *)

\* The context cannot be loaded, the identity not bound, the history not read.
LoadFails(r) ==
  /\ pc[r] = "loading"
  /\ End(r, "leaving", IF r \in lost THEN "SESSION_BUSY" ELSE "FAILED")
  /\ UNCHANGED <<leaseVars, lost, toolVars, confirmed, sessionVars, durable, base>>

\* The session is found in the process, or made from the durable transcript.
Restore(r) ==
  /\ pc[r] = "loading"
  /\ Goto(r, "restored")
  /\ memory' = [memory EXCEPT ![Session(r)] = IF @ = None THEN Recent(transcript) ELSE @]
  /\ UNCHANGED <<leaseVars, outcome, lost, toolVars, confirmed, cancelled, aborted, active,
                 checkpoint, durable, base>>

IsBusy_Never(r) == FALSE

\* AgentSession.acquire: one active run in a process.
IsBusy(r) == active[Session(r)] # None

Enter(r) ==
  /\ pc[r] = "restored"
  /\ IF r \in lost \/ IsBusy(r)
     THEN End(r, "leaving", "SESSION_BUSY") /\ UNCHANGED sessionVars
     ELSE /\ Goto(r, "preparing")
          /\ active' = [active EXCEPT ![Session(r)] = r]
          /\ checkpoint' = [checkpoint EXCEPT ![r] = Len(memory[Session(r)])]
          /\ UNCHANGED <<outcome, cancelled, aborted, memory>>
  /\ UNCHANGED <<leaseVars, lost, toolVars, confirmed, durable, base>>

\* The tools are resolved and the start of the model is announced.
StartModel(r) ==
  /\ pc[r] = "preparing"
  /\ r \notin lost \cup cancelled
  /\ Goto(r, "starting")
  /\ UNCHANGED <<leaseVars, outcome, lost, toolVars, confirmed, sessionVars, durable, base>>

\* The model is prompted, though the run was cancelled or lost its lease meanwhile.
Prompt(r) ==
  /\ pc[r] = "starting"
  /\ Goto(r, "prompting")
  /\ memory' = [memory EXCEPT ![Session(r)] = Append(@, r)]
  /\ UNCHANGED <<leaseVars, outcome, lost, toolVars, confirmed, cancelled, aborted, active,
                 checkpoint, durable, base>>

SetTool(r, t, state) == tool' = [tool EXCEPT ![r][t] = state]

\* The model calls a tool, or a constrained repair does: no abort stops that one.
CallTool(r, t) ==
  /\ t \in ToolsOf[r]
  /\ tool[r][t] = "unused"
  /\ pc[r] \in {"prompting", "repairing"} /\ (pc[r] = "prompting" => r \notin aborted)
  /\ SetTool(r, t, "judged")
  /\ UNCHANGED <<leaseVars, pc, outcome, lost, inFlight, confirmed, sessionVars, durable,
                 base>>

\* The policy lets the call execute, or not.
Judge(r, t) ==
  /\ tool[r][t] = "judged" /\ pc[r] # "crashed"
  /\ \/ r \notin lost /\ SetTool(r, t, "executing") /\ inFlight' = inFlight \cup {r}
     \/ SetTool(r, t, "failed") /\ UNCHANGED inFlight
  /\ UNCHANGED <<leaseVars, pc, outcome, lost, confirmed, sessionVars, durable, base>>

\* The reliable executor answers; the flag falls though another call may execute.
Execute(r, t) ==
  /\ tool[r][t] = "executing" /\ pc[r] # "crashed"
  /\ \E state \in {"succeeded", "failed"} : SetTool(r, t, state)
  /\ inFlight' = inFlight \ {r}
  /\ UNCHANGED <<leaseVars, pc, outcome, lost, confirmed, sessionVars, durable, base>>

\* The prompt returns, after its tool calls unless it was aborted.
PromptEnds(r) ==
  /\ pc[r] = "prompting"
  /\ Idle(r) \/ r \in aborted
  /\ Goto(r, "repairing")
  /\ UNCHANGED <<leaseVars, outcome, lost, toolVars, confirmed, sessionVars, durable, base>>

\* No tool call failed or was withheld by the policy: the turn may be kept.  A run that has
\* executed something and knows its lease lost succeeds without keeping it.
Settle(r) ==
  /\ pc[r] = "repairing"
  /\ Idle(r)
  /\ r \notin cancelled /\ ~LossCounts(r)
  /\ \A t \in Tool : tool[r][t] # "failed"
  /\ Goto(r, IF r \in lost THEN "announcing" ELSE "appending")
  /\ UNCHANGED <<leaseVars, outcome, lost, toolVars, confirmed, sessionVars, durable, base>>

\* A check fails or an event is not delivered.
Break(r) ==
  /\ pc[r] \in {"preparing", "starting", "prompting", "repairing", "announcing"}
  /\ Fail(r, "FAILED")
  /\ UNCHANGED <<leaseVars, lost, toolVars, confirmed, durable, base>>

\* The transaction keeps the turn of the request that holds the lease.
AppendTurn(r) ==
  /\ pc[r] = "appending"
  /\ IF Holds(lease, r)
     THEN transcript' = Append(transcript, r) /\ UNCHANGED refused
     ELSE refused' = refused \cup {r} /\ UNCHANGED transcript
  /\ IF r \in refused' \/ LossCounts(r)
     THEN Fail(r, "SESSION_BUSY")
     ELSE Goto(r, "announcing") /\ UNCHANGED <<outcome, sessionVars>>
  /\ UNCHANGED <<leaseVars, lost, toolVars, confirmed, base>>

\* The database fails, before or after it has kept the turn.
AppendFails(r) ==
  /\ pc[r] = "appending"
  /\ transcript' \in {transcript} \cup
                     (IF Holds(lease, r) THEN {Append(transcript, r)} ELSE {})
  /\ Fail(r, "FAILED")
  /\ UNCHANGED <<leaseVars, lost, toolVars, confirmed, refused, base>>

\* The completed event is delivered.
Announce(r) ==
  /\ pc[r] = "announcing"
  /\ End(r, "closing", "SUCCEEDED")
  /\ memory' = [memory EXCEPT ![Session(r)] = Recent(@)]
  /\ LeaveSession(r)
  /\ UNCHANGED <<leaseVars, lost, toolVars, confirmed, durable, base>>

------------------------------------------------------------------------------
(* A confirmed action, a cancellation, a crash.                            *)

\* The confirmation service answers; the heartbeat's verdict is looked at here only.
ConfirmAction(c) ==
  /\ pc[c] = "confirming"
  /\ \/ c \notin lost /\ Goto(c, "executing") /\ UNCHANGED outcome
     \/ c \in lost /\ End(c, "closing", "SESSION_BUSY")
     \/ End(c, "closing", "FAILED")
  /\ UNCHANGED <<leaseVars, lost, toolVars, confirmed, sessionVars, durable, base>>

ExecuteAction(c) ==
  /\ pc[c] = "executing"
  /\ \/ End(c, "closing", "SUCCEEDED") /\ confirmed' = confirmed \cup {c}
     \/ End(c, "closing", "FAILED") /\ UNCHANGED confirmed
  /\ UNCHANGED <<leaseVars, lost, toolVars, sessionVars, durable, base>>

\* The client disconnects or the time of the request is up.
Cancel(p) ==
  /\ active[p] # None
  /\ cancelled' = cancelled \cup {active[p]}
  /\ aborted' = Aborted(p)
  /\ UNCHANGED <<leaseVars, pc, outcome, lost, toolVars, confirmed, active, memory,
                 checkpoint, durable, base>>

\* A process stops and starts again: its requests are gone and its memory is.
Crash(p) ==
  LET Gone == {x \in Request : ProcessOf[x] = p /\ pc[x] \in UnderLease \cup {"acquiring"}} IN
  /\ Gone # {}
  /\ pc' = [x \in Request |-> IF x \in Gone THEN "crashed" ELSE pc[x]]
  /\ active' = [active EXCEPT ![p] = None]
  /\ memory' = [memory EXCEPT ![p] = None]
  /\ cancelled' = cancelled \ Gone
  /\ aborted' = aborted \ Gone
  /\ checkpoint' = [r \in Run |-> IF r \in Gone THEN 0 ELSE checkpoint[r]]
  /\ inFlight' = inFlight \ Gone
  /\ Forget(Gone)
  /\ UNCHANGED <<lease, holder, outcome, tool, confirmed, durable>>

RunStep(r) ==
  \/ LoadFails(r) \/ Restore(r) \/ Enter(r) \/ Leave(r)
  \/ StartModel(r) \/ Prompt(r) \/ PromptEnds(r) \/ Settle(r) \/ Break(r)
  \/ AppendTurn(r) \/ AppendFails(r) \/ Announce(r)

ToolStep(r, t) == Judge(r, t) \/ Execute(r, t)

ConfirmStep(c) == ConfirmAction(c) \/ ExecuteAction(c)

LeaseStep(x) == Acquire(x) \/ AcquireThrows(x) \/ Close(x)

Next ==
  \/ \E x \in Request : Submit(x) \/ LeaseStep(x) \/ Renew(x)
  \/ \E r \in Run : RunStep(r) \/ \E t \in Tool : CallTool(r, t) \/ ToolStep(r, t)
  \/ \E c \in Confirm : ConfirmStep(c)
  \/ \E p \in Process : Cancel(p) \/ Crash(p)
  \/ Tick

Spec == Init /\ [][Next]_vars

------------------------------------------------------------------------------
(* What the lease and the session promise.                                 *)

(***************************************************************************)
(* Two requests are under way in one session only when the lease of one    *)
(* of them has run out, if no two requests share an owner (acquire and     *)
(* release of the session coordinator, run and confirmAndExecute).         *)
(***************************************************************************)
ExclusiveUnlessLapsed ==
  \A x, y \in Request :
    x # y /\ pc[x] \in UnderLease /\ pc[y] \in UnderLease => x \in lapsed \/ y \in lapsed

(***************************************************************************)
(* A turn is kept only if no other was since its run took the lease, even  *)
(* when the run slept through the loss (the fence of appendTurn).          *)
(***************************************************************************)
TurnsAreIsolated ==
  [][\E r \in Run : transcript' = Append(transcript, r) /\ base[r] = Len(transcript)]_transcript

(***************************************************************************)
(* While no run is active in it, a process remembers the turn of a failed  *)
(* or cancelled run only if the database kept it, and has not forgotten a  *)
(* turn that succeeded and was kept (checkpoint, rollback, trimHistory).   *)
(***************************************************************************)
MemoryFollowsOutcomes ==
  \A p \in Process : active[p] = None /\ memory[p] # None =>
    LET remembered == {memory[p][i] : i \in DOMAIN memory[p]}
        kept == {transcript[i] : i \in DOMAIN transcript}
    IN /\ \A r \in remembered : outcome[r] = "SUCCEEDED" \/ r \in kept
       /\ \A r \in kept : ProcessOf[r] = p /\ outcome[r] = "SUCCEEDED" =>
            r \in remembered \/ Len(memory[p]) = HistoryLimit

\* When a run has its outcome, none of its tool calls is still executing or about to
\* (waitForIdle before a failure or a success is reported).
NothingAfterTheEnd ==
  \A r \in Run : pc[r] \in {"closing", "ended"} =>
    \A t \in Tool : tool[r][t] \notin {"judged", "executing"}

\* A request that executed an action is told that the session is busy only if the database
\* refused its turn (effectiveSessionLeaseLost).
SuccessSurvivesLoss ==
  \A x \in Request : outcome[x] = "SESSION_BUSY" /\ Committed(x) => x \in refused

(***************************************************************************)
(* What a request reports is the end of it: nothing of it happens later,   *)
(* and what it did is not denied by a lease lost afterwards.               *)
(***************************************************************************)
EndsHonestly == NothingAfterTheEnd /\ SuccessSurvivesLoss

\* A request that executed an action is never told that the session is busy
\* (docs/implementation-status.md on a lease lost after a durable success).
SuccessIsNotBusy ==
  \A x \in Request : outcome[x] = "SESSION_BUSY" => ~Committed(x)

\* Nobody but its holder, and the time, ends a lease (the owner check of release).
LeaseEndsWithHolder ==
  [][\A x \in Request : holder = x /\ holder' # x => lease.left = 0 \/ pc'[x] # pc[x]]_vars

===============================================================================
