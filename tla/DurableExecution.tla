-------------------------- MODULE DurableExecution --------------------------
(***************************************************************************)
(* Single-flight execution of a side effect over PostgreSQL: the durable   *)
(* path of ReliableToolExecutor.execute and the coordinator it calls.      *)
(*                                                                         *)
(* A call runs on a host (a Node process).  The first to insert the rows   *)
(* of its execution and of its idempotency key owns the key: it runs the   *)
(* tool under a lease kept by a heartbeat and records the verdict.  Every  *)
(* other call is answered from the rows, from the owner's promise (on the  *)
(* same host), or with OUTCOME_UNKNOWN.  Hosts crash; leases expire while  *)
(* their owner still runs; the side effect may happen long after the       *)
(* attempt that sent it was given up.                                      *)
(*                                                                         *)
(* The tool is not idempotent, so an attempt whose outcome is unclear is   *)
(* not repeated.  Of the session lease only what its checks may answer is  *)
(* kept: it may be held or lost whenever it is looked at.                  *)
(***************************************************************************)
EXTENDS Integers

CONSTANTS
  Call,          \* calls of execute
  Host,          \* processes
  Key,           \* idempotency keys
  Execution,     \* execution identifiers
  Binding,       \* digests of everything a request binds
  RequestsOf,    \* RequestsOf[c]: the requests call c may carry
  Lease,         \* lifetime of the owner's lease
  MaxTime,       \* bound on the database clock
  None           \* a null column, an absent entry

ASSUME ConstantsAssumption ==
  /\ RequestsOf \in [Call -> SUBSET [execution : Execution, key : Key, binding : Binding]]
  /\ Lease \in Nat \ {0}
  /\ MaxTime \in Nat
  /\ None \notin Call \cup Host \cup Execution \cup Binding

VARIABLES
  dbNow,         \* clock_timestamp() of the database
  execution,     \* execution_records: the state of each execution
  \* idempotency_records, by key
  status, boundTo, ownedBy, ownerExpiresAt,
  \* memory of each host
  inflight,      \* the call whose promise answers for a key
  records,       \* the executions in its ExecutionRecordStore
  \* each call
  pc, host, req, outcome, leaseLost, answer,
  \* the vehicle's services
  tool,          \* the request sent under each key: "none", "sent", "refused", "done"
  effects        \* how often the side effect of each key has happened

tables == <<execution, status, boundTo, ownedBy, ownerExpiresAt>>
memory == <<inflight, records>>
calls  == <<pc, host, req, outcome, leaseLost, answer>>
world  == <<tool, effects>>
vars   == <<dbNow, tables, memory, calls, world>>

------------------------------------------------------------------------------

\* The verdicts of an execution; RETRY_EXHAUSTED is a failure like any other.
Final == {"SUCCEEDED", "FAILED", "REJECTED", "OUTCOME_UNKNOWN"}

Request == [execution : Execution, key : Key, binding : Binding]

PC == {"idle", "coordinate", "acquire", "acquired", "following", "queued",
       "dispatched", "ended", "leaving", "done", "dead"}

\* The places of an owner between its insertion and its verdict.
Owning == {"acquired", "queued", "dispatched", "ended"}

\* A call may also be refused for reuse of a key, or throw.
Answer == Final \cup {"CONFLICT", "ERROR"}

ASSUME NoneAssumption == None \notin Answer

Ledger == INSTANCE ExecutionLedger
            WITH verdict <- status,
                 struck <- effects

TypeOK ==
  /\ dbNow \in 0..MaxTime
  /\ execution \in [Execution -> {"ABSENT", "RUNNING"} \cup Final]
  /\ status \in [Key -> {"ABSENT", "IN_PROGRESS"} \cup Final]
  /\ boundTo \in [Key -> Binding \cup {None}]
  /\ ownedBy \in [Key -> Execution \cup {None}]
  /\ ownerExpiresAt \in [Key -> Nat]
  /\ inflight \in [Host -> [Key -> Call \cup {None}]]
  /\ records \in [Host -> SUBSET Execution]
  /\ pc \in [Call -> PC]
  /\ host \in [Call -> Host \cup {None}]
  /\ req \in [Call -> Request \cup {None}]
  /\ outcome \in [Call -> Final \cup {None}]
  /\ leaseLost \in [Call -> BOOLEAN]
  /\ answer \in [Call -> Answer \cup {None}]
  /\ tool \in [Key -> {"none", "sent", "refused", "done"}]
  /\ effects \in [Key -> Nat]

Init ==
  /\ dbNow = 0
  /\ execution = [e \in Execution |-> "ABSENT"]
  /\ status = [k \in Key |-> "ABSENT"]
  /\ boundTo = [k \in Key |-> None]
  /\ ownedBy = [k \in Key |-> None]
  /\ ownerExpiresAt = [k \in Key |-> 0]
  /\ inflight = [h \in Host |-> [k \in Key |-> None]]
  /\ records = [h \in Host |-> {}]
  /\ pc = [c \in Call |-> "idle"]
  /\ host = [c \in Call |-> None]
  /\ req = [c \in Call |-> None]
  /\ outcome = [c \in Call |-> None]
  /\ leaseLost = [c \in Call |-> FALSE]
  /\ answer = [c \in Call |-> None]
  /\ tool = [k \in Key |-> "none"]
  /\ effects = [k \in Key |-> 0]

------------------------------------------------------------------------------
(* Steps every call is made of.                                            *)

KeyOf(c) == req[c].key

IdOf(c) == req[c].execution

At(c, place) == pc[c] = place

GoTo(c, place) ==
  /\ pc' = [pc EXCEPT ![c] = place]
  /\ UNCHANGED <<host, req, outcome, leaseLost, answer>>

\* The coordinator has an answer, or throws; the executor's finally is next.
Answers(c, a) ==
  /\ pc' = [pc EXCEPT ![c] = "leaving"]
  /\ answer' = [answer EXCEPT ![c] = a]
  /\ UNCHANGED <<host, req, outcome, leaseLost>>

\* The owner's callback has ended, with the outcome of its execution.
Ends(c, o) ==
  /\ pc' = [pc EXCEPT ![c] = "ended"]
  /\ outcome' = [outcome EXCEPT ![c] = o]
  /\ UNCHANGED <<host, req, leaseLost, answer>>

\* The ExecutionRecordStore still has the owner's record.  Without it every
\* step that would write the record throws, and the owner ends as FAILED.
HasRecord(c) == IdOf(c) \in records[host[c]]

------------------------------------------------------------------------------
(* The environment.                                                        *)

Tick ==
  /\ dbNow < MaxTime
  /\ dbNow' = dbNow + 1
  /\ UNCHANGED <<tables, memory, calls, world>>

\* The service of the tool acts on what it was sent, or refuses it for good.
Effect(k) ==
  /\ tool[k] = "sent"
  /\ tool' = [tool EXCEPT ![k] = "done"]
  /\ effects' = [effects EXCEPT ![k] = @ + 1]
  /\ UNCHANGED <<dbNow, tables, memory, calls>>

Refuse(k) ==
  /\ tool[k] = "sent"
  /\ tool' = [tool EXCEPT ![k] = "refused"]
  /\ UNCHANGED <<dbNow, tables, memory, calls, effects>>

\* A host dies and starts again: its calls and its memory are gone.
Crash(h) ==
  /\ \E c \in Call : host[c] = h /\ pc[c] \notin {"done", "dead"}
  /\ pc' = [c \in Call |-> IF host[c] = h /\ pc[c] # "done" THEN "dead" ELSE pc[c]]
  /\ inflight' = [inflight EXCEPT ![h] = [k \in Key |-> None]]
  /\ records' = [records EXCEPT ![h] = {}]
  /\ UNCHANGED <<dbNow, tables, host, req, outcome, leaseLost, answer, world>>

------------------------------------------------------------------------------
(* Every call.                                                             *)

Start(c) ==
  /\ At(c, "idle")
  /\ pc' = [pc EXCEPT ![c] = "coordinate"]
  /\ \E h \in Host, r \in RequestsOf[c] :
       /\ host' = [host EXCEPT ![c] = h]
       /\ req' = [req EXCEPT ![c] = r]
  /\ UNCHANGED <<dbNow, tables, memory, outcome, leaseLost, answer, world>>

\* Another call on this host may already run the key: follow it, or conflict.
Coordinate(c) ==
  LET leader == inflight[host[c]][KeyOf(c)] IN
  /\ At(c, "coordinate")
  /\ IF leader = None THEN GoTo(c, "acquire")
     ELSE IF req[leader].binding = req[c].binding THEN GoTo(c, "following")
     ELSE Answers(c, "CONFLICT")
  /\ UNCHANGED <<dbNow, tables, memory, world>>

\* A fault: the promise of an owner that throws never settles.
Follow_ResultsOnly(c) ==
  /\ At(c, "following")
  /\ \E leader \in Call :
       /\ leader # c /\ host[leader] = host[c]
       /\ KeyOf(leader) = KeyOf(c) /\ outcome[leader] # None /\ answer[leader] \in Final
       /\ Answers(c, answer[leader])
  /\ UNCHANGED <<dbNow, tables, memory, world>>

\* The leader's promise settles for its followers too.
Follow(c) ==
  /\ At(c, "following")
  /\ \E leader \in Call :
       /\ leader # c /\ host[leader] = host[c]
       /\ KeyOf(leader) = KeyOf(c) /\ outcome[leader] # None /\ answer[leader] # None
       /\ \/ Answers(c, answer[leader])
          \/ Answers(c, "ERROR")
  /\ UNCHANGED <<dbNow, tables, memory, world>>

------------------------------------------------------------------------------
(* The acquisition transaction.                                            *)

Claim(c) ==
  LET k == KeyOf(c) IN
  /\ execution[IdOf(c)] = "ABSENT" /\ status[k] = "ABSENT"
  /\ execution' = [execution EXCEPT ![IdOf(c)] = "RUNNING"]
  /\ status' = [status EXCEPT ![k] = "IN_PROGRESS"]
  /\ boundTo' = [boundTo EXCEPT ![k] = req[c].binding]
  /\ ownedBy' = [ownedBy EXCEPT ![k] = IdOf(c)]
  /\ ownerExpiresAt' = [ownerExpiresAt EXCEPT ![k] = dbNow + Lease]

\* The key is held under another binding, or its execution under another key.
Conflicts(c) ==
  \/ status[KeyOf(c)] = "ABSENT" /\ execution[IdOf(c)] # "ABSENT"
  \/ status[KeyOf(c)] # "ABSENT" /\ boundTo[KeyOf(c)] # req[c].binding

\* A fault: the execution is left RUNNING.
AbandonOwner_KeepsExecution(c) ==
  LET k == KeyOf(c) IN
  /\ dbNow >= ownerExpiresAt[k]
  /\ status' = [status EXCEPT ![k] = "OUTCOME_UNKNOWN"]
  /\ UNCHANGED <<execution, boundTo, ownedBy, ownerExpiresAt>>
  /\ Answers(c, "OUTCOME_UNKNOWN")

\* An owner whose lease has expired is given up: its outcome is unknown.
AbandonOwner(c) ==
  LET k == KeyOf(c) IN
  /\ dbNow >= ownerExpiresAt[k]
  /\ execution' = [execution EXCEPT ![ownedBy[k]] =
       IF @ = "RUNNING" THEN "OUTCOME_UNKNOWN" ELSE @]
  /\ status' = [status EXCEPT ![k] = "OUTCOME_UNKNOWN"]
  /\ UNCHANGED <<boundTo, ownedBy, ownerExpiresAt>>
  /\ Answers(c, "OUTCOME_UNKNOWN")

\* The transaction throws unless the run holds its session; its reply may be
\* lost after the commit.
Acquire(c) ==
  LET k == KeyOf(c) IN
  /\ At(c, "acquire")
  /\ \/ Claim(c) /\ GoTo(c, "acquired")
     \/ Claim(c) /\ Answers(c, "ERROR")
     \/ Conflicts(c) /\ Answers(c, "CONFLICT") /\ UNCHANGED tables
     \/ /\ ~Conflicts(c) /\ status[k] \in Final
        /\ Answers(c, status[k]) /\ UNCHANGED tables
     \/ /\ ~Conflicts(c) /\ status[k] = "IN_PROGRESS"
        /\ \/ AbandonOwner(c)
           \/ /\ dbNow < ownerExpiresAt[k]
              /\ Answers(c, "OUTCOME_UNKNOWN") /\ UNCHANGED tables
     \/ Answers(c, "ERROR") /\ UNCHANGED tables
  /\ UNCHANGED <<dbNow, memory, world>>

------------------------------------------------------------------------------
(* The owner.                                                              *)

\* The promise is registered and the executor entered up to its admission.
RunOwner(c) ==
  /\ At(c, "acquired")
  /\ inflight' = [inflight EXCEPT ![host[c]][KeyOf(c)] = c]
  /\ records' = [records EXCEPT ![host[c]] = @ \cup {IdOf(c)}]
  /\ GoTo(c, "queued")
  /\ UNCHANGED <<dbNow, tables, world>>

\* A fault: an owner that throws leaves no result.
Withdraw_NoResult(c) ==
  /\ At(c, "queued")
  /\ Ends(c, None)
  /\ UNCHANGED <<dbNow, tables, memory, world>>

\* A busy executor, a refused authorization, an open circuit or an event that
\* is not delivered end the execution before the tool is called.
Withdraw(c) ==
  /\ At(c, "queued")
  /\ \/ HasRecord(c) /\ Ends(c, "REJECTED")
     \/ Ends(c, "FAILED")
  /\ UNCHANGED <<dbNow, tables, memory, world>>

Dispatch(c) ==
  /\ At(c, "queued")
  /\ HasRecord(c)
  /\ tool' = [tool EXCEPT ![KeyOf(c)] = "sent"]
  /\ GoTo(c, "dispatched")
  /\ UNCHANGED <<dbNow, tables, memory, effects>>

\* A fault: an attempt that timed out is taken to have failed.
ToolReturns_TimeoutFails(c) ==
  /\ At(c, "dispatched")
  /\ \/ tool[KeyOf(c)] = "done" /\ Ends(c, "SUCCEEDED")
     \/ Ends(c, "FAILED")
  /\ UNCHANGED <<dbNow, tables, memory, world>>

\* The tool returns or is found to have acted; it is refused, or its answer
\* cannot be read, which counts as a failure too; or its outcome stays unclear
\* (a timeout, or an event that is not delivered after the effect).
ToolReturns(c) ==
  LET k == KeyOf(c) IN
  /\ At(c, "dispatched")
  /\ \/ HasRecord(c) /\ tool[k] = "done" /\ Ends(c, "SUCCEEDED")
     \/ HasRecord(c) /\ tool[k] \in {"refused", "done"} /\ Ends(c, "FAILED")
     \/ HasRecord(c) /\ Ends(c, "OUTCOME_UNKNOWN")
     \/ ~HasRecord(c) /\ Ends(c, "FAILED")
  /\ UNCHANGED <<dbNow, tables, memory, world>>

Renewable(c) ==
  /\ status[KeyOf(c)] = "IN_PROGRESS" /\ ownedBy[KeyOf(c)] = IdOf(c)
  /\ dbNow < ownerExpiresAt[KeyOf(c)]

\* A renewal succeeds, or counts as lost: it came too late, it failed, or its
\* answer did.
Heartbeat(c) ==
  /\ pc[c] \in {"queued", "dispatched", "ended"}
  /\ ~leaseLost[c]
  /\ \/ /\ Renewable(c)
        /\ ownerExpiresAt' = [ownerExpiresAt EXCEPT ![KeyOf(c)] = dbNow + Lease]
        /\ leaseLost' \in {leaseLost, [leaseLost EXCEPT ![c] = TRUE]}
     \/ /\ leaseLost' = [leaseLost EXCEPT ![c] = TRUE]
        /\ UNCHANGED ownerExpiresAt
  /\ UNCHANGED <<dbNow, execution, status, boundTo, ownedBy, memory, pc, host, req,
                 outcome, answer, world>>

\* The rows are as the owner left them.
Finalizable(c) ==
  /\ status[KeyOf(c)] = "IN_PROGRESS" /\ ownedBy[KeyOf(c)] = IdOf(c)
  /\ execution[IdOf(c)] = "RUNNING"

\* A fault: the verdict is recorded but the outcome reported.
Finalize_ReportsOutcome(c) ==
  /\ At(c, "ended")
  /\ IF Finalizable(c)
       THEN /\ execution' = [execution EXCEPT ![IdOf(c)] =
                 IF leaseLost[c] THEN "OUTCOME_UNKNOWN" ELSE outcome[c]]
            /\ status' = [status EXCEPT ![KeyOf(c)] =
                 IF leaseLost[c] THEN "OUTCOME_UNKNOWN" ELSE outcome[c]]
       ELSE UNCHANGED <<execution, status>>
  /\ Answers(c, outcome[c])
  /\ inflight' = [inflight EXCEPT ![host[c]][KeyOf(c)] = None]
  /\ UNCHANGED <<dbNow, boundTo, ownedBy, ownerExpiresAt, records, world>>

\* The verdict is recorded in both tables, unless it was recorded meanwhile.
\* An owner that lost its lease or its session does not know its outcome.
\* Where the transaction fails, the recorded result, if any, is reported.
Finalize(c) ==
  LET k == KeyOf(c) IN
  /\ At(c, "ended")
  /\ \/ /\ Finalizable(c)
        /\ \E v \in {outcome[c], "OUTCOME_UNKNOWN"} :
             /\ leaseLost[c] => v = "OUTCOME_UNKNOWN"
             /\ execution' = [execution EXCEPT ![IdOf(c)] = v]
             /\ status' = [status EXCEPT ![k] = v]
             /\ Answers(c, v) \/ Answers(c, "ERROR")
     \/ /\ execution[IdOf(c)] \in Final
        /\ Answers(c, execution[IdOf(c)])
        /\ UNCHANGED <<execution, status>>
     \/ Answers(c, "ERROR") /\ UNCHANGED <<execution, status>>
  /\ inflight' = [inflight EXCEPT ![host[c]][k] = None]
  /\ UNCHANGED <<dbNow, boundTo, ownedBy, ownerExpiresAt, records, world>>

------------------------------------------------------------------------------

\* A fault: the whole store is cleared.
Leave_ClearsStore(c) ==
  /\ At(c, "leaving")
  /\ records' = [records EXCEPT ![host[c]] = {}]
  /\ GoTo(c, "done")
  /\ UNCHANGED <<dbNow, tables, inflight, world>>

\* The executor's finally: whoever returns deletes the record of its identifier.
Leave(c) ==
  /\ At(c, "leaving")
  /\ records' = [records EXCEPT ![host[c]] = @ \ {IdOf(c)}]
  /\ GoTo(c, "done")
  /\ UNCHANGED <<dbNow, tables, inflight, world>>

\* A step of a call that has started.
Step(c) ==
  \/ Coordinate(c) \/ Follow(c) \/ Acquire(c)
  \/ RunOwner(c) \/ Withdraw(c) \/ Dispatch(c) \/ ToolReturns(c) \/ Finalize(c)
  \/ Leave(c)

Next ==
  \/ \E c \in Call : Start(c) \/ Step(c) \/ Heartbeat(c)
  \/ \E k \in Key : Effect(k) \/ Refuse(k)
  \/ \E h \in Host : Crash(h)
  \/ Tick

Spec == Init /\ [][Next]_vars

(***************************************************************************)
(* Fairness, for liveness only.  Queries, deliveries, the admission queue  *)
(* and the tool are all bounded by timeouts, after which the code goes on  *)
(* with an error.  Nothing forces time to pass, a service to act, a        *)
(* heartbeat to be in time or a host to die.                               *)
(***************************************************************************)
FairSpec == Spec /\ \A c \in Call : WF_vars(Step(c))

------------------------------------------------------------------------------
(* Properties.                                                             *)

(***************************************************************************)
(* The two tables never disagree, although the owner, the duplicates that  *)
(* give an expired owner up and late finalizations all write them: a key   *)
(* and its execution are in progress together and end alike, every         *)
(* execution that is recorded belongs to exactly one key, and the tool has *)
(* acted once at most, for a key that was claimed.                         *)
(***************************************************************************)
TablesAgree ==
  /\ \A k \in Key : status[k] # "ABSENT" =>
       /\ ownedBy[k] \in Execution
       /\ execution[ownedBy[k]] = IF status[k] = "IN_PROGRESS" THEN "RUNNING" ELSE status[k]
  /\ \A e \in Execution : execution[e] # "ABSENT" =>
       \E k \in Key : ownedBy[k] = e /\ \A l \in Key : ownedBy[l] = e => l = k
  /\ \A k \in Key : effects[k] <= 1 /\ (tool[k] # "none" => status[k] # "ABSENT")

(***************************************************************************)
(* Who is answered with a verdict, as the owner, a follower or a repeat,   *)
(* is answered with the verdict on record, or with an unknown outcome; and *)
(* a verdict but an unknown one is only told when it has been recorded     *)
(* (finalize, the lost reply of its commit, the promise of the leader).    *)
(***************************************************************************)
AnswersMatchVerdict ==
  \A c \in Call : answer[c] \in Final \ {"OUTCOME_UNKNOWN"} => status[KeyOf(c)] = answer[c]

\* While an owner executes, the store keeps its execution record: a replay
\* that is turned away does not touch it (executor.ts, "A conflicting replay
\* must never mutate the legitimate owner record").
OwnerRecordKept ==
  \A c \in Call : pc[c] \in {"queued", "dispatched"} => HasRecord(c)

(***************************************************************************)
(* Every step is a step of the ledger: the side effect of a key happens at *)
(* most once and only for a key that was claimed, whether callers race,    *)
(* the owner dies or its lease expires while it runs; no verdict is a      *)
(* success without it, and none is revised by a late owner, a duplicate or *)
(* a restarted process.                                                    *)
(***************************************************************************)
ImplementsLedger == Ledger!Spec

\* Every call on a host that stays up is answered, followers included.
EveryCallReturns == \A c \in Call : At(c, "coordinate") ~> pc[c] \in {"done", "dead"}
==============================================================================
