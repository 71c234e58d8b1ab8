# DriveGuard in TLA+

DriveGuard puts a language-model agent in a vehicle and keeps it from doing harm: every tool call passes a
deterministic policy, a confirmation by the user where the risk asks for it, and an executor that guarantees a
side effect is requested at most once. These modules model that machinery: the state machines, the transactions,
and what crashes, clocks, races and lost answers do to them.

## The system

The chain of one request:

    user or urgent event -> context -> capabilities -> agent runtime -> tool schema -> policy
       -> confirmation (action lifecycle) -> reliable executor -> vehicle simulator -> audit

| component | state it keeps | operations | interacts with | what makes it correct |
|---|---|---|---|---|
| action lifecycle (`packages/action-lifecycle`, `persistence/src/pending-action.ts`) | rows `pending_actions`, `execution_authorizations`; an advisory lock per action | create, confirm, resume, consume, reject, cancel, expire | runtime, executor, trusted channel, context loader, event sink | an authorization exists only for what its user confirmed in time and for an unchanged context; it is spent once; a broken confirmation fails closed |
| durable execution (`executor/src/executor.ts`, `persistence/src/execution.ts`) | rows `execution_records`, `idempotency_records`; per host the local flights and the `ExecutionRecordStore` | execute, acquire, heartbeat, finalize | runtime, urgent events, tools | at most one effect per key, a final and honest verdict, everybody answered |
| reliable executor (`packages/executor`) | attempts, circuit breaker, concurrency controller | attempt, retry, reconcile, admit | action lifecycle (consume), tools, event sink | no retry of an effect that may have happened; no unbounded queue; one write per vehicle |
| agent runtime and sessions (`packages/agent-runtime`, `persistence/src/session.ts`, `packages/memory`) | runs, the session lease, conversation turns | run, confirmAndExecute, cancel, heartbeat | everything above | one run per session acts; turns are not lost or doubled |
| urgent events (`packages/urgent-events`, `persistence/src/urgent-event.ts`) | `urgent_events` with a claim and its lease; broker deliveries | claim, complete, reject, redeliver, dead-letter | policy, confirmation, executor, NATS | an event is handled once or ends in the dead-letter queue, never both and never neither |
| policy (`packages/policy`) | rules, profiles, issued decisions | decide, consume | runtime, urgent events, executor | deny wins; what is decided rests on a context that is fresh and agrees with the plan's |
| context (`packages/context`) | versioned snapshots | build, compare, judge freshness | policy, revalidation | a conflict or a stale source is never taken for agreement |
| simulator (`services/vehicle-simulator`) | vehicle, trip, slots and reservations, idempotency keys, faults, reset epoch | the commands, reset, faults | tools, reconciler | slots and reservations add up; a keyed reservation is made once; nothing crosses a reset |
| API (`apps/api`) | admission counters and queue, the run and the runtime slot of each session, subscriptions | authenticate, admit, serve, cancel, drain | runtime, urgent events | capacity is accounted for; one run per session, cancelled only by its own; everything is answered or given up; the shutdown ends |
| tools, capabilities, domain, shared, observability, HMI | registries, types, metrics | lookups, formatting | - | - |

What is hard here: one confirmation is several transactions with deliveries and a context reload between them, on
two clocks; executions race over hosts with leases that expire under a running owner; a tool that timed out may act
later; replies of committed transactions are lost; events are redelivered; a vehicle moves between the decision and
the effect; clients disconnect at any await. `PROJECT.json` lists every such place
under "hazards", at its line.

## The modules

| module | what it is |
|---|---|
| `PendingAction` | the abstract lifecycle: the legal state graph and a single-use warrant, one step per operation |
| `ActionLifecycle` | the confirmation service: a call takes the advisory lock and commits its transactions one at a time; implements `PendingAction` |
| `ExecutionLedger` | the abstract promise of execution: one effect per key and a final, honest verdict |
| `DurableExecution` | the durable path of `execute` and its PostgreSQL coordinator; implements `ExecutionLedger` |
| `ConcurrencyController` | the admission of executions in one process: caps, serialization per vehicle, the bounded queue |
| `CircuitBreaker` | the circuit breaker of one dependency group, as functions of its entry |
| `ReliableExecutor` | the attempt loop at one dependency: classification, retry, reconciliation, failing events |
| `SessionLease` | the lease columns of a session row: acquire, renew, release, as functions of them |
| `AgentRuntime` | the runs and confirmations of one session under its lease: tool calls, transcript, cancellation, crashes |
| `UrgentEvents` | the events of a JetStream consumer: deliveries, claims, dispatch, recovery, verdicts, dead letters |
| `VehicleSimulator` | the simulator behind its routes, its faults and resets, and the client of the tools with its retries |
| `ToolDecision` | the tool calls of one run: exposure, context, policy, confirmation, revalidation, repair |
| `ApiRequests` | the requests of one API process: admission, handlers, disconnects, budgets, shutdown |
| `ActionLifecycleProofs`, `DurableExecutionProofs`, `ConcurrencyControllerProofs`, `ReliableExecutorProofs`, `AgentRuntimeProofs`, `UrgentEventsProofs`, `ToolDecisionProofs`, `ApiRequestsProofs` | the proofs about the module each is named after, and in `ReliableExecutorProofs` also those about `VehicleSimulator`, which executions call |
| `MCActionLifecycle`, `MCDurableExecution`, `MCConcurrencyController`, `MCReliableExecutor`, `MCAgentRuntime`, `MCUrgentEvents`, `MCVehicleSimulator`, `MCToolDecision`, `MCApiRequests` | instances for TLC |

How they fit: `ActionLifecycle` hands the authorization to the executor; `ReliableExecutor` with `CircuitBreaker` is what
happens inside one execution of `DurableExecution`, which in turn is what `UrgentEvents` and `AgentRuntime` see as a
call that succeeds, fails or dies; `SessionLease` is shared by the runs of `AgentRuntime`; `VehicleSimulator` is the
dependency that `ReliableExecutor` and `ToolDecision` leave to choice; `ApiRequests` sees a run of `AgentRuntime` as
something that may hang. Each boundary is nondeterministic in the caller's module and detailed in its own.

### ActionLifecycle

Variables named after columns are those columns, by action; a call of the service is a process `c` whose `pc[c]`
stands between two awaits. An action of the module is one transaction (`Insert`, `AcceptConfirmation`, `Authorize`,
`ConsumeAuthorization`, the `Transition`s) with the checks that precede it, or one await whose outcome the service
does not control (`EmitCreated`, `EmitAccepted`, `Revalidate`, `EmitReady`, `Publish`: each may fail). A repository
function that opens its own transaction while the service holds the lock is one step, and `Crash(c)` is possible
before and after each. `runExclusive` is `Acquire` ... `Return`. A token, a request binding and an identity are
right or wrong (`proof`, `user`); a context is a version and the value of its relevant paths. Times: `dbNow` is
PostgreSQL's clock; an application clock is read as anything within `ClockSkew` of it. `challenge` and `handedOff`
record who can present a token or an authorization; `acceptance`, `interrupted` and `spent` are history.

Properties: `CheckedRowIsCurrent` (what was read under the lock holds when it is acted on), `AuthorizationJustified`,
`SingleUse`, `InterruptedFailsClosed`, `ImplementsPendingAction`, and, with fairness, `EveryCallReturns`.

### DurableExecution

A call runs on a host. The tables are shared; `inflight` and `records` are memory of a host and vanish with it. The
acquisition transaction (`Acquire`: `Claim`, `Conflicts`, `AbandonOwner` or a recorded answer) and the finalization
(`Finalize`) are single steps, as both lock the row of the key; either may commit and lose its reply. The tool is
reached through `Dispatch`, the service behind it acts (`Effect`) or refuses at any later time, and the owner learns
of it, or does not, in `ToolReturns`. A heartbeat renews the lease or marks it lost at any moment. `Leave` is the
executor's `finally`. `boundTo` is a digest that stands for the action fingerprint and the request binding;
`RETRY_EXHAUSTED` counts as `FAILED`; the tool is not idempotent, so there is one attempt.

`execute` reaches this path with two kinds of execution identifier: the runtime draws a fresh one for every call
(`FreshIds`), the urgent-event dispatcher derives it from the event (`StableIds`). The runs cover both.

A verdict is honest in this sense: `SUCCEEDED` means the effect happened, `REJECTED` that it did not and will not,
`FAILED` that nothing further will happen (the tool may have acted and answered unreadably), and `OUTCOME_UNKNOWN`
claims nothing.

### ConcurrencyController

Every method runs to its end in JavaScript's single thread, so every method is a step. The queue is the set `waiting`
with `ahead[r]`, who stands before `r`. The loop of `#drain` is stated by whom it takes (`Startable`): the first
reads for which there is room, and the first writes among those that are first for a free vehicle. A request turned
away or timed out may ask again. Properties: the counters agree with who holds a permit and nobody waits for room that
is there (`PermitsAccounted`), a rival never overtakes (`NoOvertaking`), everybody leaves the queue
(`EveryWaiterLeaves`, which does not need the timers).

### ReliableExecutor and CircuitBreaker

An execution is what `#executeOwner` does between two awaits, an event delivery that is awaited may fail
(`AnnounceFails`, `ReportFails`), and the circuit is settled in the same step in which the tool's return is seen, as
in the code. Three kinds of execution are told apart: reads, `reserve_charging_slot` (the only tool declared
`IDEMPOTENT`), and every other side effect (`Plain`). A request stays in `sent` until the dependency acts on it or
refuses it, also after its attempt has been given up. The reconciler looks the station up (`Reconcile`), and the
verdict is drawn from its answer after two awaited deliveries (`Conclude`). It finds any active reservation at the
station, which somebody else may make or cancel at any time (`OthersReserve`), between the two as well; `seen` is
history, kept by `Watch`: the executions whose look-up found one, or in whose station one was made since. Instead of a
clock there is the age of a permit and the time a circuit has been open; failures and time are counted no further than
their thresholds. `Replayed` names executions whose record a conflicting replay may delete.

`ProbeAccounted` says who holds the half-open probe, that it is one at most (`OneProbe`), and that it is given back,
but for one case below. `OneProbe` rests on `AttemptTime < Cooldown`: tool timeouts are at most five seconds and the
cooldown is twenty, but the deliveries of events between permit and settlement have no timeout of their own in the
code, and this assumption says they are short. `HonestVerdicts` says that an effect is had once (`EffectOnce`) and
what a verdict is worth. `SUCCEEDED` means that the effect happened or, for a reservation, that the station was
reserved, by whomever, when it was looked up or since; it may be cancelled by the time the verdict is reached. `REJECTED`
means that nothing was asked for, and `FAILED` that nothing is under way, for effects that are not idempotent: an
idempotent one may be FAILED (open circuit, undeliverable retry event) while its first request, which reconciliation did not find, is
still under way.

### SessionLease and AgentRuntime

A request `x` is a call of `run` or of `confirmAndExecute`, served by one process; `OwnerOf[x]` is the run identifier
it takes the lease under. `lease.left` counts the ticks until `busyExpiresAt`; nothing ties the heartbeat to those
ticks, so it may be arbitrarily late (a stalled event loop, a waiting database), and a renewal may commit and answer
after the time the runtime gives it. `run` is split where it awaits: `Acquire`, `Restore`, `Enter`, `StartModel`,
`Prompt`, the tool calls (`CallTool`, `Judge`, `Execute`, in parallel), `PromptEnds`, `Settle`, `AppendTurn`,
`Announce`, and `Fail` for the catch and finally blocks. The last look for a cancellation or a lost lease is that of
`StartModel`; one that comes between it and `Prompt` finds no prompt to abort and is seen when the prompt has ended. A
heartbeat that loses the lease aborts the session of its process, whichever run prompts there (`Renew`, `HasSession`,
`Aborted`). What the model and the policy choose is any choice; a turn is named by its run, in the transcript of the
database and in the memory of the process alike. Every error code but `SESSION_BUSY` and `RUN_CANCELLED` is `FAILED`.
Redis does not appear: the fallback coordinator takes no decision from it. `holder`, `lapsed`, `refused` and `base`
are history; `Forget` drops what a request knew when it ends.

Properties: two requests overlap only if the lease of one ran out (`ExclusiveUnlessLapsed`); a turn is appended only
if none was since its run took the lease (`TurnsAreIsolated`, which is what the fence of `appendTurn` is for);
`MemoryFollowsOutcomes` (rollback, and one active run per process); `EndsHonestly`: no tool call of a run that has its
outcome is at work, though the flag `reliableExecutionInFlight` may have fallen early and the prompt been aborted
(`NothingAfterTheEnd`), and a success is not lost with the lease (`SuccessSurvivesLoss`). A failed run may leave its
turn in the database, when the failure follows the append: `MemoryFollowsOutcomes` allows it. No request waits for
another here, so there is no liveness to check.

### UrgentEvents

A message is delivered to a process `c`, whose `pc[c]` stands at an await of the handler or of `process`. The broker
has one message in flight (`max_ack_pending` 1), delivers it `MaxDeliver` times, after `AckWait` or the delay of a NAK,
and takes the acknowledgement of any delivery for the message; an acknowledgement may be lost. `row[e]` is the row of
an event: status, owner, the ticks its claim has left, and the fingerprint of its content. The claim is two statements,
`ClaimUpdate` and `ClaimRead`, as the second takes no lock; it is never renewed, so it may run out under a process that
goes on. Identifiers are derived from the event, so an execution, an action or a session found under them is that of an
earlier delivery: `Recover`, `ConfirmOrRecover`, `AcquireSession`. The context and the policy may give any plan that the
planner can make of the event's type. `told` are the events whose confirmation somebody was asked for. `overran`, `raced`
and `died` are history: claims that ran out under their owner, messages acknowledged after the race below, and messages
whose process died in the last delivery. Death and an envelope that cannot be published are one thing (`Crash`): the
consume loop rejects and nothing consumes until a restart.

Properties: `NoSilentLoss` (what the broker is done with has a verdict or an envelope), `HonestRecords` (an event
recorded `REJECTED` had no effect; a user is asked only about what is recorded as handled), `VerdictsStand` (a step
never changes a recorded verdict).

### VehicleSimulator

A mutation runs in one turn of the event loop, so a step is the arrival of a request, the end of an injected delay, or
a command of the control plane. A request is a caller and its attempt; `Submit`, `GiveUp` and `Retry` are the client of
`packages/tools` with the executor's retries, `Serve` the routes behind `withFault`, `Transition` the checked change of
state with the epoch that a reset raises. A setting is inside or outside its range; a place is a place. `applied`
remembers what a request did, in which epoch and since how many losses of the keys (`wipes`).

Properties: `StateAddsUp` (a station's free slots and its reservations are what it offers; what a request does it does
in the epoch it arrived in) and `RetriesAreSafe` (a key reserves once; a failure taken to have had no effect had none).
Known exceptions are in the properties: a reset that is refused has dropped the keys already (`http.ts:283`), and an
injected timeout answers 504 to a keyed reservation it has applied (`http.ts:46`), which the client calls a definite
failure.

### ToolDecision

One run. `plan` is the snapshot it plans with; `world` and `stamp` are the simulator's values and their timestamps on
a clock that may be ahead (`skew`); `call[c]` is a tool call with the reading it was judged on. The model calls any
exposed tool in parallel (`ModelCalls`); a call that acts reads the state (`ReadState`), is judged (`Judge`) by the
rules in their order over the input that the runtime provides, and is executed, refused, or turned into one pending
action (`Ask`, `Publish`). A user confirms (`Confirm`), the service reads again (`ReadCurrent`), and `Revalidate` and
`Perform` follow. An intent is a tool with its arguments (`Intent`): those the prompt binds, for which `None` stands,
or, of a tool in `Unbound`, whatever the model proposes (`ArgumentsOf`). If the challenge cannot be published the
action is cancelled; if that fails too, which the code swallows, the action is stranded: it awaits a confirmation
nobody can give, until it expires. Which routing rules match a prompt and which arguments it binds are constants. A
fact of the vehicle has two values, which is enough to agree or differ; capabilities and services may be lost.

Properties: `GroundedEffects` (every effect was decided on a reading made after the call, no older than its profile
allows, in which the facts its tool depends on are the plan's) and `OneChallengePerIntent` (the user has at most one
action to answer for a tool with its arguments; a stranded one may await its expiry beside it). The age is measured on
the runtime's clock, and the simulator's may hide as much as it is ahead. Age and facts are those of the decision; how
long the execution takes to follow it is not bounded here.

### ApiRequests

A request `r` stands at an await of the hooks or of its handler; what happens without an await is one step, above all
`Release`, which gives a permit back and wakes the queue. `running` is `#active` of the service, `slot` where a
session's cached runtime sends its events, `cancelledBy` what made the runtime cancel a run, `aborted` the runs whose
prompt was stopped. A run is found by `cancel` once it has its session (`opening`), and stopped by it once it prompts
(`PromptModel`, then `running`); a budget timer that fires earlier is `missed` and does not fire again. A run may
hang, a client may disconnect at any await, the timer of the budget fires at any time, and `Shutdown`,
`ShutdownExpires` and `Closed` are the stages of `gracefulShutdown` and `server.ts`. Routes other than messages,
streams and subscriptions are one await that succeeds or fails.

Properties: `CapacityAccounted`, `RunsApart` (one run in a session, whose events go to its own client and which only its
own client, its budget and the shutdown cancel), and with fairness `EveryRequestSettles`, whose one exception is a message
whose budget was missed.

## The runs

| run | bounds | shows |
|---|---|---|
| `lifecycle` | one action, two concurrent calls, owner and intruder, two context values, one change of version, TTLs and clock skew of one tick, one tick of time | the safety properties, the refinement, and that every call returns |
| `durable` | three calls with fresh identifiers, two hosts, one key, two bindings, lease one, two ticks | honest answers, the owner's record, the refinement of the ledger |
| `durable_shared_id` | two calls with one identifier, two hosts, two keys | the tables agree, every call is answered |
| `concurrency` | two readers, four writers to three vehicles, two of them rivals; room for one reader and two writers, a queue of two | admission, order and progress |
| `attempts` | a reservation, a plain side effect and a read; two attempts, two failures open the circuit, cooldown two | honest verdicts, one probe, every execution ends |
| `session` | two runs in one process, one with two parallel tool calls, one confirmation in another process; distinct owners, a lease of one tick, two turns of history | exclusion, isolated turns, memory, settled work |
| `urgent` | two messages under one event identifier, one of them no event, or not JSON; two processes, two deliveries, an acknowledge wait of one tick, claims of two | no silent loss, honest records, final verdicts |
| `vehicle` | three callers, two with one key, two stations, one of them with two slots; one fault of three kinds on two routes, one reset, a retry | the state adds up, retries are safe |
| `decision` | two calls of four tools (R0, R1, R2, R3), one of them with one of two arguments of the model's own; one fact that drifts once, one service that may be lost, skew of zero or one, three ticks | effects rest on fresh and agreeing context, one challenge per intent |
| `api` | a stream and a message in one session and a subscription or another request; two permits, a queue of one | capacity, one run per session, everything settles but a message whose budget ran out before the prompt |
| `durable_replay` | two calls, one identifier, two bindings, one host | a violation: see below |
| `urgent_ack` | one event, two processes | a violation: see below |

Why these bounds: an idle call may be submitted again, so two calls give any sequence of operations on an action, and
two are what a race needs (the properties relate one call to one other, and actions share nothing but the context).
One tick of lifetime and one of time put an expiry before, between and after any two steps; the theorems hold for any
number. The instance starts in one of the two context values, which are alike. In `durable` three calls of execute
give an owner, a duplicate that abandons it and a third that finds either; `execute` is one-shot in the three durable
runs, so a state where all have ended is legal and the deadlock check is off there, and in `session`, `urgent`,
`vehicle`, `decision` and `api`, whose requests are finite in number too. In `session` each request is made once: two
runs and a confirmation are what it takes for a holder whose lease ran out, a successor, and a third that the first's
release would let in. In `urgent` a second delivery is the last one, so each failure is met by a delivery that may be
repeated and by one that may not; a claim of two ticks outlives an acknowledge wait of one, so redelivery meets a live
claim and an expired one. In `vehicle` the retry of one caller races the other caller's request under the same key. In
`decision` two calls are what a duplicate, or a read and an effect, take, and two arguments tell a repeated intent
from another one; time three lets a reading become stale before and after it is judged. In `api` the two requests of
one session compete for it, and the third for the permits and the queue.

Symmetry is used over calls of execute, hosts, bindings, tool calls, proposed arguments and consumers of events
where no action tells them apart, and never with liveness.

Fairness: `FairSpec` of `ActionLifecycle` asks that every started step of a call ends (each query, delivery and load
returns or throws; if it throws the call dies) and that a waiter for an advisory lock is not passed over for ever
(PostgreSQL queues them). `FairSpec` of `DurableExecution` asks only that the steps of a call are taken: each is
bounded by a timeout in the code. `FairSpec` of `ConcurrencyController` asks that who holds a permit releases it,
which `execute` does in its `finally`; that of `ReliableExecutor` that the awaits of an execution end, the call by its
timeout. That of `ApiRequests` asks that awaits end, timers fire, and the sockets destroyed by the expired shutdown
close; a run surely ends only if its prompt has been aborted, since the model's provider may hang. Nothing makes
clients act, time pass, tools act, heartbeats arrive or hosts die.

### Divergences

`durable_replay` violates `OwnerRecordKept`. `executor.ts:196` says a conflicting replay must never mutate the
owner's record; in the durable path every caller's `finally` (`executor.ts:174-183`) deletes the record of its
`executionId`, so a replay with the owner's identifier and another binding removes the in-flight record, the owner's
next transition throws, and its execution is recorded `FAILED` although the tool may have acted. With fresh
identifiers (run `durable`) the property holds and so does the ledger; the runs with shared identifiers do not claim
the ledger.

`urgent_ack` violates `AckedIsSettled`. The read of a claim (`urgent-event.ts:116`) takes no lock, so it may see the
`FAILED` that the owner recorded after the update had found it at work. The delivery is then answered `DUPLICATE` and
acknowledged, and the event is neither handled nor dead-lettered, against ADR 0013 (line 50). `NoSilentLoss`, in
`urgent`, shows that this race and a death in the last delivery are the only ways to lose an event.

### Observations

Statements that fail, kept with a configuration that shows it, so that a change of the code can be tried against them:

| configuration (module) | statement | what happens |
|---|---|---|
| `ReliableExecutorReplay.cfg` (`MCReliableExecutor`) | `ProbeReleased` | the deletion of `durable_replay` while the owner holds the half-open probe: `addAttempt` throws before the circuit is settled, and the circuit denies every later call until the process restarts (ADR 0009, line 94, says a probe is released rather than stranded). `ProbeAccounted` shows it is the only way |
| `AgentRuntimeBusy.cfg` (`MCAgentRuntime`) | `SuccessIsNotBusy` | a lease found lost by the append of the turn, before the heartbeat reports it, turns a tool's success into `SESSION_BUSY`, retryable (`production-runtime.ts:1198`; the implementation status, line 1245, says it cannot) |
| `AgentRuntimeShared.cfg` (`MCAgentRuntime`) | `LeaseEndsWithHolder` | two confirmations of one action are one owner of the lease: the first, whose lease ran out, gives back that of the second (`production-runtime.ts:382`) |
| `ToolDecisionStale.cfg` (`MCToolDecision`) | `ReadsRefreshState` | a read refreshes nothing the policy looks at: a vehicle that has not changed keeps its old timestamp and stays stale (ADR 0007, line 53) |
| `ToolDecisionCancel.cfg` (`MCToolDecision`) | `CancelledBeforeDispatch` | the signal is checked before the policy decides; a cancellation during the decision does not stop the dispatch (`pi-tool-adapter.ts:112`) |
| `ApiRequestsLeak.cfg` (`MCApiRequests`) | `NothingLeaks` | a client that leaves while its request is authenticated or queued is not noticed: the close listener is registered after the close (`app.ts:116`), and the permit granted later is never given back (ADR 0018: capacity fails closed) |
| `ApiRequestsStray.cfg` (`MCApiRequests`) | `CancelledByItsOwn` | a stream whose client leaves while its session is looked up cancels the run of another request of that session (`routes.ts:173`; ADR 0011, lines 43-44) |

Met while modelling, without a configuration of their own: a budget timer that fires before the run has begun to
prompt is lost (`service.ts:281`, `production-runtime.ts:1036-1088`), and a prompt that hangs is then bounded by
nothing but the client and the shutdown, the exception of `EveryRequestSettles`; so is a disconnect at that time;
after a disconnect the permit is released while the run goes on, and a shutdown may close the stores under it; an
urgent subscription holds its permit as long as it lives, so a shutdown with a subscriber always expires; a redelivery
after a successful execution whose completion failed may record `REPLAN_REQUIRED`, "no Tool was executed"
(`processor.ts:161`); a second parallel call of a risky tool is told `CONFIRMATION_REQUIRED` while the first one's
publication fails (`production-runtime.ts:880`); a keyed repeat answers 201 with a reservation cancelled meanwhile
(`http.ts:221`); the `LATEST` requirement of profiles compares two loads of one loader and never fails by default
(`context-loader.ts:131`); any failure of the append other than a lost lease is `CONTEXT_LOAD_FAILED`, whose response
says that no action was executed; an idempotent execution may be `FAILED` while a request of its own is under way
(`executor.ts:688`); a process never sees the turns other processes append to a session it has restored
(`session.ts:217`).

## What is proved

Every safety invariant and every action property that a passing run checks is a theorem, for all values of the
constants that satisfy the named assumptions. In each proof module `IInv` is the
inductive invariant, one lemma per action shows that it is kept, `Invariance` is `Spec => []IInv`, and `TypeCorrect` is
`Spec => []TypeOK`. `VehicleSimulator`, whose proofs share a module with those of the executor that calls it, names its
specification `SimulatorSpec`, and its invariant and theorems accordingly.

**Action lifecycle** (`CheckedRowsAreCurrent`, `AuthorizationsAreJustified`, `AuthorizationsAreSingleUse`,
`InterruptedConfirmationsFailClosed`, `Refinement`): for every set of actions, calls, users and context values, every
skew and lifetime. Assumed: the owner of an action is a user, lifetimes and bounds are naturals, null is none of the
values of a column. `IInv` adds `LockHeld` (a call between `Acquire` and `Return` holds the lock of its action: mutual
exclusion, and why what a call read stays true), `CallFacts` (what a call carries from a check or a load to a later
transaction), `RowFacts` (a confirmed row has its acceptance, an authorization agrees with the original context, a
consumption is counted once) and `Orphaned` (no live call is past the acceptance of an interrupted confirmation). The
refinement maps `state` to `phase` and the two authorization columns to `warrant`, and needs `IInv` at `Authorize` and
`ConsumeAuthorization`.

**Durable execution** (`TablesAlwaysAgree`, `AnswersAreRecorded`, `OwnersKeepTheirRecords`, `Refinement`): for any
calls, hosts, keys and executions. `OneOwner` (one call at most executes under a key) and `OneKey` (an execution row
belongs to one key) hold whatever identifiers the calls share, and so do the agreement of the tables and the honesty
of answers. That an owner's record is kept, and that the calls implement `ExecutionLedger`, needs `FreshIds`: no two
calls carry the same execution identifier. It is a hypothesis of those two theorems because without it they are false,
as `durable_replay` shows.

**Concurrency controller** (`PermitsAreAccounted`, `QueueIsFair`): for any requests, tools, vehicles and caps. Every
operation ends in a drain, so the proof is about `Drain` alone: it takes from the line the first that fit, in order, the
counters follow the permits (`Accounts`), and after it nobody left in the line would fit.

**Reliable executor** (`ProbeIsAccounted`, `VerdictsAreHonest`): for any executions, attempts and thresholds.
`Knows(e)` is what an execution has learned of its request at each place of the loop, of the look-up of the reconciler
only that it found a reservation or that one was made since; it is what a verdict rests on, and it keeps an effect
from being repeated, however late the dependency acts. `CircuitOK` relates the circuit to the permits: who got its
permit of a closed circuit finds it closed, or open for no longer than the permit is old. Since an attempt ends within
`AttemptTime < Cooldown` (`ExecutorAssumption`), such a straggler never reports to a half-open circuit, and only the
probe settles it. An execution that lost its record in the circuit is the stated exception.

**Vehicle simulator** (`SlotsAlwaysAddUp`, `RetriesAreAlwaysSafe`, in `ReliableExecutorProofs`): for any callers,
commands, stations, keys, scenarios, attempts and resets. Every command is shown to leave the stations alone, to make
a reservation at a station that has none, or to take one away (`Follows`), so a station is always free or one slot
short (`StationOK`), and cardinalities appear only in the last step. `RequestOK` says that a request that waits has
done nothing, unless an injected timeout holds back the answer to a keyed reservation, and that what was applied under
a key since the keys were dropped is found there. Assumed: a command is one of the ten of the service (`Kinds`), null
is none of the values of a column.

**Agent runtime** (`MemoriesFollowOutcomes`, `RequestsEndHonestly`, `ExclusiveWithDistinctOwners`,
`LeasesEndWithTheirHolder`, `TurnsAreIsolatedByOwner`): for any runs, requests, owners and lease times. `RunOK`,
`RequestOK` and `MemoryOK` hold whatever the owners are. `LeaseInv` (who works has the lease, or lost it to time) is
proved for `DistinctOwners`: the owner of a run is generated, but the two confirmations of one action share theirs
(`production-runtime.ts:382`), and then the exclusion is only that of `AgentRuntimeShared.cfg`. `IsolatedInv` needs
`RunsOwnTheirLease`: no other run has the owner of a run. A confirmation reuses the owner only of a run that has
ended, because a challenge reaches the user after that (`apps/api/src/service.ts:292`). `LeasesEndWithTheirHolder`
states what no run checks: with distinct owners, a lease is taken away by time alone. `RuntimeAssumption` says that
`None` is no transcript.

**Urgent events** (`NothingIsLost`, `RecordsAreHonest`, `VerdictsAreFinal`): for any consumers, messages and events.
`WorkerOK` says what a worker knows between its claim and its acknowledgement, `EventOK` and `MessageOK` what a row
and a message remember: a message goes with a verdict or an envelope, or it is one of the two exceptions of
`NoSilentLoss`, a death in the last delivery (`died`) or the race of `urgent_ack` (`raced`). `Respects` what the steps
of one process leave to the others: their places, the content of a row, a final verdict. `FingerprintAssumption`, that
messages of one event with one fingerprint say the same, is the digest of `urgent-events/src/model.ts:132`.

**Tool decisions** (`EffectsAreGrounded`, `IntentsAreActedOnOnce`): for any number of calls, any exposure, any vehicle
and any simulator clock. The deciding rule is the first that applies (`FirstRule`), so a call that is let through passed
every rule before it (`Decided`): it had a context that offers what the tool needs, fresh, and equal to the plan's in the
tool's facts. A timestamp is at most `Lead` ahead of the clock (`NotAhead`), hence a fresh reading is also a young one
(`FreshIsYoung`). From there the invariant only has to say that a call keeps its reading, and that the plan stays once
it is loaded. `OneHolder` says that one call of an intent, a tool with its arguments, holds it, from before its first
await until its action is cancelled or stranded. `DriftAssumption` says that the vehicle changes by what it has.

**HTTP API** (`CapacityIsAccounted`, `RunsStayApart`): for any requests, sessions, routes and limits. The count is that
of the permits because nobody waits while there is room (`Count`), so a permit that goes back wakes the first in line or
nobody (`WokenIsFirst`). `RequestOK` says which places go with a permit and an open connection; a client that left before
admission is excepted there as in the property (`ApiRequestsLeak.cfg` shows why). `RunInv` ties a session to the one
request between `Begin` and `Settle`.

Only model-checked: liveness (`EveryCallReturns`, `EveryWaiterLeaves`, `EveryExecutionEnds`, `EveryRequestSettles`: the
prover has no fairness and no ENABLED). The findings are
counterexamples, which a run shows and a proof cannot.

## Not modelled, and the plan

Left out of the modelled components: the pool of database connections, the in-memory repositories, the execution path
without a durable coordinator, the conversation cache, the issuing and consuming of decision records, the critical-path
precheck, the parsing of prompts and arguments, the `LATEST` requirement, the fleet of simulators with its read routes,
the publisher of urgent events, eviction from the runtime cache, health and readiness.

What is left of the plan: abstract specifications of the session (one worker at a time and a transcript that only
grows) and of the admission (permits handed out in order), and their refinements by `AgentRuntime` and
`ConcurrencyController`.

Left out for good: HMI, evals, benchmarks, infrastructure and scripts (no state of the program), schemas
(static data), metrics, tracing and audit output, and the language model, whose tool calls are inputs.
