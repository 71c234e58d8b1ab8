--------------------------- MODULE ActionLifecycle ---------------------------
(***************************************************************************)
(* The confirmation service of DriveGuard over its PostgreSQL repository.  *)
(*                                                                         *)
(* A call of the service is a process.  It takes the advisory lock of its  *)
(* action, reads the row, and then commits one transaction after another,  *)
(* with event deliveries and a reload of the driving context in between;   *)
(* it may die between any two of those steps, which releases the lock and  *)
(* leaves whatever was committed.  Expiry is judged twice: on the clock of *)
(* the application host, which may be off by ClockSkew, and on the clock   *)
(* of the database, which is authoritative.                                *)
(***************************************************************************)
EXTENDS Integers

CONSTANTS
  Action,            \* action identifiers
  User,              \* user identities (session and user of a command)
  Owner,             \* Owner[a]: the identity action a is created for
  Call,              \* concurrent calls of the service
  Relevant,          \* values of the context paths relevant to the actions
  ConfirmationTtl,   \* lifetime of a confirmation challenge
  AuthorizationTtl,  \* lifetime of an execution authorization
  ClockSkew,         \* how far an application clock may be from the database's
  MaxTime,           \* bound on the database clock
  MaxVersion,        \* bound on the context version
  None               \* a null column

ASSUME ConstantsAssumption ==
  /\ Owner \in [Action -> User]
  /\ ConfirmationTtl \in Nat \ {0}
  /\ AuthorizationTtl \in Nat \ {0}
  /\ ClockSkew \in Nat
  /\ MaxTime \in Nat
  /\ MaxVersion \in Nat \ {0}

VARIABLES
  dbNow,             \* clock_timestamp() of the database
  context,           \* the current driving context: version and relevant paths
  \* columns of pending_actions and execution_authorizations, by action
  state, tokenHash, confirmationId, expiresAt, originalContext,
  authorization, consumed,
  lock,              \* holder of the advisory lock of each action
  pc, cmd,           \* where each call is, and its command
  loaded,            \* the context a call has loaded
  \* what the clients know
  challenge,         \* the confirmation token reached the trusted channel
  handedOff,         \* the authorization was returned to the runtime
  \* history
  acceptance,        \* who confirmed, when and at which context version
  interrupted,       \* a confirm call died between acceptance and outcome
  spent              \* authorizations handed to the executor's dispatch

row     == <<state, tokenHash, confirmationId, expiresAt, originalContext,
             authorization, consumed>>
world   == <<dbNow, context>>
known   == <<challenge, handedOff>>
history == <<acceptance, interrupted, spent>>
vars    == <<row, world, lock, pc, cmd, loaded, known, history>>

------------------------------------------------------------------------------

Op == {"create", "confirm", "resume", "consume", "reject", "cancel", "expire"}

\* proof: the token (confirm) or the request binding (consume) is the right one.
Command == [op : Op, action : Action, user : User, proof : BOOLEAN]

Context == [version : 1..MaxVersion, relevant : Relevant]

Authorization == [context : Context, expires : Nat]

Acceptance == [user : User, proof : BOOLEAN, at : Nat, version : 1..MaxVersion]

\* A null column is none of the values the column may hold.
ASSUME NullAssumption ==
  /\ None \notin Call
  /\ None \notin Context
  /\ None \notin Authorization
  /\ None \notin Acceptance

PC == {"idle", "insert", "emitCreated", "compensate", "publish", "waiting",
       "locked", "accept", "accepted", "revalidate", "abandon", "authorize",
       "ready", "consume"}

\* The places of a confirm call whose acceptance is committed and whose
\* outcome is not.
Accepted == {"accepted", "revalidate", "abandon", "authorize"}

PA == INSTANCE PendingAction
        WITH phase <- state,
             warrant <- [a \in Action |-> IF authorization[a] = None THEN "NONE"
                                          ELSE IF consumed[a] THEN "SPENT"
                                          ELSE "LIVE"]

ActionState == PA!ActionState

TypeOK ==
  /\ dbNow \in 0..MaxTime
  /\ context \in Context
  /\ state \in [Action -> ActionState \cup {"ABSENT"}]
  /\ tokenHash \in [Action -> BOOLEAN]
  /\ confirmationId \in [Action -> Call \cup {None}]
  /\ expiresAt \in [Action -> Nat]
  /\ originalContext \in [Action -> Context \cup {None}]
  /\ authorization \in [Action -> Authorization \cup {None}]
  /\ consumed \in [Action -> BOOLEAN]
  /\ lock \in [Action -> Call \cup {None}]
  /\ pc \in [Call -> PC]
  /\ cmd \in [Call -> Command \cup {None}]
  /\ \A c \in Call : pc[c] # "idle" => cmd[c] \in Command
  /\ loaded \in [Call -> Context \cup {None}]
  /\ challenge \in [Action -> BOOLEAN]
  /\ handedOff \in [Action -> BOOLEAN]
  /\ acceptance \in [Action -> Acceptance \cup {None}]
  /\ interrupted \in [Action -> BOOLEAN]
  /\ spent \in [Action -> Nat]

Init ==
  /\ dbNow = 0
  /\ context \in {k \in Context : k.version = 1}
  /\ state = [a \in Action |-> "ABSENT"]
  /\ tokenHash = [a \in Action |-> FALSE]
  /\ confirmationId = [a \in Action |-> None]
  /\ expiresAt = [a \in Action |-> 0]
  /\ originalContext = [a \in Action |-> None]
  /\ authorization = [a \in Action |-> None]
  /\ consumed = [a \in Action |-> FALSE]
  /\ lock = [a \in Action |-> None]
  /\ pc = [c \in Call |-> "idle"]
  /\ cmd = [c \in Call |-> None]
  /\ loaded = [c \in Call |-> None]
  /\ challenge = [a \in Action |-> FALSE]
  /\ handedOff = [a \in Action |-> FALSE]
  /\ acceptance = [a \in Action |-> None]
  /\ interrupted = [a \in Action |-> FALSE]
  /\ spent = [a \in Action |-> 0]

------------------------------------------------------------------------------
(* Steps every operation is made of.                                       *)

Act(c) == cmd[c].action

At(c, place) == pc[c] = place

\* The call holds the lock of its action and is about to run its operation.
Runs(c, op) == pc[c] = "locked" /\ cmd[c].op = op

\* Go on to another step of the same call.
GoTo(c, place) ==
  /\ pc' = [pc EXCEPT ![c] = place]
  /\ UNCHANGED <<lock, cmd>>

\* A fault: runExclusive without its finally.
Return_KeepsLock(c) ==
  /\ pc' = [pc EXCEPT ![c] = "idle"]
  /\ cmd' = [cmd EXCEPT ![c] = None]
  /\ loaded' = [loaded EXCEPT ![c] = None]
  /\ UNCHANGED lock

\* Return or throw: runExclusive unlocks in its finally.
Return(c) ==
  /\ pc' = [pc EXCEPT ![c] = "idle"]
  /\ cmd' = [cmd EXCEPT ![c] = None]
  /\ loaded' = [loaded EXCEPT ![c] = None]
  /\ lock' = [a \in Action |-> IF lock[a] = c THEN None ELSE lock[a]]

\* The readings an application clock may give.
AppClock == (dbNow - ClockSkew)..(dbNow + ClockSkew)

ExpiredForApp(a) == \E t \in AppClock : t >= expiresAt[a]
PendingForApp(a) == \E t \in AppClock : t < expiresAt[a]

CanMove(a, next) == <<state[a], next>> \in PA!LegalTransition

\* A fault: the state graph is not consulted.
Transition_Unchecked(a, next) ==
  /\ state' = [state EXCEPT ![a] = next]
  /\ UNCHANGED <<tokenHash, confirmationId, expiresAt, originalContext,
                 authorization, consumed>>

\* A transition of the repository: it throws unless the state graph has the
\* move, and touches no column but the state.
Transition(a, next) ==
  /\ state' = IF CanMove(a, next) THEN [state EXCEPT ![a] = next] ELSE state
  /\ UNCHANGED <<tokenHash, confirmationId, expiresAt, originalContext,
                 authorization, consumed>>

Identified(c) == cmd[c].user = Owner[Act(c)]

------------------------------------------------------------------------------
(* Commands arrive, the clock and the vehicle move, calls die.             *)

\* A token is presented rightly only by who received the challenge, and an
\* authorization only by who was handed it.
Submit(c) ==
  /\ At(c, "idle")
  /\ \E k \in Command :
       /\ k.proof => \/ k.op = "confirm" /\ challenge[k.action]
                     \/ k.op = "consume" /\ handedOff[k.action]
       /\ k.op \in {"create", "expire"} => k.user = Owner[k.action]
       /\ cmd' = [cmd EXCEPT ![c] = k]
       /\ pc' = [pc EXCEPT ![c] = IF k.op = "create" THEN "insert" ELSE "waiting"]
       /\ loaded' = [loaded EXCEPT ![c] = IF k.op = "create" THEN context ELSE None]
  /\ UNCHANGED <<row, world, lock, known, history>>

Tick ==
  /\ dbNow < MaxTime
  /\ dbNow' = dbNow + 1
  /\ UNCHANGED <<context, row, lock, pc, cmd, loaded, known, history>>

\* The vehicle reports a new state; the relevant paths may or may not change.
ContextChange ==
  /\ context.version < MaxVersion
  /\ \E r \in Relevant :
        context' = [version |-> context.version + 1, relevant |-> r]
  /\ UNCHANGED <<dbNow, row, lock, pc, cmd, loaded, known, history>>

\* The process dies or a query fails: what was committed stays.
Crash(c) ==
  /\ ~At(c, "idle")
  /\ Return(c)
  /\ interrupted' = [interrupted EXCEPT ![Act(c)] = @ \/ pc[c] \in Accepted]
  /\ UNCHANGED <<row, world, known, acceptance, spent>>

\* A fault: the lock is not waited for.
Acquire_Shared(c) ==
  /\ At(c, "waiting")
  /\ lock' = [lock EXCEPT ![Act(c)] = c]
  /\ pc' = [pc EXCEPT ![c] = "locked"]
  /\ UNCHANGED <<row, world, cmd, loaded, known, history>>

\* The advisory lock of the action is granted.
Acquire(c) ==
  /\ At(c, "waiting")
  /\ lock[Act(c)] = None
  /\ lock' = [lock EXCEPT ![Act(c)] = c]
  /\ pc' = [pc EXCEPT ![c] = "locked"]
  /\ UNCHANGED <<row, world, cmd, loaded, known, history>>

------------------------------------------------------------------------------
(* create: insert the row, announce it, publish the challenge.             *)

\* The row is inserted with the database's clock, or the identifier is taken.
Insert(c) ==
  LET a == Act(c) IN
  /\ At(c, "insert")
  /\ IF state[a] = "ABSENT"
       THEN /\ state' = [state EXCEPT ![a] = "AWAITING_CONFIRMATION"]
            /\ tokenHash' = [tokenHash EXCEPT ![a] = TRUE]
            /\ expiresAt' = [expiresAt EXCEPT ![a] = dbNow + ConfirmationTtl]
            /\ originalContext' = [originalContext EXCEPT ![a] = loaded[c]]
            /\ UNCHANGED <<confirmationId, authorization, consumed>>
            /\ GoTo(c, "emitCreated") /\ UNCHANGED loaded
       ELSE Return(c) /\ UNCHANGED row
  /\ UNCHANGED <<world, known, history>>

\* The creation event is delivered, or the creation is to be undone.
EmitCreated(c) ==
  /\ At(c, "emitCreated")
  /\ \/ GoTo(c, "publish")
     \/ GoTo(c, "compensate")
  /\ UNCHANGED <<row, world, loaded, known, history>>

\* The undo takes the lock for its own transaction only.
Compensate(c) ==
  /\ At(c, "compensate")
  /\ lock[Act(c)] = None
  /\ Transition(Act(c), "CANCELLED")
  /\ Return(c)
  /\ UNCHANGED <<world, known, history>>

\* The runtime publishes the challenge on the trusted channel, or cancels.
Publish(c) ==
  /\ At(c, "publish")
  /\ \/ /\ challenge' = [challenge EXCEPT ![Act(c)] = TRUE]
        /\ Return(c)
     \/ /\ cmd' = [cmd EXCEPT ![c].op = "cancel"]
        /\ pc' = [pc EXCEPT ![c] = "waiting"]
        /\ UNCHANGED <<challenge, lock, loaded>>
  /\ UNCHANGED <<row, world, handedOff, history>>

------------------------------------------------------------------------------
(* confirm: accept the token, revalidate, authorize.                       *)

\* A confirmation a dead call left half done.
Interrupted(a) ==
  state[a] = "CONFIRMED" /\ ~tokenHash[a] /\ confirmationId[a] # None

\* A fault: the half-done confirmation is taken up where it was left.
RecoverInterrupted_Continue(c) ==
  /\ Runs(c, "confirm")
  /\ Interrupted(Act(c))
  /\ GoTo(c, "revalidate")
  /\ UNCHANGED <<row, world, loaded, known, history>>

RecoverInterrupted(c) ==
  /\ Runs(c, "confirm")
  /\ Interrupted(Act(c))
  /\ Transition(Act(c), "REPLAN_REQUIRED")
  /\ Return(c)
  /\ UNCHANGED <<world, known, history>>

\* Not awaiting, wrong identity or wrong token: nothing is written.
RefuseConfirm(c) ==
  LET a == Act(c) IN
  /\ Runs(c, "confirm")
  /\ ~Interrupted(a)
  /\ \/ state[a] # "AWAITING_CONFIRMATION"
     \/ PendingForApp(a) /\ ~(Identified(c) /\ tokenHash[a] /\ cmd[c].proof)
  /\ Return(c)
  /\ UNCHANGED <<row, world, known, history>>

ExpireOnConfirm(c) ==
  /\ Runs(c, "confirm")
  /\ state[Act(c)] = "AWAITING_CONFIRMATION"
  /\ ExpiredForApp(Act(c))
  /\ Transition(Act(c), "EXPIRED")
  /\ Return(c)
  /\ UNCHANGED <<world, known, history>>

AdmitConfirm(c) ==
  LET a == Act(c) IN
  /\ Runs(c, "confirm")
  /\ state[a] = "AWAITING_CONFIRMATION"
  /\ PendingForApp(a)
  /\ Identified(c) /\ tokenHash[a] /\ cmd[c].proof
  /\ GoTo(c, "accept")
  /\ UNCHANGED <<row, world, loaded, known, history>>

\* A fault: only the application's clock guards the acceptance.
AcceptConfirmation_NoExpiry(c) ==
  LET a == Act(c) IN
  /\ At(c, "accept")
  /\ state' = [state EXCEPT ![a] = "CONFIRMED"]
  /\ tokenHash' = [tokenHash EXCEPT ![a] = FALSE]
  /\ confirmationId' = [confirmationId EXCEPT ![a] = c]
  /\ acceptance' = [acceptance EXCEPT ![a] =
       [user |-> cmd[c].user, proof |-> cmd[c].proof,
        at |-> dbNow, version |-> context.version]]
  /\ GoTo(c, "accepted")
  /\ UNCHANGED <<loaded, expiresAt, originalContext, authorization, consumed,
                 world, known, interrupted, spent>>

\* The acceptance transaction: it spends the token, unless the challenge has
\* expired on the database's clock or the row is no longer as it was read.
AcceptConfirmation(c) ==
  LET a == Act(c) IN
  /\ At(c, "accept")
  /\ IF state[a] = "AWAITING_CONFIRMATION" /\ dbNow < expiresAt[a]
           /\ tokenHash[a] /\ confirmationId[a] = None
       THEN /\ state' = [state EXCEPT ![a] = "CONFIRMED"]
            /\ tokenHash' = [tokenHash EXCEPT ![a] = FALSE]
            /\ confirmationId' = [confirmationId EXCEPT ![a] = c]
            /\ UNCHANGED <<expiresAt, originalContext, authorization, consumed>>
            /\ acceptance' = [acceptance EXCEPT ![a] =
                 [user |-> cmd[c].user, proof |-> cmd[c].proof,
                  at |-> dbNow, version |-> context.version]]
            /\ GoTo(c, "accepted") /\ UNCHANGED loaded
       ELSE /\ IF dbNow >= expiresAt[a] THEN Transition(a, "EXPIRED") ELSE UNCHANGED row
            /\ Return(c)
            /\ UNCHANGED acceptance
  /\ UNCHANGED <<world, known, interrupted, spent>>

\* The acceptance is announced, or the action is to be replanned.
EmitAccepted(c) ==
  /\ At(c, "accepted")
  /\ \/ GoTo(c, "revalidate")
     \/ GoTo(c, "abandon")
  /\ UNCHANGED <<row, world, loaded, known, history>>

\* A fault: a context that failed to load is taken for an unchanged one.
Revalidate_Unloaded(c) ==
  /\ At(c, "revalidate")
  /\ loaded' = [loaded EXCEPT ![c] = None]
  /\ GoTo(c, "authorize")
  /\ UNCHANGED <<row, world, known, history>>

\* The context is loaded anew.  It is valid only if no relevant path differs
\* from the original; it may be refused for other reasons (stale, a missing
\* tool, capability or service, no fresh authorization id).
Revalidate(c) ==
  /\ At(c, "revalidate")
  /\ loaded' = [loaded EXCEPT ![c] = context]
  /\ \/ /\ context.relevant = originalContext[Act(c)].relevant
        /\ GoTo(c, "authorize")
     \/ GoTo(c, "abandon")
  /\ UNCHANGED <<row, world, known, history>>

Abandon(c) ==
  /\ At(c, "abandon")
  /\ Transition(Act(c), "REPLAN_REQUIRED")
  /\ Return(c)
  /\ UNCHANGED <<world, known, history>>

\* The authorization row and the move to READY_FOR_EXECUTION commit together.
Authorize(c) ==
  LET a == Act(c) IN
  /\ At(c, "authorize")
  /\ IF authorization[a] = None /\ CanMove(a, "READY_FOR_EXECUTION")
       THEN /\ state' = [state EXCEPT ![a] = "READY_FOR_EXECUTION"]
            /\ authorization' = [authorization EXCEPT ![a] =
                 [context |-> loaded[c], expires |-> dbNow + AuthorizationTtl]]
            /\ UNCHANGED <<tokenHash, confirmationId, expiresAt, originalContext, consumed>>
            /\ GoTo(c, "ready") /\ UNCHANGED loaded
       ELSE Return(c) /\ UNCHANGED row
  /\ UNCHANGED <<world, known, history>>

\* A failed announcement throws, and leaves the action READY_FOR_EXECUTION.
EmitReady(c) ==
  /\ At(c, "ready")
  /\ \/ handedOff' = [handedOff EXCEPT ![Act(c)] = TRUE]
     \/ UNCHANGED handedOff
  /\ Return(c)
  /\ UNCHANGED <<row, world, challenge, history>>

------------------------------------------------------------------------------
(* resume and consume: the hand-off to the executor.                       *)

Resume(c) ==
  LET a == Act(c) IN
  /\ Runs(c, "resume")
  /\ handedOff' = [handedOff EXCEPT ![a] =
       \/ @
       \/ /\ Identified(c)
          /\ state[a] = "READY_FOR_EXECUTION"
          /\ authorization[a] # None]
  /\ Return(c)
  /\ UNCHANGED <<row, world, challenge, history>>

\* The service's verification, on the application clock and the row it read.
Verified(c) ==
  LET a == Act(c) IN
  /\ state[a] = "READY_FOR_EXECUTION"
  /\ authorization[a] # None
  /\ ~consumed[a]
  /\ Identified(c) /\ cmd[c].proof

VerifyAuthorization(c) ==
  /\ Runs(c, "consume")
  /\ \/ /\ Verified(c)
        /\ \E t \in AppClock : t < authorization[Act(c)].expires
        /\ GoTo(c, "consume") /\ UNCHANGED loaded
     \/ /\ Verified(c) => \E t \in AppClock : t >= authorization[Act(c)].expires
        /\ Return(c)
  /\ UNCHANGED <<row, world, known, history>>

\* A fault: the consumption is not recorded.
ConsumeAuthorization_Unmarked(c) ==
  LET a == Act(c) IN
  /\ At(c, "consume")
  /\ spent' = [spent EXCEPT ![a] = @ + 1]
  /\ Return(c)
  /\ UNCHANGED <<row, world, known, acceptance, interrupted>>

\* The conditional update that spends the authorization.
ConsumeAuthorization(c) ==
  LET a == Act(c) IN
  /\ At(c, "consume")
  /\ IF authorization[a] # None /\ ~consumed[a] /\ dbNow < authorization[a].expires
       THEN /\ consumed' = [consumed EXCEPT ![a] = TRUE]
            /\ spent' = [spent EXCEPT ![a] = @ + 1]
       ELSE UNCHANGED <<consumed, spent>>
  /\ Return(c)
  /\ UNCHANGED <<state, tokenHash, confirmationId, expiresAt, originalContext,
                 authorization, world, known, acceptance, interrupted>>

------------------------------------------------------------------------------
(* reject, cancel and expire.                                              *)

\* The user's terminal decision; no token is asked for.
Terminal(c, op, next) ==
  /\ Runs(c, op)
  /\ IF state[Act(c)] = "AWAITING_CONFIRMATION" /\ Identified(c)
       THEN Transition(Act(c), next)
       ELSE UNCHANGED row
  /\ Return(c)
  /\ UNCHANGED <<world, known, history>>

Reject(c) == Terminal(c, "reject", "REJECTED")

Cancel(c) == Terminal(c, "cancel", "CANCELLED")

Expire(c) ==
  LET a == Act(c) IN
  /\ Runs(c, "expire")
  /\ \/ /\ state[a] = "AWAITING_CONFIRMATION"
        /\ ExpiredForApp(a)
        /\ Transition(a, "EXPIRED")
     \/ /\ state[a] = "AWAITING_CONFIRMATION" => PendingForApp(a)
        /\ UNCHANGED row
  /\ Return(c)
  /\ UNCHANGED <<world, known, history>>

------------------------------------------------------------------------------

\* The steps of a call that has been submitted, its death apart.
Step(c) ==
  \/ Insert(c) \/ EmitCreated(c) \/ Compensate(c) \/ Publish(c)
  \/ RecoverInterrupted(c) \/ RefuseConfirm(c) \/ ExpireOnConfirm(c) \/ AdmitConfirm(c)
  \/ AcceptConfirmation(c) \/ EmitAccepted(c) \/ Revalidate(c) \/ Abandon(c)
  \/ Authorize(c) \/ EmitReady(c)
  \/ Resume(c) \/ VerifyAuthorization(c) \/ ConsumeAuthorization(c)
  \/ Reject(c) \/ Cancel(c) \/ Expire(c)

Next ==
  \/ \E c \in Call : Submit(c) \/ Acquire(c) \/ Step(c) \/ Crash(c)
  \/ Tick
  \/ ContextChange

Spec == Init /\ [][Next]_vars

(***************************************************************************)
(* Fairness, for liveness only.  Every query, event delivery and context   *)
(* load either completes or fails (then the call dies); PostgreSQL queues  *)
(* the waiters of an advisory lock, so a waiter is not passed over for     *)
(* ever.  Nothing forces a client to submit, or a call to die.             *)
(***************************************************************************)
Fairness ==
  \A c \in Call :
    /\ WF_vars(Step(c))
    /\ SF_vars(Acquire(c))
    /\ SF_vars(Compensate(c))

FairSpec == Spec /\ Fairness

------------------------------------------------------------------------------
(* Properties.                                                             *)

(***************************************************************************)
(* What a call read under the lock still holds when it acts on it after    *)
(* later transactions, event deliveries and context loads of its own: an   *)
(* admitted confirm finds the action awaiting, an accepted one finds the   *)
(* confirmation its own, no authorization issued, and a call verified for  *)
(* consumption finds the authorization unspent.                            *)
(***************************************************************************)
CheckedRowIsCurrent ==
  \A c \in Call :
    LET a == Act(c) IN
    /\ pc[c] = "accept" => state[a] = "AWAITING_CONFIRMATION" /\ tokenHash[a]
    /\ pc[c] \in Accepted =>
         state[a] = "CONFIRMED" /\ confirmationId[a] = c /\ authorization[a] = None
    /\ pc[c] = "consume" =>
         state[a] = "READY_FOR_EXECUTION" /\ authorization[a] # None /\ ~consumed[a]

(***************************************************************************)
(* Whatever the skew of the application clocks, the crashes and the races  *)
(* with reject, cancel and expire: an authorization exists only for an     *)
(* action its own user confirmed with its own token before it expired on   *)
(* the database's clock, and it is bound to a context loaded after the     *)
(* confirmation that agrees with the original on every relevant path.      *)
(***************************************************************************)
AuthorizationJustified ==
  \A a \in Action : authorization[a] # None =>
    /\ acceptance[a] # None
    /\ acceptance[a].user = Owner[a] /\ acceptance[a].proof
    /\ acceptance[a].at < expiresAt[a]
    /\ authorization[a].context.version >= acceptance[a].version
    /\ authorization[a].context.relevant = originalContext[a].relevant

(***************************************************************************)
(* Of all the executions that race to consume an authorization, across     *)
(* crashes and resumes, at most one obtains it, and none without one.      *)
(***************************************************************************)
SingleUse ==
  \A a \in Action :
    /\ spent[a] <= 1
    /\ spent[a] > 0 => authorization[a] # None /\ state[a] = "READY_FOR_EXECUTION"

(***************************************************************************)
(* A confirmation whose call died fails closed: the only state it ever     *)
(* reaches is REPLAN_REQUIRED, never READY_FOR_EXECUTION.                  *)
(***************************************************************************)
InterruptedFailsClosed ==
  \A a \in Action : interrupted[a] =>
    state[a] \in {"CONFIRMED", "REPLAN_REQUIRED"} /\ authorization[a] = None

\* Every operation is a step, or a stutter, of the abstract lifecycle.
ImplementsPendingAction == PA!Spec

(***************************************************************************)
(* No call is left waiting for ever behind the lock of its action: every   *)
(* call that is submitted returns, throws or dies.                         *)
(***************************************************************************)
EveryCallReturns == \A c \in Call : ~At(c, "idle") ~> At(c, "idle")
==============================================================================
