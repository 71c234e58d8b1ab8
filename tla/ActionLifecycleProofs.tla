----------------------- MODULE ActionLifecycleProofs -----------------------
(***************************************************************************)
(* Proofs about ActionLifecycle, for every set of actions, calls and       *)
(* users, every clock skew and every lifetime of challenges and            *)
(* authorizations.                                                         *)
(*                                                                         *)
(* The argument is mutual exclusion: a call between Acquire and Return     *)
(* holds the lock of its action (LockHeld), so what it read and committed  *)
(* there stands until its next transaction (CheckedRowIsCurrent); what it  *)
(* carries along (CallFacts) and what the row remembers (RowFacts) then    *)
(* justify the authorization, and a confirmation without its call          *)
(* (Orphaned) has nobody left to take it to READY_FOR_EXECUTION.           *)
(***************************************************************************)
EXTENDS ActionLifecycle, TLAPS

\* The places where a call is inside runExclusive.
Holding == {"locked", "accept", "ready", "consume"} \cup Accepted

LockHeld == \A c \in Call : pc[c] \in Holding => lock[Act(c)] = c

\* What a call has checked, or loaded, and carries to a later transaction.
CallFacts ==
  \A c \in Call :
    /\ pc[c] = "accept" => Identified(c) /\ cmd[c].proof
    /\ pc[c] = "authorize" =>
         /\ loaded[c] \in Context
         /\ loaded[c].relevant = originalContext[Act(c)].relevant
         /\ loaded[c].version >= acceptance[Act(c)].version

\* The confirmation of an action, where one is recorded.
Confirmed(a) ==
  /\ acceptance[a] \in Acceptance
  /\ acceptance[a].user = Owner[a] /\ acceptance[a].proof
  /\ acceptance[a].at < expiresAt[a]
  /\ acceptance[a].version <= context.version

RowFacts ==
  \A a \in Action :
    /\ state[a] \in {"CONFIRMED", "REPLAN_REQUIRED", "READY_FOR_EXECUTION"} => Confirmed(a)
    /\ authorization[a] # None =>
         /\ state[a] = "READY_FOR_EXECUTION"
         /\ authorization[a].context.version >= acceptance[a].version
         /\ authorization[a].context.relevant = originalContext[a].relevant
    /\ consumed[a] => authorization[a] # None
    /\ spent[a] = IF consumed[a] THEN 1 ELSE 0

\* No live call is past the acceptance of an interrupted confirmation.
Orphaned ==
  \A a \in Action : interrupted[a] =>
    /\ state[a] \in {"CONFIRMED", "REPLAN_REQUIRED"}
    /\ authorization[a] = None
    /\ \A c \in Call : pc[c] \in Accepted => Act(c) # a

IInv ==
  /\ TypeOK
  /\ LockHeld
  /\ CheckedRowIsCurrent
  /\ CallFacts
  /\ RowFacts
  /\ Orphaned

------------------------------------------------------------------------------
(* Facts about the operators the actions are made of.                      *)

\* The state graph, move by move.
LEMMA Moves ==
  ASSUME NEW s, NEW t
  PROVE  <<s, t>> \in PA!LegalTransition <=>
           \/ /\ s = "AWAITING_CONFIRMATION"
              /\ t \in {"CONFIRMED", "CANCELLED", "EXPIRED", "REJECTED"}
           \/ /\ s = "CONFIRMED"
              /\ t \in {"REPLAN_REQUIRED", "READY_FOR_EXECUTION"}
BY DEF PA!LegalTransition

\* A call under way has a command.
LEMMA Commanded ==
  ASSUME TypeOK, NEW c \in Call, pc[c] # "idle"
  PROVE  Act(c) \in Action /\ cmd[c] \in Command
BY DEF TypeOK, Act, Command

\* Mutual exclusion: calls inside runExclusive are inside it for different actions.
LEMMA Exclusive ==
  ASSUME LockHeld, NEW c \in Call, NEW d \in Call, c # d,
         pc[c] \in Holding, pc[d] \in Holding
  PROVE  Act(c) # Act(d)
BY DEF LockHeld

\* A returning call lets go of its lock and of nobody else's.
LEMMA Returned ==
  ASSUME TypeOK, LockHeld, NEW c \in Call, Return(c)
  PROVE  /\ LockHeld'
         /\ lock' \in [Action -> Call \cup {None}]
         /\ pc' = [pc EXCEPT ![c] = "idle"]
         /\ cmd' \in [Call -> Command \cup {None}]
         /\ loaded' \in [Call -> Context \cup {None}]
         /\ \A d \in Call : pc'[d] # "idle" =>
              /\ d # c /\ pc'[d] = pc[d] /\ cmd'[d] = cmd[d]
              /\ loaded'[d] = loaded[d] /\ Act(d)' = Act(d)
<1>1. \A d \in Call : pc'[d] # "idle" =>
        /\ d # c /\ pc'[d] = pc[d] /\ cmd'[d] = cmd[d]
        /\ loaded'[d] = loaded[d] /\ Act(d)' = Act(d)
  BY DEF Return, TypeOK, Act
<1>2. LockHeld'
  BY <1>1, Commanded DEF Return, TypeOK, LockHeld, Holding, Accepted
<1> QED BY <1>1, <1>2 DEF Return, TypeOK

\* RowFacts and Orphaned speak of the rows, the context and the accepted
\* calls: a step that leaves the first two alone and accepts nothing keeps them.
LEMMA QuietRow ==
  ASSUME IInv, UNCHANGED <<row, context, acceptance, interrupted, spent>>,
         \A d \in Call : pc'[d] \in Accepted => pc[d] \in Accepted /\ Act(d)' = Act(d)
  PROVE  RowFacts' /\ Orphaned'
<1>1. RowFacts' BY DEF IInv, RowFacts, Confirmed, row
<1>2. Orphaned' BY DEF IInv, Orphaned, row
<1> QED BY <1>1, <1>2

------------------------------------------------------------------------------
(* The two ways most steps end.                                            *)

\* A call that returns without writing a row.
LEMMA ReturnQuietly ==
  ASSUME IInv, NEW c \in Call, Return(c), UNCHANGED <<row, world, challenge, history>>,
         handedOff' \in [Action -> BOOLEAN]
  PROVE  IInv'
<1>1. TypeOK'
  BY Returned DEF IInv, TypeOK, row, world, history, PC
<1>2. LockHeld'
  BY Returned DEF IInv
<1>3. CheckedRowIsCurrent'
  BY Returned DEF IInv, CheckedRowIsCurrent, Accepted, row
<1>4. CallFacts'
  BY Returned DEF IInv, CallFacts, Identified, row, history
<1>5. RowFacts' /\ Orphaned'
  BY Returned, QuietRow DEF IInv, Accepted, world, history
<1> QED BY <1>1, <1>2, <1>3, <1>4, <1>5 DEF IInv

\* A call that moves its action to a state without an authorization and
\* returns, with nobody else inside runExclusive for the action.
LEMMA MoveAndReturn ==
  ASSUME IInv, NEW c \in Call, pc[c] # "idle",
         NEW next \in {"CANCELLED", "EXPIRED", "REJECTED", "REPLAN_REQUIRED"},
         Transition(Act(c), next), Return(c), UNCHANGED <<world, known, history>>,
         \A d \in Call : d # c /\ pc[d] \in Holding => Act(d) # Act(c)
  PROVE  IInv'
<1>1. TypeOK'
  BY Returned, Commanded
  DEF IInv, TypeOK, Transition, ActionState, PA!ActionState, PC, world, known, history
<1>2. LockHeld'
  BY Returned DEF IInv
<1>3. \A d \in Call : pc'[d] \in Holding =>
        /\ pc[d] \in Holding /\ pc'[d] = pc[d] /\ Act(d)' = Act(d) /\ Act(d) # Act(c)
        /\ state'[Act(d)] = state[Act(d)]
  BY Returned, Commanded DEF IInv, TypeOK, Transition, Holding, Accepted
<1>4. CheckedRowIsCurrent'
  BY <1>3, Returned DEF IInv, CheckedRowIsCurrent, Transition, Holding, Accepted
<1>5. CallFacts'
  BY <1>3, Returned DEF IInv, CallFacts, Identified, Transition, Holding, Accepted, history
<1>6. \A a \in Action : state'[a] # state[a] =>
        /\ state'[a] = next
        /\ state[a] \in {"AWAITING_CONFIRMATION", "CONFIRMED"}
        /\ next = "REPLAN_REQUIRED" <=> state[a] = "CONFIRMED"
  BY Moves DEF IInv, TypeOK, Transition, CanMove
<1>7. RowFacts'
  BY <1>6 DEF IInv, TypeOK, RowFacts, Confirmed, Transition, world, history
<1>8. Orphaned'
  BY <1>3, <1>6 DEF IInv, TypeOK, Orphaned, Transition, Holding, history
<1> QED BY <1>1, <1>2, <1>4, <1>5, <1>7, <1>8 DEF IInv

------------------------------------------------------------------------------
(* One lemma per kind of step.                                             *)

\* No action, call or authorization exists at first.
LEMMA InitIInv == Init => IInv
<1> SUFFICES ASSUME Init PROVE IInv
  OBVIOUS
<1>1. TypeOK
  BY ConstantsAssumption DEF Init, TypeOK, Context, ActionState, PA!ActionState, PC
<1>2. LockHeld /\ CheckedRowIsCurrent /\ CallFacts /\ Orphaned
  BY DEF Init, LockHeld, CheckedRowIsCurrent, CallFacts, Orphaned, Holding, Accepted
<1>3. RowFacts
  BY DEF Init, RowFacts
<1> QED BY <1>1, <1>2, <1>3 DEF IInv

\* A command that arrives touches no row, and its call holds no lock yet.
LEMMA SubmitStep == ASSUME IInv, NEW c \in Call, Submit(c) PROVE IInv'
<1>1. TypeOK'
  BY DEF IInv, TypeOK, Submit, PC, row, world, known, history
<1>2. \A d \in Call : pc'[d] \in Holding \cup {"insert", "waiting"} =>
        \/ d # c /\ pc'[d] = pc[d] /\ cmd'[d] = cmd[d] /\ loaded'[d] = loaded[d]
        \/ d = c /\ pc'[d] \in {"insert", "waiting"}
  BY DEF IInv, TypeOK, Submit
<1>3. LockHeld' /\ CheckedRowIsCurrent'
  BY <1>2 DEF IInv, LockHeld, CheckedRowIsCurrent, Submit, Act, Holding, Accepted, row
<1>4. CallFacts'
  BY <1>2 DEF IInv, CallFacts, Submit, Act, Identified, Holding, Accepted, row, history
<1>5. RowFacts' /\ Orphaned'
  BY <1>2, QuietRow DEF Submit, Act, Holding, Accepted, world, history
<1> QED BY <1>1, <1>3, <1>4, <1>5 DEF IInv

\* The lock is granted only when free, so whoever gets it is alone inside.
LEMMA AcquireStep == ASSUME IInv, NEW c \in Call, Acquire(c) PROVE IInv'
<1>1. TypeOK'
  <2>1. /\ pc[c] = "waiting" /\ pc' = [pc EXCEPT ![c] = "locked"]
        /\ lock' = [lock EXCEPT ![Act(c)] = c]
        /\ UNCHANGED <<dbNow, context, state, tokenHash, confirmationId, expiresAt, originalContext,
                       authorization, consumed, cmd, loaded, challenge, handedOff, acceptance,
                       interrupted, spent>>
    BY DEF Acquire, At, row, world, known, history
  <2>2. pc' \in [Call -> PC] /\ lock' \in [Action -> Call \cup {None}]
    BY <2>1 DEF IInv, TypeOK, PC
  <2>3. \A d \in Call : pc'[d] # "idle" => cmd'[d] \in Command
    BY <2>1 DEF IInv, TypeOK
  <2> QED BY <2>1, <2>2, <2>3 DEF IInv, TypeOK
<1>2. \A d \in Call : Act(d)' = Act(d) /\ (d # c => pc'[d] = pc[d])
  BY DEF IInv, TypeOK, Acquire, Act
<1>3. LockHeld'
  BY <1>2, Commanded, NullAssumption DEF IInv, TypeOK, LockHeld, Acquire, At, Holding
<1>4. CheckedRowIsCurrent' /\ CallFacts'
  BY <1>2 DEF IInv, TypeOK, CheckedRowIsCurrent, CallFacts, Acquire, Identified, Accepted,
              row, history
<1>5. RowFacts' /\ Orphaned'
  BY <1>2, QuietRow DEF IInv, TypeOK, Acquire, Accepted, world, history
<1> QED BY <1>1, <1>3, <1>4, <1>5 DEF IInv

\* A dying call lets its lock go; a confirmation it leaves is orphaned.
LEMMA CrashStep == ASSUME IInv, NEW c \in Call, Crash(c) PROVE IInv'
<1>1. TypeOK'
  <2>1. /\ lock' \in [Action -> Call \cup {None}] /\ pc' = [pc EXCEPT ![c] = "idle"]
        /\ cmd' \in [Call -> Command \cup {None}] /\ loaded' \in [Call -> Context \cup {None}]
        /\ \A d \in Call : pc'[d] # "idle" => pc'[d] = pc[d] /\ cmd'[d] = cmd[d]
    BY Returned DEF IInv, Crash
  <2>2. /\ interrupted' = [interrupted EXCEPT ![Act(c)] = @ \/ pc[c] \in Accepted]
        /\ UNCHANGED <<dbNow, context, state, tokenHash, confirmationId, expiresAt, originalContext,
                       authorization, consumed, challenge, handedOff, acceptance, spent>>
    BY DEF Crash, row, world, known
  <2>3. interrupted' \in [Action -> BOOLEAN]
    BY <2>2 DEF IInv, TypeOK
  <2>4. pc' \in [Call -> PC]
    BY <2>1 DEF IInv, TypeOK, PC
  <2>5. \A d \in Call : pc'[d] # "idle" => cmd'[d] \in Command
    BY <2>1 DEF IInv, TypeOK
  <2> QED BY <2>1, <2>2, <2>3, <2>4, <2>5 DEF IInv, TypeOK
<1>2. LockHeld'
  BY Returned DEF IInv, Crash
<1>3. CheckedRowIsCurrent' /\ CallFacts'
  BY Returned DEF IInv, CheckedRowIsCurrent, CallFacts, Identified, Crash, Accepted, row
<1>4. RowFacts'
  BY DEF IInv, RowFacts, Confirmed, Crash, row, world
<1>5. Orphaned'
  <2> SUFFICES ASSUME NEW a \in Action, interrupted'[a]
               PROVE  /\ state[a] \in {"CONFIRMED", "REPLAN_REQUIRED"}
                      /\ authorization[a] = None
                      /\ \A d \in Call : pc'[d] \in Accepted => Act(d)' # a
    BY DEF Orphaned, Crash, row
  <2>1. CASE interrupted[a]
    BY <2>1, Returned DEF IInv, Orphaned, Crash, Accepted
  <2>2. CASE ~interrupted[a]
    <3>1. a = Act(c) /\ pc[c] \in Accepted
      BY <2>2 DEF IInv, TypeOK, Crash
    <3>2. \A d \in Call : pc'[d] \in Accepted => Act(d)' # a
      BY <3>1, Returned, Exclusive DEF IInv, Crash, Holding, Accepted
    <3> QED BY <3>1, <3>2 DEF IInv, CheckedRowIsCurrent
  <2> QED BY <2>1, <2>2
<1> QED BY <1>1, <1>2, <1>3, <1>4, <1>5 DEF IInv

\* The environment: time passes, the vehicle moves.
LEMMA WorldStep == ASSUME IInv, Tick \/ ContextChange PROVE IInv'
<1>1. TypeOK'
  BY ConstantsAssumption
  DEF IInv, TypeOK, Tick, ContextChange, Context, row, known, history
<1>2. LockHeld' /\ CheckedRowIsCurrent' /\ CallFacts' /\ Orphaned'
  BY DEF IInv, LockHeld, CheckedRowIsCurrent, CallFacts, Orphaned, Identified, Act,
         Tick, ContextChange, row, history
<1>3. context'.version >= context.version
  BY DEF IInv, TypeOK, Context, Tick, ContextChange
<1>4. RowFacts'
  BY <1>3 DEF IInv, TypeOK, RowFacts, Confirmed, Acceptance, Context, Tick, ContextChange,
              row, history
<1> QED BY <1>1, <1>2, <1>4 DEF IInv

\* A call that goes on to another place of the same operation.
LEMMA GoOn ==
  ASSUME TypeOK, LockHeld, NEW c \in Call, pc[c] # "idle",
         NEW place \in PC \ {"idle"}, GoTo(c, place),
         place \in Holding => pc[c] \in Holding
  PROVE  /\ LockHeld'
         /\ pc' \in [Call -> PC]
         /\ \A d \in Call : pc'[d] # "idle" => cmd'[d] \in Command
         /\ pc' = [pc EXCEPT ![c] = place]
         /\ UNCHANGED <<lock, cmd>>
         /\ \A d \in Call : Act(d)' = Act(d)
<1>1. \A d \in Call : pc'[d] = IF d = c THEN place ELSE pc[d]
  BY DEF GoTo, TypeOK
<1>2. LockHeld'
  BY <1>1 DEF GoTo, LockHeld, Act
<1> QED BY <1>1, <1>2 DEF GoTo, TypeOK, Act

\* A new row has no confirmation, no authorization and no call inside.
LEMMA InsertStep == ASSUME IInv, NEW c \in Call, Insert(c) PROVE IInv'
<1>1. CASE state[Act(c)] = "ABSENT"
  <2>1. pc[c] = "insert" /\ GoTo(c, "emitCreated") /\ UNCHANGED <<loaded, world, known, history>>
    BY <1>1 DEF Insert, At
  <2>2. /\ LockHeld'
        /\ pc' \in [Call -> PC]
        /\ \A d \in Call : pc'[d] # "idle" => cmd'[d] \in Command
        /\ pc' = [pc EXCEPT ![c] = "emitCreated"]
        /\ UNCHANGED <<lock, cmd>>
        /\ \A d \in Call : Act(d)' = Act(d)
    BY <2>1, GoOn DEF IInv, PC, Holding, Accepted
  <2>3. /\ state' \in [Action -> ActionState \cup {"ABSENT"}]
        /\ tokenHash' \in [Action -> BOOLEAN]
        /\ expiresAt' \in [Action -> Nat]
        /\ originalContext' \in [Action -> Context \cup {None}]
    <3>1. /\ Act(c) \in Action /\ dbNow + ConfirmationTtl \in Nat
          /\ "AWAITING_CONFIRMATION" \in ActionState /\ loaded[c] \in Context \cup {None}
      BY <2>1, Commanded, ConstantsAssumption DEF IInv, TypeOK, ActionState, PA!ActionState
    <3>2. /\ state' = [state EXCEPT ![Act(c)] = "AWAITING_CONFIRMATION"]
          /\ tokenHash' = [tokenHash EXCEPT ![Act(c)] = TRUE]
          /\ expiresAt' = [expiresAt EXCEPT ![Act(c)] = dbNow + ConfirmationTtl]
          /\ originalContext' = [originalContext EXCEPT ![Act(c)] = loaded[c]]
      BY <1>1 DEF Insert
    <3>3. tokenHash' \in [Action -> BOOLEAN]
      BY <3>2 DEF IInv, TypeOK
    <3> QED BY <3>1, <3>2, <3>3 DEF IInv, TypeOK
  <2>4. TypeOK'
    <3>1. UNCHANGED <<dbNow, context, confirmationId, authorization, consumed, lock, cmd, loaded,
                      challenge, handedOff, acceptance, interrupted, spent>>
      BY <1>1, <2>1, <2>2 DEF Insert, world, known, history
    <3> QED BY <2>2, <2>3, <3>1 DEF IInv, TypeOK
  <2>5. \A d \in Call : pc'[d] \in {"accept", "consume"} \cup Accepted =>
           d # c /\ pc'[d] = pc[d] /\ Act(d) # Act(c)
    BY <1>1, <2>2 DEF IInv, TypeOK, CheckedRowIsCurrent, Accepted
  <2>6. CheckedRowIsCurrent'
    BY <1>1, <2>1, <2>2, <2>5, Commanded DEF IInv, TypeOK, CheckedRowIsCurrent, Insert, Accepted
  <2>7. CallFacts'
    BY <1>1, <2>1, <2>2, <2>5, Commanded
    DEF IInv, TypeOK, CallFacts, Identified, Insert, Accepted, history
  <2>8. RowFacts'
    BY <1>1 DEF IInv, TypeOK, RowFacts, Confirmed, Insert, world, history
  <2>9. Orphaned'
    BY <1>1, <2>1, <2>2, <2>5 DEF IInv, TypeOK, Orphaned, Insert, history
  <2> QED BY <2>2, <2>4, <2>6, <2>7, <2>8, <2>9 DEF IInv
<1>2. CASE state[Act(c)] # "ABSENT"
  BY <1>2, ReturnQuietly DEF IInv, TypeOK, Insert, world, known
<1> QED BY <1>1, <1>2

\* The event of a creation, delivered or not, writes no row.
LEMMA EmitCreatedStep == ASSUME IInv, NEW c \in Call, EmitCreated(c) PROVE IInv'
<1>1. PICK place \in {"publish", "compensate"} : GoTo(c, place)
  BY DEF EmitCreated
<1>2. /\ LockHeld'
      /\ pc' = [pc EXCEPT ![c] = place]
      /\ \A d \in Call : Act(d)' = Act(d)
  BY <1>1, GoOn DEF IInv, EmitCreated, At, PC, Holding, Accepted
<1>3. TypeOK'
  BY <1>1, GoOn
  DEF IInv, TypeOK, EmitCreated, At, PC, Holding, Accepted, row, world, known, history
<1>4. CheckedRowIsCurrent' /\ CallFacts'
  BY <1>1, <1>2 DEF IInv, TypeOK, CheckedRowIsCurrent, CallFacts, Identified, EmitCreated,
                    GoTo, Accepted, row, history
<1>5. RowFacts' /\ Orphaned'
  BY <1>2, QuietRow DEF IInv, TypeOK, EmitCreated, Accepted, world, history
<1> QED BY <1>2, <1>3, <1>4, <1>5 DEF IInv

\* A published challenge touches no row; an unpublished one becomes a cancel.
LEMMA PublishStep == ASSUME IInv, NEW c \in Call, Publish(c) PROVE IInv'
<1>1. CASE challenge' = [challenge EXCEPT ![Act(c)] = TRUE] /\ Return(c)
  <2>1. challenge' \in [Action -> BOOLEAN]
    BY <1>1 DEF IInv, TypeOK
  <2>2. TypeOK'
    BY <1>1, <2>1, Returned DEF IInv, TypeOK, Publish, PC, row, world, history
  <2>3. LockHeld' /\ CheckedRowIsCurrent' /\ CallFacts'
    BY <1>1, Returned DEF IInv, CheckedRowIsCurrent, CallFacts, Identified, Publish,
                          Accepted, row, history
  <2>4. RowFacts' /\ Orphaned'
    BY <1>1, Returned, QuietRow DEF IInv, Publish, Accepted, world, history
  <2> QED BY <2>2, <2>3, <2>4 DEF IInv
<1>2. CASE /\ cmd' = [cmd EXCEPT ![c].op = "cancel"]
           /\ pc' = [pc EXCEPT ![c] = "waiting"]
           /\ UNCHANGED <<challenge, lock, loaded>>
  <2>1. cmd[c] \in Command
    BY Commanded DEF IInv, Publish, At
  <2>2. cmd'[c] \in Command /\ Act(c)' = Act(c)
    BY <1>2, <2>1 DEF IInv, TypeOK, Command, Op, Act
  <2>3. \A d \in Call : pc'[d] \in Holding =>
          d # c /\ pc'[d] = pc[d] /\ cmd'[d] = cmd[d] /\ Act(d)' = Act(d)
    BY <1>2 DEF IInv, TypeOK, Holding, Accepted, Act
  <2>4. TypeOK'
    BY <1>2, <2>2 DEF IInv, TypeOK, Publish, PC, row, world, history
  <2>5. LockHeld' /\ CheckedRowIsCurrent' /\ CallFacts'
    BY <1>2, <2>3 DEF IInv, LockHeld, CheckedRowIsCurrent, CallFacts, Identified, Publish,
                      Holding, Accepted, row, history
  <2>6. \A d \in Call : pc'[d] \in Accepted => pc[d] \in Accepted /\ Act(d)' = Act(d)
    BY <2>3 DEF Holding, Accepted
  <2>7. RowFacts' /\ Orphaned'
    BY <2>6, QuietRow DEF Publish, world, history
  <2> QED BY <2>4, <2>5, <2>7 DEF IInv
<1> QED BY <1>1, <1>2 DEF Publish

\* An admitted confirm has checked the row, the identity and the token.
LEMMA AdmitConfirmStep == ASSUME IInv, NEW c \in Call, AdmitConfirm(c) PROVE IInv'
<1> pc[c] = "locked" /\ GoTo(c, "accept")
  BY DEF AdmitConfirm, Runs
<1>1. /\ LockHeld'
      /\ pc' = [pc EXCEPT ![c] = "accept"]
      /\ \A d \in Call : Act(d)' = Act(d)
  BY GoOn DEF IInv, PC, Holding, Accepted
<1>2. TypeOK'
  BY GoOn DEF IInv, TypeOK, AdmitConfirm, Runs, PC, Holding, Accepted, row, world, known, history
<1>3. CheckedRowIsCurrent' /\ CallFacts'
  BY <1>1 DEF IInv, TypeOK, CheckedRowIsCurrent, CallFacts, Identified, AdmitConfirm,
              GoTo, Accepted, row, history
<1>4. RowFacts' /\ Orphaned'
  BY <1>1, QuietRow DEF IInv, TypeOK, AdmitConfirm, Accepted, world, history
<1> QED BY <1>1, <1>2, <1>3, <1>4 DEF IInv

\* The acceptance records a confirmation before the expiry, by the owner.
LEMMA AcceptConfirmationStep ==
  ASSUME IInv, NEW c \in Call, AcceptConfirmation(c) PROVE IInv'
<1> DEFINE Admissible ==
      /\ state[Act(c)] = "AWAITING_CONFIRMATION" /\ dbNow < expiresAt[Act(c)]
      /\ tokenHash[Act(c)] /\ confirmationId[Act(c)] = None
<1>1. pc[c] = "accept" /\ Act(c) \in Action /\ cmd[c] \in Command
  BY Commanded DEF IInv, AcceptConfirmation, At
<1>2. \A d \in Call : d # c /\ pc[d] \in Holding => Act(d) # Act(c)
  BY <1>1, Exclusive DEF IInv, Holding
<1>3. CASE Admissible
  <2>1. /\ GoTo(c, "accepted")
        /\ state' = [state EXCEPT ![Act(c)] = "CONFIRMED"]
        /\ tokenHash' = [tokenHash EXCEPT ![Act(c)] = FALSE]
        /\ confirmationId' = [confirmationId EXCEPT ![Act(c)] = c]
        /\ acceptance' = [acceptance EXCEPT ![Act(c)] =
             [user |-> cmd[c].user, proof |-> cmd[c].proof,
              at |-> dbNow, version |-> context.version]]
        /\ UNCHANGED <<expiresAt, originalContext, authorization, consumed, loaded,
                       world, known, interrupted, spent>>
    BY <1>3 DEF AcceptConfirmation
  <2>2. /\ LockHeld'
        /\ pc' \in [Call -> PC]
        /\ \A d \in Call : pc'[d] # "idle" => cmd'[d] \in Command
        /\ pc' = [pc EXCEPT ![c] = "accepted"]
        /\ UNCHANGED <<lock, cmd>>
        /\ \A d \in Call : Act(d)' = Act(d)
    BY <1>1, <2>1, GoOn DEF IInv, PC, Holding, Accepted
  <2>3. acceptance'[Act(c)] \in Acceptance
    BY <1>1, <2>1 DEF IInv, TypeOK, Acceptance, Command, Context
  <2>4. TypeOK'
    BY <1>1, <2>1, <2>2, <2>3 DEF IInv, TypeOK, ActionState, PA!ActionState, world, known
  <2>5. \A d \in Call : pc'[d] \in Holding =>
          \/ d = c
          \/ d # c /\ pc'[d] = pc[d] /\ Act(d) # Act(c) /\ Act(d) \in Action
    BY <1>2, <2>2, Commanded DEF IInv, TypeOK, Holding, Accepted
  <2>6. authorization[Act(c)] = None
    BY <1>1, <1>3 DEF IInv, RowFacts
  <2>7. CheckedRowIsCurrent'
    BY <1>1, <2>1, <2>2, <2>5, <2>6 DEF IInv, TypeOK, CheckedRowIsCurrent, Holding, Accepted
  <2>8. CallFacts'
    BY <1>1, <2>1, <2>2, <2>5 DEF IInv, TypeOK, CallFacts, Identified, Holding, Accepted
  <2>9. \A a \in Action : a = Act(c) => Confirmed(a)'
    BY <1>1, <1>3, <2>1, <2>3
    DEF IInv, TypeOK, CallFacts, Confirmed, Identified, Context, world
  <2>10. RowFacts'
    <3> SUFFICES ASSUME NEW a \in Action PROVE RowFacts!(a)'
      BY DEF RowFacts
    <3>1. CASE a = Act(c)
      BY <3>1, <1>1, <2>1, <2>6, <2>9 DEF IInv, TypeOK, RowFacts
    <3>2. CASE a # Act(c)
      BY <3>2, <2>1 DEF IInv, TypeOK, RowFacts, Confirmed, world
    <3> QED BY <3>1, <3>2
  <2>11. Orphaned'
    BY <1>1, <1>3, <2>1, <2>2 DEF IInv, TypeOK, Orphaned, Accepted
  <2> QED BY <2>2, <2>4, <2>7, <2>8, <2>10, <2>11 DEF IInv
<1>4. CASE ~Admissible /\ dbNow >= expiresAt[Act(c)]
  BY <1>1, <1>2, <1>4, MoveAndReturn DEF AcceptConfirmation, history
<1>5. CASE ~Admissible /\ ~(dbNow >= expiresAt[Act(c)])
  BY <1>5, ReturnQuietly DEF IInv, TypeOK, AcceptConfirmation, world, known, history
<1> QED BY <1>3, <1>4, <1>5

\* The event of an acceptance, delivered or not, writes no row.
LEMMA EmitAcceptedStep == ASSUME IInv, NEW c \in Call, EmitAccepted(c) PROVE IInv'
<1>1. PICK place \in {"revalidate", "abandon"} : GoTo(c, place)
  BY DEF EmitAccepted
<1>2. pc[c] = "accepted"
  BY DEF EmitAccepted, At
<1>3. /\ LockHeld'
      /\ pc' = [pc EXCEPT ![c] = place]
      /\ \A d \in Call : Act(d)' = Act(d)
  BY <1>1, <1>2, GoOn DEF IInv, PC, Holding, Accepted
<1>4. TypeOK'
  BY <1>1, <1>2, GoOn
  DEF IInv, TypeOK, EmitAccepted, PC, Holding, Accepted, row, world, known, history
<1>5. CheckedRowIsCurrent' /\ CallFacts'
  BY <1>1, <1>2, <1>3 DEF IInv, TypeOK, CheckedRowIsCurrent, CallFacts, Identified,
                          EmitAccepted, GoTo, Accepted, row, history
<1>6. RowFacts' /\ Orphaned'
  BY <1>2, <1>3, QuietRow DEF IInv, TypeOK, EmitAccepted, Accepted, world, history
<1> QED BY <1>3, <1>4, <1>5, <1>6 DEF IInv

\* A context found valid agrees with the original and is no older than the acceptance.
LEMMA RevalidateStep == ASSUME IInv, NEW c \in Call, Revalidate(c) PROVE IInv'
<1>1. PICK place \in {"authorize", "abandon"} :
        /\ GoTo(c, place)
        /\ place = "authorize" => context.relevant = originalContext[Act(c)].relevant
  BY DEF Revalidate
<1>2. pc[c] = "revalidate" /\ Act(c) \in Action
  BY Commanded DEF IInv, Revalidate, At
<1>3. /\ LockHeld'
      /\ pc' = [pc EXCEPT ![c] = place]
      /\ UNCHANGED cmd
      /\ \A d \in Call : Act(d)' = Act(d)
  BY <1>1, <1>2, GoOn DEF IInv, PC, Holding, Accepted
<1>4. loaded' = [loaded EXCEPT ![c] = context] /\ context \in Context
  BY DEF IInv, TypeOK, Revalidate
<1>5. TypeOK'
  BY <1>1, <1>2, <1>4, GoOn
  DEF IInv, TypeOK, Revalidate, PC, Holding, Accepted, row, world, known, history
<1>6. CheckedRowIsCurrent'
  BY <1>2, <1>3 DEF IInv, TypeOK, CheckedRowIsCurrent, Revalidate, Accepted, row
<1>7. acceptance[Act(c)].version <= context.version
  BY <1>2 DEF IInv, CheckedRowIsCurrent, RowFacts, Confirmed, Accepted
<1>8. context.version \in Int /\ acceptance[Act(c)].version \in Int
  BY <1>2 DEF IInv, TypeOK, CheckedRowIsCurrent, RowFacts, Confirmed, Accepted, Acceptance, Context
<1>9. CallFacts'
  <2> SUFFICES ASSUME NEW d \in Call PROVE CallFacts!(d)'
    BY DEF CallFacts
  <2>1. CASE d = c
    BY <2>1, <1>1, <1>3, <1>4, <1>7, <1>8 DEF IInv, TypeOK, Revalidate, row, history
  <2>2. CASE d # c
    BY <2>2, <1>3, <1>4 DEF IInv, TypeOK, CallFacts, Identified, Revalidate, row, history
  <2> QED BY <2>1, <2>2
<1>10. RowFacts' /\ Orphaned'
  BY <1>2, <1>3, QuietRow DEF IInv, TypeOK, Revalidate, Accepted, world, history
<1> QED BY <1>3, <1>5, <1>6, <1>9, <1>10 DEF IInv

\* The authorization is bound to the context that was revalidated.
LEMMA AuthorizeStep == ASSUME IInv, NEW c \in Call, Authorize(c) PROVE IInv'
<1> DEFINE Issuable == authorization[Act(c)] = None /\ CanMove(Act(c), "READY_FOR_EXECUTION")
<1>1. pc[c] = "authorize" /\ Act(c) \in Action
  BY Commanded DEF IInv, Authorize, At
<1>2. \A d \in Call : d # c /\ pc[d] \in Holding => Act(d) # Act(c)
  BY <1>1, Exclusive DEF IInv, Holding, Accepted
<1>3. CASE Issuable
  <2>1. /\ GoTo(c, "ready")
        /\ state' = [state EXCEPT ![Act(c)] = "READY_FOR_EXECUTION"]
        /\ authorization' = [authorization EXCEPT ![Act(c)] =
             [context |-> loaded[c], expires |-> dbNow + AuthorizationTtl]]
        /\ UNCHANGED <<tokenHash, confirmationId, expiresAt, originalContext, consumed,
                       loaded, world, known, history>>
    BY <1>3 DEF Authorize
  <2>2. /\ LockHeld'
        /\ pc' \in [Call -> PC]
        /\ \A d \in Call : pc'[d] # "idle" => cmd'[d] \in Command
        /\ pc' = [pc EXCEPT ![c] = "ready"]
        /\ UNCHANGED <<lock, cmd>>
        /\ \A d \in Call : Act(d)' = Act(d)
    BY <1>1, <2>1, GoOn DEF IInv, PC, Holding, Accepted
  <2>3. /\ authorization'[Act(c)] \in Authorization
        /\ authorization'[Act(c)].context = loaded[c]
    <3>1. loaded[c] \in Context /\ dbNow + AuthorizationTtl \in Nat
      BY <1>1, ConstantsAssumption DEF IInv, TypeOK, CallFacts
    <3>2. authorization'[Act(c)] = [context |-> loaded[c], expires |-> dbNow + AuthorizationTtl]
      BY <1>1, <2>1 DEF IInv, TypeOK
    <3> QED BY <3>1, <3>2 DEF Authorization
  <2>4. authorization' \in [Action -> Authorization \cup {None}]
    BY <2>1, <2>3 DEF IInv, TypeOK
  <2>5. TypeOK'
    BY <1>1, <2>1, <2>2, <2>4 DEF IInv, TypeOK, ActionState, PA!ActionState,
                                  world, known, history
  <2>6. \A d \in Call : pc'[d] \in Holding =>
          \/ d = c
          \/ d # c /\ pc'[d] = pc[d] /\ Act(d) # Act(c) /\ Act(d) \in Action
    BY <1>2, <2>2, Commanded DEF IInv, TypeOK, Holding, Accepted
  <2>7. CheckedRowIsCurrent'
    BY <1>1, <2>1, <2>2, <2>6 DEF IInv, TypeOK, CheckedRowIsCurrent, Holding, Accepted
  <2>8. CallFacts'
    BY <1>1, <2>1, <2>2, <2>6 DEF IInv, TypeOK, CallFacts, Identified, Holding, Accepted, history
  <2>9. RowFacts'
    <3> SUFFICES ASSUME NEW a \in Action PROVE RowFacts!(a)'
      BY DEF RowFacts
    <3>1. Confirmed(Act(c))
      BY <1>1 DEF IInv, CheckedRowIsCurrent, RowFacts, Accepted
    <3>2. CASE a = Act(c)
      <4>1. Confirmed(a)'
        BY <3>1, <3>2, <2>1 DEF Confirmed, world, history
      <4>2. /\ state'[a] = "READY_FOR_EXECUTION"
            /\ authorization'[a] # None
            /\ authorization'[a].context.version >= acceptance'[a].version
            /\ authorization'[a].context.relevant = originalContext'[a].relevant
        BY <3>2, <1>1, <2>1, <2>3, NullAssumption DEF IInv, TypeOK, CallFacts, history
      <4>3. spent'[a] = IF consumed'[a] THEN 1 ELSE 0
        BY <2>1 DEF IInv, RowFacts, history
      <4> QED BY <4>1, <4>2, <4>3
    <3>3. CASE a # Act(c)
      BY <3>3, <2>1 DEF IInv, TypeOK, RowFacts, Confirmed, world, history
    <3> QED BY <3>2, <3>3
  <2>10. Orphaned'
    BY <1>1, <2>1, <2>2 DEF IInv, TypeOK, Orphaned, Accepted, history
  <2> QED BY <2>2, <2>5, <2>7, <2>8, <2>9, <2>10 DEF IInv
<1>4. CASE ~Issuable
  BY <1>4, ReturnQuietly DEF IInv, TypeOK, Authorize, world, known
<1> QED BY <1>3, <1>4

\* A call admitted to consume has read an unspent authorization.
LEMMA VerifyAuthorizationStep ==
  ASSUME IInv, NEW c \in Call, VerifyAuthorization(c) PROVE IInv'
<1>1. CASE Verified(c) /\ GoTo(c, "consume") /\ UNCHANGED loaded
  <2>1. pc[c] = "locked"
    BY DEF VerifyAuthorization, Runs
  <2>2. /\ LockHeld'
        /\ pc' = [pc EXCEPT ![c] = "consume"]
        /\ \A d \in Call : Act(d)' = Act(d)
    BY <1>1, <2>1, GoOn DEF IInv, PC, Holding, Accepted
  <2>3. TypeOK'
    BY <1>1, <2>1, GoOn DEF IInv, TypeOK, VerifyAuthorization, PC, Holding, Accepted,
                            row, world, known, history
  <2>4. CheckedRowIsCurrent' /\ CallFacts'
    BY <1>1, <2>2 DEF IInv, TypeOK, CheckedRowIsCurrent, CallFacts, Identified, Verified,
                      VerifyAuthorization, GoTo, Accepted, row, history
  <2>5. RowFacts' /\ Orphaned'
    BY <2>2, QuietRow DEF IInv, TypeOK, VerifyAuthorization, Accepted, world, history
  <2> QED BY <2>2, <2>3, <2>4, <2>5 DEF IInv
<1>2. CASE Return(c)
  BY <1>2, ReturnQuietly DEF IInv, TypeOK, VerifyAuthorization, known
<1> QED BY <1>1, <1>2 DEF VerifyAuthorization

\* The spent authorizations and the spending calls stay one for one.
LEMMA ConsumeAuthorizationStep ==
  ASSUME IInv, NEW c \in Call, ConsumeAuthorization(c) PROVE IInv'
<1> DEFINE Consumable == /\ authorization[Act(c)] # None /\ ~consumed[Act(c)]
                         /\ dbNow < authorization[Act(c)].expires
<1>1. pc[c] = "consume" /\ Act(c) \in Action /\ Return(c)
  BY Commanded DEF IInv, ConsumeAuthorization, At
<1>2. \A d \in Call : d # c /\ pc[d] \in Holding => Act(d) # Act(c)
  BY <1>1, Exclusive DEF IInv, Holding
<1>3. CASE Consumable
  <2>1. /\ consumed' = [consumed EXCEPT ![Act(c)] = TRUE]
        /\ spent' = [spent EXCEPT ![Act(c)] = @ + 1]
        /\ UNCHANGED <<state, tokenHash, confirmationId, expiresAt, originalContext,
                       authorization, world, known, acceptance, interrupted>>
    BY <1>3 DEF ConsumeAuthorization
  <2>2. TypeOK'
    BY <1>1, <2>1, Returned DEF IInv, TypeOK, PC, world, known
  <2>3. LockHeld' /\ CallFacts'
    BY <1>1, <2>1, Returned DEF IInv, CallFacts, Identified
  <2>4. CheckedRowIsCurrent'
    BY <1>1, <1>2, <2>1, Returned, Commanded
    DEF IInv, TypeOK, CheckedRowIsCurrent, Holding, Accepted
  <2>5. RowFacts'
    BY <1>1, <1>3, <2>1 DEF IInv, TypeOK, RowFacts, Confirmed, world
  <2>6. Orphaned'
    BY <1>1, <2>1, Returned DEF IInv, Orphaned, Accepted
  <2> QED BY <2>2, <2>3, <2>4, <2>5, <2>6 DEF IInv
<1>4. CASE ~Consumable
  BY <1>4, ReturnQuietly DEF IInv, TypeOK, ConsumeAuthorization, row, known, history
<1> QED BY <1>3, <1>4

\* The steps that return at once, with or without a move of the state graph.
LEMMA ReturningStep ==
  ASSUME IInv, NEW c \in Call,
         \/ Compensate(c) \/ RecoverInterrupted(c) \/ RefuseConfirm(c) \/ ExpireOnConfirm(c)
         \/ Abandon(c) \/ EmitReady(c) \/ Resume(c) \/ Reject(c) \/ Cancel(c) \/ Expire(c)
  PROVE  IInv'
<1>1. CASE Compensate(c)
  <2>1. \A d \in Call : pc[d] \in Holding => Act(d) # Act(c)
    BY <1>1, NullAssumption DEF IInv, LockHeld, Compensate
  <2> QED BY <1>1, <2>1, MoveAndReturn DEF Compensate, At
<1>2. CASE pc[c] \in Holding /\ ~Compensate(c)
  <2>1. \A d \in Call : d # c /\ pc[d] \in Holding => Act(d) # Act(c)
    BY <1>2, Exclusive DEF IInv
  <2>2. pc[c] # "idle" /\ Act(c) \in Action
    BY <1>2, Commanded DEF IInv, Holding, Accepted
  <2>3. CASE RecoverInterrupted(c) \/ Abandon(c) \/ ExpireOnConfirm(c)
    BY <2>1, <2>2, <2>3, MoveAndReturn DEF RecoverInterrupted, Abandon, ExpireOnConfirm
  <2>4. CASE RefuseConfirm(c) \/ EmitReady(c) \/ Resume(c)
    BY <2>2, <2>4, ReturnQuietly
    DEF IInv, TypeOK, RefuseConfirm, EmitReady, Resume, known
  <2>5. CASE Reject(c) \/ Cancel(c) \/ Expire(c)
    <3>1. Return(c) /\ UNCHANGED <<world, known, history>>
      BY <2>5 DEF Reject, Cancel, Expire, Terminal
    <3>2. CASE UNCHANGED row
      BY <3>1, <3>2, ReturnQuietly DEF IInv, TypeOK, known
    <3>3. CASE \E next \in {"REJECTED", "CANCELLED", "EXPIRED"} : Transition(Act(c), next)
      BY <3>1, <3>3, <2>1, <2>2, MoveAndReturn
    <3> QED BY <2>5, <3>2, <3>3 DEF Reject, Cancel, Expire, Terminal
  <2> QED BY <1>2, <2>3, <2>4, <2>5
<1> QED BY <1>1, <1>2 DEF RecoverInterrupted, RefuseConfirm, ExpireOnConfirm, Abandon,
          EmitReady, Resume, Reject, Cancel, Terminal, Expire, Runs, At, Holding, Accepted

\* A step that changes nothing keeps the invariant.
LEMMA StutterStep == ASSUME IInv, UNCHANGED vars PROVE IInv'
<1>1. TypeOK' /\ LockHeld' /\ CheckedRowIsCurrent'
  BY DEF IInv, TypeOK, LockHeld, CheckedRowIsCurrent, Act, vars, row, world, known, history
<1>2. CallFacts' /\ RowFacts' /\ Orphaned'
  BY DEF IInv, CallFacts, RowFacts, Orphaned, Confirmed, Identified, Act,
         vars, row, world, known, history
<1> QED BY <1>1, <1>2 DEF IInv

------------------------------------------------------------------------------
(* The theorems.                                                           *)

\* The strengthening of the invariants holds in every reachable state.
THEOREM Invariance == Spec => []IInv
<1>1. Init => IInv
  BY InitIInv
<1>2. IInv /\ [Next]_vars => IInv'
  <2> SUFFICES ASSUME IInv, [Next]_vars PROVE IInv'
    OBVIOUS
  <2>1. ASSUME NEW c \in Call, Submit(c) \/ Acquire(c) \/ Step(c) \/ Crash(c) PROVE IInv'
    BY <2>1, SubmitStep, AcquireStep, CrashStep, InsertStep, EmitCreatedStep, PublishStep,
       AdmitConfirmStep, AcceptConfirmationStep, EmitAcceptedStep, RevalidateStep,
       AuthorizeStep, VerifyAuthorizationStep, ConsumeAuthorizationStep, ReturningStep
    DEF Step
  <2>2. CASE Tick \/ ContextChange
    BY <2>2, WorldStep
  <2>3. CASE UNCHANGED vars
    BY <2>3, StutterStep
  <2> QED BY <2>1, <2>2, <2>3 DEF Next
<1> QED BY <1>1, <1>2, PTL DEF Spec

\* Every variable keeps its type.
THEOREM TypeCorrect == Spec => []TypeOK
BY Invariance, PTL DEF IInv

\* What a call read under the lock of its action is still so when it acts on it.
THEOREM CheckedRowsAreCurrent == Spec => []CheckedRowIsCurrent
BY Invariance, PTL DEF IInv

\* An authorization exists only for an action its own user confirmed, with its
\* own token and in time, and for a context that agrees with the original one.
THEOREM AuthorizationsAreJustified == Spec => []AuthorizationJustified
<1>1. IInv => AuthorizationJustified
  BY NullAssumption DEF IInv, RowFacts, Confirmed, AuthorizationJustified
<1> QED BY <1>1, Invariance, PTL

\* At most one execution obtains the authorization of an action.
THEOREM AuthorizationsAreSingleUse == Spec => []SingleUse
<1>1. IInv => SingleUse
  <2> SUFFICES ASSUME IInv, NEW a \in Action
               PROVE  /\ spent[a] <= 1
                      /\ spent[a] > 0 => authorization[a] # None
                                         /\ state[a] = "READY_FOR_EXECUTION"
    BY DEF SingleUse
  <2>1. spent[a] = (IF consumed[a] THEN 1 ELSE 0)
    BY DEF IInv, RowFacts
  <2>2. CASE consumed[a]
    BY <2>1, <2>2 DEF IInv, RowFacts
  <2>3. CASE ~consumed[a]
    BY <2>1, <2>3
  <2> QED BY <2>2, <2>3
<1> QED BY <1>1, Invariance, PTL

\* A confirmation whose call died never becomes executable.
THEOREM InterruptedConfirmationsFailClosed == Spec => []InterruptedFailsClosed
<1>1. IInv => InterruptedFailsClosed
  BY DEF IInv, Orphaned, InterruptedFailsClosed
<1> QED BY <1>1, Invariance, PTL

------------------------------------------------------------------------------
(* The refinement.                                                         *)

\* A move of the repository is a move of the abstract action, or nothing.
LEMMA TransitionAdvances ==
  ASSUME IInv, NEW a \in Action,
         NEW next \in {"CANCELLED", "EXPIRED", "REJECTED", "REPLAN_REQUIRED"},
         Transition(a, next)
  PROVE  PA!Advance(a) \/ UNCHANGED PA!vars
BY DEF Transition, CanMove, PA!Advance, PA!ActionState, PA!vars

\* No action exists and no warrant is issued at first.
LEMMA InitRefines == Init => PA!Init
BY DEF Init, PA!Init

\* What a call does to a row is one operation of the abstract lifecycle, or none.
LEMMA StepRefines == ASSUME IInv, NEW c \in Call, Step(c) PROVE [PA!Next]_(PA!vars)
<1>1. PICK a \in Action : a = Act(c)
  BY Commanded DEF IInv, Step, Insert, EmitCreated, Compensate, Publish, RecoverInterrupted,
     RefuseConfirm, ExpireOnConfirm, AdmitConfirm, AcceptConfirmation, EmitAccepted,
     Revalidate, Abandon, Authorize, EmitReady, Resume, VerifyAuthorization,
     ConsumeAuthorization, Reject, Cancel, Expire, Terminal, Runs, At
<1>2. CASE UNCHANGED row
  BY <1>2 DEF row, PA!vars
<1>3. CASE \E next \in {"CANCELLED", "EXPIRED", "REJECTED", "REPLAN_REQUIRED"} :
             Transition(a, next)
  BY <1>1, <1>3, TransitionAdvances DEF PA!Next
<1>4. CASE Insert(c) /\ state[a] = "ABSENT"
  <2>1. PA!Propose(a)
    BY <1>1, <1>4 DEF Insert, PA!Propose
  <2> QED BY <1>1, <2>1 DEF PA!Next
<1>5. CASE AcceptConfirmation(c) /\ state[a] = "AWAITING_CONFIRMATION"
           /\ state' = [state EXCEPT ![a] = "CONFIRMED"] /\ UNCHANGED <<authorization, consumed>>
  <2>1. PA!Advance(a)
    BY <1>5, Moves DEF PA!Advance, PA!ActionState
  <2> QED BY <1>1, <2>1 DEF PA!Next
<1>6. CASE Authorize(c) /\ authorization[a] = None /\ CanMove(a, "READY_FOR_EXECUTION")
  <2>1. /\ state' = [state EXCEPT ![a] = "READY_FOR_EXECUTION"]
        /\ authorization' = [authorization EXCEPT ![a] =
             [context |-> loaded[c], expires |-> dbNow + AuthorizationTtl]]
        /\ UNCHANGED consumed
    BY <1>1, <1>6 DEF Authorize
  <2>2. authorization'[a] # None
    <3>1. loaded[c] \in Context /\ dbNow + AuthorizationTtl \in Nat
      BY <1>6, ConstantsAssumption DEF IInv, TypeOK, CallFacts, Authorize, At
    <3>2. authorization'[a] \in Authorization
      BY <1>1, <2>1, <3>1 DEF IInv, TypeOK, Authorization
    <3> QED BY <3>2, NullAssumption
  <2>3. ~consumed[a]
    BY <1>1, <1>6 DEF IInv, RowFacts
  <2>4. PA!Authorize(a)
    BY <1>1, <1>6, <2>1, <2>2, <2>3 DEF IInv, TypeOK, CanMove, PA!Authorize
  <2> QED BY <2>4 DEF PA!Next
<1>7. CASE /\ ConsumeAuthorization(c)
           /\ authorization[a] # None /\ ~consumed[a] /\ consumed' = [consumed EXCEPT ![a] = TRUE]
  <2>1. state[a] = "READY_FOR_EXECUTION" /\ UNCHANGED <<state, authorization>>
    BY <1>1, <1>7 DEF IInv, RowFacts, ConsumeAuthorization
  <2>2. consumed'[a] /\ \A b \in Action \ {a} : consumed'[b] = consumed[b]
    BY <1>1, <1>7 DEF IInv, TypeOK
  <2>3. PA!Spend(a)
    BY <1>1, <1>7, <2>1, <2>2 DEF PA!Spend
  <2> QED BY <2>3 DEF PA!Next
<1>8. CASE Insert(c) \/ AcceptConfirmation(c)
  BY <1>1, <1>2, <1>3, <1>4, <1>5, <1>8 DEF Insert, AcceptConfirmation
<1>9. CASE Authorize(c) \/ ConsumeAuthorization(c)
  BY <1>1, <1>2, <1>6, <1>7, <1>9 DEF Authorize, ConsumeAuthorization, row
<1>10. CASE Reject(c) \/ Cancel(c) \/ Expire(c)
  BY <1>1, <1>2, <1>3, <1>10 DEF Reject, Cancel, Expire, Terminal
<1>11. CASE Compensate(c) \/ RecoverInterrupted(c) \/ ExpireOnConfirm(c) \/ Abandon(c)
  BY <1>1, <1>3, <1>11 DEF Compensate, RecoverInterrupted, ExpireOnConfirm, Abandon
<1>12. CASE \/ EmitCreated(c) \/ Publish(c) \/ RefuseConfirm(c) \/ AdmitConfirm(c)
            \/ EmitAccepted(c) \/ Revalidate(c) \/ EmitReady(c) \/ Resume(c)
            \/ VerifyAuthorization(c)
  BY <1>2, <1>12 DEF EmitCreated, Publish, RefuseConfirm, AdmitConfirm, EmitAccepted,
     Revalidate, EmitReady, Resume, VerifyAuthorization
<1> QED BY <1>8, <1>9, <1>10, <1>11, <1>12 DEF Step

\* The service implements the abstract lifecycle: every operation, however many
\* transactions it takes and wherever it dies, is seen as single legal moves.
THEOREM Refinement == Spec => ImplementsPendingAction
<1>1. Init => PA!Init
  BY InitRefines
<1>2. IInv /\ [Next]_vars => [PA!Next]_(PA!vars)
  <2> SUFFICES ASSUME IInv, [Next]_vars PROVE [PA!Next]_(PA!vars)
    OBVIOUS
  <2>1. CASE UNCHANGED row
    BY <2>1 DEF row, PA!vars
  <2>2. CASE \E c \in Call : Step(c)
    BY <2>2, StepRefines
  <2> QED BY <2>1, <2>2 DEF Next, Submit, Acquire, Crash, Tick, ContextChange, vars
<1> QED BY <1>1, <1>2, Invariance, PTL DEF Spec, ImplementsPendingAction, PA!Spec
==============================================================================
