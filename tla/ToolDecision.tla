---------------------------- MODULE ToolDecision ----------------------------
(***************************************************************************)
(* One run's tool calls, from the snapshot the run plans with to the       *)
(* effect of a tool: which tools the model is shown, the context each call *)
(* is judged against, the rules of the policy engine, the confirmation a   *)
(* risky call is asked for, its revalidation when the user confirms, and   *)
(* the repair of a plan the model left incomplete.                         *)
(*                                                                         *)
(* The vehicle moves on its own, and the effects of the run move it too.   *)
(* A value of the vehicle is one of two; its timestamps are the            *)
(* simulator's, whose clock may differ from the runtime's.                 *)
(***************************************************************************)
EXTENDS Integers, Sequences, FiniteSets

CONSTANTS
  Call,       \* the tool calls of the run
  Mode,       \* "read_only" or "full"
  Matched,    \* tools whose routing rule matches the prompt
  Ambiguous,  \* no rule matches and the prompt does not exclude tools
  Unbound,    \* tools whose arguments cannot all be bound from the prompt
  Argument,   \* what the model may propose for them
  Drift,      \* facts that change without the run
  Lose,       \* capabilities and services that may be lost
  Skews,      \* how far the simulator's clock may be ahead of the runtime's
  MaxNow,     \* bound: time
  MaxMoves,   \* bound: changes not made by the run
  None

ASSUME BoundsAssumption ==
  /\ MaxNow \in Nat /\ MaxMoves \in Nat /\ Skews \subseteq Int
  /\ Mode \in {"read_only", "full"} /\ Ambiguous \in BOOLEAN
  /\ None \notin Argument

------------------------------------------------------------------------------
(* The tools and their policy profiles.                                    *)

VehicleFact == {"occupants", "temperature", "motion", "position", "energy", "charging"}
Fact == VehicleFact \cup {"trip"}

Entry(risk, needs, paths) == [risk |-> risk, needs |-> needs, paths |-> paths]

\* Risk, required capabilities and services, and relevant facts.
Profile ==
  [get_vehicle_state        |-> Entry("R0", {"simulator"}, {}),
   get_trip_state           |-> Entry("R0", {"navigation", "simulator"}, {}),
   get_weather              |-> Entry("R0", {"weather"}, {}),
   search_charging_stations |-> Entry("R0", {"charging", "simulator"}, {}),
   get_charging_status      |-> Entry("R0", {"charging", "simulator"}, {}),
   set_cabin_temperature    |-> Entry("R1", {"cabinTemperature", "simulator"},
                                      {"temperature", "occupants"}),
   set_seat_heating         |-> Entry("R1", {"seatHeating", "simulator"}, {"occupants"}),
   set_media_volume         |-> Entry("R1", {"media", "simulator"}, {}),
   set_navigation_destination |-> Entry("R2", {"navigation", "simulator"}, {"motion", "trip"}),
   reroute_to_charger       |-> Entry("R2", {"navigation", "charging", "simulator"},
                                      {"energy", "position", "trip"}),
   reserve_charging_slot    |-> Entry("R2", {"charging", "simulator"},
                                      {"energy", "charging", "position"}),
   cancel_charging_reservation |-> Entry("R2", {"charging", "simulator"}, {"charging"}),
   request_roadside_assistance |-> Entry("R3", {"roadsideAssistance", "simulator"},
                                         {"motion", "position"}),
   request_emergency_support |-> Entry("R3", {"roadsideAssistance", "emergencySupport"},
                                       {"motion", "position"})]

Tool == DOMAIN Profile
Risk(t) == Profile[t].risk
SideEffect(t) == Risk(t) # "R0"
Capability == {"navigation", "charging", "cabinTemperature", "seatHeating", "media",
               "roadsideAssistance"}
Service == {"simulator", "weather", "emergencySupport"}

ASSUME DriftAssumption == Drift \subseteq Fact /\ Lose \subseteq Capability \cup Service

\* How old the state behind a decision may be: two seconds, or five.
MaxAge(t) == IF Risk(t) = "R1" THEN 1 ELSE 2

\* The tools whose absence from a plan is repaired.
Critical ==
  {t \in Tool : Risk(t) \in {"R2", "R3"}}

\* What a tool changes in the vehicle; the others leave vehicle and trip as they are.
Touches(t) ==
  CASE t = "set_cabin_temperature" -> {"temperature"}
    [] t \in {"set_navigation_destination", "reroute_to_charger"} -> {"trip"}
    [] OTHER -> {}

------------------------------------------------------------------------------

VARIABLES
  now,        \* the clock of the runtime
  skew,       \* what the clock of the simulator is ahead of it
  world,      \* the facts, and what the vehicle and its services offer
  stamp,      \* when the vehicle and the trip last changed, by the simulator's clock
  moves,      \* changes not made by the run
  phase,      \* where the run is
  plan,       \* the snapshot it plans with
  intents,    \* tools and arguments a confirmation has been asked for
  repairs,    \* tools still to be called by the repair
  cancelled,  \* the run was cancelled
  refreshed,  \* when a read of the state last returned
  call,       \* what each call has done
  action      \* the pending action of each call

worldVars == <<now, skew, world, stamp, moves>>
runVars == <<phase, plan, intents, repairs, cancelled, refreshed>>
vars == <<worldVars, runVars, call, action>>

World == [facts : [Fact -> BOOLEAN], offered : SUBSET (Capability \cup Service)]

Phase == {"loading", "model", "repair", "over"}

Stage == {"unused", "reading", "capturing", "allowed", "asking", "publishing", "executed",
          "asked", "withheld", "failed"}

Status == {"FRESH", "STALE", "FUTURE"}

\* seen: the state a read returned; at: when it was read; age: what it was when judged;
\* rule: the place of the rule that decided.
Unused == [stage |-> "unused", tool |-> None, arg |-> None, repair |-> FALSE, tries |-> 0,
           seen |-> None, at |-> 0, age |-> 0, rule |-> 0]

NoAction == [state |-> "none", tries |-> 0, seen |-> None, at |-> 0, age |-> 0]

Init ==
  /\ now = 0 /\ skew \in Skews
  /\ world = [facts |-> [f \in Fact |-> FALSE], offered |-> Capability \cup Service]
  /\ stamp = [vehicle |-> 0, trip |-> 0]
  /\ moves = 0
  /\ phase = "loading" /\ plan = None
  /\ intents = {} /\ repairs = {} /\ cancelled = FALSE /\ refreshed = None
  /\ call = [c \in Call |-> Unused]
  /\ action = [c \in Call |-> NoAction]

Reading == [world |-> world, stamp |-> stamp]

------------------------------------------------------------------------------
(* Freshness, conflict and the rules.                                      *)

Worst(statuses) ==
  IF "FUTURE" \in statuses THEN "FUTURE" ELSE IF "STALE" \in statuses THEN "STALE" ELSE "FRESH"

StatusOf(since, limit) ==
  IF now < since THEN "FUTURE" ELSE IF now - since <= limit THEN "FRESH" ELSE "STALE"

\* A faulty freshness, of the snapshot alone.
Freshness_Snapshot(reading, t) == StatusOf(now, MaxAge(t))

\* The worst of the snapshot, its vehicle state and its trip state; the snapshot is new.
Freshness(reading, t) ==
  Worst({StatusOf(reading.stamp[d], MaxAge(t)) : d \in {"vehicle", "trip"}})

\* A snapshot with a timestamp in the future is not made.
Sound(reading) == \A d \in {"vehicle", "trip"} : reading.stamp[d] <= now

\* Relevant values differ: those of the facts, and of the capabilities.
Conflicts(t, a, b) ==
  \/ \E f \in Profile[t].paths : a.world.facts[f] # b.world.facts[f]
  \/ \E x \in Profile[t].needs \cap Capability :
       (x \in a.world.offered) # (x \in b.world.offered)

Available(t, reading) == Profile[t].needs \subseteq reading.world.offered

\* What the engine is given for a call; without a snapshot the input is not valid.
Input(t, reading) ==
  IF reading = None
  THEN [risk |-> Risk(t), valid |-> FALSE, available |-> TRUE, fresh |-> "FRESH", changed |-> FALSE]
  ELSE [risk |-> Risk(t), valid |-> TRUE, available |-> Available(t, reading),
        fresh |-> IF SideEffect(t) THEN Freshness(reading, t) ELSE "FRESH",
        changed |-> SideEffect(t) /\ Conflicts(t, plan, reading)]

When(applies, decision) == [applies |-> applies, decision |-> decision]

\* Faulty rules: only R3 is asked about.
Rules_AllowR2(i) ==
  <<When(~i.valid, "DENY"),
    When(~i.available, "DENY"),
    When(i.fresh = "FUTURE", "DENY"),
    When(i.fresh = "STALE", "REPLAN"),
    When(i.changed, "REPLAN"),
    When(i.risk = "R3", "REQUIRE_CONFIRMATION"),
    When(TRUE, "ALLOW")>>

\* The rules in order of priority.  DG-POL-001 is for names no tool has; the input is
\* not valid without a context, so DG-POL-004 has nothing of its own to refuse.
Rules(i) ==
  <<When(~i.valid, "DENY"),
    When(~i.available, "DENY"),
    When(i.fresh = "FUTURE", "DENY"),
    When(i.fresh = "STALE", "REPLAN"),
    When(i.changed, "REPLAN"),
    When(i.risk \in {"R2", "R3"}, "REQUIRE_CONFIRMATION"),
    When(i.risk \in {"R0", "R1"}, "ALLOW"),
    When(TRUE, "DENY")>>

\* The first rule that applies decides.
Deciding(i) ==
  LET applying == {n \in DOMAIN Rules(i) : Rules(i)[n].applies}
  IN  CHOOSE n \in applying : \A m \in applying : n <= m

StaleRule == 4

------------------------------------------------------------------------------
(* The run: what it plans with, and what the model is shown.               *)

\* The run loads its context once; a timestamp in the future is read again once, and a
\* second one ends the run.
LoadPlan ==
  /\ phase = "loading"
  /\ IF Sound(Reading)
     THEN phase' = "model" /\ plan' = Reading
     ELSE phase' \in {"loading", "over"} /\ UNCHANGED plan
  /\ UNCHANGED <<worldVars, intents, repairs, cancelled, refreshed, call, action>>

\* Resolved by capability and service, and by the mode of the run.
Resolved == {t \in Tool : Available(t, plan) /\ (Mode = "read_only" => Risk(t) = "R0")}

\* Routed by the prompt; an ambiguous prompt is shown everything resolved.
Exposed == IF Ambiguous THEN Resolved ELSE Matched \cap Resolved

\* What the plan must hold; an ambiguous prompt requires nothing.
Envelopes == IF Ambiguous THEN {} ELSE Exposed \cap Critical

Settled == {"executed", "asked", "withheld", "failed"}
Idle == \A c \in Call : call[c].stage \in Settled \cup {"unused"}

\* The calls whose end has been seen; the others are unknown to the plan.
Planned == {call[c].tool : c \in {d \in Call : call[d].stage \in Settled}}

SetCall(c, new) == call' = [call EXCEPT ![c] = new]

\* The arguments a call of t may have: those the prompt binds, for which None stands, or
\* what the model proposes.
ArgumentsOf(t) == IF t \in Unbound THEN Argument ELSE {None}

\* A call that has no effect is judged against the snapshot of the plan.
Open(c, t, a, repair) ==
  /\ call[c].stage = "unused"
  /\ c = CHOOSE d \in Call : call[d].stage = "unused"
  /\ SetCall(c, [call[c] EXCEPT !.stage = IF SideEffect(t) THEN "reading" ELSE "capturing",
                                !.tool = t, !.arg = a, !.repair = repair,
                                !.seen = IF SideEffect(t) THEN None ELSE plan])

\* The model calls a tool it is shown, beside the calls under way; an aborted prompt
\* calls none.
ModelCalls(c, t) ==
  /\ phase = "model" /\ ~cancelled
  /\ t \in Exposed
  /\ \E a \in ArgumentsOf(t) : Open(c, t, a, FALSE)
  /\ UNCHANGED <<worldVars, runVars, action>>

\* A repair needs the arguments of all that is missing.
Repairable(missing) == missing # {} /\ missing \cap Unbound = {}

\* The prompt has returned: what a required tool lacks is repaired, if it can be.
ModelEnds ==
  LET missing == Envelopes \ Planned IN
  /\ phase = "model" /\ (Idle \/ cancelled)
  /\ repairs' = IF Repairable(missing) THEN missing ELSE {}
  /\ phase' = IF Repairable(missing) THEN "repair" ELSE "over"
  /\ UNCHANGED <<worldVars, plan, intents, cancelled, refreshed, call, action>>

\* One repair at a time, with arguments the prompt binds, whether the run was cancelled or not.
RepairCalls(c, t) ==
  /\ phase = "repair" /\ t \in repairs
  /\ \A d \in Call : call[d].repair => call[d].stage \in Settled
  /\ Open(c, t, None, TRUE)
  /\ repairs' = repairs \ {t}
  /\ UNCHANGED <<worldVars, phase, plan, intents, cancelled, refreshed, action>>

\* A repair that failed, otherwise than by the policy, leaves the others out.
RunEnds ==
  /\ phase = "repair" /\ Idle
  /\ repairs = {} \/ \E c \in Call : call[c].repair /\ call[c].stage = "failed"
  /\ phase' = "over" /\ repairs' = {}
  /\ UNCHANGED <<worldVars, plan, intents, cancelled, refreshed, call, action>>

Cancel ==
  /\ phase \in {"model", "repair"} /\ ~cancelled
  /\ cancelled' = TRUE
  /\ UNCHANGED <<worldVars, phase, plan, intents, repairs, refreshed, call, action>>

------------------------------------------------------------------------------
(* A call: read, judge, then execute or ask.                               *)

\* The simulator answers with vehicle and trip in one response.
ReadState(c) ==
  /\ call[c].stage = "reading"
  /\ SetCall(c, [call[c] EXCEPT !.stage = "capturing", !.seen = Reading, !.at = now])
  /\ UNCHANGED <<worldVars, runVars, action>>

\* The stage a decision leads to.
Judged(decision) ==
  CASE decision = "ALLOW" -> "allowed"
    [] decision = "REQUIRE_CONFIRMATION" -> "asking"
    [] OTHER -> "withheld"

\* The call is judged by what was read; a call that is withheld keeps nothing of it.
Decide(c, reading) ==
  LET input == Input(call[c].tool, reading)
      stage == Judged(Rules(input)[Deciding(input)].decision)
  IN  SetCall(c, [call[c] EXCEPT
                    !.stage = stage, !.rule = Deciding(input), !.at = 0, !.tries = 0,
                    !.seen = IF stage = "withheld" THEN None ELSE reading,
                    !.age = IF SideEffect(call[c].tool) /\ stage # "withheld"
                            THEN now - call[c].at ELSE 0])

\* The snapshot is made, compared and judged at one instant.
Judge(c) ==
  /\ call[c].stage = "capturing"
  /\ ~SideEffect(call[c].tool) \/ Sound(call[c].seen)
  /\ Decide(c, call[c].seen)
  /\ UNCHANGED <<worldVars, runVars, action>>

\* A timestamp in the future: the state is read again, once.
ReadAgain(c) ==
  /\ call[c].stage = "capturing" /\ SideEffect(call[c].tool) /\ ~Sound(call[c].seen)
  /\ call[c].tries = 0
  /\ SetCall(c, [call[c] EXCEPT !.stage = "reading", !.tries = 1, !.seen = None, !.at = 0])
  /\ UNCHANGED <<worldVars, runVars, action>>

\* No context can be had: the input is not valid, and is judged so.
JudgeBlind(c) ==
  /\ \/ call[c].stage = "reading"
     \/ /\ call[c].stage = "capturing" /\ SideEffect(call[c].tool)
        /\ ~Sound(call[c].seen) /\ call[c].tries = 1
  /\ Decide(c, None)
  /\ UNCHANGED <<worldVars, runVars, action>>

\* What an effect does to the vehicle, and to the clock of what it touches; TRUE stands
\* for the value of the tool's arguments.
Apply(t) ==
  /\ world' = [world EXCEPT !.facts = [f \in Fact |-> f \in Touches(t) \/ @[f]]]
  /\ stamp' = [vehicle |-> IF Touches(t) \cap VehicleFact # {} \/ t = "set_seat_heating"
                           THEN now + skew ELSE stamp.vehicle,
               trip |-> IF "trip" \in Touches(t) THEN now + skew ELSE stamp.trip]
  /\ UNCHANGED <<now, skew, moves>>

StateReads == {"get_vehicle_state", "get_trip_state"}

\* The executor takes the decision it was issued for, and the tool acts.
Execute(c) ==
  /\ call[c].stage = "allowed"
  /\ Apply(call[c].tool)
  /\ SetCall(c, [call[c] EXCEPT !.stage = "executed"])
  /\ refreshed' = IF call[c].tool \in StateReads THEN now ELSE refreshed
  /\ UNCHANGED <<phase, plan, intents, repairs, cancelled, action>>

\* An event is not delivered, the executor refuses, or the tool fails.
ExecuteFails(c) ==
  /\ call[c].stage = "allowed"
  /\ SetCall(c, [call[c] EXCEPT !.stage = "failed", !.seen = None, !.age = 0])
  /\ UNCHANGED <<worldVars, runVars, action>>

\* What the user is asked for once: the tool with its arguments; session, user, vehicle and
\* snapshot are the same for every call of the run.
Intent(c) == <<call[c].tool, call[c].arg>>

\* A faulty guard: the intent is looked up but not kept.
Ask_Forgets(c) ==
  /\ call[c].stage = "asking"
  /\ SetCall(c, [call[c] EXCEPT !.stage = IF Intent(c) \in intents THEN "asked" ELSE "publishing"])
  /\ UNCHANGED <<worldVars, runVars, action>>

\* One confirmation for an intent; a second call of it is answered as the first.
Ask(c) ==
  /\ call[c].stage = "asking"
  /\ IF Intent(c) \in intents
     THEN SetCall(c, [call[c] EXCEPT !.stage = "asked", !.seen = None, !.age = 0]) /\ UNCHANGED intents
     ELSE SetCall(c, [call[c] EXCEPT !.stage = "publishing"]) /\ intents' = intents \cup {Intent(c)}
  /\ UNCHANGED <<worldVars, phase, plan, repairs, cancelled, refreshed, action>>

\* The action is created and its challenge reaches the user's channel.
Publish(c) ==
  /\ call[c].stage = "publishing"
  /\ SetCall(c, [call[c] EXCEPT !.stage = "asked"])
  /\ action' = [action EXCEPT ![c].state = "awaiting"]
  /\ UNCHANGED <<worldVars, runVars>>

(***************************************************************************)
(* The action is not created, or cancelled because its challenge is not    *)
(* published; or that fails too and is swallowed: then the action awaits a *)
(* confirmation for which there is no challenge.  Either way the intent is *)
(* forgotten, and a later call of it asks again.                           *)
(***************************************************************************)
PublishFails(c) ==
  /\ call[c].stage = "publishing"
  /\ SetCall(c, [call[c] EXCEPT !.stage = "failed", !.seen = None, !.age = 0])
  /\ \E state \in {"cancelled", "stranded"} : action' = [action EXCEPT ![c].state = state]
  /\ intents' = intents \ {Intent(c)}
  /\ UNCHANGED <<worldVars, phase, plan, repairs, cancelled, refreshed>>

------------------------------------------------------------------------------
(* The user, after the run has ended.                                      *)

SetAction(c, new) == action' = [action EXCEPT ![c] = new]

UnderWay == {"confirmed", "checking", "ready"}

\* A confirmation takes the session: no run and no other confirmation is under way.
Confirm(c) ==
  /\ phase = "over" /\ Idle
  /\ action[c].state = "awaiting" /\ \A d \in Call : action[d].state \notin UnderWay
  /\ SetAction(c, [action[c] EXCEPT !.state = "confirmed"])
  /\ UNCHANGED <<worldVars, runVars, call>>

\* The user refuses, cancels, or lets the action expire; without its challenge that is
\* all that can be done with it.
Decline(c) ==
  /\ action[c].state \in {"awaiting", "stranded"}
  /\ SetAction(c, [action[c] EXCEPT !.state = IF @ = "awaiting" THEN "declined" ELSE "cancelled"])
  /\ UNCHANGED <<worldVars, runVars, call>>

ReadCurrent(c) ==
  /\ action[c].state = "confirmed"
  /\ SetAction(c, [action[c] EXCEPT !.state = "checking", !.seen = Reading, !.at = now])
  /\ UNCHANGED <<worldVars, runVars, call>>

\* The current context is not older than the profile allows, agrees with the one the
\* user was asked about, and still offers what the tool needs.
Valid(c) ==
  LET t == call[c].tool
      current == action[c].seen
  IN  /\ Freshness(current, t) = "FRESH"
      /\ ~Conflicts(t, call[c].seen, current)
      /\ Available(t, current)

Revalidate(c) ==
  /\ action[c].state = "checking" /\ Sound(action[c].seen)
  /\ SetAction(c, IF Valid(c)
                  THEN [action[c] EXCEPT !.state = "ready", !.age = now - action[c].at, !.at = 0, !.tries = 0]
                  ELSE [action[c] EXCEPT !.state = "replan", !.seen = None, !.at = 0, !.tries = 0])
  /\ UNCHANGED <<worldVars, runVars, call>>

\* A timestamp in the future is read again once; then, or if no state can be read at
\* all, the action is to be planned again.
RevalidateFails(c) ==
  /\ \/ /\ action[c].state = "checking" /\ ~Sound(action[c].seen)
        /\ SetAction(c, [NoAction EXCEPT !.state = IF action[c].tries = 0 THEN "confirmed" ELSE "replan",
                                         !.tries = 1 - action[c].tries])
     \/ action[c].state = "confirmed" /\ SetAction(c, [action[c] EXCEPT !.state = "replan", !.tries = 0])
  /\ UNCHANGED <<worldVars, runVars, call>>

Perform(c) ==
  /\ action[c].state = "ready"
  /\ \/ Apply(call[c].tool) /\ SetAction(c, [action[c] EXCEPT !.state = "executed"])
     \/ SetAction(c, [action[c] EXCEPT !.state = "failed"]) /\ UNCHANGED worldVars
  /\ UNCHANGED <<runVars, call>>

------------------------------------------------------------------------------
(* The vehicle and the clock.                                              *)

Move(f) ==
  /\ moves < MaxMoves
  /\ moves' = moves + 1
  /\ world' = [world EXCEPT !.facts[f] = ~@]
  /\ stamp' = [stamp EXCEPT ![IF f = "trip" THEN "trip" ELSE "vehicle"] = now + skew]
  /\ UNCHANGED <<now, skew, runVars, call, action>>

Withdraw(x) ==
  /\ moves < MaxMoves /\ x \in world.offered
  /\ moves' = moves + 1
  /\ world' = [world EXCEPT !.offered = @ \ {x}]
  /\ UNCHANGED <<now, skew, stamp, runVars, call, action>>

\* The state is set to a scenario: its facts are as they were, its timestamps new.
Reset ==
  /\ moves < MaxMoves
  /\ moves' = moves + 1
  /\ world' = [world EXCEPT !.facts = [f \in Fact |-> FALSE]]
  /\ stamp' = [vehicle |-> now + skew, trip |-> now + skew]
  /\ UNCHANGED <<now, skew, runVars, call, action>>

Tick ==
  /\ now < MaxNow
  /\ now' = now + 1
  /\ UNCHANGED <<skew, world, stamp, moves, runVars, call, action>>

RunStep == LoadPlan \/ ModelEnds \/ RunEnds \/ Cancel

CallStep(c) ==
  \/ ReadState(c) \/ Judge(c) \/ ReadAgain(c) \/ JudgeBlind(c)
  \/ Execute(c) \/ ExecuteFails(c) \/ Ask(c) \/ Publish(c) \/ PublishFails(c)

UserStep(c) ==
  Confirm(c) \/ Decline(c) \/ ReadCurrent(c) \/ Revalidate(c) \/ RevalidateFails(c) \/ Perform(c)

Next ==
  \/ RunStep
  \/ \E c \in Call : CallStep(c) \/ UserStep(c)
  \/ \E c \in Call, t \in Tool : ModelCalls(c, t) \/ RepairCalls(c, t)
  \/ \E f \in Drift : Move(f)
  \/ \E x \in Lose : Withdraw(x)
  \/ Reset \/ Tick

Spec == Init /\ [][Next]_vars

------------------------------------------------------------------------------
(* What a decision promises.                                               *)

TypeOK ==
  /\ now \in 0..MaxNow /\ skew \in Skews /\ moves \in 0..MaxMoves
  /\ world \in World
  /\ phase \in Phase
  /\ intents \subseteq Tool \X (Argument \cup {None}) /\ repairs \subseteq Tool
  /\ cancelled \in BOOLEAN
  /\ \A c \in Call :
       /\ call[c].stage \in Stage
       /\ call[c].tool \in Tool \cup {None} /\ call[c].arg \in Argument \cup {None}
       /\ call[c].stage \in {"allowed", "executed"} => Risk(call[c].tool) \in {"R0", "R1"}

\* A reading supports an effect of a tool planned at the snapshot plan.
Grounds(reading, age, t) ==
  /\ \A f \in Profile[t].paths : reading.world.facts[f] = plan.world.facts[f]
  /\ Profile[t].needs \subseteq reading.world.offered
  /\ age <= MaxAge(t) + (IF skew > 0 THEN skew ELSE 0)

(***************************************************************************)
(* Nothing is done to the vehicle on the strength of a state the plan did  *)
(* not see: every effect was decided on a reading the runtime made after   *)
(* the call, no older than its profile allows but for the simulator's      *)
(* clock, in which the facts its tool depends on are those of the plan; a  *)
(* confirmed effect was judged on two such readings                        *)
(* (providePolicyInput, rules, revalidate).                                *)
(***************************************************************************)
GroundedEffects ==
  \A c \in Call :
    LET t == call[c].tool IN
    /\ call[c].stage = "executed" /\ SideEffect(t) =>
         Grounds(call[c].seen, call[c].age, t)
    /\ action[c].state = "executed" =>
         /\ Grounds(call[c].seen, call[c].age, t)
         /\ Grounds(action[c].seen, action[c].age, t)

\* The challenge of the call's action has reached the user.
Challenged(c) == action[c].state \notin {"none", "cancelled", "stranded"}

(***************************************************************************)
(* However often the model, beside itself or with the repair, calls a tool *)
(* that needs a confirmation with the same arguments, the user gets one    *)
(* challenge for it, so it acts once (confirmationRequired, whose intents  *)
(* are kept before the first await).  Other arguments are another intent;  *)
(* and an action whose challenge could be neither published nor taken back *)
(* may await its expiry beside the one the user can answer.                *)
(***************************************************************************)
OneChallengePerIntent ==
  \A c, d \in Call :
    c # d /\ Intent(c) = Intent(d) /\ Challenged(c) => ~Challenged(d)

(***************************************************************************)
(* A state read makes the state fresh: a tool called after a read of the   *)
(* state has returned, and judged within its profile's age of it, is not   *)
(* refused because its context is stale (ADR 0007, R0 reads as a means of  *)
(* state refresh).                                                         *)
(***************************************************************************)
ReadsRefreshState ==
  [][\A c \in Call :
       call[c].stage = "capturing" /\ call'[c].rule = StaleRule
         => \/ refreshed = None \/ refreshed > call[c].at
            \/ now - refreshed > MaxAge(call[c].tool)]_vars

(***************************************************************************)
(* A call whose run is cancelled before the executor has it is not         *)
(* dispatched (the check of the signal before guarded dispatch).           *)
(***************************************************************************)
CancelledBeforeDispatch ==
  [][\A c \in Call : Execute(c) => ~cancelled]_vars
=============================================================================
