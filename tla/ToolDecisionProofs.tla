--------------------------- MODULE ToolDecisionProofs ---------------------------
(***************************************************************************)
(* Proofs about ToolDecision, for any number of calls, whatever the model  *)
(* is shown and calls, however the vehicle moves and whatever the clock of *)
(* the simulator says.                                                     *)
(*                                                                         *)
(* A decision is the first rule that applies (FirstRule), so a call that   *)
(* is not withheld passed every rule before: it had a context, offered,    *)
(* fresh and in agreement with the plan (Decided).  Between the read and   *)
(* the effect that stays true because the call keeps the reading it was    *)
(* judged by, and the plan never changes once it is loaded.  That nobody   *)
(* is asked twice rests on the intents: whoever publishes or has got its   *)
(* challenge to the user has its intent among them, and is the only one.   *)
(***************************************************************************)
EXTENDS ToolDecision, TLAPS

Stamps == [vehicle : Int, trip : Int]

Readings == [world : World, stamp : Stamps]

CallRecord ==
  [stage : Stage, tool : Tool \cup {None}, arg : Argument \cup {None}, repair : BOOLEAN, tries : Int,
   seen : Readings \cup {None}, at : Int, age : Int, rule : Int]

ActionState == {"none", "awaiting", "cancelled", "confirmed", "declined", "checking", "ready",
                "replan", "executed", "failed", "stranded"}

Intents == Tool \X (Argument \cup {None})

ActionRecord ==
  [state : ActionState, tries : Int, seen : Readings \cup {None}, at : Int, age : Int]

Types ==
  /\ now \in 0..MaxNow /\ skew \in Skews /\ moves \in 0..MaxMoves
  /\ world \in World /\ stamp \in Stamps
  /\ phase \in Phase /\ plan \in Readings \cup {None}
  /\ intents \subseteq Intents /\ repairs \subseteq Tool
  /\ cancelled \in BOOLEAN
  /\ call \in [Call -> CallRecord]
  /\ action \in [Call -> ActionRecord]

\* How far a timestamp may be ahead of the clock it is compared with.
Lead == IF skew > 0 THEN skew ELSE 0

NotAhead(time, stamps) == stamps.vehicle <= time + Lead /\ stamps.trip <= time + Lead

\* What was read, and when.
Taken(reading, at) == reading \in Readings /\ at <= now /\ NotAhead(at, reading.stamp)

\* The call has been let through to have its effect, or is to be answered by the user.
Decisive(c) ==
  \/ call[c].stage \in {"allowed", "executed"} /\ SideEffect(call[c].tool)
  \/ call[c].stage \in {"asking", "publishing"}

\* What a call knows, from its snapshot to its end.
CallOK(c) ==
  /\ call[c].stage # "unused" => call[c].tool \in Tool /\ phase # "loading"
  /\ call[c].stage = "capturing" /\ SideEffect(call[c].tool) => Taken(call[c].seen, call[c].at)
  /\ call[c].stage \in {"allowed", "executed"} => Risk(call[c].tool) \in {"R0", "R1"}
  /\ Decisive(c) => Grounds(call[c].seen, call[c].age, call[c].tool)

\* The call publishes its action, or its challenge has reached the user.
Holds(c) == call[c].stage = "publishing" \/ Challenged(c)

\* What the action of a call knows.
ActionOK(c) ==
  /\ call[c].stage \notin {"asked", "failed"} => action[c].state = "none"
  /\ Challenged(c) => call[c].stage = "asked" /\ Grounds(call[c].seen, call[c].age, call[c].tool)
  /\ Holds(c) => Intent(c) \in intents
  /\ action[c].state = "checking" => Taken(action[c].seen, action[c].at)
  /\ action[c].state \in {"ready", "executed"} =>
       Grounds(action[c].seen, action[c].age, call[c].tool)

\* One call holds an intent.
OneHolder ==
  \A c, d \in Call : c # d /\ Intent(c) = Intent(d) /\ Holds(c) => ~Holds(d)

IInv ==
  /\ Types /\ NotAhead(now, stamp)
  /\ \A c \in Call : CallOK(c) /\ ActionOK(c)
  /\ OneHolder

------------------------------------------------------------------------------
(* Decisions.                                                              *)

\* The rule that decides applies, and none before it does.
LEMMA FirstRule ==
  ASSUME NEW i
  PROVE  /\ Deciding(i) \in 1..8
         /\ Rules(i)[Deciding(i)].applies
         /\ \A m \in 1..8 : m < Deciding(i) => ~Rules(i)[m].applies
<1> DEFINE applying == {n \in 1..8 : Rules(i)[n].applies}
           first(n) == n \in applying /\ \A m \in applying : n <= m
<1>1. DOMAIN Rules(i) = 1..8 /\ Rules(i)[8].applies
  BY DEF Rules, When
<1>2. \E n \in 1..8 : first(n)
  <2> HIDE DEF applying
  <2>1. applying \subseteq 1..8 /\ 8 \in applying
    BY <1>1 DEF applying
  <2>2. CASE 1 \in applying
    BY <2>1, <2>2
  <2>3. CASE 1 \notin applying /\ 2 \in applying
    BY <2>1, <2>3
  <2>4. CASE {1, 2} \cap applying = {} /\ 3 \in applying
    BY <2>1, <2>4
  <2>5. CASE {1, 2, 3} \cap applying = {} /\ 4 \in applying
    BY <2>1, <2>5
  <2>6. CASE {1, 2, 3, 4} \cap applying = {} /\ 5 \in applying
    BY <2>1, <2>6
  <2>7. CASE {1, 2, 3, 4, 5} \cap applying = {} /\ 6 \in applying
    BY <2>1, <2>7
  <2>8. CASE {1, 2, 3, 4, 5, 6} \cap applying = {} /\ 7 \in applying
    BY <2>1, <2>8
  <2>9. CASE {1, 2, 3, 4, 5, 6, 7} \cap applying = {}
    BY <2>1, <2>9
  <2> QED BY <2>2, <2>3, <2>4, <2>5, <2>6, <2>7, <2>8, <2>9
<1>3. first(Deciding(i))
  <2>1. Deciding(i) = CHOOSE n \in applying : \A m \in applying : n <= m
    BY <1>1 DEF Deciding
  <2> QED BY <1>2, <2>1
<1> QED BY <1>3

\* The stage to which the rules lead a call of t judged by a reading.
Verdict(t, reading) ==
  Judged(Rules(Input(t, reading))[Deciding(Input(t, reading))].decision)

\* A call is let through only with a context that offers what its tool needs; one with an
\* effect, only if that context is fresh and agrees with the plan's.  What it may do then is
\* what its risk allows.
LEMMA Decided ==
  ASSUME NEW t \in Tool, NEW reading
  PROVE  /\ Verdict(t, reading) \in {"allowed", "asking", "withheld"}
         /\ Verdict(t, reading) = "allowed" => Risk(t) \in {"R0", "R1"}
         /\ Verdict(t, reading) = "asking" => Risk(t) \in {"R2", "R3"}
         /\ Verdict(t, reading) # "withheld" =>
              /\ reading # None /\ Available(t, reading)
              /\ SideEffect(t) => Freshness(reading, t) = "FRESH" /\ ~Conflicts(t, plan, reading)
<1> DEFINE i == Input(t, reading)
           n == Deciding(i)
<1>1. /\ n \in 1..8 /\ Rules(i)[n].applies
      /\ \A m \in 1..8 : m < n => ~Rules(i)[m].applies
  BY FirstRule
<1> HIDE DEF n
<1>2. /\ Rules(i)[1] = When(~i.valid, "DENY") /\ Rules(i)[2] = When(~i.available, "DENY")
      /\ Rules(i)[3] = When(i.fresh = "FUTURE", "DENY")
      /\ Rules(i)[4] = When(i.fresh = "STALE", "REPLAN") /\ Rules(i)[5] = When(i.changed, "REPLAN")
      /\ Rules(i)[6] = When(i.risk \in {"R2", "R3"}, "REQUIRE_CONFIRMATION")
      /\ Rules(i)[7] = When(i.risk \in {"R0", "R1"}, "ALLOW")
      /\ Rules(i)[8] = When(TRUE, "DENY")
  <2> HIDE DEF i
  <2> QED BY DEF Rules
<1>3. Verdict(t, reading) = Judged(Rules(i)[n].decision)
  BY DEF Verdict, n
<1>4. i.risk = Risk(t)
  BY DEF Input
<1>5. CASE n \in {1, 2, 3, 4, 5, 8}
  <2>1. Rules(i)[n].decision \in {"DENY", "REPLAN"}
    <3> HIDE DEF i
    <3> QED BY <1>2, <1>5 DEF When
  <2> QED BY <1>3, <2>1 DEF Judged
<1>6. CASE n \in {6, 7}
  <2>1. i.valid /\ i.available /\ i.fresh \notin {"FUTURE", "STALE"} /\ ~i.changed
    <3> HIDE DEF i
    <3> QED BY <1>1, <1>2, <1>6 DEF When
  <2>2. /\ n = 6 => Verdict(t, reading) = "asking" /\ i.risk \in {"R2", "R3"}
        /\ n = 7 => Verdict(t, reading) = "allowed" /\ i.risk \in {"R0", "R1"}
    <3> HIDE DEF i
    <3> QED BY <1>1, <1>2, <1>3, <1>6 DEF When, Judged
  <2>3. reading # None
    BY <2>1 DEF Input
  <2>4. Available(t, reading)
    BY <2>1, <2>3 DEF Input
  <2>5. SideEffect(t) => ~Conflicts(t, plan, reading)
    BY <2>1, <2>3 DEF Input
  <2>6. SideEffect(t) => Freshness(reading, t) = "FRESH"
    <3>1. Freshness(reading, t) \in {"FUTURE", "STALE", "FRESH"}
      BY DEF Freshness, Worst
    <3> QED BY <2>1, <2>3, <3>1 DEF Input
  <2> QED BY <1>4, <1>6, <2>2, <2>3, <2>4, <2>5, <2>6
<1> QED BY <1>1, <1>5, <1>6

\* A reading that is fresh now was made not much longer ago than the profile allows.
LEMMA FreshIsYoung ==
  ASSUME Types, NEW t \in Tool, NEW reading, NEW at \in Int, Taken(reading, at),
         Freshness(reading, t) = "FRESH"
  PROVE  now - at <= MaxAge(t) + Lead
<1>1. StatusOf(reading.stamp.vehicle, MaxAge(t)) = "FRESH"
  <2>1. \A S : Worst(S) = "FRESH" => "FUTURE" \notin S /\ "STALE" \notin S
    BY DEF Worst
  <2>2. StatusOf(reading.stamp["vehicle"], MaxAge(t)) \notin {"FUTURE", "STALE"}
    BY <2>1 DEF Freshness
  <2> QED BY <2>2 DEF StatusOf
<1>2. now - reading.stamp.vehicle <= MaxAge(t)
  BY <1>1 DEF StatusOf
<1>3. MaxAge(t) \in Int /\ Lead \in Int /\ now \in Int /\ reading.stamp.vehicle \in Int
  BY BoundsAssumption DEF MaxAge, Lead, Types, Taken, Readings, Stamps
<1> QED BY <1>2, <1>3 DEF Taken, NotAhead

\* What is let through or validated, is grounded.
LEMMA Grounded ==
  ASSUME Types, NEW t \in Tool, NEW reading, NEW at \in Int, Taken(reading, at),
         Freshness(reading, t) = "FRESH", Available(t, reading),
         \A f \in Profile[t].paths : reading.world.facts[f] = plan.world.facts[f]
  PROVE  Grounds(reading, now - at, t)
BY FreshIsYoung DEF Grounds, Available, Lead

------------------------------------------------------------------------------
(* Frames.                                                                 *)

\* A step of one call, or of its action, leaves the others as they are.
LEMMA OneMoves ==
  ASSUME IInv, NEW c \in Call, phase # "loading", phase' # "loading",
         UNCHANGED <<now, skew, plan>>,
         \A d \in Call \ {c} : call'[d] = call[d] /\ action'[d] = action[d],
         Types', NotAhead(now, stamp)', CallOK(c)', ActionOK(c)',
         \A d \in Call \ {c} : Holds(d) => Intent(d) \in intents',
         Holds(c)' => \A d \in Call \ {c} : Holds(d) => Intent(d) # Intent(c)'
  PROVE  IInv'
<1>0. \A d \in Call \ {c} : Intent(d)' = Intent(d)
  BY DEF Intent
<1>1. ASSUME NEW d \in Call \ {c} PROVE CallOK(d)' /\ ActionOK(d)' /\ (Holds(d)' <=> Holds(d))
  <2>1. CallOK(d) /\ ActionOK(d)
    BY DEF IInv
  <2>2. \A reading, at : Taken(reading, at)' <=> Taken(reading, at)
    BY DEF Taken, NotAhead, Lead
  <2>3. \A reading, age, t : Grounds(reading, age, t)' <=> Grounds(reading, age, t)
    BY DEF Grounds
  <2>4. CallOK(d)'
    BY <2>1, <2>2, <2>3 DEF CallOK, Decisive
  <2>5. (Holds(d)' <=> Holds(d)) /\ (Challenged(d)' <=> Challenged(d))
    BY DEF Holds, Challenged
  <2>6. ActionOK(d)'
    BY <1>0, <2>1, <2>2, <2>3, <2>5 DEF ActionOK
  <2> QED BY <2>4, <2>5, <2>6
<1>2. OneHolder'
  BY <1>0, <1>1 DEF OneHolder, IInv
<1> QED BY <1>1, <1>2 DEF IInv

\* A step of the world or of the run leaves the calls and their actions as they are.
LEMMA NoneMoves ==
  ASSUME IInv, UNCHANGED <<skew, intents, call, action>>, now' >= now,
         plan' = plan \/ phase = "loading", phase' = "loading" => phase = "loading",
         Types', NotAhead(now, stamp)'
  PROVE  IInv'
<1>0. \A c \in Call : Intent(c)' = Intent(c)
  BY DEF Intent
<1>1. ASSUME NEW c \in Call PROVE CallOK(c)' /\ ActionOK(c)'
  <2>1. CallOK(c) /\ ActionOK(c) /\ now \in Int /\ now' \in Int
    BY BoundsAssumption DEF IInv, Types
  <2>2. \A at \in Int : \A reading : Taken(reading, at) => Taken(reading, at)'
    BY <2>1 DEF Taken, NotAhead, Lead
  <2>3. call[c].at \in Int /\ action[c].at \in Int
    BY DEF IInv, Types, CallRecord, ActionRecord
  <2>4. (Holds(c)' <=> Holds(c)) /\ (Challenged(c)' <=> Challenged(c))
    BY DEF Holds, Challenged
  <2>5. CASE phase = "loading"
    <3>1. call[c].stage = "unused" /\ action[c].state = "none"
      BY <2>1, <2>5 DEF CallOK, Decisive, ActionOK
    <3> QED BY <3>1 DEF CallOK, Decisive, ActionOK, Challenged, Holds
  <2>6. CASE phase # "loading"
    <3>1. plan' = plan /\ phase' # "loading"
      BY <2>6
    <3>2. \A reading, age, t : Grounds(reading, age, t)' <=> Grounds(reading, age, t)
      BY <3>1 DEF Grounds
    <3>3. /\ Taken(call[c].seen, call[c].at) => Taken(call[c].seen, call[c].at)'
          /\ Taken(action[c].seen, action[c].at) => Taken(action[c].seen, action[c].at)'
      BY <2>2, <2>3
    <3>4. CallOK(c)'
      BY <2>1, <3>1, <3>2, <3>3 DEF CallOK, Decisive
    <3>5. ActionOK(c)'
      BY <1>0, <2>1, <2>4, <3>2, <3>3 DEF ActionOK
    <3> QED BY <3>4, <3>5
  <2> QED BY <2>5, <2>6
<1>2. OneHolder'
  BY <1>0 DEF OneHolder, IInv, Holds, Challenged
<1> QED BY <1>1, <1>2 DEF IInv

\* The state of the vehicle, read now.
LEMMA ReadNow ==
  ASSUME IInv PROVE Reading \in Readings /\ Taken(Reading, now)
<1>1. Reading \in Readings
  BY DEF IInv, Types, Reading, Readings
<1> QED BY <1>1, BoundsAssumption DEF IInv, Types, Taken, Reading

------------------------------------------------------------------------------
(* The vehicle and the run.                                                *)

\* Time goes on.
LEMMA TickStep ==
  ASSUME IInv, Tick PROVE IInv'
<1>1. /\ now < MaxNow /\ now' = now + 1
      /\ UNCHANGED <<skew, world, stamp, moves, phase, plan, intents, repairs, cancelled, call, action>>
  BY DEF Tick, runVars
<1>2. Types'
  BY <1>1, BoundsAssumption DEF IInv, Types
<1>3. NotAhead(now, stamp)'
  BY <1>1, BoundsAssumption DEF IInv, Types, NotAhead, Lead, Stamps
<1> QED BY <1>1, <1>2, <1>3, BoundsAssumption, NoneMoves DEF IInv, Types

\* The vehicle moves on its own, loses something it offered, or is set to a scenario.
LEMMA WorldStep ==
  ASSUME IInv, Reset \/ (\E f \in Drift : Move(f)) \/ (\E x \in Lose : Withdraw(x))
  PROVE  IInv'
<1>1. /\ moves' = moves + 1 /\ moves < MaxMoves
      /\ UNCHANGED <<now, skew, phase, plan, intents, repairs, cancelled, call, action>>
  BY DEF Reset, Move, Withdraw, runVars
<1>2. Types /\ NotAhead(now, stamp) /\ now \in Int /\ skew \in Int /\ Lead \in Int /\ skew <= Lead
  BY BoundsAssumption DEF IInv, Types, Lead
<1>3. world' \in World
  <2>1. CASE Reset
    <3>1. PICK facts \in [Fact -> BOOLEAN] : world' = [world EXCEPT !.facts = facts]
      BY <2>1 DEF Reset
    <3> QED BY <1>2, <3>1 DEF Types, World
  <2>2. ASSUME NEW f \in Drift, Move(f) PROVE world' \in World
    <3>1. PICK facts \in [Fact -> BOOLEAN] : world' = [world EXCEPT !.facts = facts]
      <4>1. world' = [world EXCEPT !.facts = [world.facts EXCEPT ![f] = ~world.facts[f]]]
        BY <2>2 DEF Move
      <4>2. [world.facts EXCEPT ![f] = ~world.facts[f]] \in [Fact -> BOOLEAN]
        BY <1>2, DriftAssumption DEF Types, World
      <4> QED BY <4>1, <4>2
    <3> QED BY <1>2, <3>1 DEF Types, World
  <2>3. ASSUME NEW x \in Lose, Withdraw(x) PROVE world' \in World
    <3>1. PICK offered \in SUBSET (Capability \cup Service) :
            world' = [world EXCEPT !.offered = offered]
      BY <1>2, <2>3 DEF Withdraw, Types, World
    <3> QED BY <1>2, <3>1 DEF Types, World
  <2> QED BY <2>1, <2>2, <2>3
<1>4. stamp' \in Stamps /\ NotAhead(now, stamp')
  <2>1. PICK time \in Int : time = now + skew
    BY <1>2
  <2>2. /\ \/ stamp' = stamp
           \/ stamp' = [stamp EXCEPT !.vehicle = time]
           \/ stamp' = [stamp EXCEPT !.trip = time]
           \/ stamp' = [vehicle |-> time, trip |-> time]
    BY <2>1 DEF Reset, Move, Withdraw
  <2>3. stamp \in Stamps
    BY <1>2 DEF Types
  <2> QED BY <1>2, <2>1, <2>2, <2>3 DEF Stamps, NotAhead
<1>5. Types'
  BY <1>1, <1>2, <1>3, <1>4, BoundsAssumption DEF Types
<1>6. NotAhead(now, stamp)'
  BY <1>1, <1>4 DEF NotAhead, Lead
<1> QED BY <1>1, <1>2, <1>5, <1>6, NoneMoves

\* The run loads its plan, ends its prompt or its repair, or is cancelled.
LEMMA RunStepKeeps ==
  ASSUME IInv, RunStep PROVE IInv'
<1>1. /\ UNCHANGED <<now, skew, world, stamp, moves, intents, call, action>>
      /\ plan' = plan \/ phase = "loading"
      /\ phase' = "loading" => phase = "loading"
  BY DEF RunStep, LoadPlan, ModelEnds, RunEnds, Cancel, worldVars
<1>2. Types /\ NotAhead(now, stamp)
  BY DEF IInv
<1>3. phase' \in Phase /\ cancelled' \in BOOLEAN
  BY <1>2 DEF Types, RunStep, LoadPlan, ModelEnds, RunEnds, Cancel, Phase
<1>4. plan' \in Readings \cup {None}
  BY <1>2, ReadNow DEF Types, RunStep, LoadPlan, ModelEnds, RunEnds, Cancel
<1>5. repairs' \subseteq Tool
  <2>1. Envelopes \subseteq Tool
    BY DEF Envelopes, Exposed, Resolved
  <2>2. repairs' \in {repairs, {}, Envelopes \ Planned}
    BY DEF RunStep, LoadPlan, ModelEnds, RunEnds, Cancel
  <2> QED BY <1>2, <2>1, <2>2 DEF Types
<1>6. Types'
  BY <1>1, <1>2, <1>3, <1>4, <1>5 DEF Types
<1>7. NotAhead(now, stamp)'
  BY <1>1, <1>2 DEF NotAhead, Lead
<1> QED BY <1>1, <1>2, <1>6, <1>7, BoundsAssumption, NoneMoves DEF Types

------------------------------------------------------------------------------
(* Calls.                                                                  *)

\* A step of one call that neither asks the user nor moves the vehicle.
LEMMA CallMoves ==
  ASSUME IInv, NEW c \in Call, NEW n \in CallRecord, call' = [call EXCEPT ![c] = n],
         UNCHANGED <<worldVars, plan, intents, cancelled, action>>,
         phase # "loading", phase' # "loading", phase' \in Phase, repairs' \subseteq Tool,
         CallOK(c)', action[c].state = "none", n.stage # "publishing"
  PROVE  IInv'
<1>1. Types /\ call'[c] = n /\ \A d \in Call \ {c} : call'[d] = call[d] /\ action'[d] = action[d]
  BY DEF IInv, Types
<1>2. Types'
  BY <1>1 DEF Types, worldVars
<1>3. NotAhead(now, stamp)'
  BY DEF IInv, NotAhead, Lead, worldVars
<1>4. ~Challenged(c)' /\ ~Holds(c)'
  BY <1>1 DEF Challenged, Holds
<1>5. ActionOK(c)'
  BY <1>1, <1>4 DEF ActionOK
<1>6. \A d \in Call : Holds(d) => Intent(d) \in intents'
  BY DEF IInv, ActionOK
<1> QED BY <1>1, <1>2, <1>3, <1>4, <1>5, <1>6, OneMoves DEF worldVars

\* The model or the repair makes a call.
LEMMA OpenStep ==
  ASSUME IInv, NEW c \in Call, NEW t \in Tool, ModelCalls(c, t) \/ RepairCalls(c, t)
  PROVE  IInv'
<1>1. /\ UNCHANGED <<worldVars, plan, intents, cancelled, phase, action>>
      /\ phase \in {"model", "repair"} /\ repairs' \subseteq repairs
      /\ call[c].stage = "unused"
  BY DEF ModelCalls, RepairCalls, Open, runVars
<1>2. Types /\ CallOK(c) /\ ActionOK(c)
  BY DEF IInv
<1>3. PICK a \in Argument \cup {None}, repair \in BOOLEAN : Open(c, t, a, repair)
  BY DEF ModelCalls, RepairCalls, ArgumentsOf
<1>4. PICK stage \in {"reading", "capturing"}, seen \in Readings \cup {None} :
        /\ stage = IF SideEffect(t) THEN "reading" ELSE "capturing"
        /\ seen = IF SideEffect(t) THEN None ELSE plan
  BY <1>2 DEF Types
<1>5. PICK n \in CallRecord : /\ call' = [call EXCEPT ![c] = n]
                              /\ n.stage = stage /\ n.tool = t /\ n.seen = seen
  <2> PICK e \in CallRecord : e = call[c]
    BY <1>2 DEF Types
  <2>1. PICK n : n = [e EXCEPT !.stage = stage, !.tool = t, !.arg = a, !.repair = repair, !.seen = seen]
    OBVIOUS
  <2>2. stage \in Stage
    BY <1>4 DEF Stage
  <2>3. n \in CallRecord /\ n.stage = stage /\ n.tool = t /\ n.seen = seen
    BY <2>1, <2>2 DEF CallRecord
  <2> QED BY <1>3, <1>4, <2>1, <2>3 DEF Open, SetCall
<1>6. call'[c] = n /\ action[c].state = "none"
  BY <1>1, <1>2, <1>5 DEF Types, ActionOK
<1>7. CallOK(c)'
  BY <1>1, <1>4, <1>5, <1>6 DEF CallOK, Decisive
<1>8. phase \in Phase /\ repairs' \subseteq Tool
  BY <1>1, <1>2 DEF Types
<1> QED BY <1>1, <1>4, <1>5, <1>6, <1>7, <1>8, CallMoves

\* The state is read, for the first time or once more.
LEMMA ReadStep ==
  ASSUME IInv, NEW c \in Call, ReadState(c) \/ ReadAgain(c) PROVE IInv'
<1>1. /\ UNCHANGED <<worldVars, runVars, action>> /\ call[c].stage \in {"reading", "capturing"}
  BY DEF ReadState, ReadAgain
<1>2. Types /\ CallOK(c) /\ ActionOK(c) /\ now \in Int
  BY BoundsAssumption DEF IInv, Types
<1>3. PICK n \in CallRecord :
        /\ call' = [call EXCEPT ![c] = n] /\ n.tool = call[c].tool /\ n.arg = call[c].arg
        /\ \/ n.stage = "capturing" /\ Taken(n.seen, n.at)
           \/ n.stage = "reading"
  <2> PICK e \in CallRecord : e = call[c]
    BY <1>2 DEF Types
  <2>2. CASE ReadState(c)
    <3>1. PICK seen \in Readings : seen = Reading /\ Taken(seen, now)
      BY ReadNow
    <3>2. PICK n : n = [e EXCEPT !.stage = "capturing", !.seen = seen, !.at = now]
      OBVIOUS
    <3>3. "capturing" \in Stage
      BY DEF Stage
    <3>4. n \in CallRecord /\ n.stage = "capturing" /\ n.tool = e.tool /\ n.arg = e.arg /\ n.seen = seen /\ n.at = now
      BY <1>2, <3>2, <3>3 DEF CallRecord
    <3>5. call' = [call EXCEPT ![c] = n]
      BY <2>2, <3>1, <3>2 DEF ReadState, SetCall
    <3> QED BY <3>1, <3>4, <3>5
  <2>3. CASE ReadAgain(c)
    <3>2. "reading" \in Stage
      BY DEF Stage
    <3> PICK reading \in Stage, nothing \in Readings \cup {None}, zero \in Int, one \in Int :
          reading = "reading" /\ nothing = None /\ zero = 0 /\ one = 1
      BY <3>2
    <3>1. PICK n : n = [e EXCEPT !.stage = reading, !.tries = one, !.seen = nothing, !.at = zero]
      OBVIOUS
    <3>3. n \in CallRecord /\ n.stage = reading /\ n.tool = e.tool /\ n.arg = e.arg
      BY <3>1 DEF CallRecord
    <3>4. call' = [call EXCEPT ![c] = n]
      BY <2>3, <3>1 DEF ReadAgain, SetCall
    <3> QED BY <3>3, <3>4
  <2> QED BY <2>2, <2>3
<1>4. call'[c] = n /\ action[c].state = "none" /\ phase # "loading" /\ call[c].tool \in Tool
  BY <1>1, <1>2, <1>3 DEF Types, ActionOK, CallOK, Decisive
<1>5. Taken(n.seen, n.at) => Taken(n.seen, n.at)'
  BY <1>1, <1>2 DEF Taken, NotAhead, Lead, worldVars
<1>6. CallOK(c)'
  BY <1>1, <1>3, <1>4, <1>5 DEF CallOK, Decisive, Taken, runVars
<1>7. phase \in Phase /\ repairs \subseteq Tool
  BY <1>2 DEF Types
<1> QED BY <1>1, <1>3, <1>4, <1>6, <1>7, CallMoves DEF runVars

\* The call is judged: what is let through or asked about is grounded.
LEMMA JudgeStep ==
  ASSUME IInv, NEW c \in Call, Judge(c) \/ JudgeBlind(c) PROVE IInv'
<1>1. /\ UNCHANGED <<worldVars, runVars, action>> /\ call[c].stage \in {"reading", "capturing"}
  BY DEF Judge, JudgeBlind
<1>2. Types /\ CallOK(c) /\ ActionOK(c) /\ now \in Int /\ call[c] \in CallRecord
  BY BoundsAssumption DEF IInv, Types
<1>3. PICK t \in Tool : t = call[c].tool
  BY <1>1, <1>2 DEF CallOK, Decisive
<1>4. PICK reading \in Readings \cup {None} :
        /\ Decide(c, reading)
        /\ reading # None => call[c].stage = "capturing" /\ reading = call[c].seen
  BY <1>2 DEF Judge, JudgeBlind, CallRecord
<1>5. PICK rule \in 1..8 : rule = Deciding(Input(t, reading))
  BY FirstRule
<1>6. PICK stage \in {"allowed", "asking", "withheld"} : stage = Verdict(t, reading)
  BY Decided
<1>7. /\ stage = "allowed" => Risk(t) \in {"R0", "R1"}
      /\ stage = "asking" => Risk(t) \in {"R2", "R3"}
      /\ stage # "withheld" =>
           /\ reading # None /\ Available(t, reading)
           /\ SideEffect(t) => Freshness(reading, t) = "FRESH" /\ ~Conflicts(t, plan, reading)
  BY <1>6, Decided
<1>8. PICK age \in Int, seen \in Readings \cup {None} :
        /\ age = IF SideEffect(t) /\ stage # "withheld" THEN now - call[c].at ELSE 0
        /\ seen = IF stage = "withheld" THEN None ELSE reading
  BY <1>2, <1>4 DEF CallRecord
<1>9. PICK n \in CallRecord : /\ call' = [call EXCEPT ![c] = n]
                              /\ n.stage = stage /\ n.tool = t /\ n.seen = seen /\ n.age = age
  <2> PICK e \in CallRecord : e = call[c]
    BY <1>2
  <2> PICK place \in Stage, number \in Int, zero \in Int : place = stage /\ number = rule /\ zero = 0
    BY DEF Stage
  <2>2. PICK g : g = [e EXCEPT !.stage = place, !.rule = number, !.at = zero, !.tries = zero]
    OBVIOUS
  <2>3. g \in CallRecord /\ g.stage = place /\ g.tool = e.tool
    BY <2>2 DEF CallRecord
  <2>4. PICK n : n = [g EXCEPT !.seen = seen, !.age = age]
    OBVIOUS
  <2>5. n \in CallRecord /\ n.stage = g.stage /\ n.tool = g.tool /\ n.seen = seen /\ n.age = age
    BY <2>3, <2>4 DEF CallRecord
  <2>6. call' = [call EXCEPT ![c] = [e EXCEPT !.stage = stage, !.rule = rule, !.at = 0, !.tries = 0,
                                              !.seen = seen, !.age = age]]
    BY <1>3, <1>4, <1>5, <1>6, <1>8 DEF Decide, SetCall, Verdict
  <2>7. call' = [call EXCEPT ![c] = n]
    BY <2>2, <2>4, <2>6
  <2> QED BY <1>3, <2>3, <2>5, <2>7
<1>10. call'[c] = n /\ action[c].state = "none" /\ phase # "loading"
  BY <1>1, <1>2, <1>9 DEF Types, ActionOK, CallOK, Decisive
<1>11. stage # "withheld" /\ SideEffect(t) => Grounds(seen, age, t)
  <2> SUFFICES ASSUME stage # "withheld", SideEffect(t) PROVE Grounds(seen, age, t)
    OBVIOUS
  <2>1. reading = call[c].seen /\ Taken(reading, call[c].at) /\ call[c].at \in Int
    BY <1>2, <1>3, <1>4, <1>7 DEF CallOK, Decisive, CallRecord
  <2>2. \A f \in Profile[t].paths : reading.world.facts[f] = plan.world.facts[f]
    BY <1>7 DEF Conflicts
  <2>3. Grounds(reading, now - call[c].at, t)
    BY <1>2, <1>7, <2>1, <2>2, Grounded
  <2> QED BY <1>8, <2>3
<1>12. Grounds(seen, age, t) => Grounds(seen, age, t)'
  BY <1>1 DEF Grounds, worldVars, runVars
<1>13. stage = "asking" => SideEffect(t)
  BY <1>7 DEF SideEffect
<1>14. CallOK(c)'
  BY <1>1, <1>3, <1>6, <1>7, <1>9, <1>10, <1>11, <1>12, <1>13 DEF CallOK, Decisive, runVars
<1>15. phase \in Phase /\ repairs \subseteq Tool
  BY <1>2 DEF Types
<1> QED BY <1>1, <1>6, <1>9, <1>10, <1>14, <1>15, CallMoves DEF runVars

\* What a tool does to the vehicle and to its timestamps.
LEMMA Applied ==
  ASSUME IInv, NEW t, Apply(t)
  PROVE  /\ world' \in World /\ stamp' \in Stamps /\ NotAhead(now, stamp)'
         /\ UNCHANGED <<now, skew, moves>>
<1>1. UNCHANGED <<now, skew, moves>> /\ Types /\ NotAhead(now, stamp)
  BY DEF Apply, IInv
<1>2. now \in Int /\ skew \in Int /\ Lead \in Int /\ skew <= Lead
  BY <1>1, BoundsAssumption DEF Types, Lead
<1>3. PICK facts \in [Fact -> BOOLEAN] : world' = [world EXCEPT !.facts = facts]
  BY DEF Apply
<1>4. PICK v \in {stamp.vehicle, now + skew}, u \in {stamp.trip, now + skew} :
        stamp' = [vehicle |-> v, trip |-> u]
  BY DEF Apply
<1>5. stamp' \in Stamps /\ NotAhead(now, stamp')
  BY <1>1, <1>2, <1>4 DEF Types, Stamps, NotAhead
<1> QED BY <1>1, <1>3, <1>5 DEF Types, World, NotAhead, Lead

\* The tool acts.
LEMMA ExecuteStep ==
  ASSUME IInv, NEW c \in Call, Execute(c) PROVE IInv'
<1>1. /\ UNCHANGED <<phase, plan, intents, repairs, cancelled, action>> /\ call[c].stage = "allowed"
      /\ Apply(call[c].tool)
      /\ call' = [call EXCEPT ![c] = [call[c] EXCEPT !.stage = "executed"]]
  BY DEF Execute, SetCall
<1>2. Types /\ CallOK(c) /\ ActionOK(c) /\ call[c] \in CallRecord
  BY DEF IInv, Types
<1>3. /\ world' \in World /\ stamp' \in Stamps /\ NotAhead(now, stamp)'
      /\ UNCHANGED <<now, skew, moves>>
  BY <1>1, Applied
<1>4. PICK n \in CallRecord : /\ call' = [call EXCEPT ![c] = n] /\ n.stage = "executed"
                              /\ n.tool = call[c].tool /\ n.arg = call[c].arg /\ n.seen = call[c].seen /\ n.age = call[c].age
  <2>1. "executed" \in Stage
    BY DEF Stage
  <2> PICK e \in CallRecord : e = call[c]
    BY <1>2
  <2>2. PICK n : n = [e EXCEPT !.stage = "executed"]
    OBVIOUS
  <2>3. n \in CallRecord /\ n.stage = "executed" /\ n.tool = e.tool /\ n.arg = e.arg /\ n.seen = e.seen /\ n.age = e.age
    BY <2>1, <2>2 DEF CallRecord
  <2>4. call' = [call EXCEPT ![c] = n]
    BY <1>1, <2>2
  <2> QED BY <2>3, <2>4
<1>5. call'[c] = n /\ \A d \in Call \ {c} : call'[d] = call[d] /\ action'[d] = action[d]
  BY <1>1, <1>2, <1>4 DEF Types
<1>6. Types'
  BY <1>1, <1>2, <1>3, <1>4 DEF Types
<1>7. action'[c].state = "none" /\ phase # "loading" /\ call[c].tool \in Tool
  BY <1>1, <1>2 DEF ActionOK, CallOK, Decisive
<1>8. Grounds(n.seen, n.age, n.tool) => Grounds(n.seen, n.age, n.tool)'
  BY <1>1, <1>3 DEF Grounds
<1>9. CallOK(c)'
  BY <1>1, <1>2, <1>4, <1>5, <1>7, <1>8 DEF CallOK, Decisive
<1>10. ~Holds(c)' /\ ActionOK(c)'
  BY <1>4, <1>5, <1>7 DEF Holds, Challenged, ActionOK
<1>11. \A d \in Call : Holds(d) => Intent(d) \in intents'
  BY <1>1 DEF IInv, ActionOK
<1> QED BY <1>1, <1>3, <1>5, <1>6, <1>7, <1>9, <1>10, <1>11, OneMoves

\* The call fails before its tool acts.
LEMMA ExecuteFailsStep ==
  ASSUME IInv, NEW c \in Call, ExecuteFails(c) PROVE IInv'
<1>1. /\ UNCHANGED <<worldVars, runVars, action>> /\ call[c].stage = "allowed"
      /\ call' = [call EXCEPT ![c] = [call[c] EXCEPT !.stage = "failed", !.seen = None, !.age = 0]]
  BY DEF ExecuteFails, SetCall
<1>2. Types /\ CallOK(c) /\ ActionOK(c) /\ call[c] \in CallRecord
  BY DEF IInv, Types
<1>3. PICK n \in CallRecord : /\ call' = [call EXCEPT ![c] = n] /\ n.stage = "failed"
                              /\ n.tool = call[c].tool /\ n.arg = call[c].arg
  <2>1. "failed" \in Stage
    BY DEF Stage
  <2> PICK e \in CallRecord : e = call[c]
    BY <1>2
  <2> PICK failed \in Stage, nothing \in Readings \cup {None}, zero \in Int :
        failed = "failed" /\ nothing = None /\ zero = 0
    BY <2>1
  <2>2. PICK n : n = [e EXCEPT !.stage = failed, !.seen = nothing, !.age = zero]
    OBVIOUS
  <2>3. n \in CallRecord /\ n.stage = failed /\ n.tool = e.tool /\ n.arg = e.arg
    BY <2>2 DEF CallRecord
  <2>4. call' = [call EXCEPT ![c] = n]
    BY <1>1, <2>2
  <2> QED BY <2>3, <2>4
<1>4. call'[c] = n /\ action[c].state = "none" /\ phase # "loading" /\ call[c].tool \in Tool
  BY <1>1, <1>2, <1>3 DEF Types, ActionOK, CallOK, Decisive
<1>5. CallOK(c)'
  BY <1>1, <1>3, <1>4 DEF CallOK, Decisive, runVars
<1>6. phase \in Phase /\ repairs \subseteq Tool
  BY <1>2 DEF Types
<1> QED BY <1>1, <1>3, <1>4, <1>5, <1>6, CallMoves DEF runVars

\* The call asks the user, or is answered as the call that has asked.
LEMMA AskStep ==
  ASSUME IInv, NEW c \in Call, Ask(c) PROVE IInv'
<1>1. UNCHANGED <<worldVars, phase, plan, repairs, cancelled, action>> /\ call[c].stage = "asking"
  BY DEF Ask
<1>2. Types /\ CallOK(c) /\ ActionOK(c) /\ call[c] \in CallRecord
  BY DEF IInv, Types
<1>3. /\ action[c].state = "none" /\ phase # "loading" /\ call[c].tool \in Tool
      /\ Grounds(call[c].seen, call[c].age, call[c].tool)
  BY <1>1, <1>2 DEF ActionOK, CallOK, Decisive
<1> PICK e \in CallRecord : e = call[c]
  BY <1>2
<1>4. CASE Intent(c) \in intents
  <2>1. intents' = intents
    BY <1>4 DEF Ask
  <2>2. "asked" \in Stage
    BY DEF Stage
  <2> PICK asked \in Stage, nothing \in Readings \cup {None}, zero \in Int :
        asked = "asked" /\ nothing = None /\ zero = 0
    BY <2>2
  <2>3. PICK n : n = [e EXCEPT !.stage = asked, !.seen = nothing, !.age = zero]
    OBVIOUS
  <2>4. n \in CallRecord /\ n.stage = asked /\ n.tool = e.tool /\ n.arg = e.arg
    BY <2>3 DEF CallRecord
  <2>5. call' = [call EXCEPT ![c] = n]
    BY <1>4, <2>3 DEF Ask, SetCall
  <2>6. call'[c] = n
    BY <1>2, <2>5 DEF Types
  <2>7. CallOK(c)'
    BY <1>1, <1>3, <2>4, <2>6 DEF CallOK, Decisive
  <2>8. phase \in Phase /\ repairs \subseteq Tool
    BY <1>2 DEF Types
  <2> QED BY <1>1, <1>3, <2>1, <2>4, <2>5, <2>7, <2>8, CallMoves
<1>5. CASE Intent(c) \notin intents
  <2>1. intents' = intents \cup {Intent(c)}
    BY <1>5 DEF Ask
  <2>2. "publishing" \in Stage
    BY DEF Stage
  <2> PICK publishing \in Stage : publishing = "publishing"
    BY <2>2
  <2>3. PICK n : n = [e EXCEPT !.stage = publishing]
    OBVIOUS
  <2>4. n \in CallRecord /\ n.stage = publishing /\ n.tool = e.tool /\ n.arg = e.arg /\ n.seen = e.seen /\ n.age = e.age
    BY <2>3 DEF CallRecord
  <2>5. call' = [call EXCEPT ![c] = n]
    BY <1>5, <2>3 DEF Ask, SetCall
  <2>6. call'[c] = n /\ \A d \in Call \ {c} : call'[d] = call[d] /\ action'[d] = action[d]
    BY <1>1, <1>2, <2>5 DEF Types
  <2>7. Types'
    <3>1. Intent(c) \in Intents
      BY <1>2, <1>3 DEF Intent, Intents, CallRecord
    <3> QED BY <1>1, <1>2, <2>1, <2>4, <2>5, <3>1 DEF Types, worldVars
  <2>8. Grounds(n.seen, n.age, n.tool)'
    BY <1>1, <1>3, <2>4 DEF Grounds, worldVars
  <2>9. CallOK(c)'
    BY <1>1, <1>3, <2>4, <2>6, <2>8 DEF CallOK, Decisive
  <2>15. Intent(c)' = Intent(c)
    BY <2>4, <2>6 DEF Intent
  <2>10. ActionOK(c)'
    BY <1>1, <1>3, <2>1, <2>4, <2>6, <2>15 DEF ActionOK, Challenged, Holds
  <2>11. \A d \in Call : Holds(d) => Intent(d) \in intents
    BY DEF IInv, ActionOK
  <2>12. \A d \in Call \ {c} : Holds(d) => Intent(d) \in intents' /\ Intent(d) # Intent(c)'
    BY <1>5, <2>1, <2>11, <2>15
  <2>13. NotAhead(now, stamp)'
    BY <1>1 DEF IInv, NotAhead, Lead, worldVars
  <2>14. UNCHANGED <<now, skew, plan, phase>>
    BY <1>1 DEF worldVars
  <2> QED BY <1>3, <2>6, <2>7, <2>9, <2>10, <2>12, <2>13, <2>14, OneMoves
<1> QED BY <1>4, <1>5

\* The challenge of the action reaches the user, or the action is cancelled or left behind.
LEMMA PublishStep ==
  ASSUME IInv, NEW c \in Call, Publish(c) \/ PublishFails(c) PROVE IInv'
<1>1. UNCHANGED <<worldVars, phase, plan, repairs, cancelled>> /\ call[c].stage = "publishing"
  BY DEF Publish, PublishFails, runVars
<1>2. Types /\ CallOK(c) /\ ActionOK(c) /\ call[c] \in CallRecord /\ action[c] \in ActionRecord
  BY DEF IInv, Types
<1>3. /\ action[c].state = "none" /\ phase # "loading" /\ call[c].tool \in Tool
      /\ Grounds(call[c].seen, call[c].age, call[c].tool) /\ Intent(c) \in intents
  BY <1>1, <1>2 DEF ActionOK, CallOK, Decisive, Holds
<1>4. \A d \in Call \ {c} : Holds(d) => Intent(d) \in intents /\ Intent(d) # Intent(c)
  BY <1>1 DEF IInv, ActionOK, OneHolder, Holds
<1>5. NotAhead(now, stamp)' /\ UNCHANGED <<now, skew, plan, phase>>
  BY <1>1 DEF IInv, NotAhead, Lead, worldVars
<1>6. \A reading, age, t : Grounds(reading, age, t)' <=> Grounds(reading, age, t)
  BY <1>5 DEF Grounds
<1> PICK e \in CallRecord : e = call[c]
  BY <1>2
<1> PICK a \in ActionRecord : a = action[c]
  BY <1>2
<1>7. PICK n \in CallRecord, m \in ActionRecord :
        /\ call' = [call EXCEPT ![c] = n] /\ n.tool = e.tool /\ n.arg = e.arg
        /\ action' = [action EXCEPT ![c] = m] /\ m.at = a.at
        /\ \/ Publish(c) /\ n.stage = "asked" /\ n.seen = e.seen /\ n.age = e.age /\ m.state = "awaiting"
           \/ PublishFails(c) /\ n.stage = "failed" /\ m.state \in {"cancelled", "stranded"}
  <2>1. "asked" \in Stage /\ "failed" \in Stage /\ {"awaiting", "cancelled", "stranded"} \subseteq ActionState
    BY DEF Stage, ActionState
  <2>2. CASE Publish(c)
    <3> PICK asked \in Stage, awaiting \in ActionState : asked = "asked" /\ awaiting = "awaiting"
      BY <2>1
    <3>1. PICK n : n = [e EXCEPT !.stage = asked]
      OBVIOUS
    <3>2. n \in CallRecord /\ n.stage = asked /\ n.tool = e.tool /\ n.arg = e.arg /\ n.seen = e.seen /\ n.age = e.age
      BY <3>1 DEF CallRecord
    <3>3. PICK m : m = [a EXCEPT !.state = awaiting]
      OBVIOUS
    <3>4. m \in ActionRecord /\ m.state = awaiting /\ m.at = a.at
      BY <3>3 DEF ActionRecord
    <3>5. call' = [call EXCEPT ![c] = n]
      BY <2>2, <3>1 DEF Publish, SetCall
    <3>6. action' = [action EXCEPT ![c] = m]
      BY <2>2, <3>3 DEF Publish
    <3> QED BY <2>2, <3>2, <3>4, <3>5, <3>6
  <2>3. CASE PublishFails(c)
    <3> PICK failed \in Stage, nothing \in Readings \cup {None}, zero \in Int :
          failed = "failed" /\ nothing = None /\ zero = 0
      BY <2>1
    <3> PICK state \in ActionState : /\ state \in {"cancelled", "stranded"}
                                     /\ action' = [action EXCEPT ![c].state = state]
      BY <2>1, <2>3 DEF PublishFails
    <3>1. PICK n : n = [e EXCEPT !.stage = failed, !.seen = nothing, !.age = zero]
      OBVIOUS
    <3>2. n \in CallRecord /\ n.stage = failed /\ n.tool = e.tool /\ n.arg = e.arg
      BY <3>1 DEF CallRecord
    <3>3. PICK m : m = [a EXCEPT !.state = state]
      OBVIOUS
    <3>4. m \in ActionRecord /\ m.state = state /\ m.at = a.at
      BY <3>3 DEF ActionRecord
    <3>5. call' = [call EXCEPT ![c] = n]
      BY <2>3, <3>1 DEF PublishFails, SetCall
    <3>6. action' = [action EXCEPT ![c] = m]
      BY <3>3
    <3> QED BY <2>3, <3>2, <3>4, <3>5, <3>6
  <2> QED BY <2>2, <2>3
<1>8. /\ call'[c] = n /\ action'[c] = m
      /\ \A d \in Call \ {c} : call'[d] = call[d] /\ action'[d] = action[d]
  BY <1>2, <1>7 DEF Types
<1>14. Intent(c)' = Intent(c)
  BY <1>7, <1>8 DEF Intent
<1>9. intents' = IF m.state = "awaiting" THEN intents ELSE intents \ {Intent(c)}
  BY <1>7 DEF Publish, PublishFails, runVars
<1>10. Types'
  BY <1>1, <1>2, <1>7, <1>9 DEF Types, worldVars
<1>11. CallOK(c)'
  BY <1>1, <1>3, <1>7, <1>8 DEF CallOK, Decisive
<1>12. ActionOK(c)'
  <2>1. m.state = "awaiting" => Grounds(n.seen, n.age, n.tool)' /\ Intent(c) \in intents'
    BY <1>3, <1>6, <1>7, <1>9
  <2> QED BY <1>7, <1>8, <1>14, <2>1 DEF ActionOK, Challenged, Holds
<1>13. \A d \in Call \ {c} : Holds(d) => Intent(d) \in intents' /\ Intent(d) # Intent(c)'
  BY <1>4, <1>9, <1>14
<1> QED BY <1>3, <1>5, <1>8, <1>10, <1>11, <1>12, <1>13, OneMoves

------------------------------------------------------------------------------
(* The user.                                                               *)

\* A step of an action that was published.
LEMMA ActionMoves ==
  ASSUME IInv, NEW c \in Call, NEW m \in ActionRecord, action' = [action EXCEPT ![c] = m],
         UNCHANGED <<runVars, call, now, skew, moves>>,
         world' \in World, stamp' \in Stamps, NotAhead(now, stamp)',
         Challenged(c), m.state \notin {"none", "cancelled", "stranded"},
         m.state = "checking" => Taken(m.seen, m.at),
         m.state \in {"ready", "executed"} => Grounds(m.seen, m.age, call[c].tool)
  PROVE  IInv'
<1>1. /\ Types /\ CallOK(c) /\ ActionOK(c)
      /\ action'[c] = m /\ \A d \in Call \ {c} : call'[d] = call[d] /\ action'[d] = action[d]
  BY DEF IInv, Types
<1>2. /\ call[c].stage = "asked" /\ Intent(c) \in intents /\ phase # "loading" /\ phase' = phase
      /\ plan' = plan /\ intents' = intents
      /\ Grounds(call[c].seen, call[c].age, call[c].tool)
  BY <1>1 DEF ActionOK, CallOK, Decisive, Holds, runVars
<1>3. Types'
  BY <1>1 DEF Types, runVars
<1>4. \A reading, age, t : Grounds(reading, age, t)' <=> Grounds(reading, age, t)
  BY <1>2 DEF Grounds
<1>5. \A reading, at : Taken(reading, at)' <=> Taken(reading, at)
  BY DEF Taken, NotAhead, Lead
<1>6. CallOK(c)'
  BY <1>1, <1>2, <1>4 DEF CallOK, Decisive
<1>9. Intent(c)' = Intent(c)
  BY DEF Intent
<1>7. ActionOK(c)'
  BY <1>1, <1>2, <1>4, <1>5, <1>9 DEF ActionOK, Challenged, Holds
<1>8. \A d \in Call \ {c} : Holds(d) => Intent(d) \in intents' /\ Intent(d) # Intent(c)'
  BY <1>2, <1>9 DEF IInv, ActionOK, OneHolder, Holds
<1> QED BY <1>1, <1>2, <1>3, <1>6, <1>7, <1>8, OneMoves

\* An action whose challenge was lost is cancelled or expires.
LEMMA StrandedStep ==
  ASSUME IInv, NEW c \in Call, Decline(c), action[c].state = "stranded" PROVE IInv'
<1>1. UNCHANGED <<worldVars, runVars, call>>
  BY DEF Decline
<1>2. Types /\ CallOK(c) /\ ActionOK(c) /\ action[c] \in ActionRecord
  BY DEF IInv, Types
<1>3. call[c].stage \in {"asked", "failed"} /\ phase # "loading"
  BY <1>2 DEF ActionOK, CallOK, Decisive
<1> PICK a \in ActionRecord : a = action[c]
  BY <1>2
<1> PICK state \in ActionState : state = "cancelled"
  BY DEF ActionState
<1>4. PICK m : m = [a EXCEPT !.state = state]
  OBVIOUS
<1>5. m \in ActionRecord /\ m.state = state
  BY <1>4 DEF ActionRecord
<1>6. action' = [action EXCEPT ![c] = m]
  BY <1>4 DEF Decline, SetAction
<1>7. action'[c] = m /\ \A d \in Call \ {c} : call'[d] = call[d] /\ action'[d] = action[d]
  BY <1>1, <1>2, <1>6 DEF Types
<1>8. Types' /\ NotAhead(now, stamp)'
  BY <1>1, <1>2, <1>5, <1>6 DEF IInv, Types, NotAhead, Lead, worldVars, runVars
<1>9. \A reading, age, t : Grounds(reading, age, t)' <=> Grounds(reading, age, t)
  BY <1>1 DEF Grounds, worldVars, runVars
<1>10. CallOK(c)'
  BY <1>1, <1>2, <1>3, <1>9 DEF CallOK, Decisive, runVars
<1>11. ~Holds(c)' /\ ActionOK(c)'
  BY <1>1, <1>3, <1>5, <1>7 DEF ActionOK, Challenged, Holds
<1>12. \A d \in Call : Holds(d) => Intent(d) \in intents'
  BY <1>1 DEF IInv, ActionOK, runVars
<1> QED BY <1>1, <1>3, <1>7, <1>8, <1>10, <1>11, <1>12, OneMoves DEF worldVars, runVars

\* The user confirms or declines, or the confirmed action is not to be performed as it was planned.
LEMMA AnswerStep ==
  ASSUME IInv, NEW c \in Call, action[c].state # "stranded",
         Confirm(c) \/ Decline(c) \/ RevalidateFails(c)
  PROVE  IInv'
<1>1. UNCHANGED <<worldVars, runVars, call>>
  BY DEF Confirm, Decline, RevalidateFails
<1>2. Types /\ NotAhead(now, stamp)' /\ action[c] \in ActionRecord
  BY <1>1 DEF IInv, Types, NotAhead, Lead, worldVars
<1>3. Challenged(c)
  BY DEF Confirm, Decline, RevalidateFails, Challenged
<1>4. PICK m \in ActionRecord : /\ action' = [action EXCEPT ![c] = m]
                                /\ m.state \in {"confirmed", "declined", "replan"}
  <2> PICK a \in ActionRecord : a = action[c]
    BY <1>2
  <2>1. {"confirmed", "declined", "replan"} \subseteq ActionState
    BY DEF ActionState
  <2>2. CASE Confirm(c) \/ Decline(c)
    <3>1. PICK s \in ActionState : /\ s \in {"confirmed", "declined"}
                                   /\ SetAction(c, [a EXCEPT !.state = s])
      BY <2>1, <2>2 DEF Confirm, Decline
    <3>2. PICK m : m = [a EXCEPT !.state = s]
      OBVIOUS
    <3>3. m \in ActionRecord /\ m.state = s
      BY <3>2 DEF ActionRecord
    <3>4. action' = [action EXCEPT ![c] = m]
      BY <3>1, <3>2 DEF SetAction
    <3> QED BY <3>1, <3>3, <3>4
  <2>3. CASE RevalidateFails(c) /\ action[c].state = "confirmed"
    <3> PICK s \in ActionState, zero \in Int : s = "replan" /\ zero = 0
      BY <2>1
    <3>1. PICK m : m = [a EXCEPT !.state = s, !.tries = zero]
      OBVIOUS
    <3>2. m \in ActionRecord /\ m.state = s
      BY <3>1 DEF ActionRecord
    <3>3. action' = [action EXCEPT ![c] = m]
      BY <2>3, <3>1 DEF RevalidateFails, SetAction
    <3> QED BY <3>2, <3>3
  <2>4. CASE RevalidateFails(c) /\ action[c].state # "confirmed"
    <3>1. NoAction \in ActionRecord
      BY DEF NoAction, ActionRecord, ActionState
    <3> PICK s \in ActionState, tries \in Int :
          /\ s = IF action[c].tries = 0 THEN "confirmed" ELSE "replan"
          /\ tries = 1 - action[c].tries
      BY <1>2, <2>1 DEF ActionRecord
    <3> PICK b \in ActionRecord : b = NoAction
      BY <3>1
    <3>2. PICK m : m = [b EXCEPT !.state = s, !.tries = tries]
      OBVIOUS
    <3>3. m \in ActionRecord /\ m.state = s
      BY <3>2 DEF ActionRecord
    <3>4. action' = [action EXCEPT ![c] = m]
      BY <2>4, <3>2 DEF RevalidateFails, SetAction
    <3> QED BY <3>3, <3>4
  <2> QED BY <2>2, <2>3, <2>4
<1> QED BY <1>1, <1>2, <1>3, <1>4, ActionMoves DEF Types, worldVars

\* The current state is read for a confirmed action.
LEMMA ReadCurrentStep ==
  ASSUME IInv, NEW c \in Call, ReadCurrent(c) PROVE IInv'
<1>1. UNCHANGED <<worldVars, runVars, call>>
  BY DEF ReadCurrent
<1>2. Types /\ NotAhead(now, stamp)' /\ action[c] \in ActionRecord /\ now \in Int
  BY <1>1, BoundsAssumption DEF IInv, Types, NotAhead, Lead, worldVars
<1>3. Challenged(c)
  BY DEF ReadCurrent, Challenged
<1> PICK a \in ActionRecord : a = action[c]
  BY <1>2
<1>4. "checking" \in ActionState
  BY DEF ActionState
<1> PICK seen \in Readings, checking \in ActionState :
      seen = Reading /\ Taken(seen, now) /\ checking = "checking"
  BY <1>4, ReadNow
<1>5. PICK m : m = [a EXCEPT !.state = checking, !.seen = seen, !.at = now]
  OBVIOUS
<1>6. m \in ActionRecord /\ m.state = checking /\ m.seen = seen /\ m.at = now
  BY <1>2, <1>5 DEF ActionRecord
<1>7. action' = [action EXCEPT ![c] = m]
  BY <1>5 DEF ReadCurrent, SetAction
<1> QED BY <1>1, <1>2, <1>3, <1>6, <1>7, ActionMoves DEF Types, worldVars

\* The confirmed action is judged by the current state: what is ready is grounded again.
LEMMA RevalidateStep ==
  ASSUME IInv, NEW c \in Call, Revalidate(c) PROVE IInv'
<1>1. UNCHANGED <<worldVars, runVars, call>> /\ action[c].state = "checking"
  BY DEF Revalidate
<1>2. /\ Types /\ NotAhead(now, stamp)' /\ action[c] \in ActionRecord /\ now \in Int
      /\ CallOK(c) /\ ActionOK(c)
  BY <1>1, BoundsAssumption DEF IInv, Types, NotAhead, Lead, worldVars
<1>3. Challenged(c)
  BY <1>1 DEF Challenged
<1>4. call[c].tool \in Tool /\ Grounds(call[c].seen, call[c].age, call[c].tool)
  BY <1>2, <1>3 DEF CallOK, Decisive, ActionOK
<1> PICK a \in ActionRecord : a = action[c]
  BY <1>2
<1>5. a.at \in Int /\ a.seen \in Readings \cup {None} /\ Taken(a.seen, a.at)
  BY <1>1, <1>2 DEF ActionRecord, ActionOK
<1>6. "ready" \in ActionState /\ "replan" \in ActionState
  BY DEF ActionState
<1>7. CASE Valid(c)
  <2>1. \A f \in Profile[call[c].tool].paths : a.seen.world.facts[f] = plan.world.facts[f]
    BY <1>4, <1>7 DEF Valid, Conflicts, Grounds
  <2>2. Grounds(a.seen, now - a.at, call[c].tool)
    BY <1>2, <1>4, <1>5, <1>7, <2>1, Grounded DEF Valid
  <2> PICK ready \in ActionState, age \in Int, zero \in Int :
        ready = "ready" /\ age = now - a.at /\ zero = 0
    BY <1>2, <1>5, <1>6
  <2>3. PICK m : m = [a EXCEPT !.state = ready, !.age = age, !.at = zero, !.tries = zero]
    OBVIOUS
  <2>4. m \in ActionRecord /\ m.state = ready /\ m.age = age /\ m.seen = a.seen
    BY <2>3 DEF ActionRecord
  <2>5. action' = [action EXCEPT ![c] = m]
    BY <1>7, <2>3 DEF Revalidate, SetAction
  <2> QED BY <1>1, <1>2, <1>3, <2>2, <2>4, <2>5, ActionMoves DEF Types, worldVars
<1>8. CASE ~Valid(c)
  <2> PICK replan \in ActionState, nothing \in Readings \cup {None}, zero \in Int :
        replan = "replan" /\ nothing = None /\ zero = 0
    BY <1>6
  <2>1. PICK m : m = [a EXCEPT !.state = replan, !.seen = nothing, !.at = zero, !.tries = zero]
    OBVIOUS
  <2>2. m \in ActionRecord /\ m.state = replan
    BY <2>1 DEF ActionRecord
  <2>3. action' = [action EXCEPT ![c] = m]
    BY <1>8, <2>1 DEF Revalidate, SetAction
  <2> QED BY <1>1, <1>2, <1>3, <2>2, <2>3, ActionMoves DEF Types, worldVars
<1> QED BY <1>7, <1>8

\* The confirmed action is performed, or fails.
LEMMA PerformStep ==
  ASSUME IInv, NEW c \in Call, Perform(c) PROVE IInv'
<1>1. UNCHANGED <<runVars, call>> /\ action[c].state = "ready"
  BY DEF Perform
<1>2. Types /\ NotAhead(now, stamp) /\ action[c] \in ActionRecord /\ ActionOK(c)
  BY DEF IInv, Types
<1>3. Challenged(c) /\ Grounds(action[c].seen, action[c].age, call[c].tool)
  BY <1>1, <1>2 DEF Challenged, ActionOK
<1> PICK a \in ActionRecord : a = action[c]
  BY <1>2
<1>4. {"executed", "failed"} \subseteq ActionState
  BY DEF ActionState
<1>5. PICK s \in ActionState : /\ s \in {"executed", "failed"} /\ SetAction(c, [a EXCEPT !.state = s])
                               /\ Apply(call[c].tool) \/ UNCHANGED worldVars
  BY <1>4 DEF Perform
<1>6. PICK m : m = [a EXCEPT !.state = s]
  OBVIOUS
<1>7. m \in ActionRecord /\ m.state = s /\ m.seen = a.seen /\ m.age = a.age
  BY <1>6 DEF ActionRecord
<1>8. action' = [action EXCEPT ![c] = m]
  BY <1>5, <1>6 DEF SetAction
<1>9. /\ world' \in World /\ stamp' \in Stamps /\ NotAhead(now, stamp)'
      /\ UNCHANGED <<now, skew, moves>>
  <2>1. CASE Apply(call[c].tool)
    BY <2>1, Applied
  <2>2. CASE UNCHANGED worldVars
    BY <1>2, <2>2 DEF Types, worldVars, NotAhead, Lead
  <2> QED BY <1>5, <2>1, <2>2
<1> QED BY <1>1, <1>3, <1>5, <1>7, <1>8, <1>9, ActionMoves

------------------------------------------------------------------------------
(* The theorems.                                                           *)

\* The invariant holds at first.
LEMMA InitIInv ==
  ASSUME Init PROVE IInv
<1>1. World # {} /\ world \in World
  <2>1. PICK facts \in [Fact -> BOOLEAN], offered \in SUBSET (Capability \cup Service) :
          world = [facts |-> facts, offered |-> offered]
    <3>1. [f \in Fact |-> FALSE] \in [Fact -> BOOLEAN]
      OBVIOUS
    <3>2. world = [facts |-> [f \in Fact |-> FALSE], offered |-> Capability \cup Service]
      BY DEF Init
    <3> QED BY <3>1, <3>2
  <2> QED BY <2>1 DEF World
<1>2. \A c \in Call : call[c].stage = "unused" /\ action[c].state = "none"
  BY DEF Init, Unused, NoAction
<1>3. Unused \in CallRecord /\ NoAction \in ActionRecord
  BY DEF Unused, CallRecord, Stage, NoAction, ActionRecord, ActionState
<1>4. call \in [Call -> CallRecord] /\ action \in [Call -> ActionRecord]
  BY <1>3 DEF Init
<1>5. Types
  <2>1. stamp \in Stamps
    BY DEF Init, Stamps
  <2>2. now \in 0..MaxNow /\ moves \in 0..MaxMoves /\ skew \in Skews
    BY BoundsAssumption DEF Init
  <2>3. phase \in Phase /\ plan = None /\ intents = {} /\ repairs = {} /\ cancelled = FALSE
    BY DEF Init, Phase
  <2> QED BY <1>1, <1>4, <2>1, <2>2, <2>3 DEF Types
<1>6. NotAhead(now, stamp)
  BY <1>5, BoundsAssumption DEF Init, NotAhead, Lead, Types
<1>7. \A c \in Call : CallOK(c) /\ ActionOK(c) /\ ~Holds(c)
  BY <1>2 DEF CallOK, Decisive, ActionOK, Holds, Challenged
<1> QED BY <1>5, <1>6, <1>7 DEF IInv, OneHolder

\* Every step keeps the invariant.
LEMMA NextIInv ==
  ASSUME IInv, [Next]_vars PROVE IInv'
<1>1. CASE UNCHANGED vars
  <2>1. UNCHANGED <<now, skew, world, stamp, moves, phase, plan, intents, repairs, cancelled, call, action>>
    BY <1>1 DEF vars, worldVars, runVars
  <2>2. Types' /\ NotAhead(now, stamp)' /\ now' >= now
    BY <2>1, BoundsAssumption DEF IInv, Types, NotAhead, Lead
  <2> QED BY <2>1, <2>2, NoneMoves
<1>2. ASSUME NEW c \in Call, CallStep(c) PROVE IInv'
  BY <1>2, ReadStep, JudgeStep, ExecuteStep, ExecuteFailsStep, AskStep, PublishStep DEF CallStep
<1>3. ASSUME NEW c \in Call, UserStep(c) PROVE IInv'
  BY <1>3, StrandedStep, AnswerStep, ReadCurrentStep, RevalidateStep, PerformStep
     DEF UserStep, Confirm, RevalidateFails
<1> QED BY <1>1, <1>2, <1>3, RunStepKeeps, OpenStep, WorldStep, TickStep DEF Next

\* What every call and every action know stays true, whatever the model calls, the user
\* answers and the vehicle does.
THEOREM Invariance == Spec => []IInv
<1>1. IInv /\ [Next]_vars => IInv'
  BY NextIInv
<1> QED BY <1>1, InitIInv, PTL DEF Spec

\* Every variable keeps its type, and only a tool of low risk is let through without the user.
THEOREM TypeCorrect == Spec => []TypeOK
<1>1. ASSUME IInv PROVE TypeOK
  <2>1. ASSUME NEW c \in Call
        PROVE  /\ call[c].stage \in Stage /\ call[c].tool \in Tool \cup {None}
               /\ call[c].arg \in Argument \cup {None}
               /\ call[c].stage \in {"allowed", "executed"} => Risk(call[c].tool) \in {"R0", "R1"}
    <3>1. call[c] \in CallRecord /\ CallOK(c)
      BY <1>1 DEF IInv, Types
    <3>2. /\ call[c].stage \in Stage /\ call[c].tool \in Tool \cup {None}
          /\ call[c].arg \in Argument \cup {None}
      BY <3>1 DEF CallRecord
    <3> QED BY <3>1, <3>2 DEF CallOK, Decisive
  <2> QED BY <1>1, <2>1 DEF IInv, Types, Intents, TypeOK
<1> QED BY <1>1, Invariance, PTL

\* GroundedEffects: no effect rests on a state the plan did not see, whether the run decided
\* on it or the user confirmed it.
THEOREM EffectsAreGrounded == Spec => []GroundedEffects
<1>1. ASSUME IInv PROVE GroundedEffects
  <2>1. ASSUME NEW c \in Call
        PROVE  /\ call[c].stage = "executed" /\ SideEffect(call[c].tool) =>
                    Grounds(call[c].seen, call[c].age, call[c].tool)
               /\ action[c].state = "executed" =>
                    /\ Grounds(call[c].seen, call[c].age, call[c].tool)
                    /\ Grounds(action[c].seen, action[c].age, call[c].tool)
    <3>1. CallOK(c) /\ ActionOK(c)
      BY <1>1 DEF IInv
    <3> QED BY <3>1 DEF CallOK, Decisive, ActionOK, Challenged
  <2> QED BY <2>1 DEF GroundedEffects
<1> QED BY <1>1, Invariance, PTL

\* OneChallengePerIntent: the user gets one challenge for a tool and its arguments, however
\* often it is called with them and whatever becomes of the actions it could not be asked
\* about.
THEOREM IntentsAreActedOnOnce == Spec => []OneChallengePerIntent
<1>1. IInv => OneChallengePerIntent
  BY DEF IInv, OneHolder, Holds, OneChallengePerIntent
<1> QED BY <1>1, Invariance, PTL
=============================================================================
