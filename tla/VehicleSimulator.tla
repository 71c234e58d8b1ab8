--------------------------- MODULE VehicleSimulator ---------------------------
(***************************************************************************)
(* services/vehicle-simulator: the vehicle that the tools act on, behind   *)
(* its HTTP routes, with the faults its control plane injects, the reset   *)
(* of that control plane, and the client of packages/tools that calls it.  *)
(*                                                                         *)
(* A mutation runs in one turn of the event loop (#serialize queues        *)
(* mutations, none of which waits for anything), so a step here is what    *)
(* one turn does: the arrival of a request, the end of an injected delay,  *)
(* or a command of the control plane.  What is left between the steps is   *)
(* what a test hardly reaches: a request that waits out its delay while    *)
(* the simulator is reset, a client that gives up and repeats a request    *)
(* the server still holds, and two requests under one idempotency key.     *)
(***************************************************************************)
EXTENDS Naturals, FiniteSets

CONSTANTS
  Client,        \* callers, each of which has one command carried out
  Station,       \* charging stations
  SlotsOf,       \* slots a station offers in every scenario
  Key,           \* idempotency keys
  KeyOf,         \* the key a caller sends with a reservation, or None
  CommandsOf,    \* the commands a caller may choose from
  StartScenario, \* the scenario the process starts with
  NextScenario,  \* the scenarios a reset may load
  Target,        \* the routes that faults are configured for in this instance
  Mode,          \* the fault modes configured in this instance
  AttemptsOf,    \* requests a caller sends for one command, at most
  MaxResets,     \* bound on the resets
  MaxFaults,     \* bound on the faults configured
  None

Scenarios == {"city_idle", "highway_driving", "low_soc", "charging",
              "active_navigation", "parked_no_navigation", "network_failure_ready"}

Modes == {"delay", "timeout", "http_500", "http_503", "connection_abort"}

\* The operations of the simulator that change its state.
Kinds == {"speed", "soc", "temperature", "seat", "volume", "destination", "reroute",
          "reserve", "cancel", "assistance"}

ASSUME SimulatorAssumption ==
  /\ SlotsOf \in [Station -> Nat]
  /\ None \notin Key \cup Station \cup Nat \cup [station : Station, id : Nat]
  /\ \A c \in Client : \A chosen \in CommandsOf[c] : chosen # None /\ chosen.kind \in Kinds
  /\ KeyOf \in [Client -> Key \cup {None}]
  /\ {StartScenario} \cup NextScenario \subseteq Scenarios
  /\ Mode \subseteq Modes
  /\ AttemptsOf \in [Client -> Nat \ {0}] /\ MaxResets \in Nat /\ MaxFaults \in Nat

VARIABLES
  sim,        \* the vehicle, its trip, its cabin, its charging and assistance
  ids,        \* the last number given to a route, a reservation, a request for help
  resetEpoch, \* how often the simulator was reset
  faults,     \* the fault mode configured for a route, or None
  idempotency,\* per key: the station it reserved and the reservation, or None
  command,    \* what each caller wants, None before it has decided
  phase,      \* where the server is with a request
  arrived,    \* the epoch in which a request arrived
  view,       \* what its caller knows of a request
  wipes,      \* how often the control plane dropped the idempotency keys
  applied,    \* when a request changed the state: the epoch and the wipes, or None
  configured  \* faults configured so far

simulatorVars == <<sim, ids, resetEpoch, faults, idempotency, command, phase, arrived,
                  view, wipes, applied, configured>>

server == <<sim, ids, idempotency, wipes>>

(***************************************************************************)
(* The state and its transitions                                           *)
(***************************************************************************)
Stationary == [moving |-> FALSE, charging |-> FALSE, soc |-> "ok", cabin |-> 0, version |-> 1]

NoTrip == [active |-> FALSE, route |-> None, version |-> 1]

RouteToSomewhere == [active |-> TRUE, route |-> 0, version |-> 1]

\* The vehicle and the trip of a scenario.
ScenarioParts(scenario) ==
  CASE scenario = "highway_driving" ->
         [vehicle |-> [Stationary EXCEPT !.moving = TRUE], trip |-> RouteToSomewhere]
    [] scenario = "low_soc" ->
         [vehicle |-> [Stationary EXCEPT !.soc = "low"], trip |-> NoTrip]
    [] scenario = "charging" ->
         [vehicle |-> [Stationary EXCEPT !.charging = TRUE], trip |-> NoTrip]
    [] scenario = "active_navigation" ->
         [vehicle |-> Stationary, trip |-> RouteToSomewhere]
    [] OTHER -> [vehicle |-> Stationary, trip |-> NoTrip]

Load(scenario) ==
  [vehicle |-> ScenarioParts(scenario).vehicle,
   trip |-> ScenarioParts(scenario).trip,
   seat |-> 0, volume |-> 0,
   slots |-> SlotsOf, reservations |-> {}, requests |-> {},
   version |-> 1]

NoIds == [route |-> 0, reservation |-> 0, assistance |-> 0]

\* Settings a cabin, a seat or the media have; a caller may ask for another.
InRange == {0, 1}

\* The invariants of a vehicle, of a trip and of the state around them that
\* validation holds every candidate state against.
VehicleValid(vehicle) == ~ (vehicle.charging /\ vehicle.moving) /\ vehicle.cabin \in InRange

TripValid(trip) == trip.active <=> trip.route # None

StateValid(s) ==
  /\ VehicleValid(s.vehicle) /\ TripValid(s.trip)
  /\ s.seat \in InRange /\ s.volume \in InRange
  /\ \A station \in Station : s.slots[station] >= 0
  /\ \A r, q \in s.reservations : r.id = q.id => r = q
  /\ \A r \in s.reservations : r.station \in Station

\* A transition touches the vehicle, the trip or only the rest; it moves the
\* version of what it touches and that of the whole state.
VehicleTransition(s, vehicle) ==
  [s EXCEPT !.vehicle = [vehicle EXCEPT !.version = s.vehicle.version + 1],
            !.version = @ + 1]

TripTransition(s, trip) ==
  [s EXCEPT !.trip = [trip EXCEPT !.version = s.trip.version + 1],
            !.version = @ + 1]

SimulatorOnlyTransition(s) == [s EXCEPT !.version = @ + 1]

Accepted(s, given) == [status |-> "ok", state |-> s, ids |-> given]

Refused(status) == [status |-> status]

SetVehicleSpeed(s, moving) ==
  IF s.vehicle.charging /\ moving
  THEN Refused("conflict")
  ELSE Accepted(VehicleTransition(s, [s.vehicle EXCEPT !.moving = moving]), ids)

SetSoc(s, soc) ==
  Accepted(VehicleTransition(s, [s.vehicle EXCEPT !.soc = soc]), ids)

SetCabinTemperature(s, temperature) ==
  Accepted(VehicleTransition(s, [s.vehicle EXCEPT !.cabin = temperature]), ids)

SetSeatHeating(s, level) ==
  Accepted(SimulatorOnlyTransition([s EXCEPT !.seat = level]), ids)

SetMediaVolume(s, volume) ==
  Accepted(SimulatorOnlyTransition([s EXCEPT !.volume = volume]), ids)

NextRoute == [ids EXCEPT !.route = @ + 1]

SetNavigationDestination(s) ==
  Accepted(TripTransition(s, [s.trip EXCEPT !.active = TRUE, !.route = NextRoute.route]), NextRoute)

Reroute(s) ==
  IF ~ s.trip.active
  THEN Refused("conflict")
  ELSE Accepted(TripTransition(s, [s.trip EXCEPT !.route = NextRoute.route]), NextRoute)

\* (fault) The station's other reservation is not looked for.
CreateReservation_Any(s, station) ==
  LET next == [ids EXCEPT !.reservation = @ + 1]
      made == [id |-> next.reservation, station |-> station]
  IN IF s.slots[station] < 1
     THEN Refused("conflict")
     ELSE Accepted(SimulatorOnlyTransition(
            [s EXCEPT !.slots[station] = @ - 1, !.reservations = @ \cup {made}]), next)

CreateReservation(s, station) ==
  LET next == [ids EXCEPT !.reservation = @ + 1]
      made == [id |-> next.reservation, station |-> station]
  IN CASE station \notin Station -> Refused("notFound")
       [] station \in Station /\ s.slots[station] < 1 -> Refused("conflict")
       [] station \in Station /\ s.slots[station] >= 1
          /\ (\E r \in s.reservations : r.station = station) -> Refused("conflict")
       [] OTHER -> Accepted(SimulatorOnlyTransition(
                     [s EXCEPT !.slots[station] = @ - 1, !.reservations = @ \cup {made}]), next)

CancelReservation(s, id) ==
  LET named == {r \in s.reservations : r.id = id}
      station == (CHOOSE r \in named : TRUE).station
  IN IF named = {}
     THEN Refused("notFound")
     ELSE Accepted(SimulatorOnlyTransition(
            [s EXCEPT !.slots[station] = @ + 1, !.reservations = @ \ named]), ids)

RequestRoadsideAssistance(s) ==
  LET next == [ids EXCEPT !.assistance = @ + 1]
  IN Accepted(SimulatorOnlyTransition([s EXCEPT !.requests = @ \cup {next.assistance}]), next)

\* What a command of a caller makes of the state.
Construct(c) ==
  CASE c.kind = "speed" -> SetVehicleSpeed(sim, c.arg)
    [] c.kind = "soc" -> SetSoc(sim, c.arg)
    [] c.kind = "temperature" -> SetCabinTemperature(sim, c.arg)
    [] c.kind = "seat" -> SetSeatHeating(sim, c.arg)
    [] c.kind = "volume" -> SetMediaVolume(sim, c.arg)
    [] c.kind = "destination" -> SetNavigationDestination(sim)
    [] c.kind = "reroute" -> Reroute(sim)
    [] c.kind = "reserve" -> CreateReservation(sim, c.arg)
    [] c.kind = "cancel" -> CancelReservation(sim, c.arg)
    [] c.kind = "assistance" -> RequestRoadsideAssistance(sim)

\* (fault) A candidate state is committed as it is.
Transition_Unchecked(epoch, c) ==
  IF epoch # resetEpoch THEN Refused("conflict") ELSE Construct(c)

\* (fault) A mutation runs whatever happened since its request arrived.
Transition_Unfenced(epoch, c) ==
  LET result == Construct(c)
  IN IF result.status = "ok" /\ ~ StateValid(result.state)
     THEN Refused("invalid")
     ELSE result

\* A mutation: refused when the simulator was reset since its request arrived,
\* and when what it would make of the state is not valid.
Transition(epoch, c) ==
  IF epoch # resetEpoch
  THEN Refused("conflict")
  ELSE LET result == Construct(c)
       IN IF result.status = "ok" /\ ~ StateValid(result.state)
          THEN Refused("invalid")
          ELSE result

(***************************************************************************)
(* Requests                                                                *)
(***************************************************************************)
Request == UNION {{c} \X (1 .. AttemptsOf[c]) : c \in Client}

Wanted(r) == command[r[1]]

Keyed(r) == Wanted(r).kind = "reserve" /\ KeyOf[r[1]] # None

\* What the caller makes of a status: the client's errors and failure types.
ViewOf(status) ==
  CASE status = "ok" -> "ok"
    [] status \in {"notFound", "conflict", "invalid"} -> "refused"
    [] status = "http_503" -> "HTTP_503"
    [] status \in {"http_500", "http_504"} -> "DEFINITE_FAILURE"
    [] status = "connection_abort" -> "CONNECTION_ABORT"

\* The caller learns the status of a request it still waits for.
Answer(r, status) ==
  /\ phase' = [phase EXCEPT ![r] = "answered"]
  /\ view' = [view EXCEPT ![r] = IF @ = "waiting" THEN ViewOf(status) ELSE @]

\* The effect of a request that arrived in the given epoch: the transition,
\* kept under its key when it has one.  The result is the status it ends with.
Mutate(r, epoch, status) ==
  LET result == Transition(epoch, Wanted(r))
  IN /\ status = result.status
     /\ \/ /\ result.status = "ok"
           /\ sim' = result.state
           /\ ids' = result.ids
           /\ applied' = [applied EXCEPT ![r] = [epoch |-> resetEpoch, wipes |-> wipes]]
           /\ UNCHANGED wipes
           /\ idempotency' =
                IF Keyed(r)
                THEN [idempotency EXCEPT ![KeyOf[r[1]]] =
                        [station |-> Wanted(r).arg, id |-> result.ids.reservation]]
                ELSE idempotency
        \/ /\ result.status # "ok"
           /\ UNCHANGED <<server, applied>>

\* A reservation under a key that is taken is answered from the key.
Repeat(r, status) ==
  /\ status = IF idempotency[KeyOf[r[1]]].station = Wanted(r).arg THEN "ok" ELSE "conflict"
  /\ UNCHANGED <<server, applied>>

\* (fault) A key that is taken is not looked up.
Operate_Anew(r, epoch, status) == Mutate(r, epoch, status)

Operate(r, epoch, status) ==
  IF Keyed(r) /\ idempotency[KeyOf[r[1]]] # None
  THEN Repeat(r, status)
  ELSE Mutate(r, epoch, status)

TargetOf(r) == IF Wanted(r).kind \in Target THEN Wanted(r).kind ELSE None

\* The fault of a route fires or not, as its probability has it.
Consumed(r) == IF TargetOf(r) = None THEN {None} ELSE {None, faults[TargetOf(r)]}

Statuses == {"ok", "notFound", "conflict", "invalid"}

\* The server takes a request: it notes the epoch, consumes the fault of the
\* route, and goes through with the operation or does what the fault says.
Serve(r) ==
  \E fault \in Consumed(r) :
    \/ /\ fault = None
       /\ \E status \in Statuses : Operate(r, resetEpoch, status) /\ Answer(r, status)
    \/ /\ fault = "delay"
       /\ phase' = [phase EXCEPT ![r] = "delayed"]
       /\ UNCHANGED <<server, applied, view>>
    \/ /\ fault = "timeout" /\ Keyed(r)
       /\ \E status \in Statuses :
            /\ Operate(r, resetEpoch, status)
            /\ IF status = "ok"
               THEN phase' = [phase EXCEPT ![r] = "late"] /\ UNCHANGED view
               ELSE Answer(r, status)
    \/ /\ fault = "timeout" /\ ~ Keyed(r)
       /\ phase' = [phase EXCEPT ![r] = "late"]
       /\ UNCHANGED <<server, applied, view>>
    \/ /\ fault \in {"http_500", "http_503", "connection_abort"}
       /\ Answer(r, fault)
       /\ UNCHANGED <<server, applied>>

Arrive(r) ==
  /\ phase[r] = "sent"
  /\ arrived' = [arrived EXCEPT ![r] = resetEpoch]
  /\ Serve(r)
  /\ UNCHANGED <<resetEpoch, faults, command, configured>>

\* An injected delay ends, and the operation runs with the epoch of the arrival.
EndDelay(r) ==
  /\ phase[r] = "delayed"
  /\ \E status \in Statuses : Operate(r, arrived[r], status) /\ Answer(r, status)
  /\ UNCHANGED <<resetEpoch, faults, command, arrived, configured>>

\* An injected timeout ends in a status of its own.
EndTimeout(r) ==
  /\ phase[r] = "late"
  /\ Answer(r, "http_504")
  /\ UNCHANGED <<server, applied, resetEpoch, faults, command, arrived, configured>>

(***************************************************************************)
(* The caller                                                              *)
(***************************************************************************)
\* A caller decides on a command and sends its first request.
Submit(c) ==
  /\ command[c] = None
  /\ \E chosen \in CommandsOf[c] : command' = [command EXCEPT ![c] = chosen]
  /\ phase' = [phase EXCEPT ![<<c, 1>>] = "sent"]
  /\ view' = [view EXCEPT ![<<c, 1>>] = "waiting"]
  /\ UNCHANGED <<server, applied, resetEpoch, faults, arrived, configured>>

\* (fault) The client reports its own timeout as a failure of the simulator.
GiveUp_AsFailure(r) ==
  /\ view[r] = "waiting" /\ phase[r] \in {"sent", "delayed", "late"}
  /\ view' = [view EXCEPT ![r] = "DEFINITE_FAILURE"]
  /\ UNCHANGED <<server, applied, resetEpoch, faults, command, phase, arrived, configured>>

\* The client's own timeout, while the request is under way or held.
GiveUp(r) ==
  /\ view[r] = "waiting" /\ phase[r] \in {"sent", "delayed", "late"}
  /\ view' = [view EXCEPT ![r] = "TIMEOUT"]
  /\ UNCHANGED <<server, applied, resetEpoch, faults, command, phase, arrived, configured>>

\* The reconciliation of a reservation looks for its station among those reserved.
NotExecuted(c) == \A r \in sim.reservations : r.station # command[c].arg

\* Only a reservation is idempotent: it is repeated after a 503, and after an
\* outcome in doubt once the reservation is not found.
Retryable(r) ==
  /\ Wanted(r).kind = "reserve"
  /\ \/ view[r] = "HTTP_503"
     \/ view[r] \in {"TIMEOUT", "CONNECTION_ABORT"} /\ NotExecuted(r[1])

Retry(r) ==
  /\ command[r[1]] # None /\ r[2] < AttemptsOf[r[1]]
  /\ LET next == <<r[1], r[2] + 1>>
     IN /\ phase[next] = "idle"
        /\ Retryable(r)
        /\ phase' = [phase EXCEPT ![next] = "sent"]
        /\ view' = [view EXCEPT ![next] = "waiting"]
  /\ UNCHANGED <<server, applied, resetEpoch, faults, command, arrived, configured>>

(***************************************************************************)
(* The control plane                                                       *)
(***************************************************************************)
\* The route drops the keys before the simulator has looked at the request.
DropKeys ==
  /\ wipes < MaxResets
  /\ wipes' = wipes + 1
  /\ idempotency' = [k \in Key |-> None]

Reset ==
  /\ resetEpoch' = resetEpoch + 1
  /\ \E scenario \in NextScenario : sim' = Load(scenario)
  /\ ids' = NoIds
  /\ faults' = [t \in Target |-> None]
  /\ DropKeys
  /\ UNCHANGED <<command, phase, arrived, view, applied, configured>>

\* A reset to a scenario that does not exist is refused after its keys are gone.
ResetUnknown ==
  /\ DropKeys
  /\ UNCHANGED <<sim, ids, resetEpoch, faults, command, phase, arrived, view, applied, configured>>

ConfigureFault ==
  /\ configured < MaxFaults
  /\ configured' = configured + 1
  /\ \E t \in Target, mode \in Mode : faults' = [faults EXCEPT ![t] = mode]
  /\ UNCHANGED <<server, applied, resetEpoch, command, phase, arrived, view>>

ClearFaults ==
  /\ \E t \in Target : faults[t] # None
  /\ faults' = [t \in Target |-> None]
  /\ UNCHANGED <<server, applied, resetEpoch, command, phase, arrived, view, configured>>

SimulatorNext ==
  \/ \E c \in Client : Submit(c)
  \/ \E r \in Request : Arrive(r) \/ EndDelay(r) \/ EndTimeout(r) \/ GiveUp(r) \/ Retry(r)
  \/ Reset \/ ResetUnknown \/ ConfigureFault \/ ClearFaults

SimulatorInit ==
  /\ sim = Load(StartScenario)
  /\ ids = NoIds
  /\ resetEpoch = 0
  /\ faults = [t \in Target |-> None]
  /\ idempotency = [k \in Key |-> None]
  /\ command = [c \in Client |-> None]
  /\ phase = [r \in Request |-> "idle"]
  /\ arrived = [r \in Request |-> None]
  /\ view = [r \in Request |-> "idle"]
  /\ wipes = 0
  /\ applied = [r \in Request |-> None]
  /\ configured = 0

SimulatorSpec == SimulatorInit /\ [][SimulatorNext]_simulatorVars

(***************************************************************************)
(* Properties                                                              *)
(***************************************************************************)
Views == {"idle", "waiting", "ok", "refused", "HTTP_503", "DEFINITE_FAILURE",
          "CONNECTION_ABORT", "TIMEOUT"}

\* The variables hold what the code keeps in them, and the state passes the
\* validation that readiness repeats on it.
SimulatorTypeOK ==
  /\ StateValid(sim)
  /\ sim.slots \in [Station -> Nat]
  /\ DOMAIN ids = {"route", "reservation", "assistance"} /\ \A n \in DOMAIN ids : ids[n] \in Nat
  /\ resetEpoch \in 0 .. MaxResets /\ wipes \in 0 .. MaxResets /\ resetEpoch <= wipes
  /\ faults \in [Target -> Mode \cup {None}]
  /\ \A k \in Key : idempotency[k] = None \/ idempotency[k].station \in Station
  /\ \A c \in Client : command[c] \in CommandsOf[c] \cup {None}
  /\ phase \in [Request -> {"idle", "sent", "delayed", "late", "answered"}]
  /\ arrived \in [Request -> 0 .. MaxResets \cup {None}]
  /\ view \in [Request -> Views]
  /\ \A r \in Request : applied[r] = None \/ applied[r].epoch \in 0 .. resetEpoch

\* A station's free slots and its reservations always add up to what it offers,
\* and nobody holds two slots of one station, whatever is reserved, cancelled
\* and repeated, delayed or answered from a key (transitions.ts).
SlotsAddUp ==
  \A station \in Station :
    LET held == {r \in sim.reservations : r.station = station}
    IN /\ sim.slots[station] + Cardinality(held) = SlotsOf[station]
       /\ Cardinality(held) <= 1

\* What a request does, it does in the epoch in which it arrived: a mutation
\* that waits out an injected delay does nothing to the state of a reset
\* (simulator.ts #transition, and the epoch http.ts notes before the fault).
NothingCrossesAReset ==
  \A r \in Request : applied[r] # None => applied[r].epoch = arrived[r]

\* What the state shows is what the requests of its own epoch did to it.
StateAddsUp == SlotsAddUp /\ NothingCrossesAReset

\* However often a reservation is repeated under its key, by whom, and in what
\* order the requests are delayed, given up and answered, it is made once, until
\* the control plane drops the keys (http.ts, POST /charging/reservations).
OneReservationPerKey ==
  \A r, q \in Request :
    /\ applied[r] # None /\ applied[q] # None
    /\ Keyed(r) /\ Keyed(q) /\ KeyOf[r[1]] = KeyOf[q[1]]
    /\ applied[r].wipes = applied[q].wipes
    => r = q

\* A status from which the caller concludes that nothing happened is the truth,
\* but for the injected timeout of a keyed reservation, which is applied first
\* and then answered 504.
FailureHadNoEffect ==
  \A r \in Request :
    view[r] \in {"refused", "HTTP_503", "DEFINITE_FAILURE"} /\ applied[r] # None
      => Keyed(r) /\ view[r] = "DEFINITE_FAILURE"

\* What a caller may build its retries on: a repeated reservation is made once, and a
\* failure that is taken to have had no effect had none.
RetriesAreSafe == OneReservationPerKey /\ FailureHadNoEffect
=============================================================================
