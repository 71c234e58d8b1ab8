------------------------- MODULE ConcurrencyController -------------------------
(***************************************************************************)
(* The admission of executions in one process: reads are capped, side      *)
(* effects are capped and serialized per vehicle, and what cannot start    *)
(* waits in a bounded queue from which the first that can start is taken,  *)
(* again and again, whenever something changes.  JavaScript runs every     *)
(* method to its end, so every method is one step.                         *)
(***************************************************************************)
EXTENDS Integers, FiniteSets

CONSTANTS
  Request,       \* executions that ask for admission, again and again
  Write,         \* those that have a side effect
  Vehicle,
  VehicleOf,     \* VehicleOf[r]: the vehicle of request r
  MaxRead,       \* maxReadConcurrency
  MaxWrite,      \* maxWriteConcurrency
  MaxQueue       \* maxQueue

ASSUME ConstantsAssumption ==
  /\ IsFiniteSet(Request)
  /\ Write \subseteq Request
  /\ VehicleOf \in [Request -> Vehicle]
  /\ MaxRead \in Nat \ {0}
  /\ MaxWrite \in Nat \ {0}
  /\ MaxQueue \in Nat \ {0}

VARIABLES
  waiting,         \* the queue
  ahead,           \* ahead[r]: who stands in the queue before r
  running,         \* who holds a permit
  readActive, writeActive, activeVehicles

vars == <<waiting, ahead, running, readActive, writeActive, activeVehicles>>

TypeOK ==
  /\ waiting \subseteq Request
  /\ Cardinality(waiting) <= MaxQueue
  /\ ahead \in [Request -> SUBSET waiting]
  /\ running \subseteq Request \ waiting
  /\ readActive \in 0..MaxRead
  /\ writeActive \in 0..MaxWrite
  /\ activeVehicles \subseteq Vehicle

Init ==
  /\ waiting = {}
  /\ ahead = [r \in Request |-> {}]
  /\ running = {}
  /\ readActive = 0
  /\ writeActive = 0
  /\ activeVehicles = {}

------------------------------------------------------------------------------

Reads(S) == S \ Write

Writes(S) == S \cap Write

Vehicles(S) == {VehicleOf[w] : w \in Writes(S)}

\* The counters leave room for r.
CanStart(r) ==
  IF r \in Write
    THEN writeActive < MaxWrite /\ VehicleOf[r] \notin activeVehicles
    ELSE readActive < MaxRead

\* The first n of the members of S, in the order of the queue.
First(n, S, order) == {r \in S : Cardinality(order[r] \cap S) < n}

\* A fault: the queue is searched from its end.
Startable_Latest(q, order, reads, writes, busy) ==
  LET reversed == [r \in Request |-> {s \in q : r \in order[s]}]
      unblocked == {w \in Writes(q) :
                      /\ VehicleOf[w] \notin busy
                      /\ VehicleOf[w] \notin Vehicles(reversed[w])}
  IN  First(MaxRead - reads, Reads(q), reversed)
        \cup First(MaxWrite - writes, unblocked, reversed)

(***************************************************************************)
(* Whom the loop of #drain takes out of queue q: the first reads, as many  *)
(* as there is room for, and of the writes that are the first for their    *)
(* vehicle and whose vehicle is free, likewise the first.  Whom it passes  *)
(* over once it would pass over again, since each start leaves less room.  *)
(***************************************************************************)
Startable(q, order, reads, writes, busy) ==
  LET unblocked == {w \in Writes(q) :
                      /\ VehicleOf[w] \notin busy
                      /\ VehicleOf[w] \notin Vehicles(order[w])}
  IN  First(MaxRead - reads, Reads(q), order)
        \cup First(MaxWrite - writes, unblocked, order)

\* #drain from queue q, with permits held and counters as given.
Drain(q, order, held, reads, writes, busy) ==
  LET started == Startable(q, order, reads, writes, busy)
  IN  /\ waiting' = q \ started
      /\ ahead' = [r \in Request |-> order[r] \ started]
      /\ running' = held \cup started
      /\ readActive' = reads + Cardinality(Reads(started))
      /\ writeActive' = writes + Cardinality(Writes(started))
      /\ activeVehicles' = busy \cup Vehicles(started)

\* r gives up its place in the queue.
Without(r) == [s \in Request |-> IF s = r THEN {} ELSE ahead[s] \ {r}]

\* With an empty queue and room, a request starts at once.
StartAtOnce(r) ==
  /\ r \notin waiting \cup running
  /\ waiting = {}
  /\ CanStart(r)
  /\ running' = running \cup {r}
  /\ IF r \in Write
       THEN /\ writeActive' = writeActive + 1
            /\ activeVehicles' = activeVehicles \cup {VehicleOf[r]}
            /\ UNCHANGED readActive
       ELSE /\ readActive' = readActive + 1
            /\ UNCHANGED <<writeActive, activeVehicles>>
  /\ UNCHANGED <<waiting, ahead>>

\* A full queue turns a request away, even one there is room for.
TurnAway(r) ==
  /\ r \notin waiting \cup running
  /\ ~(waiting = {} /\ CanStart(r))
  /\ Cardinality(waiting) >= MaxQueue
  /\ UNCHANGED vars

\* A fault: the bound of the queue is off by one.
Enqueue_OffByOne(r) ==
  /\ r \notin waiting \cup running
  /\ ~(waiting = {} /\ CanStart(r))
  /\ Cardinality(waiting) <= MaxQueue
  /\ Drain(waiting \cup {r}, [ahead EXCEPT ![r] = waiting],
           running, readActive, writeActive, activeVehicles)

Enqueue(r) ==
  /\ r \notin waiting \cup running
  /\ ~(waiting = {} /\ CanStart(r))
  /\ Cardinality(waiting) < MaxQueue
  /\ Drain(waiting \cup {r}, [ahead EXCEPT ![r] = waiting],
           running, readActive, writeActive, activeVehicles)

\* The timer of a waiter fires while it is still in the queue.
QueueTimeout(r) ==
  /\ r \in waiting
  /\ Drain(waiting \ {r}, Without(r), running, readActive, writeActive, activeVehicles)

\* A fault: a reader that leaves gives its place to nobody.
Release_ReadersDoNotDrain(r) ==
  /\ r \in running
  /\ IF r \in Write
       THEN Drain(waiting, ahead, running \ {r}, readActive, writeActive - 1,
                  activeVehicles \ {VehicleOf[r]})
       ELSE /\ running' = running \ {r}
            /\ readActive' = readActive - 1
            /\ UNCHANGED <<waiting, ahead, writeActive, activeVehicles>>

\* A fault: the vehicle is freed with the last write only.
Release_KeepsVehicle(r) ==
  /\ r \in running
  /\ IF r \in Write
       THEN Drain(waiting, ahead, running \ {r}, readActive, writeActive - 1,
                  IF writeActive = 1 THEN {} ELSE activeVehicles)
       ELSE Drain(waiting, ahead, running \ {r}, readActive - 1, writeActive,
                  activeVehicles)

\* The execution ends and gives its permit back.
Release(r) ==
  /\ r \in running
  /\ IF r \in Write
       THEN Drain(waiting, ahead, running \ {r}, readActive, writeActive - 1,
                  activeVehicles \ {VehicleOf[r]})
       ELSE Drain(waiting, ahead, running \ {r}, readActive - 1, writeActive,
                  activeVehicles)

Next == \E r \in Request :
  StartAtOnce(r) \/ TurnAway(r) \/ Enqueue(r) \/ QueueTimeout(r) \/ Release(r)

Spec == Init /\ [][Next]_vars

(***************************************************************************)
(* Fairness, for liveness only: an admitted execution ends (its attempts   *)
(* are bounded in number and in time) and releases in its finally.  The    *)
(* queue timeout is not needed for anybody to leave the queue.             *)
(***************************************************************************)
FairSpec == Spec /\ \A r \in Request : WF_vars(Release(r))

------------------------------------------------------------------------------
(* Properties.                                                             *)

\* Nobody waits for room that is there.
NobodyWaitsInVain == \A r \in waiting : ~CanStart(r)

(***************************************************************************)
(* The counters count who holds a permit, through every mix of starts,     *)
(* drains, timeouts and releases; with them the caps hold, of one vehicle  *)
(* at most one side effect runs, and nobody waits in vain.                 *)
(***************************************************************************)
PermitsAccounted ==
  /\ readActive = Cardinality(Reads(running))
  /\ writeActive = Cardinality(Writes(running))
  /\ activeVehicles = Vehicles(running)
  /\ \A r, s \in Writes(running) : VehicleOf[r] = VehicleOf[s] => r = s
  /\ NobodyWaitsInVain

(***************************************************************************)
(* A waiter is not overtaken by one that wants the same thing, a read or   *)
(* a side effect on the same vehicle, and a newcomer overtakes no such     *)
(* waiter either.                                                          *)
(***************************************************************************)
Rivals(r, s) ==
  \/ r \notin Write /\ s \notin Write
  \/ r \in Write /\ s \in Write /\ VehicleOf[r] = VehicleOf[s]

NoOvertaking ==
  [][\A r \in waiting \cap waiting', s \in running' \ running :
       Rivals(r, s) => s \in waiting /\ r \notin ahead[s] /\ s \in ahead[r]]_vars

\* Whoever waits leaves the queue, however many newcomers arrive.
EveryWaiterLeaves == \A r \in Request : r \in waiting ~> r \notin waiting
==============================================================================
