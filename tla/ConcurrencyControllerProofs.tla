---------------------- MODULE ConcurrencyControllerProofs ----------------------
(***************************************************************************)
(* Proofs about ConcurrencyController, for any number of requests and      *)
(* vehicles and any limits.                                                *)
(*                                                                         *)
(* Every step but StartAtOnce and TurnAway is a Drain of some queue with   *)
(* some permits held, so the argument is about Drain: given a queue in     *)
(* order and counters that agree with the permits, it leaves a queue in    *)
(* order, counters that agree, and nobody whom they leave room for.  What  *)
(* needs an argument is First: the first n of a set in the order of the    *)
(* queue are n at most, and n exactly if somebody is left out.             *)
(***************************************************************************)
EXTENDS ConcurrencyController, FiniteSetTheorems, TLAPS

\* The queue q stands in a line: order[r] are those before r.
InLine(q, order) ==
  /\ order \in [Request -> SUBSET q]
  /\ \A r \in q : r \notin order[r]
  /\ \A r, s \in q : r # s => r \in order[s] \/ s \in order[r]
  /\ \A r \in q : \A s \in order[r] : order[s] \subseteq order[r]

\* The counters agree with the permits, and are within their limits.
Accounts(held, reads, writes, busy) ==
  /\ reads = Cardinality(Reads(held)) /\ reads \in 0..MaxRead
  /\ writes = Cardinality(Writes(held)) /\ writes \in 0..MaxWrite
  /\ busy = Vehicles(held)
  /\ \A r, s \in Writes(held) : VehicleOf[r] = VehicleOf[s] => r = s

\* The inductive invariant: the queue must be a line for its first to be well-defined.
IInv ==
  /\ TypeOK
  /\ InLine(waiting, ahead)
  /\ PermitsAccounted

------------------------------------------------------------------------------
(* Lines.                                                                  *)

\* Whoever stands before r has fewer of S before it than r has.
LEMMA FewerAhead ==
  ASSUME NEW q, IsFiniteSet(q), NEW order, q \subseteq Request, InLine(q, order),
         NEW S \in SUBSET q, NEW r \in q, NEW s \in S, s \in order[r]
  PROVE  /\ Cardinality(order[s] \cap S) \in Nat
         /\ Cardinality(order[r] \cap S) \in Nat
         /\ Cardinality(order[s] \cap S) < Cardinality(order[r] \cap S)
<1> DEFINE A == order[s] \cap S
           B == order[r] \cap S
<1>1. A \in SUBSET B /\ s \in B /\ s \notin A
  BY DEF InLine
<1>2. IsFiniteSet(B)
  BY FS_Subset DEF InLine
<1>3. IsFiniteSet(A) /\ Cardinality(A) <= Cardinality(B) /\ Cardinality(A) # Cardinality(B)
  BY <1>1, <1>2, FS_Subset
<1>4. Cardinality(A) \in Nat /\ Cardinality(B) \in Nat
  BY <1>2, <1>3, FS_CardinalityType
<1> QED BY <1>3, <1>4

\* In any part of a line somebody stands first.
LEMMA Foremost ==
  ASSUME NEW q, IsFiniteSet(q), NEW order, q \subseteq Request, InLine(q, order),
         NEW T \in SUBSET q, T # {}
  PROVE  \E t \in T : order[t] \cap T = {}
<1> DEFINE Fronts == {order[t] : t \in T}
<1>1. Fronts \subseteq FiniteSubsetsOf(q) /\ Fronts # {}
  BY FS_FiniteSubsetsOfFinite DEF InLine
<1>2. IsWellFoundedOn(StrictSubsetOrdering(q), FiniteSubsetsOf(q))
  BY FS_StrictSubsetOrderingWellFounded
<1> HIDE DEF Fronts
<1>3. PICK F \in Fronts : \A G \in Fronts : <<G, F>> \notin StrictSubsetOrdering(q)
  BY <1>1, <1>2, WFMin
<1>4. PICK t \in T : F = order[t]
  BY DEF Fronts
<1>5. ASSUME NEW s \in T, s \in order[t] PROVE FALSE
  <2>1. order[s] \subseteq order[t] /\ order[s] # order[t]
    BY <1>5 DEF InLine
  <2>2. <<order[s], order[t]>> \in StrictSubsetOrdering(q)
    BY <2>1 DEF StrictSubsetOrdering, InLine
  <2> QED BY <1>3, <1>4, <2>2 DEF Fronts
<1> QED BY <1>5

\* The first n of S are n at most.
LEMMA FirstFits ==
  ASSUME NEW q, IsFiniteSet(q), NEW order, q \subseteq Request, InLine(q, order),
         NEW S \in SUBSET q, NEW n \in Nat
  PROVE  /\ IsFiniteSet(First(n, S, order))
         /\ Cardinality(First(n, S, order)) \in 0..n
<1> DEFINE F == First(n, S, order)
           rank == [r \in F |-> Cardinality(order[r] \cap S)]
<1>1. F \subseteq S /\ IsFiniteSet(F)
  BY FS_Subset DEF First
<1>2. \A r \in F : Cardinality(order[r] \cap S) \in 0..(n - 1)
  <2> SUFFICES ASSUME NEW r \in F PROVE Cardinality(order[r] \cap S) \in 0..(n - 1)
    OBVIOUS
  <2>1. IsFiniteSet(order[r] \cap S)
    BY <1>1, FS_Subset DEF InLine
  <2>2. Cardinality(order[r] \cap S) \in Nat
    BY <2>1, FS_CardinalityType
  <2> QED BY <2>2 DEF First
<1>3. \A r, s \in F : r # s => rank[r] # rank[s]
  <2> SUFFICES ASSUME NEW r \in F, NEW s \in F, r # s PROVE rank[r] # rank[s]
    OBVIOUS
  <2>1. r \in S /\ s \in S /\ r \in q /\ s \in q
    BY <1>1
  <2>2. CASE s \in order[r]
    <3>1. Cardinality(order[s] \cap S) < Cardinality(order[r] \cap S)
      BY <2>1, <2>2, FewerAhead
    <3> QED BY <1>2, <3>1
  <2>3. CASE r \in order[s]
    <3>1. Cardinality(order[r] \cap S) < Cardinality(order[s] \cap S)
      BY <2>1, <2>3, FewerAhead
    <3> QED BY <1>2, <3>1
  <2> QED BY <2>1, <2>2, <2>3 DEF InLine
<1>4. rank \in Injection(F, 0..(n - 1))
  BY <1>2, <1>3 DEF Injection, IsInjective
<1>5. IsFiniteSet(0..(n - 1)) /\ Cardinality(0..(n - 1)) = n
  BY FS_Interval
<1>6. Cardinality(F) <= Cardinality(0..(n - 1))
  BY <1>4, <1>5, FS_Injection
<1>7. Cardinality(F) \in Nat
  BY <1>1, FS_CardinalityType
<1> QED BY <1>1, <1>5, <1>6, <1>7

\* If somebody of S is not among the first n, the first n are n.
LEMMA FirstFull ==
  ASSUME NEW q, IsFiniteSet(q), NEW order, q \subseteq Request, InLine(q, order),
         NEW S \in SUBSET q, NEW n \in Nat, First(n, S, order) # S
  PROVE  Cardinality(First(n, S, order)) = n
<1> DEFINE F == First(n, S, order)
           Rest == S \ F
<1>1. Rest \in SUBSET q /\ Rest # {}
  BY DEF First
<1> HIDE DEF F, Rest
<1>2. PICK t \in Rest : order[t] \cap Rest = {}
  BY <1>1, Foremost
<1>3. t \in S /\ t \notin F /\ order[t] \cap S \in SUBSET F
  BY <1>2 DEF Rest
<1>4. IsFiniteSet(order[t] \cap S)
  BY <1>3, FS_Subset DEF InLine
<1>5. Cardinality(order[t] \cap S) \in Nat
  BY <1>4, FS_CardinalityType
<1>6. Cardinality(order[t] \cap S) >= n
  BY <1>3, <1>5 DEF F, First
<1>7. IsFiniteSet(F) /\ Cardinality(F) \in 0..n
  BY FirstFits DEF F
<1>8. Cardinality(order[t] \cap S) <= Cardinality(F)
  BY <1>3, <1>7, FS_Subset
<1> QED BY <1>5, <1>6, <1>7, <1>8 DEF F

------------------------------------------------------------------------------
(* What #drain does to a line, whatever permits are held.                  *)

\* The writes Startable chooses from.
Unblocked(q, order, busy) ==
  {w \in Writes(q) : VehicleOf[w] \notin busy /\ VehicleOf[w] \notin Vehicles(order[w])}

\* Whom the drain starts fits in: finitely many, and no two side effects on one vehicle.
LEMMA StartedFits ==
  ASSUME NEW q, IsFiniteSet(q), NEW order, q \subseteq Request, InLine(q, order),
         NEW held, NEW reads, NEW writes, NEW busy, Accounts(held, reads, writes, busy),
         NEW started, started = Startable(q, order, reads, writes, busy)
  PROVE  /\ started \in SUBSET q /\ IsFiniteSet(started)
         /\ Reads(started) = First(MaxRead - reads, Reads(q), order)
         /\ Writes(started) = First(MaxWrite - writes, Unblocked(q, order, busy), order)
         /\ Cardinality(Reads(started)) \in 0..(MaxRead - reads)
         /\ Cardinality(Writes(started)) \in 0..(MaxWrite - writes)
         /\ \A w \in Writes(started) : VehicleOf[w] \notin busy
         /\ \A v, w \in Writes(started) : VehicleOf[v] = VehicleOf[w] => v = w
<1> DEFINE U == Unblocked(q, order, busy)
<1>1. Reads(q) \in SUBSET q /\ U \in SUBSET q /\ U \subseteq Writes(q)
  BY DEF Reads, Writes, Unblocked
<1>2. started = First(MaxRead - reads, Reads(q), order) \cup First(MaxWrite - writes, U, order)
  BY DEF Startable, Unblocked
<1>3. /\ Reads(started) = First(MaxRead - reads, Reads(q), order)
      /\ Writes(started) = First(MaxWrite - writes, U, order)
      /\ started \in SUBSET q
  BY <1>1, <1>2 DEF First, Reads, Writes
<1>4. MaxRead - reads \in Nat /\ MaxWrite - writes \in Nat
  BY ConstantsAssumption DEF Accounts
<1>5. /\ Cardinality(Reads(started)) \in 0..(MaxRead - reads)
      /\ Cardinality(Writes(started)) \in 0..(MaxWrite - writes)
  BY <1>1, <1>3, <1>4, FirstFits
<1>6. \A w \in Writes(started) :
        /\ w \in q /\ w \in Write /\ VehicleOf[w] \notin busy
        /\ VehicleOf[w] \notin Vehicles(order[w])
  BY <1>3 DEF First, Unblocked, Writes
<1>7. ASSUME NEW v \in Writes(started), NEW w \in Writes(started),
             VehicleOf[v] = VehicleOf[w], v # w
      PROVE  FALSE
  <2>1. v \in order[w] \/ w \in order[v]
    BY <1>6, <1>7 DEF InLine
  <2> QED BY <1>6, <1>7, <2>1 DEF Vehicles, Writes
<1> QED BY <1>3, <1>5, <1>6, <1>7, FS_Subset

\* Whoever is left behind is left behind for want of room.
LEMMA NoRoomLeft ==
  ASSUME NEW q, IsFiniteSet(q), NEW order, q \subseteq Request, InLine(q, order),
         NEW held, NEW reads, NEW writes, NEW busy, Accounts(held, reads, writes, busy),
         NEW started, started = Startable(q, order, reads, writes, busy),
         NEW r \in q \ started
  PROVE  IF r \in Write
           THEN \/ Cardinality(Writes(started)) = MaxWrite - writes
                \/ VehicleOf[r] \in busy \cup Vehicles(started)
           ELSE Cardinality(Reads(started)) = MaxRead - reads
<1> DEFINE U == Unblocked(q, order, busy)
<1>1. MaxRead - reads \in Nat /\ MaxWrite - writes \in Nat
  BY ConstantsAssumption DEF Accounts
<1>2. /\ Reads(started) = First(MaxRead - reads, Reads(q), order)
      /\ Writes(started) = First(MaxWrite - writes, U, order)
  BY StartedFits
<1>3. CASE r \notin Write
  <2>1. r \in Reads(q) /\ r \notin Reads(started) /\ Reads(q) \in SUBSET q
    BY <1>3 DEF Reads
  <2> QED BY <1>1, <1>2, <1>3, <2>1, FirstFull
<1>4. CASE r \in Write /\ VehicleOf[r] \notin busy
  <2> DEFINE T == {w \in Writes(q) : VehicleOf[w] = VehicleOf[r]}
  <2>1. T \in SUBSET q /\ r \in T
    BY <1>4 DEF Writes
  <2> HIDE DEF T
  <2>2. PICK w \in T : order[w] \cap T = {}
    BY <2>1, Foremost
  <2>3. w \in U /\ U \in SUBSET q
    BY <1>4, <2>2 DEF T, Unblocked, Vehicles, Writes, InLine
  <2>4. CASE w \in Writes(started)
    <3>1. VehicleOf[r] \in Vehicles(started)
      BY <2>2, <2>4 DEF T, Vehicles
    <3> QED BY <1>4, <3>1
  <2>5. CASE w \notin Writes(started)
    BY <1>1, <1>2, <1>4, <2>3, <2>5, FirstFull
  <2> QED BY <2>4, <2>5
<1> QED BY <1>3, <1>4

\* Of sets without a common member the sizes add up.
LEMMA SizesAdd ==
  ASSUME NEW S, IsFiniteSet(S), NEW T, IsFiniteSet(T), S \cap T = {}
  PROVE  /\ Cardinality(S) \in Nat /\ Cardinality(T) \in Nat
         /\ Cardinality(S \cup T) = Cardinality(S) + Cardinality(T)
<1>1. Cardinality(S) \in Nat /\ Cardinality(T) \in Nat
  BY FS_CardinalityType
<1>2. Cardinality(S \cup T) = Cardinality(S) + Cardinality(T) - Cardinality(S \cap T)
  BY FS_Union
<1>3. Cardinality(S \cap T) = 0
  BY FS_EmptySet
<1> QED BY <1>1, <1>2, <1>3

\* The counters go on agreeing with the permits.
LEMMA StartedCounted ==
  ASSUME NEW held, IsFiniteSet(held), NEW reads, NEW writes, NEW busy,
         Accounts(held, reads, writes, busy),
         NEW started, IsFiniteSet(started), held \cap started = {},
         Cardinality(Reads(started)) \in 0..(MaxRead - reads),
         Cardinality(Writes(started)) \in 0..(MaxWrite - writes),
         \A w \in Writes(started) : VehicleOf[w] \notin busy,
         \A v, w \in Writes(started) : VehicleOf[v] = VehicleOf[w] => v = w
  PROVE  Accounts(held \cup started, reads + Cardinality(Reads(started)),
                  writes + Cardinality(Writes(started)), busy \cup Vehicles(started))
<1>1. /\ Reads(held \cup started) = Reads(held) \cup Reads(started)
      /\ Writes(held \cup started) = Writes(held) \cup Writes(started)
      /\ Reads(held) \cap Reads(started) = {} /\ Writes(held) \cap Writes(started) = {}
  BY DEF Reads, Writes
<1>2. /\ IsFiniteSet(Reads(held)) /\ IsFiniteSet(Reads(started))
      /\ IsFiniteSet(Writes(held)) /\ IsFiniteSet(Writes(started))
  BY FS_Subset DEF Reads, Writes
<1>3. /\ Cardinality(Reads(held) \cup Reads(started)) =
           Cardinality(Reads(held)) + Cardinality(Reads(started))
      /\ Cardinality(Writes(held) \cup Writes(started)) =
           Cardinality(Writes(held)) + Cardinality(Writes(started))
  BY <1>1, <1>2, SizesAdd
<1>4. /\ reads = Cardinality(Reads(held)) /\ reads \in 0..MaxRead
      /\ writes = Cardinality(Writes(held)) /\ writes \in 0..MaxWrite
      /\ busy = Vehicles(held)
      /\ \A r, s \in Writes(held) : VehicleOf[r] = VehicleOf[s] => r = s
  BY DEF Accounts
<1>5. /\ Cardinality(Reads(held \cup started)) = reads + Cardinality(Reads(started))
      /\ Cardinality(Writes(held \cup started)) = writes + Cardinality(Writes(started))
  BY <1>1, <1>3, <1>4
<1>6. /\ reads + Cardinality(Reads(started)) \in 0..MaxRead
      /\ writes + Cardinality(Writes(started)) \in 0..MaxWrite
  BY <1>4, ConstantsAssumption
<1>7. busy \cup Vehicles(started) = Vehicles(held \cup started)
  BY <1>1, <1>4 DEF Vehicles
<1>8. \A r \in Writes(held), s \in Writes(started) : VehicleOf[r] # VehicleOf[s]
  BY <1>4 DEF Vehicles
<1>9. \A r, s \in Writes(held \cup started) : VehicleOf[r] = VehicleOf[s] => r = s
  BY <1>1, <1>4, <1>8
<1> QED BY <1>5, <1>6, <1>7, <1>9 DEF Accounts

\* A drain establishes the invariant from a line and counters that agree.
LEMMA Drained ==
  ASSUME NEW q, q \subseteq Request, NEW order, InLine(q, order), Cardinality(q) <= MaxQueue,
         NEW held, held \subseteq Request \ q,
         NEW reads, NEW writes, NEW busy, Accounts(held, reads, writes, busy),
         Drain(q, order, held, reads, writes, busy)
  PROVE  IInv'
<1> DEFINE started == Startable(q, order, reads, writes, busy)
<1>1. IsFiniteSet(q) /\ IsFiniteSet(held)
  BY ConstantsAssumption, FS_Subset
<1>2. /\ started \in SUBSET q /\ IsFiniteSet(started) /\ held \cap started = {}
      /\ Cardinality(Reads(started)) \in 0..(MaxRead - reads)
      /\ Cardinality(Writes(started)) \in 0..(MaxWrite - writes)
      /\ \A w \in Writes(started) : VehicleOf[w] \notin busy
      /\ \A v, w \in Writes(started) : VehicleOf[v] = VehicleOf[w] => v = w
  BY <1>1, StartedFits
<1>3. /\ waiting' = q \ started
      /\ ahead' = [r \in Request |-> order[r] \ started]
      /\ running' = held \cup started
      /\ readActive' = reads + Cardinality(Reads(started))
      /\ writeActive' = writes + Cardinality(Writes(started))
      /\ activeVehicles' = busy \cup Vehicles(started)
  BY DEF Drain
<1>4. \A r \in q \ started :
        IF r \in Write
          THEN \/ Cardinality(Writes(started)) = MaxWrite - writes
               \/ VehicleOf[r] \in busy \cup Vehicles(started)
          ELSE Cardinality(Reads(started)) = MaxRead - reads
  BY <1>1, NoRoomLeft
<1> HIDE DEF started
<1>5. Accounts(running, readActive, writeActive, activeVehicles)'
  <2>1. Accounts(held \cup started, reads + Cardinality(Reads(started)),
                 writes + Cardinality(Writes(started)), busy \cup Vehicles(started))
    BY <1>1, <1>2, StartedCounted
  <2> QED BY <1>3, <2>1
<1>6. waiting' \subseteq Request /\ Cardinality(waiting') <= MaxQueue
  <2>1. Cardinality(q \ started) <= Cardinality(q) /\ IsFiniteSet(q \ started)
    BY <1>1, FS_Subset
  <2>2. Cardinality(q \ started) \in Nat /\ Cardinality(q) \in Nat
    BY <1>1, <2>1, FS_CardinalityType
  <2> QED BY <1>3, <2>1, <2>2, ConstantsAssumption
<1>7. InLine(waiting, ahead)'
  BY <1>2, <1>3 DEF InLine
<1>8. activeVehicles' \subseteq Vehicle
  BY <1>2, <1>3, <1>5, ConstantsAssumption DEF Accounts, Vehicles, Writes
<1>9. TypeOK'
  BY <1>2, <1>3, <1>5, <1>6, <1>7, <1>8 DEF TypeOK, InLine, Accounts
<1>10. NobodyWaitsInVain'
  <2> SUFFICES ASSUME NEW r \in q \ started PROVE ~CanStart(r)'
    BY <1>3 DEF NobodyWaitsInVain
  <2>1. CASE r \in Write /\ Cardinality(Writes(started)) = MaxWrite - writes
    <3>1. writeActive' = MaxWrite
      BY <1>3, <2>1, ConstantsAssumption DEF Accounts
    <3> QED BY <2>1, <3>1, ConstantsAssumption DEF CanStart
  <2>2. CASE r \in Write /\ VehicleOf[r] \in busy \cup Vehicles(started)
    BY <1>3, <2>2 DEF CanStart
  <2>3. CASE r \notin Write
    <3>1. readActive' = MaxRead
      BY <1>3, <1>4, <2>3, ConstantsAssumption DEF Accounts
    <3> QED BY <2>3, <3>1, ConstantsAssumption DEF CanStart
  <2> QED BY <1>4, <2>1, <2>2, <2>3
<1>11. PermitsAccounted'
  BY <1>5, <1>10 DEF PermitsAccounted, Accounts
<1> QED BY <1>7, <1>9, <1>11 DEF IInv

\* A drain starts nobody before a rival that it leaves behind.
LEMMA DrainedInTurn ==
  ASSUME NEW q, q \subseteq Request, NEW order, InLine(q, order),
         NEW held, NEW reads, NEW writes, NEW busy, Accounts(held, reads, writes, busy),
         NEW s \in Startable(q, order, reads, writes, busy),
         NEW r \in q, r \notin Startable(q, order, reads, writes, busy), Rivals(r, s)
  PROVE  s \in q /\ r \notin order[s] /\ s \in order[r]
<1> DEFINE started == Startable(q, order, reads, writes, busy)
<1>1. IsFiniteSet(q)
  BY ConstantsAssumption, FS_Subset
<1>2. /\ started \in SUBSET q
      /\ Reads(started) = First(MaxRead - reads, Reads(q), order)
      /\ Writes(started) = First(MaxWrite - writes, Unblocked(q, order, busy), order)
  BY <1>1, StartedFits
<1>3. MaxRead - reads \in Nat
  BY ConstantsAssumption DEF Accounts
<1>4. s \in q /\ r # s
  BY <1>2
<1>5. r \notin order[s]
  <2>1. CASE r \notin Write /\ s \notin Write
    <3>1. r \in Reads(q) \ Reads(started) /\ s \in Reads(started) /\ Reads(q) \in SUBSET q
      BY <1>2, <2>1 DEF Reads
    <3>2. SUFFICES ASSUME r \in order[s] PROVE FALSE
      OBVIOUS
    <3>3. /\ Cardinality(order[r] \cap Reads(q)) \in Nat
          /\ Cardinality(order[s] \cap Reads(q)) \in Nat
          /\ Cardinality(order[r] \cap Reads(q)) < Cardinality(order[s] \cap Reads(q))
      BY <1>1, <1>4, <3>1, <3>2, FewerAhead
    <3> QED BY <1>2, <1>3, <3>1, <3>3 DEF First
  <2>2. CASE r \in Write /\ s \in Write /\ VehicleOf[r] = VehicleOf[s]
    <3>1. VehicleOf[s] \notin Vehicles(order[s])
      BY <1>2, <2>2 DEF First, Unblocked, Writes
    <3> QED BY <2>2, <3>1 DEF Vehicles, Writes
  <2> QED BY <2>1, <2>2 DEF Rivals
<1> QED BY <1>4, <1>5 DEF InLine

------------------------------------------------------------------------------
(* One lemma per kind of step: the queue it drains is a line, and the      *)
(* counters it drains with agree with the permits still held.              *)

\* There are finitely many executions.
LEMMA Finite == ASSUME IInv PROVE IsFiniteSet(waiting) /\ IsFiniteSet(running)
BY ConstantsAssumption, FS_Subset DEF IInv, TypeOK

\* What the invariant says of the counters, in the form the lemmas on drains take it.
LEMMA Accounted ==
  ASSUME IInv PROVE Accounts(running, readActive, writeActive, activeVehicles)
BY DEF IInv, TypeOK, PermitsAccounted, Accounts

\* The invariant holds of an empty queue and no permits.
LEMMA InitIInv == Init => IInv
<1> SUFFICES ASSUME Init PROVE IInv
  OBVIOUS
<1>1. Reads({}) = {} /\ Writes({}) = {} /\ Vehicles({}) = {} /\ Cardinality({}) = 0
  BY FS_EmptySet DEF Reads, Writes, Vehicles
<1>2. TypeOK
  BY <1>1, ConstantsAssumption DEF Init, TypeOK
<1>3. InLine(waiting, ahead)
  BY DEF Init, InLine
<1>4. PermitsAccounted
  BY <1>1 DEF Init, PermitsAccounted, NobodyWaitsInVain
<1> QED BY <1>2, <1>3, <1>4 DEF IInv

\* With nobody waiting, one more permit is all that changes.
LEMMA StartAtOnceStep == ASSUME IInv, NEW r \in Request, StartAtOnce(r) PROVE IInv'
<1>1. IsFiniteSet(Reads(running)) /\ IsFiniteSet(Writes(running))
  BY Finite, FS_Subset DEF Reads, Writes
<1>2. NobodyWaitsInVain' /\ InLine(waiting, ahead)'
  BY DEF IInv, InLine, NobodyWaitsInVain, StartAtOnce
<1>3. CASE r \in Write
  <2>1. /\ Reads(running') = Reads(running) /\ Writes(running') = Writes(running) \cup {r}
        /\ r \notin Writes(running)
    BY <1>3 DEF StartAtOnce, Reads, Writes
  <2>2. Cardinality(Writes(running')) = writeActive + 1
    BY <1>1, <2>1, FS_AddElement DEF IInv, PermitsAccounted
  <2>3. Vehicles(running') = activeVehicles \cup {VehicleOf[r]}
    BY <2>1 DEF IInv, PermitsAccounted, Vehicles
  <2>4. PermitsAccounted'
    BY <1>2, <1>3, <2>1, <2>2, <2>3
    DEF IInv, PermitsAccounted, StartAtOnce, CanStart, Vehicles
  <2>5. TypeOK'
    BY <1>3, ConstantsAssumption DEF IInv, TypeOK, StartAtOnce, CanStart
  <2> QED BY <1>2, <2>4, <2>5 DEF IInv
<1>4. CASE r \notin Write
  <2>1. /\ Reads(running') = Reads(running) \cup {r} /\ Writes(running') = Writes(running)
        /\ r \notin Reads(running)
    BY <1>4 DEF StartAtOnce, Reads, Writes
  <2>2. Cardinality(Reads(running')) = readActive + 1
    BY <1>1, <2>1, FS_AddElement DEF IInv, PermitsAccounted
  <2>3. Vehicles(running') = activeVehicles
    BY <2>1 DEF IInv, PermitsAccounted, Vehicles
  <2>4. PermitsAccounted'
    BY <1>2, <1>4, <2>1, <2>2, <2>3 DEF IInv, PermitsAccounted, StartAtOnce
  <2>5. TypeOK'
    BY <1>4, ConstantsAssumption DEF IInv, TypeOK, StartAtOnce, CanStart
  <2> QED BY <1>2, <2>4, <2>5 DEF IInv
<1> QED BY <1>3, <1>4

\* Whoever joins stands last.
LEMMA LineGrows ==
  ASSUME IInv, NEW r \in Request, r \notin waiting
  PROVE  InLine(waiting \cup {r}, [ahead EXCEPT ![r] = waiting])
BY DEF IInv, TypeOK, InLine

\* A newcomer joins at the end, and the queue is drained.
LEMMA EnqueueStep == ASSUME IInv, NEW r \in Request, Enqueue(r) PROVE IInv'
<1>1. Cardinality(waiting \cup {r}) <= MaxQueue
  <2>1. Cardinality(waiting \cup {r}) = Cardinality(waiting) + 1 /\ Cardinality(waiting) \in Nat
    BY Finite, FS_AddElement, FS_CardinalityType DEF Enqueue
  <2> QED BY <2>1, ConstantsAssumption DEF Enqueue
<1>2. waiting \cup {r} \subseteq Request /\ running \subseteq Request \ (waiting \cup {r})
  BY DEF IInv, TypeOK, Enqueue
<1> QED BY <1>1, <1>2, LineGrows, Accounted, Drained DEF Enqueue

\* Without whoever gives up the line is a line still.
LEMMA QueueTimeoutStep == ASSUME IInv, NEW r \in Request, QueueTimeout(r) PROVE IInv'
<1>1. InLine(waiting \ {r}, Without(r))
  BY DEF IInv, TypeOK, InLine, Without
<1>2. Cardinality(waiting \ {r}) <= MaxQueue
  <2>1. Cardinality(waiting \ {r}) = Cardinality(waiting) - 1 /\ Cardinality(waiting) \in Nat
    BY Finite, FS_RemoveElement, FS_CardinalityType DEF QueueTimeout
  <2> QED BY <2>1, ConstantsAssumption DEF IInv, TypeOK
<1>3. waiting \ {r} \subseteq Request /\ running \subseteq Request \ (waiting \ {r})
  BY DEF IInv, TypeOK
<1> QED BY <1>1, <1>2, <1>3, Accounted, Drained DEF QueueTimeout

\* Without r's permit the counters agree again: r's vehicle was r's alone.
LEMMA PermitReturned ==
  ASSUME IInv, NEW r \in running
  PROVE  IF r \in Write
           THEN Accounts(running \ {r}, readActive, writeActive - 1,
                         activeVehicles \ {VehicleOf[r]})
           ELSE Accounts(running \ {r}, readActive - 1, writeActive, activeVehicles)
<1>1. IsFiniteSet(Reads(running)) /\ IsFiniteSet(Writes(running))
  BY Finite, FS_Subset DEF Reads, Writes
<1>2. Cardinality(Reads(running)) \in Nat /\ Cardinality(Writes(running)) \in Nat
  BY <1>1, FS_CardinalityType
<1>3. CASE r \in Write
  <2>1. /\ Reads(running \ {r}) = Reads(running)
        /\ Writes(running \ {r}) = Writes(running) \ {r} /\ r \in Writes(running)
    BY <1>3 DEF Reads, Writes
  <2>2. /\ Cardinality(Writes(running \ {r})) = writeActive - 1
        /\ Cardinality(Writes(running \ {r})) \in Nat
    <3>1. Cardinality(Writes(running) \ {r}) = Cardinality(Writes(running)) - 1
      BY <1>1, <2>1, FS_RemoveElement
    <3>2. Cardinality(Writes(running) \ {r}) \in Nat
      BY <1>1, FS_Subset, FS_CardinalityType
    <3> QED BY <2>1, <3>1, <3>2 DEF IInv, PermitsAccounted
  <2>3. writeActive - 1 \in 0..MaxWrite
    BY <2>2, ConstantsAssumption DEF IInv, TypeOK
  <2>4. activeVehicles \ {VehicleOf[r]} = Vehicles(running \ {r})
    BY <2>1 DEF IInv, PermitsAccounted, Vehicles
  <2> QED BY <1>3, <2>1, <2>2, <2>3, <2>4 DEF IInv, TypeOK, PermitsAccounted, Accounts
<1>4. CASE r \notin Write
  <2>1. /\ Reads(running \ {r}) = Reads(running) \ {r} /\ r \in Reads(running)
        /\ Writes(running \ {r}) = Writes(running)
    BY <1>4 DEF Reads, Writes
  <2>2. /\ Cardinality(Reads(running \ {r})) = readActive - 1
        /\ Cardinality(Reads(running \ {r})) \in Nat
    <3>1. Cardinality(Reads(running) \ {r}) = Cardinality(Reads(running)) - 1
      BY <1>1, <2>1, FS_RemoveElement
    <3>2. Cardinality(Reads(running) \ {r}) \in Nat
      BY <1>1, FS_Subset, FS_CardinalityType
    <3> QED BY <2>1, <3>1, <3>2 DEF IInv, PermitsAccounted
  <2>3. readActive - 1 \in 0..MaxRead
    BY <2>2, ConstantsAssumption DEF IInv, TypeOK
  <2>4. activeVehicles = Vehicles(running \ {r})
    BY <2>1 DEF IInv, PermitsAccounted, Vehicles
  <2> QED BY <1>4, <2>1, <2>2, <2>3, <2>4 DEF IInv, TypeOK, PermitsAccounted, Accounts
<1> QED BY <1>3, <1>4

\* The permit goes back before the drain.
LEMMA ReleaseStep == ASSUME IInv, NEW r \in Request, Release(r) PROVE IInv'
<1>1. /\ waiting \subseteq Request /\ running \ {r} \subseteq Request \ waiting
      /\ InLine(waiting, ahead) /\ Cardinality(waiting) <= MaxQueue
  BY DEF IInv, TypeOK
<1>2. CASE r \in Write
  BY <1>1, <1>2, PermitReturned, Drained DEF Release
<1>3. CASE r \notin Write
  BY <1>1, <1>3, PermitReturned, Drained DEF Release
<1> QED BY <1>2, <1>3

\* Every step preserves the invariant.
LEMMA NextIInv == IInv /\ [Next]_vars => IInv'
<1> SUFFICES ASSUME IInv, [Next]_vars PROVE IInv'
  OBVIOUS
<1>1. CASE Next
  <2>1. PICK r \in Request :
          StartAtOnce(r) \/ TurnAway(r) \/ Enqueue(r) \/ QueueTimeout(r) \/ Release(r)
    BY <1>1 DEF Next
  <2>2. CASE TurnAway(r)
    BY <2>2 DEF TurnAway, vars, IInv, TypeOK, InLine, PermitsAccounted, NobodyWaitsInVain,
                CanStart
  <2> QED BY <2>1, <2>2, StartAtOnceStep, EnqueueStep, QueueTimeoutStep, ReleaseStep
<1>2. CASE UNCHANGED vars
  BY <1>2 DEF vars, IInv, TypeOK, InLine, PermitsAccounted, NobodyWaitsInVain, CanStart
<1> QED BY <1>1, <1>2

\* Whoever starts is neither a newcomer nor behind a rival that goes on waiting.
LEMMA InTurn ==
  ASSUME IInv, [Next]_vars, NEW r \in waiting \cap waiting', NEW s \in running' \ running,
         Rivals(r, s)
  PROVE  s \in waiting /\ r \notin ahead[s] /\ s \in ahead[r]
<1>1. PICK t \in Request :
        StartAtOnce(t) \/ TurnAway(t) \/ Enqueue(t) \/ QueueTimeout(t) \/ Release(t)
  BY DEF Next, vars
<1>2. CASE StartAtOnce(t)
  BY <1>2 DEF StartAtOnce
<1>3. CASE TurnAway(t)
  BY <1>3 DEF TurnAway, vars
<1>4. CASE Enqueue(t)
  <2> DEFINE q == waiting \cup {t}
             order == [ahead EXCEPT ![t] = waiting]
  <2>1. q \subseteq Request /\ InLine(q, order)
    BY <1>4, LineGrows DEF IInv, TypeOK, Enqueue
  <2>2. /\ s \in Startable(q, order, readActive, writeActive, activeVehicles)
        /\ r \notin Startable(q, order, readActive, writeActive, activeVehicles)
    BY <1>4 DEF Enqueue, Drain
  <2> HIDE DEF q, order
  <2>3. s \in q /\ r \notin order[s] /\ s \in order[r]
    BY <2>1, <2>2, Accounted, DrainedInTurn DEF q
  <2> QED BY <1>4, <2>3 DEF q, order, IInv, TypeOK, Enqueue
<1>5. CASE QueueTimeout(t)
  <2> DEFINE q == waiting \ {t}
             order == Without(t)
  <2>1. q \subseteq Request /\ InLine(q, order) /\ r \in q
    BY <1>5 DEF IInv, TypeOK, InLine, Without, QueueTimeout, Drain
  <2>2. /\ s \in Startable(q, order, readActive, writeActive, activeVehicles)
        /\ r \notin Startable(q, order, readActive, writeActive, activeVehicles)
    BY <1>5 DEF QueueTimeout, Drain
  <2> HIDE DEF q, order
  <2>3. s \in q /\ r \notin order[s] /\ s \in order[r]
    BY <2>1, <2>2, Accounted, DrainedInTurn
  <2> QED BY <2>1, <2>3 DEF q, order, IInv, TypeOK, Without
<1>6. CASE Release(t)
  <2>1. waiting \subseteq Request /\ InLine(waiting, ahead)
    BY DEF IInv, TypeOK
  <2>2. CASE t \in Write
    <3>1. /\ s \in Startable(waiting, ahead, readActive, writeActive - 1,
                             activeVehicles \ {VehicleOf[t]})
          /\ r \notin Startable(waiting, ahead, readActive, writeActive - 1,
                                activeVehicles \ {VehicleOf[t]})
      BY <1>6, <2>2 DEF Release, Drain
    <3>2. Accounts(running \ {t}, readActive, writeActive - 1, activeVehicles \ {VehicleOf[t]})
      BY <1>6, <2>2, PermitReturned DEF Release
    <3> QED BY <2>1, <3>1, <3>2, DrainedInTurn
  <2>3. CASE t \notin Write
    <3>1. /\ s \in Startable(waiting, ahead, readActive - 1, writeActive, activeVehicles)
          /\ r \notin Startable(waiting, ahead, readActive - 1, writeActive, activeVehicles)
      BY <1>6, <2>3 DEF Release, Drain
    <3>2. Accounts(running \ {t}, readActive - 1, writeActive, activeVehicles)
      BY <1>6, <2>3, PermitReturned DEF Release
    <3> QED BY <2>1, <3>1, <3>2, DrainedInTurn
  <2> QED BY <2>2, <2>3
<1> QED BY <1>1, <1>2, <1>3, <1>4, <1>5, <1>6

------------------------------------------------------------------------------

\* The inductive invariant holds in every reachable state.
THEOREM Invariance == Spec => []IInv
BY InitIInv, NextIInv, PTL DEF Spec

\* The queue never exceeds its bound, nor the counters their limits.
THEOREM TypeCorrect == Spec => []TypeOK
<1>1. IInv => TypeOK BY DEF IInv
<1> QED BY <1>1, Invariance, PTL

\* The counters count who holds a permit, one side effect at most runs on a vehicle, and
\* nobody waits for room that is there, for any number of executions.
THEOREM PermitsAreAccounted == Spec => []PermitsAccounted
<1>1. IInv => PermitsAccounted BY DEF IInv
<1> QED BY <1>1, Invariance, PTL

\* Nobody is overtaken by a rival, whatever starts, times out or ends.
THEOREM QueueIsFair == Spec => NoOvertaking
<1>1. IInv /\ [Next]_vars =>
        [\A r \in waiting \cap waiting', s \in running' \ running :
           Rivals(r, s) => s \in waiting /\ r \notin ahead[s] /\ s \in ahead[r]]_vars
  BY InTurn
<1> QED BY <1>1, Invariance, PTL DEF Spec, NoOvertaking
================================================================================
