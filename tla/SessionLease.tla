----------------------------- MODULE SessionLease -----------------------------
(***************************************************************************)
(* The lease columns of a session's row: busyOwner, and how long           *)
(* busyExpiresAt is ahead of the database's clock.  Each operator is one   *)
(* conditional UPDATE; PostgreSQL is authoritative, Redis only a hint.     *)
(***************************************************************************)
EXTENDS Naturals

CONSTANTS
  Run,           \* requests for a run of the agent
  Confirm,       \* requests to confirm and execute a pending action
  OwnerOf,       \* the run identifier under which a request takes the lease
  Ttl,           \* the ticks a lease lasts
  None

Request == Run \cup Confirm

ASSUME LeaseAssumption ==
  /\ Run \cap Confirm = {}
  /\ None \notin Run \cup Confirm
  /\ \A x \in Request : OwnerOf[x] # None
  /\ Ttl \in Nat \ {0}

Lease == [owner : {OwnerOf[x] : x \in Request} \cup {None}, left : 0..Ttl]

NoLease == [owner |-> None, left |-> 0]

LeaseOf(x) == [owner |-> OwnerOf[x], left |-> Ttl]

IsFree_Anyway(lease) == TRUE

\* The guard of acquire: its own owner has to wait for the expiry as well.
IsFree(lease) == lease.owner = None \/ lease.left = 0

Holds_Anyone(lease, x) == lease.owner # None /\ lease.left > 0

\* The guard of renew and of appendTurn.
Holds(lease, x) == lease.owner = OwnerOf[x] /\ lease.left > 0

Renewed(lease, x) == IF Holds(lease, x) THEN LeaseOf(x) ELSE lease

Released_Anyones(lease, x) == NoLease

\* The owner is compared, the expiry is not.
Released(lease, x) == IF lease.owner = OwnerOf[x] THEN NoLease ELSE lease

Aged(lease) == [lease EXCEPT !.left = IF @ > 0 THEN @ - 1 ELSE 0]
===============================================================================
