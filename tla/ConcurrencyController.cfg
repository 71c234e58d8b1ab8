\* Two readers and four writers to three vehicles, two of them rivals, with
\* room for one reader and two writers and a queue of two.
SPECIFICATION FairSpec
CONSTANTS
  r1 = r1
  r2 = r2
  w1 = w1
  w2 = w2
  w3 = w3
  w4 = w4
  v1 = v1
  v2 = v2
  v3 = v3
  Request <- MCRequest
  Write <- MCWrite
  Vehicle = {v1, v2, v3}
  VehicleOf <- MCVehicleOf
  MaxRead = 1
  MaxWrite = 2
  MaxQueue = 2
INVARIANTS
  TypeOK
  PermitsAccounted
PROPERTIES
  NoOvertaking
  EveryWaiterLeaves
