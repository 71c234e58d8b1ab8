----------------------- MODULE MCConcurrencyController -----------------------
(***************************************************************************)
(* An instance of ConcurrencyController for TLC: which requests write, and *)
(* to which of the vehicles.                                               *)
(***************************************************************************)
EXTENDS ConcurrencyController

CONSTANTS r1, r2, w1, w2, w3, w4, v1, v2, v3

MCRequest == {r1, r2, w1, w2, w3, w4}

MCWrite == {w1, w2, w3, w4}

\* Two rivals for the first vehicle, one writer for each of the others.
MCVehicleOf == [r \in MCRequest |->
  IF r = w3 THEN v2 ELSE IF r = w4 THEN v3 ELSE v1]
==============================================================================
