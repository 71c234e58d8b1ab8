------------------------- MODULE MCVehicleSimulator -------------------------
(* A small instance of VehicleSimulator. *)
EXTENDS VehicleSimulator, TLC

CONSTANTS c1, c2, c3, s1, s2, k1

MCSlotsOf == (s1 :> 2) @@ (s2 :> 1)

\* The first two callers share a key, as two processes that execute one
\* confirmed action do; the third sends none.
MCKeyOf == (c1 :> k1) @@ (c2 :> k1) @@ (c3 :> None)

Cmd(kind, arg) == [kind |-> kind, arg |-> arg]

\* The first two may want one reservation or two; the third cancels it.  The value 2
\* is out of the range of a setting.
MCCommandsOf ==
  (c1 :> {Cmd("reserve", s1), Cmd("destination", None), Cmd("seat", 1)})
    @@ (c2 :> {Cmd("reserve", s1), Cmd("reserve", s2), Cmd("reroute", None), Cmd("speed", TRUE)})
    @@ (c3 :> {Cmd("cancel", 1), Cmd("reserve", s1), Cmd("temperature", 2), Cmd("soc", "low"),
               Cmd("volume", 1), Cmd("assistance", None)})

MCAttemptsOf == (c1 :> 2) @@ (c2 :> 1) @@ (c3 :> 1)
=============================================================================
