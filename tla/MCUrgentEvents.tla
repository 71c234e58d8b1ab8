---------------------------- MODULE MCUrgentEvents ----------------------------
(***************************************************************************)
(* Instances of UrgentEvents for TLC: two messages under one event         *)
(* identifier, an event and one that is none, or an event alone.           *)
(***************************************************************************)
EXTENDS UrgentEvents, TLC

CONSTANTS e1, m1, m2

MCEventOf == [m \in Message |-> e1]
MCContentOf == [m \in Message |-> m]
MCEvents == [{m1} -> {"CHARGING_INTERRUPTED", "LOW_SOC"}]
MCMixed == {m1 :> "CHARGING_INTERRUPTED" @@ m2 :> "INVALID",
            m1 :> "LOW_SOC" @@ m2 :> "MALFORMED"}

\* Processes are alike.
Symmetry == Permutations(Consumer)
================================================================================
