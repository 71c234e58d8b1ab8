------------------------- MODULE MCDurableExecution -------------------------
(***************************************************************************)
(* Instances of DurableExecution for TLC: which requests the calls carry,  *)
(* and what is not told apart.                                             *)
(***************************************************************************)
EXTENDS DurableExecution, TLC

\* The runtime draws a fresh identifier for every call.
FreshRequests ==
  [c \in Call |-> [execution : {c}, key : Key, binding : Binding]]

\* The urgent-event dispatcher derives it from the event, redeliveries included.
StableRequests == [c \in Call |-> [execution : Execution, key : Key, binding : Binding]]

Symmetry == Permutations(Call) \cup Permutations(Host) \cup Permutations(Binding)
==============================================================================
