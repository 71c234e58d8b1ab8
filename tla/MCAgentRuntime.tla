--------------------------- MODULE MCAgentRuntime ---------------------------
(***************************************************************************)
(* Instances of AgentRuntime for TLC: the requests of one session, the     *)
(* process that serves each, and the run identifier each takes the lease   *)
(* under.                                                                  *)
(***************************************************************************)
EXTENDS AgentRuntime, TLC

CONSTANTS p1, p2, r1

\* Every request but the confirmations is served by the first process.
MCProcessOf == [x \in Request |-> IF x \in Run THEN p1 ELSE p2]

\* A confirmed action is that of an earlier run, another for each.
OwnOwner == [x \in Request |-> <<"run of", x>>]

\* All confirmations are of one action, and take the lease for its run.
SharedOwner == [x \in Request |-> IF x \in Run THEN <<"run of", x>> ELSE <<"run of", Confirm>>]

\* One run calls tools, in parallel, the others call none.
MCToolsOf == [r \in Run |-> IF r = r1 THEN Tool ELSE {}]

Symmetry == Permutations(Confirm) \cup Permutations(Tool)
=============================================================================
