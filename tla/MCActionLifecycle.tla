-------------------------- MODULE MCActionLifecycle --------------------------
(***************************************************************************)
(* Instances of ActionLifecycle for TLC: who owns the actions, and the     *)
(* context they start in.                                                  *)
(***************************************************************************)
EXTENDS ActionLifecycle

CONSTANTS owner, intruder, r1

\* Every action was created for the same user.
MCOwner == [a \in Action |-> owner]

MCUser == {owner, intruder}

\* The values of the relevant paths are alike: which one comes first makes no difference.
MCInit == Init /\ context.relevant = r1

MCFairSpec == MCInit /\ [][Next]_vars /\ Fairness
==============================================================================
