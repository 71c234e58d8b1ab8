---------------------------- MODULE MCToolDecision ----------------------------
(* A small instance of ToolDecision. *)
EXTENDS ToolDecision, TLC

CONSTANTS c1, c2, a1, a2

\* What the model proposes is told apart, and nothing else.
Proposals == Permutations(Argument)
=============================================================================
