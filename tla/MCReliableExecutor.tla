-------------------------- MODULE MCReliableExecutor --------------------------
(***************************************************************************)
(* An instance of ReliableExecutor for TLC.                                *)
(***************************************************************************)
EXTENDS ReliableExecutor

CONSTANTS book, order, look
==============================================================================
