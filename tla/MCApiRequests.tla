---------------------------- MODULE MCApiRequests ----------------------------
(***************************************************************************)
(* Instances of ApiRequests for TLC: a stream, a message for the same      *)
(* session, and a subscription or another request.                         *)
(***************************************************************************)
EXTENDS ApiRequests

CONSTANTS s1, stream, message, third

MCSessionOf == [r \in Request |-> s1]
MCRoutes == [r \in Request |-> CASE r = stream -> {"stream"} [] r = message -> {"message"}
                                 [] OTHER -> {"subscription", "other"}]
================================================================================
