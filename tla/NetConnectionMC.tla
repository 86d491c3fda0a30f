-------------------------- MODULE NetConnectionMC --------------------------
(***************************************************************************)
(* NetConnection with a short and a long packet and a header of two bytes, *)
(* so that header and body both arrive in pieces.                          *)
(***************************************************************************)
EXTENDS NetConnection

MCMsgs == {"ping", "negotiate"}
MCBodyLen == [m \in MCMsgs |-> IF m = "ping" THEN 1 ELSE 3]
=============================================================================
