------------------------------ MODULE MCWsHub ------------------------------
(***************************************************************************)
(* Instance of WsHub for TLC: each client is a user of its own, so that    *)
(* DisconnectUser can meet every client at every step of Run.              *)
(***************************************************************************)
EXTENDS WsHub

MCUser   == Client \cup {""}
MCUserOf == [c \in Client |-> c]
=============================================================================
