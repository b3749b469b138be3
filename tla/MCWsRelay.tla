------------------------------ MODULE MCWsRelay ------------------------------
(* An instance of WsRelay for TLC.                                          *)
EXTENDS WsRelay
=============================================================================
