--------------------------- MODULE MCWsRelayClient ---------------------------
(* An instance of WsRelayClient for TLC.*)
EXTENDS WsRelayClient
=============================================================================
