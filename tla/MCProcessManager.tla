--------------------------- MODULE MCProcessManager ---------------------------
(* An instance of ProcessManager for TLC.                                   *)
EXTENDS ProcessManager
=============================================================================
