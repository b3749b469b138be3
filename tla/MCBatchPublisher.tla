-------------------------- MODULE MCBatchPublisher --------------------------
(* An instance of BatchPublisher for TLC.*)
EXTENDS BatchPublisher
=============================================================================
