---------------------------- MODULE MCRotinaParallel ----------------------------
(* An instance of RotinaParallel for TLC: a tenant of one slot where a full  *)
(* tenant defers to the retry queue, or of two where it requeues.            *)
EXTENDS RotinaParallel

MCSettings == {[slots |-> 1, defer |-> TRUE, retries |-> 1],
               [slots |-> 2, defer |-> FALSE, retries |-> 2]}
=============================================================================
