-------------------------- MODULE MCManualExecution --------------------------
(* An instance of ManualExecution for TLC: of three requests two are for one *)
(* routine, in a row or with the other between them.                         *)
EXTENDS ManualExecution, TLC

CONSTANTS c1, c2, c3, r1, r2

MCTargets == {c1 :> r1 @@ c2 :> r1 @@ c3 :> r2, c1 :> r1 @@ c2 :> r2 @@ c3 :> r1}
=============================================================================
