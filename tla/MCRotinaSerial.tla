--------------------------- MODULE MCRotinaSerial ---------------------------
(* Small instances of RotinaSerial for TLC: two worker processes, two or    *)
(* three executions.                                                        *)
EXTENDS RotinaSerial, TLC

Symmetry == Permutations(Exe) \cup Permutations(Worker)
=============================================================================
