--------------------------- MODULE MCProcessTree ----------------------------
(* Instances of ProcessTree for TLC; the sub-processes are                 *)
(* interchangeable.                                                        *)
EXTENDS ProcessTree, TLC

Symmetry == Permutations(Pids \ {TopPid})
=============================================================================
