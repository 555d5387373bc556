--------------------------- MODULE MCDockitFiles ----------------------------
(* Instances of DockitFiles for TLC; the processes are interchangeable,    *)
(* and so are the files.                                                   *)
EXTENDS DockitFiles, TLC

Symmetry == Permutations(Pids) \cup Permutations(Files)
=============================================================================
