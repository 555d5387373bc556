--------------------------- MODULE MCDockitTrace ----------------------------
(* Instances of DockitTrace for TLC: the models are those of CallMatching. *)
EXTENDS DockitTrace, MCCallMatching
=============================================================================
