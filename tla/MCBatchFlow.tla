---- MODULE MCBatchFlow ----
(* One process with four functions and one file, or process, for TLC. *)
EXTENDS BatchFlow

CONSTANTS read, wait4, clone, getenv, file
MCArgLists == {<<>>, <<file>>}
MCCalls    == {<<read, <<file>>>>, <<wait4, <<>>>>, <<clone, <<file>>>>, <<getenv, <<>>>>}
====
