--------------------------- MODULE MCCallMatching ---------------------------
(* Instances of CallMatching for TLC. *)
EXTENDS CallMatching

(* System calls are registered with "@SYS", library functions without.     *)
MCModels ==
  [n \in Names |-> CASE n = <<"read", "@SYS">>          -> "whole"
                     [] n = <<"vfork", "@SYS">>         -> "resumedOk"
                     [] n = <<"futex", "@SYS">>         -> "ignored"
                     [] n = <<"getenv", "">>            -> "whole"
                     [] n = <<"__libc_start_main", "">> -> "unfinishedOk"
                     [] OTHER                           -> "unknown"]
=============================================================================
