--------------------------- MODULE MCMergeScripts ---------------------------
(***************************************************************************)
(* An instance of MergeScripts: two scripts, one of them asked about       *)
(* another machine and apt to return without a page, one that cannot be    *)
(* imported and a URL that is not Python.                                  *)
(***************************************************************************)
EXTENDS MergeScripts

CONSTANTS local, distant, missing, html

MCScripts == {local, distant, missing, html}
MCNotFound == {missing}
MCNotPython == {html}
MCRemote == {distant}
MCSilent == {distant}
=============================================================================
