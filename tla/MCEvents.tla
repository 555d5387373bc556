------------------------------ MODULE MCEvents ------------------------------
(***************************************************************************)
(* Two triples of the first file: one of the second file too, and one      *)
(* whose object names no file.                                             *)
(***************************************************************************)
EXTENDS EventPipeline

CONSTANTS f1, f2

MCFiles == {f1, f2}
MCFilesOf == <<<<f1, f2>>, <<f1, NoFile>>>>
=============================================================================
