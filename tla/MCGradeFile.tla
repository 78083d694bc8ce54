----------------------------- MODULE MCGradeFile -------------------------------
(* Instances of GradeFile for TLC: all constants are given in the .cfg files. *)
EXTENDS GradeFile
================================================================================
