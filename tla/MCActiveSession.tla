---------------------------- MODULE MCActiveSession ----------------------------
(* Instances of ActiveSession for TLC. *)
EXTENDS ActiveSession

CONSTANTS s1, r1, a, b
================================================================================
