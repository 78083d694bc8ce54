----------------------------- MODULE MCActiveRing ------------------------------
(* Instances of ActiveRing for TLC. *)
EXTENDS ActiveRing

CONSTANTS a, b
================================================================================
