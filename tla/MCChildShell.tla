---------------------------- MODULE MCChildShell -------------------------------
(* Instances of ChildShell for TLC.  Pids are interchangeable: they are only  *)
(* compared with each other.                                                  *)
EXTENDS ChildShell

CONSTANTS p1, p2, p3
================================================================================
