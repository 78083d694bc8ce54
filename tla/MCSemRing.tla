------------------------------ MODULE MCSemRing --------------------------------
(* Instances of SemRing for TLC. *)
EXTENDS SemRing

CONSTANTS s1, s2, r1, r2, a, b

(* The flag sets a semop may be called with: a build that leaves sem_flg      *)
(* zero, and one that leaves anything there.                                  *)
Blocking == {{}}
AnyFlags == {{}, {"IPC_NOWAIT"}, {"SEM_UNDO"}}
================================================================================
