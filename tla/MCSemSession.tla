----------------------------- MODULE MCSemSession ------------------------------
(* Instances of SemSession for TLC. *)
EXTENDS SemSession

CONSTANTS s1, r1, a

(* The flag sets a semop may be called with: builds that leave sem_flg zero,  *)
(* and builds that leave the bit of IPC_NOWAIT there as well.                 *)
Blocking == {{}}
MayNotWait == {{}, {"IPC_NOWAIT"}}
================================================================================
