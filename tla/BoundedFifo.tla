------------------------------ MODULE BoundedFifo ------------------------------
(***************************************************************************)
(* What the shared character buffers of hw4 promise to the programs that   *)
(* use them: a first-in first-out channel of at most Capacity characters.  *)
(* It says nothing of slots, indices, semaphores or busy waiting; SemRing  *)
(* and ActiveRing are shown to implement it.                               *)
(***************************************************************************)
EXTENDS Naturals, Sequences

CONSTANTS Data,       \* the characters that can be sent
          Capacity    \* how many may be in the buffer at once

VARIABLES sent,       \* every character accepted, in the order of acceptance
          received    \* every character handed out, in the order of delivery

vars == <<sent, received>>

Init == sent = <<>> /\ received = <<>>

(* A character is accepted only if it fits. *)
Send(d) ==
  /\ Len(sent) - Len(received) < Capacity
  /\ sent' = Append(sent, d)
  /\ UNCHANGED received

(* The oldest character not handed out yet is handed out, once. *)
Receive ==
  /\ Len(received) < Len(sent)
  /\ received' = Append(received, sent[Len(received) + 1])
  /\ UNCHANGED sent

Next == (\E d \in Data : Send(d)) \/ Receive

Spec == Init /\ [][Next]_vars
================================================================================
