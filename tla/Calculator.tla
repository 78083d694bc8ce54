------------------------------- MODULE Calculator -------------------------------
(***************************************************************************)
(* What hw2 promises its user, over files or over pipes: an expression     *)
(* that is typed is answered by its own value before the next one can be   *)
(* typed, and after q the session ends.  It says nothing of processes,     *)
(* messages, files or pipes; FilePipeline and PipePipeline implement it.   *)
(***************************************************************************)
EXTENDS Expressions

CONSTANT Exprs     \* what the user may type

VARIABLES state,     \* "off": nothing is promised
          question,  \* the expression typed last, <<>> when it has been answered
          answer     \* what the user is shown, <<>> when nothing

vars == <<state, question, answer>>

Init == state = "off" /\ question = <<>> /\ answer = <<>>

Start == state = "off" /\ state' = "ready" /\ UNCHANGED <<question, answer>>

Ask ==
  /\ state = "ready" /\ state' = "asked"
  /\ question' \in Exprs
  /\ UNCHANGED answer

Answer ==
  /\ state = "asked" /\ state' = "shown"
  /\ answer' = <<Number(Value(question))>>
  /\ UNCHANGED question

Again ==
  /\ state = "shown" /\ state' = "ready"
  /\ question' = <<>> /\ answer' = <<>>

(* A session that is being closed gets closed. *)
Close == state = "ready" /\ state' = "closing" /\ UNCHANGED <<question, answer>>
End == state = "closing" /\ state' = "off" /\ UNCHANGED <<question, answer>>

(* Somebody kills a process: all bets are off. *)
Break == state' = "off" /\ question' = <<>> /\ answer' = <<>>

Next == Start \/ Ask \/ Answer \/ Again \/ Close \/ End \/ Break

(* The user need not type, but gets an answer and an end. *)
Spec == Init /\ [][Next]_vars /\ WF_vars(Answer) /\ WF_vars(End)
================================================================================
