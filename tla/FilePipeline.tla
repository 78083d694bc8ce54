----------------------------- MODULE FilePipeline ------------------------------
(***************************************************************************)
(* hw2/files: main sends an expression through three processes, each of    *)
(* which evaluates some of the operators, and prints what comes back.  A   *)
(* message is handed over in a file of the current directory: the sender   *)
(* waits until the file is empty, the receiver until it is not, and        *)
(* empties it.  The files outlive the processes when these are interrupted.*)
(*                                                                         *)
(* Process 0 is main, 1 to 3 are P1 to P3; process i sends on file i and   *)
(* receives from the file before it, 0 from file 3.                        *)
(***************************************************************************)
EXTENDS Expressions

CONSTANTS
  Exprs,       \* expressions a user types
  MaxFaults    \* bound on interrupts, failed forks and failed execs

ASSUME ExprsAssumption == \A e \in Exprs : WellFormed(e)
ASSUME FaultsAssumption == MaxFaults \in Nat

VARIABLES
  com,       \* the lines in each of the files .com0 to .com3
  pc,        \* where each process is
  text,      \* the message each process is about to send or has received; <<>>
             \* when the string is not used any more
  asked,     \* main's expr
  session,   \* history: "sound" if all files were empty at the start of the
             \* session and all children run, "spoiled" otherwise
  faults

vars == <<com, pc, text, asked, session, faults>>

Files == 0 .. 3
Procs == {0} \cup Children

Inbox(p) == (p + 3) % 4
Outbox(p) == p

--------------------------------------------------------------------------------
Init ==
  /\ com = [f \in Files |-> <<>>]
  /\ pc = [p \in Procs |-> "off"]
  /\ text = [p \in Procs |-> <<>>]
  /\ asked = <<>>
  /\ session = "spoiled" /\ faults = 0

AllEmpty == \A f \in Files : com[f] = <<>>

(* main opens the files without O_TRUNC: what is in them stays there. *)
Start ==
  /\ pc[0] = "off"
  /\ pc' = [pc EXCEPT ![0] = "fork"]
  /\ session' = IF AllEmpty THEN "sound" ELSE "spoiled"
  /\ UNCHANGED <<com, text, asked, faults>>

NextChild == Min({i \in Children : pc[i] = "off"})

Fork ==
  /\ pc[0] = "fork"
  /\ pc' = [pc EXCEPT ![NextChild] = "receive", ![0] = IF NextChild = 3 THEN "ask" ELSE "fork"]
  /\ UNCHANGED <<com, text, asked, session, faults>>

(* The child's execlp fails, and main does not learn of it. *)
ExecFails ==
  /\ pc[0] = "fork" /\ faults < MaxFaults
  /\ pc' = [pc EXCEPT ![NextChild] = "gone", ![0] = IF NextChild = 3 THEN "ask" ELSE "fork"]
  /\ session' = "spoiled" /\ faults' = faults + 1
  /\ UNCHANGED <<com, text, asked>>

AllOff ==
  /\ pc' = [p \in Procs |-> "off"]
  /\ text' = [p \in Procs |-> <<>>] /\ asked' = <<>>
  /\ session' = "spoiled"

(* fork fails: the children started so far are killed, main exits and leaves *)
(* the files.  Ctrl-C ends main and the children alike, at any moment.       *)
ForkFails == pc[0] = "fork" /\ faults < MaxFaults /\ faults' = faults + 1 /\ AllOff /\ UNCHANGED com
Interrupt == pc[0] # "off" /\ faults < MaxFaults /\ faults' = faults + 1 /\ AllOff /\ UNCHANGED com

GetExpression ==
  /\ pc[0] = "ask"
  /\ \E e \in Exprs \cup {Quit} :
       asked' = e /\ text' = [text EXCEPT ![0] = e]
  /\ pc' = [pc EXCEPT ![0] = "send"]
  /\ UNCHANGED <<com, session, faults>>

(* Mutant: the sender does not wait for an empty file. *)
SendWaitForNothing(p) ==
  /\ pc[p] = "send"
  /\ pc' = [pc EXCEPT ![p] = "write"]
  /\ UNCHANGED <<com, text, asked, session, faults>>

--------------------------------------------------------------------------------
(* SendMessage.  The polling loop is an action that waits for its exit.      *)
SendWait(p) ==
  /\ pc[p] = "send" /\ com[Outbox(p)] = <<>>
  /\ pc' = [pc EXCEPT ![p] = "write"]
  /\ UNCHANGED <<com, text, asked, session, faults>>

(* main's string has a line feed of its own when SendMessage adds one.       *)
LinesOf(p, m) == IF p = 0 THEN <<m, <<>>>> ELSE <<m>>

AfterSend(p) == CASE p = 0 -> "receive"
                  [] p # 0 /\ IsQuit(text[p]) -> "gone"
                  [] p # 0 /\ ~ IsQuit(text[p]) -> "receive"

SendWrite(p) ==
  /\ pc[p] = "write"
  /\ com' = [com EXCEPT ![Outbox(p)] = LinesOf(p, text[p])]
  /\ pc' = [pc EXCEPT ![p] = AfterSend(p)]
  /\ text' = [text EXCEPT ![p] = <<>>]
  /\ UNCHANGED <<asked, session, faults>>

(* ReceiveMessage: the first line is read, and then the file emptied.        *)
ReceiveRead(p) ==
  /\ pc[p] = "receive" /\ com[Inbox(p)] # <<>>
  /\ text' = [text EXCEPT ![p] = Head(com[Inbox(p)])]
  /\ pc' = [pc EXCEPT ![p] = "truncate"]
  /\ UNCHANGED <<com, asked, session, faults>>

(* A child evaluates what it received, unless that is q; main looks at what  *)
(* it has sent to see whether it is to stop.                                 *)
Used(p) == IF p = 0 THEN text[0] ELSE Processed(p, text[p])
AfterReceive(p) == CASE p # 0 -> "send"
                     [] p = 0 /\ IsQuit(asked) -> "reap"
                     [] p = 0 /\ ~ IsQuit(asked) -> "show"

(* Mutant: only the line that was read is removed. *)
TruncateOneLine(p) ==
  /\ pc[p] = "truncate"
  /\ com' = [com EXCEPT ![Inbox(p)] = Tail(@)]
  /\ text' = [text EXCEPT ![p] = Used(p)]
  /\ pc' = [pc EXCEPT ![p] = AfterReceive(p)]
  /\ UNCHANGED <<asked, session, faults>>

TruncateFile(p) ==
  /\ pc[p] = "truncate"
  /\ com' = [com EXCEPT ![Inbox(p)] = <<>>]
  /\ text' = [text EXCEPT ![p] = Used(p)]
  /\ pc' = [pc EXCEPT ![p] = AfterReceive(p)]
  /\ UNCHANGED <<asked, session, faults>>

--------------------------------------------------------------------------------
(* The result is printed. *)
Show ==
  /\ pc[0] = "show"
  /\ pc' = [pc EXCEPT ![0] = "ask"]
  /\ text' = [text EXCEPT ![0] = <<>>] /\ asked' = <<>>
  /\ UNCHANGED <<com, session, faults>>

(* Mutant: main does not wait for its children. *)
ReapNobody ==
  /\ pc[0] = "reap"
  /\ pc' = [pc EXCEPT ![0] = "remove"]
  /\ UNCHANGED <<com, text, asked, session, faults>>

Reap ==
  /\ pc[0] = "reap" /\ \A i \in Children : pc[i] = "gone"
  /\ pc' = [pc EXCEPT ![0] = "remove"]
  /\ UNCHANGED <<com, text, asked, session, faults>>

RemoveFiles ==
  /\ pc[0] = "remove"
  /\ com' = [f \in Files |-> <<>>]
  /\ AllOff /\ UNCHANGED faults

Messages(p) == SendWait(p) \/ SendWrite(p) \/ ReceiveRead(p) \/ TruncateFile(p)
Main == Fork \/ Messages(0) \/ Show \/ Reap \/ RemoveFiles

Next == Start \/ GetExpression \/ Main \/ (\E p \in Children : Messages(p))
          \/ ExecFails \/ ForkFails \/ Interrupt

Spec == Init /\ [][Next]_vars

(* Processes are scheduled; nobody has to start a session or to type.        *)
FairSpec == Spec /\ WF_vars(Main) /\ \A p \in Children : WF_vars(Messages(p))

--------------------------------------------------------------------------------
(* Every variable has a value of its kind; only main's messages leave a      *)
(* blank line behind the first, and no file is left with that line alone.    *)
TypeOK ==
  /\ com \in [Files -> Seq(Seq(AnyTerm))]
  /\ \A f \in Files : com[f] # <<>> => Len(com[f]) = (IF f = 0 THEN 2 ELSE 1) /\ com[f][1] # <<>>
  /\ pc \in [Procs -> {"off", "fork", "ask", "send", "write", "receive", "truncate",
                       "show", "reap", "remove", "gone"}]
  /\ text \in [Procs -> Seq(AnyTerm)]
  /\ asked \in Exprs \cup {Quit, <<>>}
  /\ session \in {"sound", "spoiled"} /\ faults \in 0 .. MaxFaults

(* Each result main prints is the value of the expression that was typed:    *)
(* the three passes together evaluate by precedence, no answer belongs to    *)
(* another question, every question gets one unless somebody interrupts, and *)
(* after a q the session ends.  A session that found a message of an earlier *)
(* one in a file (main.c:33) or lacks a child promises nothing.              *)
StateNow ==
  CASE session = "spoiled"                              -> "off"
    [] session = "sound" /\ pc[0] \in {"fork", "ask"}   -> "ready"
    [] session = "sound" /\ pc[0] = "show"              -> "shown"
    [] session = "sound" /\ pc[0] \in {"reap", "remove"} -> "closing"
    [] session = "sound" /\ pc[0] \in {"send", "write", "receive", "truncate"} ->
         IF IsQuit(asked) THEN "closing" ELSE "asked"
Calc == INSTANCE Calculator
          WITH state <- StateNow,
               question <- IF StateNow \in {"asked", "shown"} THEN asked ELSE <<>>,
               answer <- IF StateNow = "shown" THEN text[0] ELSE <<>>
ImplementsCalculator == Calc!Spec

(* A message that is in a file stays as it is until it is taken out, in      *)
(* every session, whatever was in the files at its start.                    *)
NoMessageOverwritten ==
  [][\A f \in Files : com[f] # <<>> => com'[f] \in {com[f], <<>>}]_vars

(* When main removes the files no child is left that could use them, and in  *)
(* a sound session no message is lost in them.                               *)
RemovesUnused ==
  pc[0] = "remove" =>
    /\ \A i \in Children : pc[i] = "gone"
    /\ session = "sound" => AllEmpty
================================================================================
