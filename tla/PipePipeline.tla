----------------------------- MODULE PipePipeline -------------------------------
(***************************************************************************)
(* hw2/pipes: the stages of FilePipeline joined by four pipes.  There is   *)
(* nothing to wait for but the pipes themselves, so what happens when a    *)
(* process is missing depends on who still holds which end of which pipe:  *)
(* a writer without readers is killed, and a reader without writers gets   *)
(* the end of the file, of which neither ReadLine nor Read takes notice.   *)
(*                                                                         *)
(* Process 0 is main, 1 to 3 are P1 to P3; process p writes to pipe p and  *)
(* reads from the pipe before it, main from pipe 3.                        *)
(***************************************************************************)
EXTENDS Expressions

CONSTANTS
  Exprs,       \* expressions a user types
  Garbage,     \* lines that may be found in memory that was never written
  Capacity,    \* lines that fit into a pipe
  MaxFaults    \* bound on failed forks and execs and on processes killed

ASSUME ExprsAssumption == \A e \in Exprs : WellFormed(e)
ASSUME GarbageAssumption == Garbage \subseteq Seq(AnyTerm) \ {<<>>}
ASSUME CapacityAssumption == Capacity \in Nat \ {0}
ASSUME FaultsAssumption == MaxFaults \in Nat

VARIABLES
  pipe,      \* the lines in each pipe
  ends,      \* the ends of pipes each process has open
  pc,        \* where each process is
  line,      \* the buffer each process reads into, <<>> before the first line
  text,      \* what each process is about to write or, main, to print
  asked,     \* main's expr
  whole,     \* history: no fork or exec has failed and nobody was killed
  faults

vars == <<pipe, ends, pc, line, text, asked, whole, faults>>

Pipes == 0 .. 3
Procs == {0} \cup Children

Inbox(p)  == (p + 3) % 4
Outbox(p) == p
EndsOf(p) == {<<Inbox(p), "r">>, <<Outbox(p), "w">>}

HasReader(i) == \E p \in Procs : <<i, "r">> \in ends[p]
HasWriter(i) == \E p \in Procs : <<i, "w">> \in ends[p]

Blank == <<>>   \* an empty line

(* main has made the pipes and starts its children. *)
Init ==
  /\ pipe = [i \in Pipes |-> <<>>]
  /\ ends = [p \in Procs |-> IF p = 0 THEN Pipes \X {"r", "w"} ELSE {}]
  /\ pc = [p \in Procs |-> IF p = 0 THEN "fork" ELSE "none"]
  /\ line = [p \in Procs |-> <<>>] /\ text = [p \in Procs |-> <<>>]
  /\ asked = <<>>
  /\ whole = TRUE /\ faults = 0

Fault == faults < MaxFaults /\ faults' = faults + 1 /\ whole' = FALSE
Unharmed == UNCHANGED <<whole, faults>>

Goto(p, label) == pc' = [pc EXCEPT ![p] = label]

(* A process comes to its end, and the kernel closes what it has open. *)
Ends(ps) ==
  /\ pc' = [p \in Procs |-> IF p \in ps THEN "gone" ELSE pc[p]]
  /\ ends' = [p \in Procs |-> IF p \in ps THEN {} ELSE ends[p]]

--------------------------------------------------------------------------------
(* Start *)

NextChild == Min({i \in Children : pc[i] = "none"})

(* A child begins with every end main has open. *)
Fork ==
  /\ pc[0] = "fork"
  /\ pc' = [pc EXCEPT ![NextChild] = "close", ![0] = IF NextChild = 3 THEN "close" ELSE "fork"]
  /\ ends' = [ends EXCEPT ![NextChild] = ends[0]]
  /\ UNCHANGED <<pipe, line, text, asked>> /\ Unharmed

(* The children started so far are killed, and main exits. *)
ForkFails ==
  /\ pc[0] = "fork" /\ Fault
  /\ Ends({p \in Procs : pc[p] # "none"})
  /\ UNCHANGED <<pipe, line, text, asked>>

\* Mutant: a child keeps the writing end of the pipe it reads.
CloseKeepsWriter(p) ==
  /\ pc[p] = "close"
  /\ ends' = [ends EXCEPT ![p] = EndsOf(p) \cup {<<Inbox(p), "w">>}]
  /\ Goto(p, IF p = 0 THEN "ask" ELSE "exec")
  /\ UNCHANGED <<pipe, line, text, asked>> /\ Unharmed

(* Everybody closes the ends it does not use. *)
CloseUnused(p) ==
  /\ pc[p] = "close"
  /\ ends' = [ends EXCEPT ![p] = EndsOf(p)]
  /\ Goto(p, IF p = 0 THEN "ask" ELSE "exec")
  /\ UNCHANGED <<pipe, line, text, asked>> /\ Unharmed

Exec(p) ==
  /\ pc[p] = "exec" /\ Goto(p, "read")
  /\ UNCHANGED <<pipe, ends, line, text, asked>> /\ Unharmed

(* The child's execlp fails, and main does not learn of it. *)
ExecFails(p) ==
  /\ pc[p] = "exec" /\ Fault
  /\ Ends({p})
  /\ UNCHANGED <<pipe, line, text, asked>>

(* Somebody kills a process. *)
Die(p) ==
  /\ pc[p] \notin {"none", "gone"} /\ Fault
  /\ Ends({p})
  /\ UNCHANGED <<pipe, line, text, asked>>

--------------------------------------------------------------------------------
(* main's question *)
GetExpression ==
  /\ pc[0] = "ask"
  /\ \E e \in Exprs \cup {Quit} : asked' = e /\ text' = [text EXCEPT ![0] = e]
  /\ Goto(0, "write")
  /\ UNCHANGED <<pipe, ends, line>> /\ Unharmed

(* A child that copies q has its line feed too and adds another. *)
LinesOf(p, m) == IF p # 0 /\ IsQuit(m) THEN <<m, Blank>> ELSE <<m>>

(* A child ends after a q. *)
AfterWrite(p) == IF p # 0 /\ IsQuit(line[p]) THEN "gone" ELSE "read"

\* Mutant: what a child prints is not flushed.
WriteNotFlushed(p) ==
  /\ pc[p] = "write"
  /\ pipe' = IF p = 0 THEN [pipe EXCEPT ![0] = Append(@, text[0])] ELSE pipe
  /\ Goto(p, "read")
  /\ text' = [text EXCEPT ![p] = <<>>]
  /\ UNCHANGED <<ends, line, asked>> /\ Unharmed

(* Write, and printf with fflush.  A message is short enough to go into a    *)
(* pipe in one piece.                                                        *)
Write(p) ==
  /\ pc[p] = "write"
  /\ HasReader(Outbox(p)) /\ Len(pipe[Outbox(p)]) < Capacity
  /\ pipe' = [pipe EXCEPT ![Outbox(p)] = @ \o LinesOf(p, text[p])]
  /\ IF AfterWrite(p) = "gone" THEN Ends({p}) ELSE Goto(p, AfterWrite(p)) /\ UNCHANGED ends
  /\ text' = [text EXCEPT ![p] = <<>>]
  /\ UNCHANGED <<line, asked>> /\ Unharmed

(* SIGPIPE *)
WriteBroken(p) ==
  /\ pc[p] = "write" /\ ~ HasReader(Outbox(p))
  /\ Ends({p})
  /\ UNCHANGED <<pipe, line, text, asked>> /\ Unharmed

(* A child evaluates the line and sends the result on; main looks at what it *)
(* has sent to see whether it is to stop.                                    *)
Use(p, m) ==
  /\ line' = [line EXCEPT ![p] = m]
  /\ text' = [text EXCEPT ![p] = IF p = 0 THEN m ELSE Processed(p, m)]
  /\ Goto(p, CASE p # 0                    -> "write"
               [] p = 0 /\ IsQuit(asked)   -> "reap"
               [] p = 0 /\ ~ IsQuit(asked) -> "show")

(* ReadLine in a child, Read in main.  That a child's stdio may take several *)
(* lines out of the pipe at once is not modelled: they would wait in its own *)
(* buffer as they do in the pipe, which then holds more.                     *)
Read(p) ==
  /\ pc[p] = "read" /\ pipe[Inbox(p)] # <<>>
  /\ pipe' = [pipe EXCEPT ![Inbox(p)] = Tail(@)]
  /\ Use(p, Head(pipe[Inbox(p)]))
  /\ UNCHANGED <<ends, asked>> /\ Unharmed

\* Mutant: a process waits at the end of the file as it does for a line.
ReadEndWaits(p) == FALSE

(* At the end of the file they go through the buffer as it is until they     *)
(* find a line feed: a child the one of its last line, main one in the       *)
(* memory behind it, with its last line still in front; or what lies in      *)
(* memory if there never was a line.  main and a child that never read       *)
(* anything may also run out of the memory they may read.                    *)
ReadEnd(p) ==
  /\ pc[p] = "read" /\ pipe[Inbox(p)] = <<>> /\ ~ HasWriter(Inbox(p))
  /\ \/ \E m \in IF line[p] = <<>> THEN Garbage ELSE {line[p]} : Use(p, m) /\ UNCHANGED ends
     \/ (p = 0 \/ line[p] = <<>>) /\ Ends({p}) /\ UNCHANGED <<line, text>>
  /\ UNCHANGED <<pipe, asked>> /\ Unharmed

Show ==
  /\ pc[0] = "show" /\ Goto(0, "ask")
  /\ text' = [text EXCEPT ![0] = <<>>] /\ asked' = <<>>
  /\ UNCHANGED <<pipe, ends, line>> /\ Unharmed

Reap ==
  /\ pc[0] = "reap" /\ \A i \in Children : pc[i] = "gone"
  /\ Ends({0})
  /\ UNCHANGED <<pipe, line, text, asked>> /\ Unharmed

--------------------------------------------------------------------------------
Step(p) ==
  \/ CloseUnused(p) \/ Write(p) \/ WriteBroken(p) \/ Read(p) \/ ReadEnd(p)
  \/ p # 0 /\ Exec(p)
  \/ p = 0 /\ (Fork \/ Show \/ Reap)

Next == GetExpression \/ ForkFails \/ \E p \in Procs : Step(p) \/ ExecFails(p) \/ Die(p)

Spec == Init /\ [][Next]_vars

(* Processes are scheduled.  Nobody has to type. *)
FairSpec == Spec /\ \A p \in Procs : WF_vars(Step(p))

--------------------------------------------------------------------------------
(* Every variable has a value of its kind, a process that runs its loop has  *)
(* its own two ends open and no other, and no pipe ever holds more lines     *)
(* than Capacity, but for the blank one behind a q.                          *)
Line == Seq(AnyTerm)
TypeOK ==
  /\ pipe \in [Pipes -> Seq(Line)]
  /\ \A i \in Pipes : Len(pipe[i]) <= Capacity + 1
  /\ ends \in [Procs -> SUBSET (Pipes \X {"r", "w"})]
  /\ pc \in [Procs -> {"none", "fork", "close", "exec", "ask", "write", "read", "show",
                       "reap", "gone"}]
  /\ \A p \in Procs : pc[p] \in {"ask", "write", "read", "show", "reap"} => ends[p] = EndsOf(p)
  /\ line \in [Procs -> Line] /\ text \in [Procs -> Line] /\ asked \in Exprs \cup {Quit, <<>>}
  /\ whole \in BOOLEAN /\ faults \in 0 .. MaxFaults

(* As long as all processes run, main gives each expression its own value,   *)
(* and the session ends after a q.                                           *)
StateNow ==
  CASE ~ whole \/ pc[0] \in {"fork", "close", "gone"} -> "off"
    [] whole /\ pc[0] = "ask"                 -> "ready"
    [] whole /\ pc[0] = "show"                -> "shown"
    [] whole /\ pc[0] \in {"write", "read", "reap"} -> IF IsQuit(asked) THEN "closing" ELSE "asked"
Calc == INSTANCE Calculator
          WITH state <- StateNow,
               question <- IF StateNow \in {"asked", "shown"} THEN asked ELSE <<>>,
               answer <- IF StateNow = "shown" THEN text[0] ELSE <<>>
ImplementsCalculator == Calc!Spec

(* Whatever becomes of main, its children do not outlive it for long: one    *)
(* that is killed or ends leaves a reader without writers or a writer        *)
(* without readers, and though readers go on with stale lines the last of    *)
(* the chain is killed for writing, and then the one before.                 *)
OrphansEnd == pc[0] = "gone" ~> \A i \in Children : pc[i] \in {"none", "gone"}

(* Whichever child has died, and wherever its message was, a question does   *)
(* not leave main waiting: it gets some answer, right or stale, or dies.     *)
QuestionSettles == pc[0] = "write" ~> pc[0] \in {"show", "reap", "gone"}
================================================================================
