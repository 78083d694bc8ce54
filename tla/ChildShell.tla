------------------------------- MODULE ChildShell ------------------------------
(***************************************************************************)
(* hw3: a shell that starts child processes, keeps them in a list, stops,  *)
(* continues and kills them, and learns what became of them from waitpid.  *)
(* One action per signal sent and per call of waitpid: children run, die   *)
(* and are signalled by others between any two of them.                    *)
(*                                                                         *)
(* The circular list of list.c is a sequence, newest node first; cur is    *)
(* the index of the node main.c holds a pointer to, 0 for the list's head. *)
(***************************************************************************)
EXTENDS Integers, Sequences, SequencesExt

CONSTANTS
  Pids,         \* what fork may return
  Tries,        \* how often wait_status looks before it gives up (TRIES_MAX)
  MaxExternal   \* bound: signals that others send to children, and pids that
                \* come to belong to another user

ASSUME TriesAssumption == Tries \in Nat \ {0}
ASSUME BoundAssumption == MaxExternal \in Nat

VARIABLES
  list,      \* of [pid, status], in the order of the nodes behind l_head
  child,     \* kernel: state of each child, what waitpid has to report of a
             \* living one, the signals sent and not yet acted upon, and whether
             \* the process belongs to the shell's user or to another
  pc,        \* where the shell is
  op,        \* the command being obeyed
  cur,       \* c_node, cur_node or s_node
  tries,     \* i in wait_status
  external,
  doubled    \* history: pids that fork returned while a node had them

vars == <<list, child, pc, op, cur, tries, external, doubled>>

Statuses == {"NORMAL", "STOP", "CONT", "DEAD"}
Signals  == {"TERM", "KILL", "STOP", "USR1"}   \* those that can be pending
Users    == {"own", "other"}
Commands == {"exec", "list", "kill", "stop", "cont", "info", "exit", "unknown"}

NoChild == [state |-> "none", report |-> "none", pend |-> {}, user |-> "own"]
Alive(ch) == ch.state \in {"running", "stopped"}

Init ==
  /\ list = <<>>
  /\ child = [p \in Pids |-> NoChild]
  /\ pc = "prompt" /\ op = "unknown" /\ cur = 0 /\ tries = 0
  /\ external = 0 /\ doubled = {}

--------------------------------------------------------------------------------
(* list.c *)
l_add(node) == list' = <<node>> \o list
l_search(pid) == IF \E i \in DOMAIN list : list[i].pid = pid
                   THEN CHOOSE i \in DOMAIN list :
                          list[i].pid = pid /\ \A j \in 1 .. i - 1 : list[j].pid # pid
                   ELSE 0
l_del_node(nodes, i) == RemoveAt(nodes, i)

(* node->next in a circular list of n nodes and its head. *)
NextOf(i, n) == (i + 1) % (n + 1)
First == NextOf(0, Len(list))

Listed == {list[i].pid : i \in DOMAIN list}

--------------------------------------------------------------------------------
(* The kernel.                                                               *)

(* kill(pid, sig): SIGCONT acts at once and cancels a stop under way, other  *)
(* signals when the child gets to run, SIGKILL before any of them.  A dead   *)
(* child is not affected.                                                    *)
Signalled(ch, sig) ==
  CASE ~ Alive(ch)  -> ch
    [] Alive(ch) /\ sig = "CONT" ->
         [ch EXCEPT !.state = "running", !.pend = @ \ {"STOP"},
                    !.report = IF ch.state = "stopped" THEN "CONT" ELSE @]
    [] Alive(ch) /\ sig # "CONT" ->
         [ch EXCEPT !.pend = IF "KILL" \in @ \cup {sig} THEN {"KILL"} ELSE @ \cup {sig}]

Died(ch) == [ch EXCEPT !.state = "zombie", !.report = "none", !.pend = {}]

(* A pending signal is acted upon; SIGTERM and SIGUSR1 may have a handler.   *)
Deliver(p) ==
  /\ \/ "KILL" \in child[p].pend /\ child' = [child EXCEPT ![p] = Died(@)]
     \/ /\ child[p].state = "running" /\ "STOP" \in child[p].pend
        /\ child' = [child EXCEPT ![p].state = "stopped", ![p].report = "STOP",
                                  ![p].pend = @ \ {"STOP"}]
     \/ \E sig \in {"TERM", "USR1"} \cap child[p].pend :
          /\ child[p].state = "running"
          /\ child' \in {[child EXCEPT ![p] = Died(@)],
                         [child EXCEPT ![p].pend = @ \ {sig}]}
  /\ UNCHANGED <<list, pc, op, cur, tries, external, doubled>>

(* A child comes to its end, or its execv fails. *)
Die(p) ==
  /\ child[p].state = "running"
  /\ child' = [child EXCEPT ![p] = Died(@)]
  /\ UNCHANGED <<list, pc, op, cur, tries, external, doubled>>

Outsider(p) ==
  /\ external < MaxExternal /\ Alive(child[p])
  /\ \E sig \in {"STOP", "CONT", "KILL"} :
       child' = [child EXCEPT ![p] = Signalled(@, sig)]
  /\ external' = external + 1
  /\ UNCHANGED <<list, pc, op, cur, tries, doubled>>

(* waitpid(pid, WNOHANG | WUNTRACED | WCONTINUED) reports a change once and  *)
(* the latest only; a child that was reported dead is no child any more.     *)
AfterWait(ch) ==
  IF ch.state = "zombie" THEN [ch EXCEPT !.state = "reaped", !.user = "own"]
                         ELSE [ch EXCEPT !.report = "none"]
(* The pid of a process that was reaped is free, and another process may get *)
(* it, of the shell's user or of another.                                    *)
Stranger(p) ==
  /\ child[p].state = "reaped"
  /\ \E user \in Users :
       /\ child' = [child EXCEPT ![p].state = "stranger", ![p].user = user]
       /\ user = "other" => external < MaxExternal
       /\ external' = external + (IF user = "other" THEN 1 ELSE 0)
  /\ UNCHANGED <<list, pc, op, cur, tries, doubled>>

(* A child becomes a process of another user, as sudo and su do. *)
ChangeUser(p) ==
  /\ external < MaxExternal /\ child[p].state = "running"
  /\ child' = [child EXCEPT ![p].user = "other"]
  /\ external' = external + 1
  /\ UNCHANGED <<list, pc, op, cur, tries, doubled>>

\* Mutant: WIFCONTINUED is not looked at.
StatusSeenNotContinued(ch, status) ==
  CASE ~ Alive(ch)                        -> "DEAD"
    [] Alive(ch) /\ ch.report = "STOP" -> "STOP"
    [] Alive(ch) /\ ch.report # "STOP" -> status

\* Mutant: a child that was killed by a signal is not taken for dead.
StatusSeenNotSignalled(ch, status) ==
  CASE ~ Alive(ch)                     -> status
    [] Alive(ch) /\ ch.report # "none" -> ch.report
    [] Alive(ch) /\ ch.report = "none" -> status

StatusSeen(ch, status) ==
  CASE ~ Alive(ch)                        -> "DEAD"
    [] Alive(ch) /\ ch.report # "none" -> ch.report
    [] Alive(ch) /\ ch.report = "none" -> status

--------------------------------------------------------------------------------
Goto(label) == pc' = label

Sending == {"send_cont", "send_stop", "send_term", "send_usr1", "send_kill"}

(* kill(2) does not let the shell signal a process of another user, dead or  *)
(* alive, but may let SIGCONT pass within the session.                       *)
Refused(p) == child[p].user = "other"

(* A pid that nobody has (ESRCH) is passed over. *)
send_signal(sig) ==
  /\ Refused(list[cur].pid) => sig = "CONT"
  /\ child' = [child EXCEPT ![list[cur].pid] = Signalled(@, sig)]

(* With any other error the shell is over, wherever it was. *)
SignalRefused ==
  /\ pc \in Sending /\ Refused(list[cur].pid)
  /\ Goto("failed")
  /\ UNCHANGED <<list, child, op, cur, tries, external, doubled>>

(* refresh_status on the node cur points to; seen is the status it leaves.   *)
refresh_status(i, seen) ==
  /\ seen = StatusSeen(child[list[i].pid], list[i].status)
  /\ child' = [child EXCEPT ![list[i].pid] = AfterWait(@)]
Refreshed(i, seen) == [list EXCEPT ![i].status = seen]

(* main: read a command, then go through the list before obeying it.  (The   *)
(* history forgets the pids that no node has any more.)                      *)
ReadCommand ==
  /\ pc = "prompt"
  /\ cur' = First
  /\ Goto("refresh")
  /\ doubled' = doubled \cap Listed
  /\ UNCHANGED <<list, child, op, tries, external>>

\* Mutant: the loop stays where the dead node was and goes one further.
RefreshNodeLosesPlace ==
  /\ pc = "refresh" /\ cur # 0
  /\ \E seen \in Statuses :
       /\ refresh_status(cur, seen)
       /\ list' = IF seen = "DEAD" THEN l_del_node(list, cur) ELSE Refreshed(cur, seen)
       /\ cur' = NextOf(cur, Len(list))
  /\ UNCHANGED <<pc, op, tries, external, doubled>>

(* refresh_all: a dead node is unlinked, and the loop goes on behind the     *)
(* node after it; past the head, if the dead node was the last.              *)
RefreshNode ==
  /\ pc = "refresh" /\ cur # 0
  /\ \E seen \in Statuses :
       /\ refresh_status(cur, seen)
       /\ \/ /\ seen # "DEAD"
             /\ list' = Refreshed(cur, seen)
             /\ cur' = NextOf(cur, Len(list))
          \/ /\ seen = "DEAD"
             /\ list' = l_del_node(list, cur)
             /\ cur' = LET after == IF cur = Len(list) THEN 0 ELSE cur
                       IN  NextOf(after, Len(list'))
  /\ UNCHANGED <<pc, op, tries, external, doubled>>

(* Which command it was matters from here on, until it is over. *)
Obey ==
  /\ pc = "refresh" /\ cur = 0
  /\ op' \in Commands
  /\ Goto(op')
  /\ cur' = IF op' \in {"list", "exit"} THEN First ELSE 0
  /\ UNCHANGED <<list, child, tries, external, doubled>>

BackToPrompt == Goto("prompt") /\ op' = "unknown"

UnknownCommand ==
  /\ pc = "unknown"
  /\ BackToPrompt
  /\ UNCHANGED <<list, child, cur, tries, external, doubled>>

Exec ==
  /\ pc = "exec"
  /\ \E p \in Pids :
       /\ child[p].state \in {"none", "reaped"}
       /\ child' = [child EXCEPT ![p].state = "running"]
       /\ l_add([pid |-> p, status |-> "NORMAL"])
       /\ doubled' = IF p \in Listed THEN doubled \cup {p} ELSE doubled \ {p}
  /\ BackToPrompt
  /\ UNCHANGED <<cur, tries, external>>

(* parse_args has no memory; or malloc or fork fails and the shell exits at  *)
(* once; or there is no program name, parse_args returns a null argv[0], and *)
(* strlen (line 329) kills it.                                               *)
ExecFails ==
  /\ pc = "exec"
  /\ BackToPrompt \/ (Goto("failed") /\ UNCHANGED op)
  /\ UNCHANGED <<list, child, cur, tries, external, doubled>>

ListNode ==
  /\ pc = "list" /\ cur # 0
  /\ \E seen \in Statuses : refresh_status(cur, seen) /\ list' = Refreshed(cur, seen)
  /\ cur' = NextOf(cur, Len(list))
  /\ UNCHANGED <<pc, op, tries, external, doubled>>

ListDone ==
  /\ pc = "list" /\ cur = 0
  /\ BackToPrompt
  /\ UNCHANGED <<list, child, cur, tries, external, doubled>>

(* _kill, _stop, _cont and _info begin alike: they look the pid up and       *)
(* refresh its status.                                                       *)
FirstSignal(seen) ==
  CASE op = "stop" -> IF seen = "STOP" THEN "none" ELSE "send_stop"
    [] op = "cont" -> IF seen = "STOP" THEN "send_cont" ELSE "none"
    [] op \in {"kill", "exit"} -> IF seen = "STOP" THEN "send_cont" ELSE "send_term"
    [] op = "info" -> "send_usr1"

ReadPid ==
  /\ pc \in {"kill", "stop", "cont", "info"}
  /\ \E p \in Pids :
       \/ /\ l_search(p) = 0
          /\ BackToPrompt
          /\ UNCHANGED <<list, child, cur>>
       \/ /\ l_search(p) # 0
          /\ \E seen \in Statuses :
               /\ refresh_status(l_search(p), seen)
               /\ list' = Refreshed(l_search(p), seen)
               /\ \/ /\ FirstSignal(seen) = "none"
                     /\ BackToPrompt /\ UNCHANGED cur
                  \/ /\ FirstSignal(seen) # "none"
                     /\ Goto(FirstSignal(seen)) /\ UNCHANGED op
                     /\ cur' = l_search(p)
  /\ UNCHANGED <<tries, external, doubled>>

(* main's last loop signals every node by the status it is known to have.    *)
ExitNode ==
  /\ pc = "exit" /\ cur # 0
  /\ Goto(FirstSignal(list[cur].status))
  /\ UNCHANGED <<list, child, op, cur, tries, external, doubled>>

(* The shell is over, whatever comes of reading cur_node->next in a node that *)
(* was freed the line before (list.c:103).                                    *)
l_destroy ==
  /\ pc = "exit" /\ cur = 0
  /\ list' = <<>>
  /\ Goto("done")
  /\ UNCHANGED <<child, op, cur, tries, external, doubled>>

SendCont ==
  /\ pc = "send_cont" /\ send_signal("CONT")
  /\ Goto(IF op = "cont" THEN "wait" ELSE "send_term")
  /\ UNCHANGED <<list, op, cur, tries, external, doubled>>
SendStop ==
  /\ pc = "send_stop" /\ send_signal("STOP")
  /\ Goto("wait")
  /\ UNCHANGED <<list, op, cur, tries, external, doubled>>
SendTerm ==
  /\ pc = "send_term" /\ send_signal("TERM")
  /\ Goto("wait")
  /\ UNCHANGED <<list, op, cur, tries, external, doubled>>
SendUsr1 ==
  /\ pc = "send_usr1" /\ send_signal("USR1")
  /\ BackToPrompt /\ cur' = 0
  /\ UNCHANGED <<list, tries, external, doubled>>

\* Mutant: exit misses every other node, as refresh_all does behind a dead one.
EndOfWaitSkips(nodes) ==
  CASE op = "kill" -> list' = l_del_node(nodes, cur) /\ cur' = 0 /\ BackToPrompt
    [] op = "exit" -> /\ list' = nodes /\ Goto("exit") /\ UNCHANGED op
                      /\ cur' = NextOf(NextOf(cur, Len(list)), Len(list))
    [] op \in {"stop", "cont"} -> list' = nodes /\ cur' = 0 /\ BackToPrompt

(* What follows a wait that is over: _kill unlinks the node, exit goes on to *)
(* the next, the others are done.                                            *)
EndOfWait(nodes) ==
  CASE op = "kill" -> list' = l_del_node(nodes, cur) /\ cur' = 0 /\ BackToPrompt
    [] op = "exit" -> list' = nodes /\ cur' = NextOf(cur, Len(list)) /\ Goto("exit") /\ UNCHANGED op
    [] op \in {"stop", "cont"} -> list' = nodes /\ cur' = 0 /\ BackToPrompt

Wanted == CASE op = "stop" -> "STOP"
            [] op = "cont" -> "CONT"
            [] op \in {"kill", "exit"} -> "DEAD"

(* wait_status looks until it sees what it waits for or has looked often     *)
(* enough; only a kill goes on from there.                                   *)
WaitSeen ==
  /\ pc = "wait"
  /\ refresh_status(cur, Wanted)
  /\ EndOfWait(Refreshed(cur, Wanted)) /\ tries' = 0
  /\ UNCHANGED <<external, doubled>>

\* Mutant: the looks are not counted.
WaitAgainForEver ==
  /\ pc = "wait" /\ tries + 1 < Tries
  /\ \E seen \in Statuses \ {Wanted} :
       refresh_status(cur, seen) /\ list' = Refreshed(cur, seen)
  /\ UNCHANGED <<pc, op, cur, tries, external, doubled>>

WaitAgain ==
  /\ pc = "wait" /\ tries + 1 < Tries
  /\ \E seen \in Statuses \ {Wanted} :
       refresh_status(cur, seen) /\ list' = Refreshed(cur, seen)
  /\ tries' = tries + 1
  /\ UNCHANGED <<pc, op, cur, external, doubled>>

\* Mutant: a child that does not end on SIGTERM is given up.
WaitTimesOutGivesUp ==
  /\ pc = "wait" /\ tries + 1 = Tries /\ tries' = 0
  /\ \E seen \in Statuses \ {Wanted} :
       refresh_status(cur, seen) /\ EndOfWait(Refreshed(cur, seen))
  /\ UNCHANGED <<external, doubled>>

WaitTimesOut ==
  /\ pc = "wait" /\ tries + 1 = Tries /\ tries' = 0
  /\ \E seen \in Statuses \ {Wanted} :
       /\ refresh_status(cur, seen)
       /\ \/ op \in {"stop", "cont"} /\ EndOfWait(Refreshed(cur, seen))
          \/ /\ op \in {"kill", "exit"}
             /\ list' = Refreshed(cur, seen) /\ Goto("send_kill") /\ UNCHANGED <<op, cur>>
  /\ UNCHANGED <<external, doubled>>

(* The child is not waited for after SIGKILL. *)
SendKill ==
  /\ pc = "send_kill" /\ send_signal("KILL")
  /\ EndOfWait(list)
  /\ UNCHANGED <<tries, external, doubled>>

--------------------------------------------------------------------------------
Shell ==
  \/ RefreshNode \/ Obey \/ UnknownCommand \/ Exec \/ ExecFails \/ ListNode \/ ListDone
  \/ ReadPid \/ ExitNode \/ l_destroy \/ SendCont \/ SendStop \/ SendTerm
  \/ SendUsr1 \/ SendKill \/ SignalRefused \/ WaitSeen \/ WaitAgain \/ WaitTimesOut

Kernel(p) == Deliver(p) \/ Die(p) \/ Outsider(p) \/ Stranger(p) \/ ChangeUser(p)

Next == ReadCommand \/ Shell \/ \E p \in Pids : Kernel(p)

Spec == Init /\ [][Next]_vars

(* The shell runs, its user answers once a command has begun, and the kernel *)
(* acts on pending signals.  Nobody has to type a command or to die.         *)
FairSpec == Spec /\ WF_vars(Shell) /\ \A p \in Pids : WF_vars(Deliver(p))

--------------------------------------------------------------------------------
(* Type invariant. *)
TypeOK ==
  /\ list \in Seq([pid : Pids, status : Statuses]) /\ cur \in 0 .. Len(list)
  /\ child \in [Pids -> [state : {"none", "running", "stopped", "zombie", "reaped",
                                  "stranger"},
                         report : {"none", "STOP", "CONT"}, pend : SUBSET Signals,
                         user : Users]]
  /\ pc \in Commands \cup {"prompt", "refresh", "send_cont", "send_stop", "send_term",
                            "send_usr1", "wait", "send_kill", "done", "failed"}
  /\ op \in Commands /\ tries \in 0 .. Tries - 1 /\ external \in 0 .. MaxExternal
  /\ doubled \subseteq Pids

(* While waitpid has nothing to report of a listed child, the shell knows    *)
(* whether it is stopped, though stops and continues that follow each other  *)
(* quickly are reported as one; and a node is DEAD exactly when its child    *)
(* was waited for.  Two nodes can have one pid: refresh_all leaves a dead    *)
(* node in the list behind another one, and fork returns its pid once more.  *)
(* Either node then takes reports that the other one needs, and the one that *)
(* is left when the other is unlinked can be wrong for good.                 *)
StatusTracksState ==
  \A i \in DOMAIN list :
    LET ch == child[list[i].pid]
    IN  list[i].pid \notin doubled =>
          /\ Alive(ch) /\ ch.report = "none" =>
               (list[i].status = "STOP" <=> ch.state = "stopped")
          /\ list[i].status = "DEAD" <=> ch.state \in {"reaped", "stranger"}

(* A signal goes to a process that is not, or not any more, a child of the   *)
(* shell only if the shell knows that its child is dead and sends it all the *)
(* same (lines 244, 304, 380): never to a pid that it believes alive.  Only  *)
(* exit, which does not look before it signals, can take the dead child of a *)
(* pid that two nodes have for a living one.                                 *)
SignalsOwnChildren ==
  pc \in Sending /\ child[list[cur].pid].state \in {"reaped", "stranger"}
    => list[cur].status = "DEAD" \/ (op = "exit" /\ list[cur].pid \in doubled)

(* While the shell works, and after exit, every living child is in the list, *)
(* where commands find it, or has been sent SIGKILL.                         *)
NoChildForgotten ==
  pc # "failed" =>
    \A p \in Pids : Alive(child[p]) => p \in Listed \/ "KILL" \in child[p].pend

(* Every command comes to its end: the loop of refresh_all, which starts     *)
(* over behind a dead last node, and the waits for children that do not      *)
(* react, that died meanwhile, or that others have stopped again.            *)
EveryCommandEnds == pc # "prompt" ~> pc \in {"prompt", "done", "failed"}

(* exit ends every child, but if a signal is refused: then it has ended the  *)
(* children in front of the one that refused it, and the shell is over.      *)
ExitLeavesNobody ==
  op = "exit" ~> \/ \A p \in Pids : ~ Alive(child[p])
                 \/ /\ pc = "failed" /\ op = "exit" /\ Refused(list[cur].pid)
                    /\ \A i \in 1 .. cur - 1 : ~ Alive(child[list[i].pid])

(* "Before we run any command we check the status of the pid and update the  *)
(* list" (guide.txt:1-2, in Greek): refresh_all leaves no node in the list   *)
(* that is known to be dead, not even one that _list had marked before.      *)
NoDeadAfterRefresh ==
  pc = "refresh" /\ cur = 0 => \A i \in DOMAIN list : list[i].status # "DEAD"
================================================================================
