------------------------------ MODULE SemSession -------------------------------
(***************************************************************************)
(* hw4/semaph from the start of a program to its end: sender.c and         *)
(* receiver.c running buf_init, their loop of buf_put or buf_get, and      *)
(* buf_destroy, over the kernel's System V objects.  Segments and          *)
(* semaphores outlive the processes that made them and are found by key,   *)
(* so several generations of both can exist or be mixed.                   *)
(*                                                                         *)
(* Each member of Senders or Receivers is one run of the program.  Every   *)
(* system call and every access to shared memory is a step.  main ignores  *)
(* what the library returns.                                               *)
(***************************************************************************)
EXTENDS Integers, Sequences, FiniteSets

CONSTANTS
  Senders, Receivers,
  Letters,      \* what a user may type besides 'q'
  Quit, Nul,    \* 'q'; the content of zeroed memory
  Size,         \* the argument of buf_init, 3 in both programs
  MaxTyped,     \* bound: characters a user types, the last of them 'q'
  MaxCrashes,   \* bound: processes killed from outside
  SemFlags      \* what the unassigned sem_flg may hold (library.c:274,288)

ASSUME ProgramAssumption ==
  /\ IsFiniteSet(Senders) /\ IsFiniteSet(Receivers)
  /\ Senders \cap Receivers = {}
ASSUME BoundAssumption ==
  /\ Size \in Nat \ {0} /\ MaxTyped \in Nat \ {0} /\ MaxCrashes \in Nat
ASSUME LetterAssumption == Quit \notin Letters /\ Nul \notin Letters \cup {Quit}

Procs == Senders \cup Receivers
Chars == Letters \cup {Quit}
SemNames == {"free", "full", "mutex"}

(* shmget makes a segment at most once per program run. *)
SegIds == 1 .. Cardinality(Procs)
None == 0

VARIABLES
  segKey,    \* kernel: the segment SHM_KEY leads to, or None
  segs,      \* kernel: the segments ever made, with the struct in each
  attached,  \* kernel: which process has which segment attached
  sem,       \* kernel: per key, id of the latest semaphore, value, still there?
  semadj,    \* kernel: what SEM_UNDO will add when a process exits
  pc,
  shmid,     \* each process's shmid
  fresh,     \* buf_init's retValue > 0: this process made the segment
  semid,     \* free_sem, full_sem and mutex of each process
  reg,       \* nproc or nextPos, read and not yet written back
  c,         \* main's buf
  typed, got,  \* history: characters typed, characters fetched from the ring
  crashes,     \* history: how many processes were killed
  breaches     \* history: in what way the session was not an orderly one

kernel  == <<segKey, segs, attached, sem, semadj>>
locals  == <<shmid, fresh, semid, reg, c>>
history == <<typed, got, crashes, breaches>>
vars    == <<segKey, segs, attached, sem, semadj, pc, shmid, fresh, semid, reg,
             c, typed, got, crashes, breaches>>

(* shmget hands out zeroed memory. *)
ZeroedSegment == [size |-> 0, in |-> 0, out |-> 0, nproc |-> 0,
                  buf |-> [i \in 0 .. Size - 1 |-> Nul], removed |-> FALSE]

Init ==
  /\ segKey = None
  /\ segs = <<>>
  /\ attached = [p \in Procs |-> None]
  /\ sem = [s \in SemNames |-> [id |-> 0, val |-> 0, there |-> FALSE]]
  /\ semadj = [p \in Procs |-> [s \in SemNames |-> 0]]
  /\ pc = [p \in Procs |-> "start"]
  /\ shmid = [p \in Procs |-> None]
  /\ fresh = [p \in Procs |-> FALSE]
  /\ semid = [p \in Procs |-> [s \in SemNames |-> None]]
  /\ reg = [p \in Procs |-> 0]
  \* receiver.c compares an unassigned buf with 'q' if its first buf_get fails
  /\ c \in [Procs -> {Quit, Nul}] /\ \A p \in Senders : c[p] = Nul
  /\ typed = [p \in Senders |-> <<>>]
  /\ got = [p \in Receivers |-> <<>>]
  /\ crashes = 0
  /\ breaches = {}

Goto(p, label) == pc' = [pc EXCEPT ![p] = label]

IS_MEM_OK(p) == attached[p] # None
Seg(p) == segs[attached[p]]
Write(p, field, value) == segs' = [segs EXCEPT ![attached[p]][field] = value]

(* A segment marked for removal goes when its last user detaches. *)
Exists(g) == ~ segs[g].removed \/ \E p \in Procs : attached[p] = g

InInit    == {"shm_existing", "attach", "get_free_sem", "get_full_sem",
              "get_mutex", "find_free_sem", "find_full_sem", "find_mutex",
              "nproc_load", "nproc_inc", "set_size", "set_out", "set_in", "set_nproc",
              "set_free", "set_full", "set_mutex"}
InPut     == {"put_free", "put_next", "put_lock", "put_store", "put_in",
              "put_unlock", "put_full"}
InGet     == {"get_full", "get_lock", "get_fetch", "get_out", "get_unlock",
              "get_free"}
InDestroy == {"nproc_read", "nproc_dec", "shm_rmid", "detach", "rmid_free",
              "rmid_full", "rmid_mutex", "exit"}
Ended     == {"done", "killed"}
Labels    == {"start", "loop"} \cup InInit \cup InPut \cup InGet \cup InDestroy
               \cup Ended

--------------------------------------------------------------------------------
(* buf_init(Size), called first by both programs. *)

(* When programs are started and quit is the users' doing, and what sem_flg  *)
(* holds is the build's; nothing in the code keeps a session orderly.        *)
Note(breach, happens) ==
  breaches' = IF happens THEN breaches \cup {breach} ELSE breaches
RacingLaunch == \E q \in Procs : pc[q] \in InInit
EarlyQuit    == \E q \in Procs : pc[q] \in InInit \cup {"start"}

ShmCreate(p) ==
  /\ pc[p] = "start"
  /\ Note("racing_launch", RacingLaunch)
  /\ \/ /\ segKey = None
        /\ segs' = Append(segs, ZeroedSegment)
        /\ segKey' = Len(segs')
        /\ shmid' = [shmid EXCEPT ![p] = segKey']
        /\ fresh' = [fresh EXCEPT ![p] = TRUE]
        /\ Goto(p, "attach")
     \/ /\ segKey # None
        /\ Goto(p, "shm_existing")
        /\ UNCHANGED <<segs, segKey, shmid, fresh>>
  /\ UNCHANGED <<attached, sem, semadj, semid, reg, c, typed, got, crashes>>

(* The segment that made the first shmget fail may be gone by the second. *)
ShmExisting(p) ==
  /\ pc[p] = "shm_existing"
  /\ \/ segKey # None /\ shmid' = [shmid EXCEPT ![p] = segKey] /\ Goto(p, "attach")
     \/ segKey = None /\ UNCHANGED shmid /\ Goto(p, "loop")
  /\ UNCHANGED <<kernel, fresh, semid, reg, c, history>>

Attach(p) ==
  /\ pc[p] = "attach"
  /\ \/ /\ Exists(shmid[p])
        /\ attached' = [attached EXCEPT ![p] = shmid[p]]
        /\ Goto(p, "get_free_sem")
     \/ ~ Exists(shmid[p]) /\ UNCHANGED attached /\ Goto(p, "loop")
  /\ UNCHANGED <<segKey, segs, sem, semadj, locals, history>>

(* _semget: make the semaphore of this key (the kernel zeroes it), or, in a  *)
(* second call, find the one that was there.                                 *)
_semget(p, s, here, find, next) ==
  \/ /\ pc[p] = here /\ ~ sem[s].there
     /\ sem' = [sem EXCEPT ![s] = [id |-> @.id + 1, val |-> 0, there |-> TRUE]]
     /\ semid' = [semid EXCEPT ![p][s] = sem'[s].id]
     /\ Goto(p, next)
  \/ /\ pc[p] = here /\ sem[s].there
     /\ Goto(p, find)
     /\ UNCHANGED <<sem, semid>>
  \/ /\ pc[p] = find /\ sem[s].there
     /\ semid' = [semid EXCEPT ![p][s] = sem[s].id]
     /\ Goto(p, next)
     /\ UNCHANGED sem
  \/ /\ pc[p] = find /\ ~ sem[s].there
     /\ Goto(p, "loop")
     /\ UNCHANGED <<sem, semid>>

GetSemaphores(p) ==
  /\ \/ _semget(p, "free", "get_free_sem", "find_free_sem", "get_full_sem")
     \/ _semget(p, "full", "get_full_sem", "find_full_sem", "get_mutex")
     \/ _semget(p, "mutex", "get_mutex", "find_mutex", "nproc_load")
  /\ UNCHANGED <<segKey, segs, attached, semadj, shmid, fresh, reg, c, history>>

(* nproc++ on shared memory is a load and a store. *)
NprocLoad(p) ==
  /\ pc[p] = "nproc_load"
  /\ reg' = [reg EXCEPT ![p] = Seg(p).nproc]
  /\ Goto(p, "nproc_inc")
  /\ UNCHANGED <<kernel, shmid, fresh, semid, c, history>>

\* Mutant: the semaphores are set, the struct is not.
NprocIncSkipsStruct(p) ==
  /\ pc[p] = "nproc_inc"
  /\ Write(p, "nproc", reg[p] + 1)
  /\ Goto(p, IF fresh[p] THEN "set_free" ELSE "loop")
  /\ UNCHANGED <<segKey, attached, sem, semadj, locals, history>>

NprocInc(p) ==
  /\ pc[p] = "nproc_inc"
  /\ Write(p, "nproc", reg[p] + 1)
  /\ Goto(p, IF fresh[p] THEN "set_size" ELSE "loop")
  /\ UNCHANGED <<segKey, attached, sem, semadj, locals, history>>

(* Who made the segment fills in the struct, in = out = 0 from the right ... *)
InitStruct(p) ==
  /\ \/ pc[p] = "set_size" /\ Write(p, "size", Size) /\ Goto(p, "set_out")
     \/ pc[p] = "set_out" /\ Write(p, "out", 0) /\ Goto(p, "set_in")
     \/ pc[p] = "set_in" /\ Write(p, "in", 0) /\ Goto(p, "set_nproc")
     \/ pc[p] = "set_nproc" /\ Write(p, "nproc", 1) /\ Goto(p, "set_free")
  /\ UNCHANGED <<segKey, attached, sem, semadj, locals, history>>

Valid(p, s) == sem[s].there /\ semid[p][s] = sem[s].id

(* ... and sets the semaphores; SETVAL also forgets every pending undo. *)
_setval(p, s, value, here, next) ==
  /\ pc[p] = here
  /\ \/ /\ Valid(p, s)
        /\ sem' = [sem EXCEPT ![s].val = value]
        /\ semadj' = [q \in Procs |-> [semadj[q] EXCEPT ![s] = 0]]
        /\ Goto(p, next)
     \/ ~ Valid(p, s) /\ Goto(p, "loop") /\ UNCHANGED <<sem, semadj>>

InitSemaphores(p) ==
  /\ \/ _setval(p, "free", Size, "set_free", "set_full")
     \/ _setval(p, "full", 0, "set_full", "set_mutex")
     \/ _setval(p, "mutex", 1, "set_mutex", "loop")
  /\ UNCHANGED <<segKey, segs, attached, locals, history>>

BufInit(p) ==
  \/ ShmCreate(p) \/ ShmExisting(p) \/ Attach(p) \/ GetSemaphores(p)
  \/ NprocLoad(p) \/ NprocInc(p) \/ InitStruct(p) \/ InitSemaphores(p)

--------------------------------------------------------------------------------
(* What main does when buf_put or buf_get is over, well or not. *)
AfterCall(ch) == IF ch = Quit THEN "nproc_read" ELSE "loop"

(* semop: wait for a unit unless IPC_NOWAIT came with the garbage, fail on a *)
(* semaphore that was removed, and note what SEM_UNDO would give back.       *)
_semop(p, s, d, next) ==
  /\ \/ /\ Valid(p, s) /\ sem[s].val + d >= 0
        /\ sem' = [sem EXCEPT ![s].val = @ + d]
        /\ \E flg \in SemFlags :
             /\ semadj' = IF "SEM_UNDO" \in flg
                            THEN [semadj EXCEPT ![p][s] = @ - d] ELSE semadj
             /\ Note("flags", "SEM_UNDO" \in flg)
        /\ Goto(p, next)
     \/ /\ \/ ~ Valid(p, s) /\ UNCHANGED breaches
           \/ /\ Valid(p, s) /\ sem[s].val + d < 0
              /\ \E flg \in SemFlags : "IPC_NOWAIT" \in flg
              /\ Note("flags", TRUE)
        /\ Goto(p, AfterCall(c[p]))
        /\ UNCHANGED <<sem, semadj>>
  /\ UNCHANGED <<segKey, attached, shmid, fresh, semid, typed, got, crashes>>

(* sender.c: read a character, put it, stop after 'q'. *)
Type(p) ==
  /\ pc[p] = "loop"
  /\ \E d \in Chars :
       /\ Len(typed[p]) + 1 = MaxTyped => d = Quit
       /\ Note("early_quit", d = Quit /\ EarlyQuit)
       /\ c' = [c EXCEPT ![p] = d]
       /\ typed' = [typed EXCEPT ![p] = Append(@, d)]
       /\ Goto(p, IF IS_MEM_OK(p) THEN "put_free" ELSE AfterCall(d))
  /\ UNCHANGED <<kernel, shmid, fresh, semid, reg, got, crashes>>

\* Mutant: no wait for a free slot.
PutFreeNoWait(p) ==
  /\ pc[p] = "put_free" /\ Goto(p, "put_next")
  /\ UNCHANGED <<kernel, locals, history>>

PutFree(p) ==
  pc[p] = "put_free" /\ _semop(p, "free", -1, "put_next") /\ UNCHANGED <<segs, reg, c>>

\* Mutant: the index does not wrap.
PutNextNoWrap(p) ==
  /\ pc[p] = "put_next" /\ Seg(p).size # 0
  /\ reg' = [reg EXCEPT ![p] = Seg(p).in + 1]
  /\ Goto(p, "put_lock")
  /\ UNCHANGED <<kernel, shmid, fresh, semid, c, history>>

(* buf_put: nextPos is computed before the mutex is taken; a size of zero is *)
(* an integer division by zero, which does not happen (NoFault).             *)
PutNext(p) ==
  /\ pc[p] = "put_next" /\ Seg(p).size # 0
  /\ reg' = [reg EXCEPT ![p] = (Seg(p).in + 1) % Seg(p).size]
  /\ Goto(p, "put_lock")
  /\ UNCHANGED <<kernel, shmid, fresh, semid, c, history>>

PutLock(p) ==
  pc[p] = "put_lock" /\ _semop(p, "mutex", -1, "put_store") /\ UNCHANGED <<segs, reg, c>>
PutStore(p) ==
  /\ pc[p] = "put_store"
  /\ Write(p, "buf", [Seg(p).buf EXCEPT ![Seg(p).in] = c[p]])
  /\ Goto(p, "put_in")
  /\ UNCHANGED <<segKey, attached, sem, semadj, locals, history>>
PutIn(p) ==
  /\ pc[p] = "put_in"
  /\ Write(p, "in", reg[p])
  /\ Goto(p, "put_unlock")
  /\ UNCHANGED <<segKey, attached, sem, semadj, locals, history>>

\* Mutant: the mutex is not given back.
PutUnlockForgotten(p) ==
  /\ pc[p] = "put_unlock" /\ Goto(p, "put_full")
  /\ UNCHANGED <<kernel, locals, history>>

PutUnlock(p) ==
  pc[p] = "put_unlock" /\ _semop(p, "mutex", 1, "put_full") /\ UNCHANGED <<segs, reg, c>>
PutFull(p) ==
  /\ pc[p] = "put_full" /\ _semop(p, "full", 1, AfterCall(c[p]))
  /\ UNCHANGED <<segs, reg, c>>

Send(p) ==
  \/ Type(p) \/ PutFree(p) \/ PutNext(p) \/ PutLock(p) \/ PutStore(p)
  \/ PutIn(p) \/ PutUnlock(p) \/ PutFull(p)

(* receiver.c: get a character, stop after 'q'. *)
CallGet(p) ==
  /\ pc[p] = "loop"
  /\ Goto(p, IF IS_MEM_OK(p) THEN "get_full" ELSE AfterCall(c[p]))
  /\ UNCHANGED <<kernel, locals, history>>

GetFull(p) ==
  pc[p] = "get_full" /\ _semop(p, "full", -1, "get_lock") /\ UNCHANGED <<segs, reg, c>>
GetLock(p) ==
  pc[p] = "get_lock" /\ _semop(p, "mutex", -1, "get_fetch") /\ UNCHANGED <<segs, reg, c>>
GetFetch(p) ==
  /\ pc[p] = "get_fetch"
  /\ c' = [c EXCEPT ![p] = Seg(p).buf[Seg(p).out]]
  /\ got' = [got EXCEPT ![p] = Append(@, c'[p])]
  /\ Goto(p, "get_out")
  /\ UNCHANGED <<kernel, shmid, fresh, semid, reg, typed, crashes, breaches>>
GetOut(p) ==
  /\ pc[p] = "get_out" /\ Seg(p).size # 0
  /\ Write(p, "out", (Seg(p).out + 1) % Seg(p).size)
  /\ Goto(p, "get_unlock")
  /\ UNCHANGED <<segKey, attached, sem, semadj, locals, history>>
GetUnlock(p) ==
  pc[p] = "get_unlock" /\ _semop(p, "mutex", 1, "get_free") /\ UNCHANGED <<segs, reg, c>>
GetFree(p) ==
  /\ pc[p] = "get_free" /\ _semop(p, "free", 1, AfterCall(c[p]))
  /\ UNCHANGED <<segs, reg, c>>

Receive(p) ==
  \/ CallGet(p) \/ GetFull(p) \/ GetLock(p) \/ GetFetch(p)
  \/ GetOut(p) \/ GetUnlock(p) \/ GetFree(p)

--------------------------------------------------------------------------------
(* buf_destroy().  The caller has the segment attached, so it exists and     *)
(* shmctl(IPC_RMID) cannot fail: lines 108-116 are never taken.              *)
NprocRead(p) ==
  /\ pc[p] = "nproc_read"
  /\ \/ IS_MEM_OK(p) /\ reg' = [reg EXCEPT ![p] = Seg(p).nproc - 1] /\ Goto(p, "nproc_dec")
     \/ ~ IS_MEM_OK(p) /\ UNCHANGED reg /\ Goto(p, "exit")
  /\ UNCHANGED <<kernel, shmid, fresh, semid, c, history>>

NprocDec(p) ==
  /\ pc[p] = "nproc_dec"
  /\ Write(p, "nproc", reg[p])
  /\ Goto(p, "shm_rmid")
  /\ UNCHANGED <<segKey, attached, sem, semadj, locals, history>>

(* Whoever comes first removes the key, however many still use the segment. *)
ShmRmid(p) ==
  /\ pc[p] = "shm_rmid"
  /\ Write(p, "removed", TRUE)
  /\ segKey' = IF segKey = shmid[p] THEN None ELSE segKey
  /\ Goto(p, "detach")
  /\ UNCHANGED <<attached, sem, semadj, locals, history>>

\* Mutant: whoever leaves removes the semaphores.
DetachAlwaysRemoves(p) ==
  /\ pc[p] = "detach"
  /\ attached' = [attached EXCEPT ![p] = None]
  /\ Goto(p, "rmid_free")
  /\ UNCHANGED <<segKey, segs, sem, semadj, locals, history>>

Detach(p) ==
  /\ pc[p] = "detach"
  /\ attached' = [attached EXCEPT ![p] = None]
  /\ Goto(p, IF reg[p] = 0 THEN "rmid_free" ELSE "exit")
  /\ UNCHANGED <<segKey, segs, sem, semadj, locals, history>>

(* Removing a semaphore that is not there any more ends buf_destroy. *)
_semrmid(p, s, here, next) ==
  /\ pc[p] = here
  /\ \/ /\ Valid(p, s)
        /\ sem' = [sem EXCEPT ![s].there = FALSE, ![s].val = 0]
        /\ semadj' = [q \in Procs |-> [semadj[q] EXCEPT ![s] = 0]]
        /\ Goto(p, next)
     \/ ~ Valid(p, s) /\ Goto(p, "exit") /\ UNCHANGED <<sem, semadj>>

RemoveSemaphores(p) ==
  /\ \/ _semrmid(p, "free", "rmid_free", "rmid_full")
     \/ _semrmid(p, "full", "rmid_full", "rmid_mutex")
     \/ _semrmid(p, "mutex", "rmid_mutex", "exit")
  /\ UNCHANGED <<segKey, segs, attached, locals, history>>

(* The kernel's part of a process's end: detach, and undo what it noted. *)
End(p, label) ==
  /\ attached' = [attached EXCEPT ![p] = None]
  /\ sem' = [s \in SemNames |-> [sem[s] EXCEPT !.val =
               IF @ + semadj[p][s] > 0 THEN @ + semadj[p][s] ELSE 0]]
  /\ semadj' = [semadj EXCEPT ![p] = [s \in SemNames |-> 0]]
  /\ Goto(p, label)
  /\ UNCHANGED <<segKey, segs, locals, typed, got, breaches>>

Exit(p) == pc[p] = "exit" /\ End(p, "done") /\ UNCHANGED crashes

BufDestroy(p) ==
  NprocRead(p) \/ NprocDec(p) \/ ShmRmid(p) \/ Detach(p) \/ RemoveSemaphores(p)

(* A process killed from outside, wherever it is. *)
Crash(p) ==
  /\ pc[p] \notin Ended \cup {"start"} /\ crashes < MaxCrashes
  /\ End(p, "killed")
  /\ crashes' = crashes + 1

Run(p) ==
  \/ BufInit(p) \/ BufDestroy(p) \/ Exit(p)
  \/ p \in Senders /\ Send(p)
  \/ p \in Receivers /\ Receive(p)

Next == \E p \in Procs : Run(p) \/ Crash(p)

Spec == Init /\ [][Next]_vars

(* The scheduler runs every process and the kernel serves sleepers in turn; *)
(* programs are started and users go on typing up to their 'q'.  No call    *)
(* has to fail and no session has to become disorderly.                      *)
FairSpec == Spec /\ \A p \in Procs : SF_vars(Run(p) /\ breaches' = breaches)

--------------------------------------------------------------------------------
(* Type invariant. *)
Segment == [size : {0, Size}, in : 0 .. Size - 1, out : 0 .. Size - 1,
            nproc : Int,
            buf : [0 .. Size - 1 -> Chars \cup {Nul}], removed : BOOLEAN]
TypeOK ==
  /\ Len(segs) <= Cardinality(Procs) /\ \A g \in DOMAIN segs : segs[g] \in Segment
  /\ segKey \in DOMAIN segs \cup {None}
  /\ attached \in [Procs -> SegIds \cup {None}]
  /\ sem \in [SemNames -> [id : 0 .. Cardinality(Procs), val : Nat, there : BOOLEAN]]
  /\ semadj \in [Procs -> [SemNames -> Int]]
  /\ pc \in [Procs -> Labels]
  /\ shmid \in [Procs -> SegIds \cup {None}] /\ fresh \in [Procs -> BOOLEAN]
  /\ semid \in [Procs -> [SemNames -> 0 .. Cardinality(Procs)]]
  /\ reg \in [Procs -> Int] /\ c \in [Procs -> Chars \cup {Nul}]
  /\ typed \in [Senders -> Seq(Chars)] /\ got \in [Receivers -> Seq(Chars \cup {Nul})]
  /\ crashes \in 0 .. MaxCrashes
  /\ breaches \subseteq {"racing_launch", "early_quit", "flags"}

(* The sessions the programs are made for: each program started when the     *)
(* other is not inside buf_init, 'q' typed when both are up, nobody killed,  *)
(* and a build that leaves sem_flg zero.                                     *)
Orderly == breaches = {} /\ crashes = 0

(* Between buf_init and buf_destroy. *)
InUse == {p \in Procs : IS_MEM_OK(p) /\ pc[p] \in {"loop"} \cup InPut \cup InGet}

(* In an orderly session nobody removes the semaphores (lines 125-135) from  *)
(* under a process that still puts or gets: nproc, read and written without  *)
(* a lock, never comes out as zero too early.                                *)
SemaphoresOutliveUsers ==
  Orderly => \A p \in InUse, s \in SemNames : Valid(p, s)

(* No process comes to compute a slot (lines 155, 216) from a size that was  *)
(* not written yet (line 82), a division by zero, however the two programs   *)
(* are started, and wherever one of them is killed: who passes a semaphore   *)
(* finds the struct filled in.                                               *)
NoFault ==
  \A p \in Procs : pc[p] \in {"put_next", "get_out"} => Seg(p).size # 0

(* What a receiver fetched is the beginning of what the user of the sender   *)
(* typed, nothing skipped, repeated, overwritten or read from an unwritten   *)
(* slot, whoever was killed and however close together the programs were     *)
(* started, unless a 'q' was typed with a program still to come, when a later*)
(* generation of the ring may take over, or a call did not wait.  A receiver that stopped in an      *)
(* orderly session received everything: no call failed under it, and the 'q' *)
(* overtook nothing.  (For one sender and one receiver.)                     *)
IsPrefixOf(x, y) == Len(x) <= Len(y) /\ \A i \in 1 .. Len(x) : x[i] = y[i]
AllDelivered ==
  \A s \in Senders, r \in Receivers :
    /\ breaches \subseteq {"racing_launch"} => IsPrefixOf(got[r], typed[s])
    /\ Orderly /\ pc[r] = "done" => got[r] = typed[s]

(* Who reaches the loop of an orderly session comes to the end of the        *)
(* program, though either side may leave first.                              *)
SessionEnds ==
  \A p \in Procs : (Orderly /\ pc[p] = "loop") ~> (pc[p] = "done" \/ ~ Orderly)

(* "Decrease and get the number of proccess" (library.c:104): the last one   *)
(* to leave an orderly session sees that it is the last and removes the      *)
(* semaphores.                                                               *)
LastRemovesSemaphores ==
  Orderly /\ (\A p \in Procs : pc[p] = "done") => \A s \in SemNames : ~ sem[s].there
================================================================================
