----------------------------- MODULE ActiveSession -----------------------------
(***************************************************************************)
(* hw4/active from the start of a program to its end: sender.c and         *)
(* receiver.c running buf_init, their loop of buf_put or buf_get, and      *)
(* buf_destroy, over a System V segment that is found by its key.  There   *)
(* is no count of users: whoever leaves first takes the key away.          *)
(*                                                                         *)
(* Each member of Senders or Receivers is one run of the program.  Every   *)
(* system call and every access to shared memory is a step.  main ignores  *)
(* what the library returns.                                               *)
(***************************************************************************)
EXTENDS Integers, Sequences, FiniteSets

CONSTANTS
  Senders, Receivers,
  Letters,      \* what a user may type besides 'q'; main skips a newline
  Quit, Nul,    \* 'q'; the content of zeroed memory
  Room,         \* the argument of buf_init, 80 in both programs
  MaxTyped,     \* bound: characters a user types, the last of them 'q'
  MaxCrashes    \* bound: processes killed from outside

ASSUME ProgramAssumption ==
  /\ IsFiniteSet(Senders) /\ IsFiniteSet(Receivers)
  /\ Senders # {} /\ Receivers # {} /\ Senders \cap Receivers = {}
ASSUME BoundAssumption ==
  /\ Room \in Nat \ {0} /\ MaxTyped \in Nat \ {0} /\ MaxCrashes \in Nat
ASSUME LetterAssumption == Quit \notin Letters /\ Nul \notin Letters \cup {Quit}

Procs == Senders \cup Receivers
Chars == Letters \cup {Quit}

(* shmget makes a segment at most once per program run. *)
SegIds == 1 .. Cardinality(Procs)
None == 0

VARIABLES
  segKey,      \* kernel: the segment SHM_KEY leads to, or None
  segs,        \* kernel: the segments ever made, with the struct in each
  attached,    \* kernel: which process has which segment attached
  pc,
  shmid,       \* each process's shmid
  fresh,       \* buf_init's retValue > 0: this process made the segment
  position, char,  \* nextPos of buf_put, main's buf
  typed, got,  \* history: characters typed, characters fetched from the ring
  crashes,     \* history: how many processes were killed
  breaches     \* history: in what way the session was not an orderly one

kernel  == <<segKey, segs, attached>>
locals  == <<shmid, fresh, position, char>>
history == <<typed, got, crashes, breaches>>
vars    == <<segKey, segs, attached, pc, shmid, fresh, position, char,
             typed, got, crashes, breaches>>

(* shmget hands out zeroed memory. *)
ZeroedSegment == [size |-> 0, in |-> 0, out |-> 0, mutex |-> 0,
                  buf |-> [i \in 0 .. Room |-> Nul], removed |-> FALSE]

Init ==
  /\ segKey = None
  /\ segs = <<>>
  /\ attached = [p \in Procs |-> None]
  /\ pc = [p \in Procs |-> "start"]
  /\ shmid = [p \in Procs |-> None]
  /\ fresh = [p \in Procs |-> FALSE]
  /\ position = [p \in Procs |-> 0]
  \* receiver.c compares an unassigned buf with 'q' if its first buf_get fails
  /\ char \in [Procs -> {Quit, Nul}] /\ \A p \in Senders : char[p] = Nul
  /\ typed = [p \in Senders |-> <<>>]
  /\ got = [p \in Receivers |-> <<>>]
  /\ crashes = 0
  /\ breaches = {}

Goto(p, label) == pc' = [pc EXCEPT ![p] = label]

is_mem_ok(p) == attached[p] # None
Seg(p) == segs[attached[p]]
Write(p, field, value) == segs' = [segs EXCEPT ![attached[p]][field] = value]

(* A segment marked for removal goes when its last user detaches. *)
Exists(g) == ~ segs[g].removed \/ \E p \in Procs : attached[p] = g

InStruct  == {"set_size", "set_out", "set_in", "set_mutex"}
InInit    == {"shm_existing", "attach"} \cup InStruct
BeforeStore == {"put_next", "put_wait", "put_test", "put_set", "put_store"}
InPut     == BeforeStore \cup {"put_in", "put_clear"}
InGet     == {"get_wait", "get_test", "get_set", "get_fetch", "get_out", "get_clear"}
InDestroy == {"shm_rmid", "detach", "exit"}
Ended     == {"done", "killed", "faulted"}
Labels    == {"start", "loop"} \cup InInit \cup InPut \cup InGet \cup InDestroy
               \cup Ended

(* When programs are started and quit is the users' doing. *)
Note(breach, happens) ==
  breaches' = IF happens THEN breaches \cup {breach} ELSE breaches

--------------------------------------------------------------------------------
(* buf_init(Room), called first by both programs. *)
ShmCreate(p) ==
  /\ pc[p] = "start"
  /\ \/ /\ segKey = None
        /\ segs' = Append(segs, ZeroedSegment)
        /\ segKey' = Len(segs')
        /\ shmid' = [shmid EXCEPT ![p] = segKey']
        /\ fresh' = [fresh EXCEPT ![p] = TRUE]
        /\ Goto(p, "attach")
     \/ /\ segKey # None
        /\ Goto(p, "shm_existing")
        /\ UNCHANGED <<segs, segKey, shmid, fresh>>
  /\ UNCHANGED <<attached, position, char, history>>

(* The segment that made the first shmget fail may be gone by the second. *)
ShmExisting(p) ==
  /\ pc[p] = "shm_existing"
  /\ \/ segKey # None /\ shmid' = [shmid EXCEPT ![p] = segKey] /\ Goto(p, "attach")
     \/ segKey = None /\ UNCHANGED shmid /\ Goto(p, "loop")
  /\ UNCHANGED <<kernel, fresh, position, char, history>>

(* Nothing tells a sender that the receiver which made the segment has not   *)
(* filled in the struct yet.                                                 *)
HalfMade(g) == \E q \in Receivers : shmid[q] = g /\ fresh[q] /\ pc[q] \in InInit
Attach(p) ==
  /\ pc[p] = "attach"
  /\ \/ /\ Exists(shmid[p])
        /\ attached' = [attached EXCEPT ![p] = shmid[p]]
        /\ Note("half_made_ring", p \in Senders /\ HalfMade(shmid[p]))
        /\ Goto(p, IF fresh[p] THEN "set_size" ELSE "loop")
     \/ ~ Exists(shmid[p]) /\ Goto(p, "loop") /\ UNCHANGED <<attached, breaches>>
  /\ UNCHANGED <<segKey, segs, locals, typed, got, crashes>>

\* Mutant: the slot that stays empty is not asked for.
InitStructTooSmall(p) ==
  /\ \/ pc[p] = "set_size"  /\ Write(p, "size", Room)  /\ Goto(p, "set_out")
     \/ pc[p] = "set_out"   /\ Write(p, "out", 0)       /\ Goto(p, "set_in")
     \/ pc[p] = "set_in"    /\ Write(p, "in", 0)        /\ Goto(p, "set_mutex")
     \/ pc[p] = "set_mutex" /\ Write(p, "mutex", 0)     /\ Goto(p, "loop")
  /\ UNCHANGED <<segKey, attached, locals, history>>

(* One slot more than asked for, which stays empty. *)
InitStruct(p) ==
  /\ \/ pc[p] = "set_size"  /\ Write(p, "size", Room + 1) /\ Goto(p, "set_out")
     \/ pc[p] = "set_out"   /\ Write(p, "out", 0)          /\ Goto(p, "set_in")
     \/ pc[p] = "set_in"    /\ Write(p, "in", 0)           /\ Goto(p, "set_mutex")
     \/ pc[p] = "set_mutex" /\ Write(p, "mutex", 0)        /\ Goto(p, "loop")
  /\ UNCHANGED <<segKey, attached, locals, history>>

BufInit(p) == ShmCreate(p) \/ ShmExisting(p) \/ Attach(p) \/ InitStruct(p)

--------------------------------------------------------------------------------
(* What main does when buf_put or buf_get is over, well or not. *)
AfterCall(ch) == IF ch = Quit THEN "shm_rmid" ELSE "loop"

Unattached == {"start", "shm_existing", "attach"}

(* sender.c: read a character, put it, stop after 'q'. *)
Type(p) ==
  /\ pc[p] = "loop"
  /\ \E d \in Chars :
       /\ Len(typed[p]) + 1 = MaxTyped => d = Quit
       /\ Note("early_quit", d = Quit /\ \E q \in Receivers : pc[q] \in Unattached)
       /\ char' = [char EXCEPT ![p] = d]
       /\ typed' = [typed EXCEPT ![p] = Append(@, d)]
       /\ Goto(p, IF is_mem_ok(p) THEN "put_next" ELSE AfterCall(d))
  /\ UNCHANGED <<kernel, shmid, fresh, position, got, crashes>>

(* buf_put; a size of zero is an integer division by zero. *)
put_next(p) ==
  /\ pc[p] = "put_next" /\ Seg(p).size # 0
  /\ position' = [position EXCEPT ![p] = (Seg(p).in + 1) % Seg(p).size]
  /\ Goto(p, "put_wait")
  /\ UNCHANGED <<kernel, shmid, fresh, char, history>>

(* The two polling loops of buf_put and buf_get, line by line. *)
Poll(p, here, condition, next) ==
  /\ pc[p] = here /\ condition
  /\ Goto(p, next)
  /\ UNCHANGED <<kernel, locals, history>>

\* Mutant: no wait for a free slot.
put_wait_for_nothing(p) == Poll(p, "put_wait", TRUE, "put_test")

put_wait(p) == pc[p] = "put_wait" /\ Poll(p, "put_wait", Seg(p).out # position[p], "put_test")
put_test(p) == pc[p] = "put_test" /\ Poll(p, "put_test", Seg(p).mutex # 1, "put_set")

(* An assignment to a field of the struct. *)
Assign(p, here, field, value, next) ==
  /\ pc[p] = here
  /\ Write(p, field, value)
  /\ Goto(p, next)
  /\ UNCHANGED <<segKey, attached, locals, history>>

put_set(p) == pc[p] = "put_set" /\ Assign(p, "put_set", "mutex", 1, "put_store")
put_store(p) ==
  /\ pc[p] = "put_store"
  /\ Assign(p, "put_store", "buf", [Seg(p).buf EXCEPT ![Seg(p).in] = char[p]], "put_in")
put_in(p) == pc[p] = "put_in" /\ Assign(p, "put_in", "in", position[p], "put_clear")
put_clear(p) ==
  pc[p] = "put_clear" /\ Assign(p, "put_clear", "mutex", 0, AfterCall(char[p]))

Send(p) ==
  \/ Type(p) \/ put_next(p) \/ put_wait(p) \/ put_test(p) \/ put_set(p)
  \/ put_store(p) \/ put_in(p) \/ put_clear(p)

(* receiver.c: get a character, stop after 'q'. *)
CallGet(p) ==
  /\ pc[p] = "loop"
  /\ Goto(p, IF is_mem_ok(p) THEN "get_wait" ELSE AfterCall(char[p]))
  /\ UNCHANGED <<kernel, locals, history>>

\* Mutant: no wait for a character.
get_wait_for_nothing(p) == Poll(p, "get_wait", TRUE, "get_test")

get_wait(p) ==
  pc[p] = "get_wait" /\ Poll(p, "get_wait", Seg(p).in - Seg(p).out # 0, "get_test")
get_test(p) == pc[p] = "get_test" /\ Poll(p, "get_test", Seg(p).mutex # 1, "get_set")
get_set(p)  == pc[p] = "get_set" /\ Assign(p, "get_set", "mutex", 1, "get_fetch")
get_fetch(p) ==
  /\ pc[p] = "get_fetch"
  /\ char' = [char EXCEPT ![p] = Seg(p).buf[Seg(p).out]]
  /\ got' = [got EXCEPT ![p] = Append(@, char'[p])]
  /\ Goto(p, "get_out")
  /\ UNCHANGED <<kernel, shmid, fresh, position, typed, crashes, breaches>>
get_out(p) ==
  /\ pc[p] = "get_out" /\ Seg(p).size # 0
  /\ Assign(p, "get_out", "out", (Seg(p).out + 1) % Seg(p).size, "get_clear")

\* Mutant: buf_get leaves the flag set.
get_clear_forgotten(p) ==
  /\ pc[p] = "get_clear" /\ Goto(p, AfterCall(char[p]))
  /\ UNCHANGED <<kernel, locals, history>>

get_clear(p) ==
  pc[p] = "get_clear" /\ Assign(p, "get_clear", "mutex", 0, AfterCall(char[p]))

Receive(p) ==
  \/ CallGet(p) \/ get_wait(p) \/ get_test(p) \/ get_set(p) \/ get_fetch(p)
  \/ get_out(p) \/ get_clear(p)

--------------------------------------------------------------------------------
(* buf_destroy().  A caller that has nothing attached (its shmid is unset or *)
(* leads to a segment that is gone) removes none of these segments and       *)
(* returns; one that has it attached is told of no error: lines 75-81 are    *)
(* never taken then.                                                         *)
ShmRmid(p) ==
  /\ pc[p] = "shm_rmid"
  /\ \/ /\ is_mem_ok(p)
        /\ Write(p, "removed", TRUE)
        /\ segKey' = IF segKey = shmid[p] THEN None ELSE segKey
        /\ Goto(p, "detach")
     \/ ~ is_mem_ok(p) /\ Goto(p, "exit") /\ UNCHANGED <<segs, segKey>>
  /\ UNCHANGED <<attached, locals, history>>

Detach(p) ==
  /\ pc[p] = "detach"
  /\ attached' = [attached EXCEPT ![p] = None]
  /\ Goto(p, "exit")
  /\ UNCHANGED <<segKey, segs, locals, history>>

(* The kernel detaches what a process that ends has attached. *)
End(p, label) ==
  /\ attached' = [attached EXCEPT ![p] = None]
  /\ Goto(p, label)
  /\ UNCHANGED <<segKey, segs, locals, typed, got, breaches>>

Exit(p) == pc[p] = "exit" /\ End(p, "done") /\ UNCHANGED crashes

BufDestroy(p) == ShmRmid(p) \/ Detach(p)

(* The signal of a division by zero. *)
Fault(p) ==
  /\ pc[p] \in {"put_next", "get_out"} /\ Seg(p).size = 0
  /\ End(p, "faulted")
  /\ UNCHANGED crashes

(* A process killed from outside, wherever it is. *)
Crash(p) ==
  /\ pc[p] \notin Ended \cup {"start"} /\ crashes < MaxCrashes
  /\ End(p, "killed")
  /\ crashes' = crashes + 1

Run(p) ==
  \/ BufInit(p) \/ BufDestroy(p) \/ Exit(p) \/ Fault(p)
  \/ p \in Senders /\ Send(p)
  \/ p \in Receivers /\ Receive(p)

Next == \E p \in Procs : Run(p) \/ Crash(p)

Spec == Init /\ [][Next]_vars

(* The scheduler runs every process; programs are started and users go on    *)
(* typing up to their 'q'.  A poll may always look at the wrong moment, so   *)
(* only a condition that stays true must be noticed.  No session has to      *)
(* become disorderly.                                                        *)
FairSpec == Spec /\ \A p \in Procs : WF_vars(Run(p) /\ breaches' = breaches)

--------------------------------------------------------------------------------
(* Type invariant. *)
Segment == [size : {0, Room + 1}, in : 0 .. Room, out : 0 .. Room, mutex : {0, 1},
            buf : [0 .. Room -> Chars \cup {Nul}], removed : BOOLEAN]
TypeOK ==
  /\ Len(segs) <= Cardinality(Procs) /\ \A g \in DOMAIN segs : segs[g] \in Segment
  /\ segKey \in DOMAIN segs \cup {None}
  /\ attached \in [Procs -> SegIds \cup {None}]
  /\ pc \in [Procs -> Labels]
  /\ shmid \in [Procs -> SegIds \cup {None}] /\ fresh \in [Procs -> BOOLEAN]
  /\ position \in [Procs -> 0 .. Room] /\ char \in [Procs -> Chars \cup {Nul}]
  /\ typed \in [Senders -> Seq(Chars)] /\ got \in [Receivers -> Seq(Chars \cup {Nul})]
  /\ crashes \in 0 .. MaxCrashes
  /\ breaches \subseteq {"half_made_ring", "early_quit"}

(* The sessions the programs are made for.  Racing launches are among them   *)
(* unless the sender overtakes the receiver that makes the ring.             *)
Orderly == breaches = {} /\ crashes = 0

(* The session of one sender and one receiver as the bare ring sees it. *)
sender   == CHOOSE p \in Senders : TRUE
receiver == CHOOSE p \in Receivers : TRUE
TheSegment == IF segs = <<>> THEN ZeroedSegment ELSE segs[1]
RingLabel == [put_next |-> "next", put_wait |-> "wait", put_test |-> "test",
              put_set |-> "set", put_store |-> "store", put_in |-> "in",
              put_clear |-> "clear", get_wait |-> "wait", get_test |-> "test",
              get_set |-> "set", get_fetch |-> "fetch", get_out |-> "out",
              get_clear |-> "clear"]
RingPc(p, outside) ==
  IF pc[p] \in DOMAIN RingLabel THEN RingLabel[pc[p]] ELSE outside
Accepted ==
  IF pc[sender] \in BeforeStore
    THEN SubSeq(typed[sender], 1, Len(typed[sender]) - 1) ELSE typed[sender]

Ring == INSTANCE ActiveRing
          WITH Data <- Chars, Size <- Room + 1, MaxPuts <- MaxTyped,
               in <- TheSegment.in, out <- TheSegment.out,
               mutex <- TheSegment.mutex, buf <- TheSegment.buf,
               putPc <- RingPc(sender, "idle"), getPc <- RingPc(receiver, "wait"),
               nextPos <- position[sender], c <- char[sender],
               puts <- Len(typed[sender]), Empty <- Nul,
               accepted <- Accepted, delivered <- got[receiver]

(* As long as the session is orderly, all that the two programs do, from     *)
(* buf_init (which may still be writing to the struct) to buf_destroy (which *)
(* may take the segment's key away under the other), is what ActiveRing does *)
(* on a ring with one slot more than buf_init was asked for: its promise of  *)
(* a FIFO channel holds for the programs.                                    *)
RunsTheRing ==
  Ring!RingInit /\ [][Orderly' => [Ring!RingNext]_(Ring!ringVars)]_vars

(* What a receiver fetched is the beginning of what the user of the sender   *)
(* typed, wherever one of them was killed, also in the middle of an update   *)
(* of the ring, and when each works on a ring of its own; a receiver that    *)
(* stopped in an orderly session got it all.                                 *)
IsPrefixOf(x, y) == Len(x) <= Len(y) /\ \A i \in 1 .. Len(x) : x[i] = y[i]
AllDelivered ==
  /\ "half_made_ring" \notin breaches => IsPrefixOf(got[receiver], typed[sender])
  /\ Orderly /\ pc[receiver] = "done" => got[receiver] = typed[sender]

(* Nobody locks out a process that finds a ring whose size is not written    *)
(* yet.  Still no receiver ever divides by that size, and a sender only if   *)
(* it overtook the receiver that makes the ring, or found what a receiver    *)
(* that was killed at it left behind.                                        *)
LeftHalfMade(g) ==
  segs[g].size = 0 /\ \E q \in Receivers : shmid[q] = g /\ fresh[q] /\ pc[q] = "killed"
FaultsExplained ==
  /\ \A p \in Receivers : pc[p] # "faulted"
  /\ pc[sender] = "faulted" => "half_made_ring" \in breaches \/ LeftHalfMade(shmid[sender])

(* Who is started in an orderly session comes to the end of the program, and *)
(* nobody divides by a size that was not written yet.                        *)
SessionEnds ==
  \A p \in Procs : (Orderly /\ pc[p] # "start") ~> (pc[p] = "done" \/ ~ Orderly)
================================================================================
