-------------------------------- MODULE SemRing --------------------------------
(***************************************************************************)
(* buf_put and buf_get of hw4/semaph/library.c on an initialised segment:  *)
(* a ring of Size slots in shared memory, guarded by three System V        *)
(* semaphores.  One action per semop or access to shared memory, so that   *)
(* the calls of different processes interleave as they do in the program.  *)
(*                                                                         *)
(* struct sembuf's sem_flg is never assigned (library.c:274,288), so a     *)
(* call may see any flags: SemFlags is the set of flag sets the build can  *)
(* leave there.  SEM_UNDO acts only when a process exits and is therefore  *)
(* part of SemSession, not of this module.                                 *)
(***************************************************************************)
EXTENDS Naturals, Sequences, FiniteSets

CONSTANTS
  Producers,   \* processes that call buf_put
  Consumers,   \* processes that call buf_get
  Data,        \* characters
  Nul,         \* the content of a slot nobody wrote (shmget zeroes memory)
  Size,        \* shm_segment->size
  SemFlags,    \* what the unassigned sem_flg may hold, a set of sets of flags
  MaxPuts      \* bound on the number of buf_put calls

ASSUME ProcessAssumption ==
  /\ IsFiniteSet(Producers) /\ IsFiniteSet(Consumers)
  /\ Producers \cap Consumers = {}
ASSUME SizeAssumption == Size \in Nat \ {0}
ASSUME BoundAssumption == MaxPuts \in Nat
ASSUME NulAssumption == Nul \notin Data

Procs == Producers \cup Consumers

VARIABLES
  in, out, buf,   \* shm_st: the two indices and the slots 0..Size-1
  sem,            \* values of the semaphores "free", "full" and "mutex"
  pc,             \* where each process is inside buf_put or buf_get
  nextPos,        \* the local nextPos of each buf_put
  c,              \* the argument of buf_put, the result of buf_get
  puts,           \* number of buf_put calls so far
  accepted,       \* history: characters stored in the ring, in order
  delivered,      \* history: characters taken from the ring, in order
  refused         \* history: the processes that had a semop fail

shm     == <<in, out, buf>>
history == <<puts, accepted, delivered>>
vars    == <<in, out, buf, sem, pc, nextPos, c, puts, accepted, delivered,
             refused>>

PutLabels == {"idle", "put_free", "put_next", "put_lock", "put_store",
              "put_in", "put_unlock", "put_full"}
GetLabels == {"idle", "get_lock", "get_fetch", "get_out", "get_unlock",
              "get_free"}

Goto(p, label) == pc' = [pc EXCEPT ![p] = label]

(* buf_init's last steps leave these values behind for every process. *)
Init ==
  /\ in = 0 /\ out = 0 /\ buf = [i \in 0 .. Size - 1 |-> Nul]
  /\ sem = [s \in {"free", "full", "mutex"} |->
              CASE s = "free" -> Size [] s = "full" -> 0 [] s = "mutex" -> 1]
  /\ pc = [p \in Procs |-> "idle"]
  /\ nextPos = [p \in Producers |-> 0]
  /\ c = [p \in Procs |-> Nul]
  /\ puts = 0 /\ accepted = <<>> /\ delivered = <<>> /\ refused = {}

--------------------------------------------------------------------------------
(* semop with sem_op = -1: take a unit, or sleep until there is one, or, if *)
(* sem_flg happens to hold IPC_NOWAIT, fail; a failure ends the call with   *)
(* RET_FAIL.                                                                *)
_semdown(s, p, label) ==
  \/ /\ sem[s] > 0
     /\ sem' = [sem EXCEPT ![s] = @ - 1]
     /\ Goto(p, label)
     /\ UNCHANGED refused
  \/ /\ sem[s] = 0
     /\ \E flg \in SemFlags : "IPC_NOWAIT" \in flg
     /\ Goto(p, "idle")
     /\ refused' = refused \cup {p}
     /\ UNCHANGED sem

(* semop with sem_op = 1 never sleeps. *)
_semup(s, p, label) ==
  /\ sem' = [sem EXCEPT ![s] = @ + 1]
  /\ Goto(p, label)
  /\ UNCHANGED refused

--------------------------------------------------------------------------------
(* buf_put(char c) *)
PutCall(p) ==
  /\ pc[p] = "idle" /\ puts < MaxPuts
  /\ \E d \in Data : c' = [c EXCEPT ![p] = d]
  /\ puts' = puts + 1
  /\ Goto(p, "put_free")
  /\ UNCHANGED <<shm, sem, refused, nextPos, accepted, delivered>>

\* Mutant: no wait for a free slot.
PutFreeNoWait(p) ==
  /\ pc[p] = "put_free" /\ Goto(p, "put_next")
  /\ UNCHANGED <<shm, sem, refused, nextPos, c, history>>

PutFree(p) ==
  /\ pc[p] = "put_free"
  /\ _semdown("free", p, "put_next")
  /\ UNCHANGED <<shm, nextPos, c, history>>

\* Mutant: the index does not wrap.
PutNextNoWrap(p) ==
  /\ pc[p] = "put_next"
  /\ nextPos' = [nextPos EXCEPT ![p] = in + 1]
  /\ Goto(p, "put_lock")
  /\ UNCHANGED <<shm, sem, refused, c, history>>

(* The successor of in is computed before the mutex is taken. *)
PutNext(p) ==
  /\ pc[p] = "put_next"
  /\ nextPos' = [nextPos EXCEPT ![p] = (in + 1) % Size]
  /\ Goto(p, "put_lock")
  /\ UNCHANGED <<shm, sem, refused, c, history>>

\* Mutant: the mutex is not taken.
PutLockNotTaken(p) ==
  /\ pc[p] = "put_lock" /\ Goto(p, "put_store")
  /\ UNCHANGED <<shm, sem, refused, nextPos, c, history>>

PutLock(p) ==
  /\ pc[p] = "put_lock"
  /\ _semdown("mutex", p, "put_store")
  /\ UNCHANGED <<shm, nextPos, c, history>>

PutStore(p) ==
  /\ pc[p] = "put_store"
  /\ buf' = [buf EXCEPT ![in] = c[p]]
  /\ accepted' = Append(accepted, c[p])
  /\ Goto(p, "put_in")
  /\ UNCHANGED <<in, out, sem, refused, nextPos, c, puts, delivered>>

\* Mutant: the index is advanced once more.
PutInTwice(p) ==
  /\ pc[p] = "put_in"
  /\ in' = (nextPos[p] + 1) % Size
  /\ Goto(p, "put_unlock")
  /\ UNCHANGED <<out, buf, sem, refused, nextPos, c, history>>

PutIn(p) ==
  /\ pc[p] = "put_in"
  /\ in' = nextPos[p]
  /\ Goto(p, "put_unlock")
  /\ UNCHANGED <<out, buf, sem, refused, nextPos, c, history>>

PutUnlock(p) ==
  /\ pc[p] = "put_unlock"
  /\ _semup("mutex", p, "put_full")
  /\ UNCHANGED <<shm, nextPos, c, history>>

\* Mutant: the consumers are not told.
PutFullForgotten(p) ==
  /\ pc[p] = "put_full" /\ Goto(p, "idle")
  /\ UNCHANGED <<shm, sem, refused, nextPos, c, history>>

PutFull(p) ==
  /\ pc[p] = "put_full"
  /\ _semup("full", p, "idle")
  /\ UNCHANGED <<shm, nextPos, c, history>>

--------------------------------------------------------------------------------
(* buf_get(char *c) *)

\* Mutant: no wait for a character.
GetFullNoWait(p) ==
  /\ pc[p] = "idle" /\ Goto(p, "get_lock")
  /\ UNCHANGED <<shm, sem, refused, nextPos, c, history>>

GetFull(p) ==
  /\ pc[p] = "idle"
  /\ _semdown("full", p, "get_lock")
  /\ UNCHANGED <<shm, nextPos, c, history>>

GetLock(p) ==
  /\ pc[p] = "get_lock"
  /\ _semdown("mutex", p, "get_fetch")
  /\ UNCHANGED <<shm, nextPos, c, history>>

GetFetch(p) ==
  /\ pc[p] = "get_fetch"
  /\ c' = [c EXCEPT ![p] = buf[out]]
  /\ delivered' = Append(delivered, buf[out])
  /\ Goto(p, "get_out")
  /\ UNCHANGED <<shm, sem, refused, nextPos, puts, accepted>>

GetOut(p) ==
  /\ pc[p] = "get_out"
  /\ out' = (out + 1) % Size
  /\ Goto(p, "get_unlock")
  /\ UNCHANGED <<in, buf, sem, refused, nextPos, c, history>>

GetUnlock(p) ==
  /\ pc[p] = "get_unlock"
  /\ _semup("mutex", p, "get_free")
  /\ UNCHANGED <<shm, nextPos, c, history>>

\* Mutant: the slot is not given back.
GetFreeForgotten(p) ==
  /\ pc[p] = "get_free" /\ Goto(p, "idle")
  /\ UNCHANGED <<shm, sem, refused, nextPos, c, history>>

GetFree(p) ==
  /\ pc[p] = "get_free"
  /\ _semup("free", p, "idle")
  /\ UNCHANGED <<shm, nextPos, c, history>>

--------------------------------------------------------------------------------
(* The rest of a buf_put that has begun; a buf_get and the next one. *)
PutStep(p) ==
  \/ PutFree(p) \/ PutNext(p) \/ PutLock(p) \/ PutStore(p)
  \/ PutIn(p) \/ PutUnlock(p) \/ PutFull(p)
GetStep(p) ==
  \/ GetFull(p) \/ GetLock(p) \/ GetFetch(p)
  \/ GetOut(p) \/ GetUnlock(p) \/ GetFree(p)

Next ==
  \/ \E p \in Producers : PutCall(p) \/ PutStep(p)
  \/ \E p \in Consumers : GetStep(p)

Spec == Init /\ [][Next]_vars

(* A process inside a call keeps running, and the kernel serves the sleepers *)
(* of a semaphore first come first served, so a semop that can succeed again *)
(* and again does: strong fairness.  No semop has to fail.  receiver.c calls *)
(* buf_get in a loop, so a consumer is never idle for ever.  No character    *)
(* has to be put.                                                            *)
Fairness ==
  /\ \A p \in Producers : SF_vars(PutStep(p) /\ UNCHANGED refused)
  /\ \A p \in Consumers : SF_vars(GetStep(p) /\ UNCHANGED refused)

FairSpec == Spec /\ Fairness

--------------------------------------------------------------------------------
(* Type invariant. *)
TypeOK ==
  /\ in \in 0 .. Size - 1 /\ out \in 0 .. Size - 1
  /\ buf \in [0 .. Size - 1 -> Data \cup {Nul}]
  /\ sem \in [{"free", "full", "mutex"} -> Nat]
  /\ pc \in [Procs -> PutLabels \cup GetLabels]
  /\ \A p \in Producers : pc[p] \in PutLabels
  /\ \A p \in Consumers : pc[p] \in GetLabels
  /\ nextPos \in [Producers -> 0 .. Size - 1]
  /\ c \in [Procs -> Data \cup {Nul}]
  /\ \A p \in Producers : pc[p] # "idle" => c[p] \in Data
  /\ puts \in Nat
  /\ accepted \in Seq(Data)
  /\ delivered \in Seq(Data \cup {Nul})
  /\ refused \subseteq Procs

(* Processes between _semdown(mutex) and _semup(mutex). *)
CSLabels == {"put_store", "put_in", "put_unlock",
             "get_fetch", "get_out", "get_unlock"}
InCS == {p \in Procs : pc[p] \in CSLabels}

(* The "Critical Section" of buf_put and buf_get is one: never are two       *)
(* processes between the mutex's down and its up, whatever flags semop sees. *)
MutualExclusion == \A p, q \in InCS : p = q

(* Units of free and full that a process took and has not yet spent, or has  *)
(* spent and not yet handed on as a unit of the other semaphore.             *)
FreeHeldAt == {"put_next", "put_lock", "put_store"}
FreeOwedAt == {"get_out", "get_unlock", "get_free"}
FullHeldAt == {"get_lock", "get_fetch"}
FullOwedAt == {"put_in", "put_unlock", "put_full"}
FreeHeld   == {p \in Producers : pc[p] \in FreeHeldAt}
FreeOwed   == {p \in Consumers : pc[p] \in FreeOwedAt}
FullHeld   == {p \in Consumers : pc[p] \in FullHeldAt}
FullOwed   == {p \in Producers : pc[p] \in FullOwedAt}

Occupied == Len(accepted) - Len(delivered)

(* The semaphores never promise more than the ring has: the slots promised   *)
(* to producers fit beside the characters present, and every character       *)
(* promised to a consumer is present.  A call that fails half way             *)
(* (library.c:163,208) leaks its unit, so these are inequalities.            *)
FreeBound == sem["free"] + Cardinality(FreeHeld) + Cardinality(FreeOwed)
               + Len(accepted) <= Size + Len(delivered)
FullBound == sem["full"] + Cardinality(FullHeld) + Cardinality(FullOwed)
               + Len(delivered) <= Len(accepted)
SemaphoresCountSlots == FreeBound /\ FullBound

(* As long as no semop has failed no unit is lost: what the semaphores       *)
(* promise and what processes hold is exactly the ring.                      *)
NoUnitLost ==
  \/ refused # {}
  \/ /\ sem["free"] + Cardinality(FreeHeld) + Cardinality(FreeOwed) + Occupied = Size
     /\ sem["full"] + Cardinality(FullHeld) + Cardinality(FullOwed) = Occupied

(* The ring implements a FIFO channel of Size characters: nothing is lost,   *)
(* duplicated, overwritten or reordered between buf_put and buf_get.         *)
Fifo == INSTANCE BoundedFifo
          WITH Capacity <- Size, sent <- accepted, received <- delivered
ImplementsFifo == Fifo!Spec

(* Unless a semop fails, each buf_put that begins returns, and every         *)
(* character is stored and read.                                             *)
EveryCharDelivered ==
  /\ \A p \in Producers : pc[p] # "idle" ~> refused # {} \/ pc[p] = "idle"
  /\ \A n \in 1 .. MaxPuts : puts >= n ~> refused # {} \/ Len(delivered) >= n

--------------------------------------------------------------------------------
(* What the theorems of SemRingProofs need besides: the inductive forms of   *)
(* mutual exclusion and, for one producer, of the FIFO promise.              *)

(* The mutex is down exactly while somebody may be in the critical section. *)
MutexInv ==
  /\ sem["mutex"] \in {0, 1}
  /\ sem["mutex"] = 1 => InCS = {}
  /\ MutualExclusion

(* sender.c is the only program that calls buf_put. *)
SoleProducer == \E p \in Producers : Producers = {p}

(* The slot reached from slot 0 in i steps, for i below 2 * Size. *)
Wrap(i) == IF i < Size THEN i ELSE i - Size

(* A process has moved a character and not yet the index. *)
Fetched == \E p \in Consumers : pc[p] = "get_out"
Stored  == \E p \in Producers : pc[p] = "put_in"

(* The slot of the oldest character not fetched yet. *)
HeadSlot == IF Fetched THEN Wrap(out + 1) ELSE out

(* How many characters the indices show: one that is stored while in has not *)
(* moved is not shown yet, one that is fetched while out has not is shown.   *)
Shown == Occupied + (IF Fetched THEN 1 ELSE 0) - (IF Stored THEN 1 ELSE 0)

(* The indices agree with the number of characters, and nextPos is what in   *)
(* will be.  With two producers it is not, because nextPos is computed before *)
(* the lock is taken (library.c:155).                                        *)
IndicesShow ==
  /\ \A p \in Producers : pc[p] \in {"put_lock", "put_store", "put_in"}
                            => nextPos[p] = (in + 1) % Size
  /\ in = Wrap(out + Shown)

(* "Lock the shared memory": the occupied slots hold, in order, the          *)
(* characters that were put and not fetched.  With two producers one is      *)
(* overwritten: the second stores at in as it is under the lock, but then    *)
(* sets in to the stale nextPos, which does not move it, and the next        *)
(* character is stored over that one.                                        *)
SlotsHold ==
  \A k \in 0 .. Size - 1 : k < Occupied =>
    buf[Wrap(HeadSlot + k)] = accepted[Len(delivered) + k + 1]

(* With one producer the indices and the content of the slots are those of   *)
(* the characters put and not fetched, at each step of a put or a get.       *)
RingInv == IndicesShow /\ SlotsHold
================================================================================
