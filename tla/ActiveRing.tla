------------------------------- MODULE ActiveRing ------------------------------
(***************************************************************************)
(* buf_put and buf_get of hw4/active/library.c on an initialised segment:  *)
(* a ring in shared memory between one sender and one receiver, with busy  *)
(* waiting instead of semaphores.  One action per access to shared memory, *)
(* in program order; each polling loop is an action that waits for its     *)
(* exit condition.  The flag mutex is tested and set in separate accesses. *)
(***************************************************************************)
EXTENDS Integers, Sequences

CONSTANTS
  Data,       \* characters
  Empty,      \* the content of a slot nobody wrote
  Size,       \* shm_segment->size: buf_init's argument plus one
  MaxPuts     \* bound on the number of buf_put calls

ASSUME SizeAssumption == Size \in Nat /\ Size > 1
ASSUME CallsAssumption == MaxPuts \in Nat
ASSUME EmptyAssumption == Empty \notin Data

VARIABLES
  in, out, mutex, buf,  \* the struct in shared memory
  putPc, getPc,         \* where the sender and the receiver are
  nextPos, c,           \* locals of buf_put
  puts,                 \* number of buf_put calls so far
  accepted, delivered   \* history: characters stored, characters fetched

putLocals == <<nextPos, c, puts>>
ringVars == <<in, out, mutex, buf, putPc, getPc, nextPos, c, puts, accepted, delivered>>

RingInit ==
  /\ in = 0 /\ out = 0 /\ mutex = 0
  /\ buf = [i \in 0 .. Size - 1 |-> Empty]
  /\ putPc = "idle" /\ getPc = "wait"
  /\ nextPos = 0 /\ c = Empty /\ puts = 0
  /\ accepted = <<>> /\ delivered = <<>>

--------------------------------------------------------------------------------
(* buf_put(char c) *)
PutCall ==
  /\ putPc = "idle" /\ puts < MaxPuts
  /\ c' \in Data /\ puts' = puts + 1 /\ putPc' = "next"
  /\ UNCHANGED <<in, out, mutex, buf, getPc, nextPos, accepted, delivered>>

PutNext ==
  /\ putPc = "next"
  /\ nextPos' = (in + 1) % Size /\ putPc' = "wait"
  /\ UNCHANGED <<in, out, mutex, buf, getPc, c, puts, accepted, delivered>>

(* Mutant: buf_put does not wait for an empty slot. *)
PutWaitForNothing ==
  /\ putPc = "wait"
  /\ putPc' = "test"
  /\ UNCHANGED <<in, out, mutex, buf, getPc, putLocals, accepted, delivered>>

PutWait ==
  /\ putPc = "wait" /\ out # nextPos
  /\ putPc' = "test"
  /\ UNCHANGED <<in, out, mutex, buf, getPc, putLocals, accepted, delivered>>

PutTest ==
  /\ putPc = "test" /\ mutex # 1
  /\ putPc' = "set"
  /\ UNCHANGED <<in, out, mutex, buf, getPc, putLocals, accepted, delivered>>

PutSet ==
  /\ putPc = "set"
  /\ mutex' = 1 /\ putPc' = "store"
  /\ UNCHANGED <<in, out, buf, getPc, putLocals, accepted, delivered>>

(* Mutant: the character goes to the next position, before in has moved there. *)
PutStoreAtNext ==
  /\ putPc = "store"
  /\ buf' = [buf EXCEPT ![nextPos] = c]
  /\ accepted' = Append(accepted, c)
  /\ putPc' = "in"
  /\ UNCHANGED <<in, out, mutex, getPc, putLocals, delivered>>

PutStore ==
  /\ putPc = "store"
  /\ buf' = [buf EXCEPT ![in] = c]
  /\ accepted' = Append(accepted, c)
  /\ putPc' = "in"
  /\ UNCHANGED <<in, out, mutex, getPc, putLocals, delivered>>

PutIn ==
  /\ putPc = "in"
  /\ in' = nextPos /\ putPc' = "clear"
  /\ UNCHANGED <<out, mutex, buf, getPc, putLocals, accepted, delivered>>

PutClear ==
  /\ putPc = "clear"
  /\ mutex' = 0 /\ putPc' = "idle"
  /\ UNCHANGED <<in, out, buf, getPc, putLocals, accepted, delivered>>

--------------------------------------------------------------------------------
(* buf_get(char *c), which receiver.c calls in a loop *)

(* Mutant: a positive difference is asked for, which a wrapped in never has. *)
GetWaitAhead ==
  /\ getPc = "wait" /\ in - out > 0
  /\ getPc' = "test"
  /\ UNCHANGED <<in, out, mutex, buf, putPc, putLocals, accepted, delivered>>

GetWait ==
  /\ getPc = "wait" /\ in - out # 0
  /\ getPc' = "test"
  /\ UNCHANGED <<in, out, mutex, buf, putPc, putLocals, accepted, delivered>>

GetTest ==
  /\ getPc = "test" /\ mutex # 1
  /\ getPc' = "set"
  /\ UNCHANGED <<in, out, mutex, buf, putPc, putLocals, accepted, delivered>>

GetSet ==
  /\ getPc = "set"
  /\ mutex' = 1 /\ getPc' = "fetch"
  /\ UNCHANGED <<in, out, buf, putPc, putLocals, accepted, delivered>>

GetFetch ==
  /\ getPc = "fetch"
  /\ delivered' = Append(delivered, buf[out])
  /\ getPc' = "out"
  /\ UNCHANGED <<in, out, mutex, buf, putPc, putLocals, accepted>>

GetOut ==
  /\ getPc = "out"
  /\ out' = (out + 1) % Size /\ getPc' = "clear"
  /\ UNCHANGED <<in, mutex, buf, putPc, putLocals, accepted, delivered>>

(* Mutant: buf_get leaves the flag set. *)
GetClearForgotten ==
  /\ getPc = "clear"
  /\ getPc' = "wait"
  /\ UNCHANGED <<in, out, mutex, buf, putPc, putLocals, accepted, delivered>>

GetClear ==
  /\ getPc = "clear"
  /\ mutex' = 0 /\ getPc' = "wait"
  /\ UNCHANGED <<in, out, buf, putPc, putLocals, accepted, delivered>>

--------------------------------------------------------------------------------
PutStep == PutNext \/ PutWait \/ PutTest \/ PutSet \/ PutStore \/ PutIn \/ PutClear
GetStep == GetWait \/ GetTest \/ GetSet \/ GetFetch \/ GetOut \/ GetClear

RingNext == PutCall \/ PutStep \/ GetStep

RingSpec == RingInit /\ [][RingNext]_ringVars

(* Both processes keep running and look again after each usleep.  A look may *)
(* always come at the wrong moment, so fairness is weak: only a condition    *)
(* that stays true must be noticed.                                          *)
FairRingSpec == RingSpec /\ WF_ringVars(PutStep) /\ WF_ringVars(GetStep)

--------------------------------------------------------------------------------
(* Type invariant. *)
Slots == 0 .. Size - 1
RingTypeOK ==
  /\ in \in Slots /\ out \in Slots /\ nextPos \in Slots
  /\ mutex \in {0, 1}
  /\ buf \in [Slots -> Data \cup {Empty}]
  /\ putPc \in {"idle", "next", "wait", "test", "set", "store", "in", "clear"}
  /\ getPc \in {"wait", "test", "set", "fetch", "out", "clear"}
  /\ c \in Data \cup {Empty} /\ (putPc # "idle" => c \in Data)
  /\ puts \in Nat
  /\ accepted \in Seq(Data) /\ delivered \in Seq(Data \cup {Empty})

Occupied == Len(accepted) - Len(delivered)

(* The ring implements a FIFO channel of Size - 1 characters, the number     *)
(* buf_init was asked for, although its two critical sections overlap.       *)
Fifo == INSTANCE BoundedFifo
          WITH Capacity <- Size - 1, sent <- accepted, received <- delivered
ImplementsFifo == Fifo!Spec

(* Every buf_put that begins returns and every character is read, with weak  *)
(* fairness alone: each side's polling stops being disturbed because the     *)
(* other runs into a full or an empty ring.                                  *)
EveryCharDelivered ==
  /\ putPc # "idle" ~> putPc = "idle"
  /\ \A n \in 1 .. MaxPuts : puts >= n ~> Len(delivered) >= n

--------------------------------------------------------------------------------
(* The inductive invariant of ActiveProofs.                                  *)

(* The slot reached from slot 0 in i steps, for i below 2 * Size. *)
Wrap(i) == IF i < Size THEN i ELSE i - Size

(* The slot of the oldest character not fetched yet. *)
HeadSlot == IF getPc = "out" THEN Wrap(out + 1) ELSE out

(* How many characters the indices show: one that is stored while in has not *)
(* moved is not shown yet, one that is fetched while out has not is shown.   *)
Shown == Occupied + (IF getPc = "out" THEN 1 ELSE 0) - (IF putPc = "in" THEN 1 ELSE 0)

(* Nobody but the sender moves in and nobody but the receiver moves out, so  *)
(* what each has seen of the other's index only gets better: there is a free *)
(* slot once the sender has seen one, and a character once the receiver has. *)
SlotSeen == putPc \in {"test", "set", "store", "in"} => Shown < Size - 1
CharSeen == getPc \in {"test", "set", "fetch", "out"} => Shown > 0

IndicesShow ==
  /\ putPc \in {"wait", "test", "set", "store", "in"} => nextPos = Wrap(in + 1)
  /\ Shown \in 0 .. Size - 1
  /\ in = Wrap(out + Shown)

(* The occupied slots hold, in order, the characters not fetched yet. *)
SlotsHold ==
  \A k \in 0 .. Size - 1 : k < Occupied =>
    buf[Wrap(HeadSlot + k)] = accepted[Len(delivered) + k + 1]

RingInv == IndicesShow /\ SlotSeen /\ CharSeen /\ SlotsHold
================================================================================
