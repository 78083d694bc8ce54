----------------------------- MODULE ActiveProofs ------------------------------
(***************************************************************************)
(* Machine-checked theorems about hw4/active.                              *)
(*                                                                         *)
(* ActiveRing, for every size of the ring, every alphabet and every number *)
(* of calls: although the flag mutex does not exclude anybody, one sender  *)
(* and one receiver get a FIFO channel.                                    *)
(*                                                                         *)
(* ActiveSession: its types, for any numbers of senders and receivers; and *)
(* for one of each, with every size of the ring, every alphabet, every     *)
(* length of what is typed and every number of kills, that what was typed  *)
(* arrives, and that an orderly session is a run of ActiveRing; for one    *)
(* sender and any number of receivers, who may divide by a size of zero.   *)
(***************************************************************************)
EXTENDS ActiveRing, ActiveSession, FiniteSetTheorems, TLAPS

--------------------------------------------------------------------------------
(* The ring of ActiveRing.                                                   *)

(* Advancing an index modulo Size is a conditional reset. *)
LEMMA ModSucc ==
  ASSUME NEW i \in Slots
  PROVE  (i + 1) % Size = Wrap(i + 1) /\ Wrap(i + 1) \in Slots
  <1>1. CASE i + 1 < Size
    BY <1>1, SizeAssumption DEF Wrap, Slots
  <1>2. CASE i + 1 = Size
    BY <1>2, SizeAssumption DEF Wrap, Slots
  <1>3. QED
    BY <1>1, <1>2, SizeAssumption DEF Slots

(* The initial state is well typed, and every step keeps it so.              *)
LEMMA InitRingTypes == RingInit => RingTypeOK
  BY SizeAssumption DEF RingInit, RingTypeOK, Slots

(* Every step of the ring keeps the types.                                   *)
LEMMA StepRingTypes == RingTypeOK /\ [RingNext]_ringVars => RingTypeOK'
  <1> SUFFICES ASSUME RingTypeOK, [RingNext]_ringVars PROVE RingTypeOK'
    OBVIOUS
  <1> USE SizeAssumption, CallsAssumption DEF RingTypeOK, putLocals
  <1>1. ASSUME PutCall PROVE RingTypeOK'
    BY <1>1 DEF PutCall
  <1>2. ASSUME PutNext PROVE RingTypeOK'
    BY <1>2, ModSucc DEF PutNext
  <1>3. ASSUME PutWait \/ PutTest \/ PutSet \/ PutIn \/ PutClear PROVE RingTypeOK'
    BY <1>3 DEF PutWait, PutTest, PutSet, PutIn, PutClear
  <1>4. ASSUME PutStore PROVE RingTypeOK'
    BY <1>4 DEF PutStore
  <1>5. ASSUME GetWait \/ GetTest \/ GetSet \/ GetClear PROVE RingTypeOK'
    BY <1>5 DEF GetWait, GetTest, GetSet, GetClear
  <1>6. ASSUME GetFetch PROVE RingTypeOK'
    BY <1>6 DEF GetFetch
  <1>7. ASSUME GetOut PROVE RingTypeOK'
    BY <1>7, ModSucc DEF GetOut
  <1>8. CASE UNCHANGED ringVars
    BY <1>8 DEF ringVars
  <1>9. QED
    BY <1>1, <1>2, <1>3, <1>4, <1>5, <1>6, <1>7, <1>8
       DEF RingNext, PutStep, GetStep

(* Type correctness: in particular the indices stay inside the ring. *)
THEOREM RingTypeCorrect == RingSpec => []RingTypeOK
  BY InitRingTypes, StepRingTypes, PTL DEF RingSpec

--------------------------------------------------------------------------------
(* Index arithmetic. *)
LEMMA WrapInSlots ==
  ASSUME NEW i \in Slots, NEW n \in 0 .. Size
  PROVE  Wrap(i + n) \in Slots
  BY SizeAssumption DEF Wrap, Slots

(* Walking n steps and one more, from either end. *)
LEMMA WrapStep ==
  ASSUME NEW i \in Slots, NEW n \in 0 .. Size - 1
  PROVE  /\ Wrap(Wrap(i + n) + 1) = Wrap(i + (n + 1))
         /\ Wrap(Wrap(i + 1) + n) = Wrap(i + (n + 1))
  BY SizeAssumption DEF Wrap, Slots

(* Different numbers of steps below Size end in different slots. *)
LEMMA WrapDistinct ==
  ASSUME NEW i \in Slots, NEW m \in 0 .. Size - 1, NEW n \in 0 .. Size - 1, m # n
  PROVE  Wrap(i + m) # Wrap(i + n)
  BY SizeAssumption DEF Wrap, Slots

--------------------------------------------------------------------------------
(* An empty ring shows no character.                                         *)
LEMMA InitRingInv == RingInit => RingInv
  BY SizeAssumption
  DEF RingInit, RingInv, IndicesShow, SlotSeen, CharSeen, SlotsHold, Shown, Occupied,
      Wrap

(* What the counting needs to know about types. *)
LEMMA CountTypes ==
  ASSUME RingTypeOK
  PROVE  Occupied \in Int /\ Shown \in Int
         /\ Len(accepted) \in Nat /\ Len(delivered) \in Nat
  BY DEF RingTypeOK, Occupied, Shown

(* A step that moves neither characters nor indices, and that enters a state *)
(* only after seeing what the state needs, keeps the invariant.              *)
LEMMA QuietStep ==
  ASSUME RingTypeOK, RingInv,
         UNCHANGED <<in, out, buf, accepted, delivered>>,
         putPc = "in" <=> putPc' = "in", getPc = "out" <=> getPc' = "out",
         putPc' \in {"wait", "test", "set", "store", "in"} => nextPos' = Wrap(in + 1),
         putPc' \in {"test", "set", "store", "in"} => Shown < Size - 1,
         getPc' \in {"test", "set", "fetch", "out"} => Shown > 0
  PROVE  RingInv'
  <1>1. Shown' = Shown /\ HeadSlot' = HeadSlot /\ Occupied' = Occupied
    BY DEF Shown, HeadSlot, Occupied
  <1>2. QED
    BY <1>1 DEF RingInv, IndicesShow, SlotSeen, CharSeen, SlotsHold

(* Where the sender is about to write is just behind the newest character. *)
LEMMA NewSlot ==
  ASSUME RingTypeOK, RingInv, putPc = "store"
  PROVE  /\ Occupied \in 0 .. Size - 2 /\ HeadSlot \in Slots
         /\ in = Wrap(HeadSlot + Occupied)
  <1> USE DEF RingInv, IndicesShow, SlotSeen, CharSeen
  <1>1. CASE getPc = "out"
    <2>1. Occupied = Shown - 1 /\ HeadSlot = Wrap(out + 1)
      BY <1>1, CountTypes DEF Shown, HeadSlot
    <2>2. Shown - 1 \in 0 .. Size - 1 /\ Shown \in 1 .. Size - 2 /\ out \in Slots
      BY <1>1, SizeAssumption DEF RingTypeOK
    <2>3. Wrap(Wrap(out + 1) + (Shown - 1)) = Wrap(out + ((Shown - 1) + 1))
      BY <2>2, WrapStep
    <2>4. (Shown - 1) + 1 = Shown /\ Wrap(out + 1) \in Slots
      BY <2>2, ModSucc
    <2>5. in = Wrap(HeadSlot + Occupied)
      BY <2>1, <2>3, <2>4
    <2>6. QED
      BY <2>1, <2>2, <2>4, <2>5, SizeAssumption
  <1>2. CASE getPc # "out"
    <2>1. Occupied = Shown /\ HeadSlot = out
      BY <1>2, CountTypes DEF Shown, HeadSlot
    <2>2. QED
      BY <2>1, SizeAssumption DEF RingTypeOK
  <1>3. QED
    BY <1>1, <1>2

(* buf_put stores: one character more, which in does not show yet.           *)
LEMMA PutStoreKeeps == RingTypeOK /\ RingInv /\ PutStore => RingInv'
  <1> SUFFICES ASSUME RingTypeOK, RingInv, PutStore PROVE RingInv'
    OBVIOUS
  <1>1. /\ putPc = "store" /\ putPc' = "in" /\ buf' = [buf EXCEPT ![in] = c]
        /\ accepted' = Append(accepted, c)
        /\ UNCHANGED <<in, out, getPc, nextPos, delivered>>
    BY DEF PutStore, putLocals
  <1>2. Len(accepted') = Len(accepted) + 1
    BY <1>1 DEF RingTypeOK
  <1>3. Occupied' = Occupied + 1
    BY <1>1, <1>2, CountTypes DEF Occupied
  <1>4. Shown' = Shown /\ HeadSlot' = HeadSlot
    BY <1>1, <1>3, CountTypes DEF Shown, HeadSlot
  <1>5. IndicesShow' /\ SlotSeen' /\ CharSeen'
    BY <1>1, <1>4 DEF RingInv, IndicesShow, SlotSeen, CharSeen
  <1>6. ASSUME NEW k \in 0 .. Size - 1, k < Occupied'
        PROVE  buf'[Wrap(HeadSlot' + k)] = accepted'[Len(delivered') + k + 1]
    <2>1. /\ Occupied \in 0 .. Size - 2 /\ HeadSlot \in Slots
          /\ in = Wrap(HeadSlot + Occupied)
      BY <1>1, NewSlot
    <2>2. CASE k = Occupied
      <3>1. buf'[in] = c
        BY <1>1 DEF RingTypeOK
      <3>2. Len(delivered') + k + 1 = Len(accepted) + 1
        BY <1>1, <2>2, CountTypes DEF Occupied
      <3>3. accepted'[Len(accepted) + 1] = c
        BY <1>1 DEF RingTypeOK
      <3>4. QED
        BY <1>4, <2>1, <2>2, <3>1, <3>2, <3>3
    <2>3. CASE k # Occupied
      <3>1. k < Occupied
        BY <1>3, <1>6, <2>1, <2>3, SizeAssumption
      <3>2. Wrap(HeadSlot + k) # in
        <4>1. Occupied \in 0 .. Size - 1
          BY <2>1, SizeAssumption
        <4>2. QED
          BY <2>1, <2>3, <4>1, WrapDistinct
      <3>3. k \in 0 .. Size
        BY SizeAssumption
      <3>4. Wrap(HeadSlot + k) \in Slots
        BY <2>1, <3>3, WrapInSlots
      <3>5. buf'[Wrap(HeadSlot + k)] = buf[Wrap(HeadSlot + k)]
        BY <1>1, <3>2, <3>4 DEF RingTypeOK
      <3>6. Len(delivered) + k + 1 \in 1 .. Len(accepted)
        BY <3>1, CountTypes DEF Occupied
      <3>7. accepted'[Len(delivered) + k + 1] = accepted[Len(delivered) + k + 1]
        BY <1>1, <3>6 DEF RingTypeOK
      <3>8. QED
        BY <1>1, <1>4, <3>1, <3>5, <3>7 DEF RingInv, SlotsHold
    <2>4. QED
      BY <2>2, <2>3
  <1>7. QED
    BY <1>5, <1>6 DEF RingInv, SlotsHold

(* buf_put moves in: the character shows.                                    *)
LEMMA PutInKeeps == RingTypeOK /\ RingInv /\ PutIn => RingInv'
  <1> SUFFICES ASSUME RingTypeOK, RingInv, PutIn PROVE RingInv'
    OBVIOUS
  <1>1. /\ putPc = "in" /\ putPc' = "clear" /\ in' = nextPos
        /\ UNCHANGED <<out, buf, getPc, accepted, delivered>>
    BY DEF PutIn, putLocals
  <1>2. Shown \in 0 .. Size - 2 /\ in = Wrap(out + Shown) /\ nextPos = Wrap(in + 1)
    BY <1>1, SizeAssumption DEF RingInv, IndicesShow, SlotSeen
  <1>3. Shown' = Shown + 1 /\ HeadSlot' = HeadSlot /\ Occupied' = Occupied
    BY <1>1, CountTypes DEF Shown, HeadSlot, Occupied
  <1>4. in' = Wrap(out + (Shown + 1))
    <2>1. Shown \in 0 .. Size - 1 /\ out \in Slots
      BY <1>2, SizeAssumption DEF RingTypeOK
    <2>2. QED
      BY <1>1, <1>2, <2>1, WrapStep
  <1>5. IndicesShow' /\ SlotSeen' /\ CharSeen'
    BY <1>1, <1>2, <1>3, <1>4, SizeAssumption
       DEF IndicesShow, SlotSeen, CharSeen
  <1>6. QED
    BY <1>1, <1>3, <1>5 DEF RingInv, SlotsHold

(* buf_get fetches the oldest character, which out still shows.              *)
LEMMA GetFetchKeeps == RingTypeOK /\ RingInv /\ GetFetch => RingInv'
  <1> SUFFICES ASSUME RingTypeOK, RingInv, GetFetch PROVE RingInv'
    OBVIOUS
  <1>1. /\ getPc = "fetch" /\ getPc' = "out"
        /\ delivered' = Append(delivered, buf[out])
        /\ UNCHANGED <<in, out, buf, putPc, nextPos, accepted>>
    BY DEF GetFetch, putLocals
  <1>2. Len(delivered') = Len(delivered) + 1
    BY <1>1 DEF RingTypeOK
  <1>3. Occupied' = Occupied - 1
    BY <1>1, <1>2, CountTypes DEF Occupied
  <1>4. Shown' = Shown /\ HeadSlot = out /\ HeadSlot' = Wrap(out + 1)
    BY <1>1, <1>3, CountTypes DEF Shown, HeadSlot
  <1>5. IndicesShow' /\ SlotSeen' /\ CharSeen'
    BY <1>1, <1>4 DEF RingInv, IndicesShow, SlotSeen, CharSeen
  <1>6. ASSUME NEW k \in 0 .. Size - 1, k < Occupied'
        PROVE  buf'[Wrap(HeadSlot' + k)] = accepted'[Len(delivered') + k + 1]
    <2>1. Occupied <= Shown + 1 /\ Shown \in 0 .. Size - 1
      BY <1>1, CountTypes DEF RingInv, IndicesShow, Shown
    <2>2. k + 1 \in 0 .. Size - 1 /\ k + 1 < Occupied
      BY <1>3, <1>6, <2>1, CountTypes, SizeAssumption
    <2>3. Wrap(Wrap(out + 1) + k) = Wrap(out + (k + 1))
      BY WrapStep DEF RingTypeOK
    <2>4. buf[Wrap(out + (k + 1))] = accepted[Len(delivered) + (k + 1) + 1]
      BY <1>4, <2>2 DEF RingInv, SlotsHold
    <2>5. Len(delivered') + k + 1 = Len(delivered) + (k + 1) + 1
      BY <1>2, CountTypes
    <2>6. QED
      BY <1>1, <1>4, <2>3, <2>4, <2>5
  <1>7. QED
    BY <1>5, <1>6 DEF RingInv, SlotsHold

(* buf_get moves out: the slot is free.                                      *)
LEMMA GetOutKeeps == RingTypeOK /\ RingInv /\ GetOut => RingInv'
  <1> SUFFICES ASSUME RingTypeOK, RingInv, GetOut PROVE RingInv'
    OBVIOUS
  <1>1. /\ getPc = "out" /\ getPc' = "clear" /\ out' = (out + 1) % Size
        /\ UNCHANGED <<in, buf, putPc, nextPos, accepted, delivered>>
    BY DEF GetOut, putLocals
  <1>2. Shown \in 1 .. Size - 1 /\ in = Wrap(out + Shown)
    BY <1>1, SizeAssumption DEF RingInv, IndicesShow, CharSeen
  <1>3. out' = Wrap(out + 1) /\ out \in Slots
    BY <1>1, ModSucc DEF RingTypeOK
  <1>4. Shown' = Shown - 1 /\ HeadSlot' = HeadSlot /\ Occupied' = Occupied
    BY <1>1, <1>3, CountTypes DEF Shown, HeadSlot, Occupied
  <1>5. Shown - 1 \in 0 .. Size - 1 /\ (Shown - 1) + 1 = Shown
    BY <1>2, SizeAssumption
  <1>6. in' = Wrap(out' + Shown')
    BY <1>1, <1>2, <1>3, <1>4, <1>5, WrapStep
  <1>7. IndicesShow' /\ SlotSeen' /\ CharSeen'
    BY <1>1, <1>2, <1>4, <1>5, <1>6, SizeAssumption
       DEF RingInv, IndicesShow, SlotSeen, CharSeen
  <1>8. QED
    BY <1>1, <1>4, <1>7 DEF RingInv, SlotsHold

(* Every step of the ring keeps RingInv.                                     *)
LEMMA StepRingInv == RingTypeOK /\ RingInv /\ [RingNext]_ringVars => RingInv'
  <1> SUFFICES ASSUME RingTypeOK, RingInv, [RingNext]_ringVars PROVE RingInv'
    OBVIOUS
  <1> USE DEF putLocals
  <1>1. RingInv => IndicesShow /\ SlotSeen /\ CharSeen
    BY DEF RingInv
  <1>2. in \in Slots /\ out \in Slots /\ Shown \in Int
    BY CountTypes DEF RingTypeOK
  <1>3. ASSUME PutCall \/ PutNext \/ PutTest \/ PutSet \/ PutClear PROVE RingInv'
    BY <1>1, <1>2, <1>3, QuietStep, ModSucc
       DEF PutCall, PutNext, PutTest, PutSet, PutClear, IndicesShow, SlotSeen, CharSeen
  <1>4. ASSUME PutWait PROVE RingInv'
    <2>1. nextPos = Wrap(Wrap(out + Shown) + 1) /\ Shown \in 0 .. Size - 1
      BY <1>1, <1>4 DEF PutWait, IndicesShow
    <2>2. nextPos = Wrap(out + (Shown + 1))
      BY <1>2, <2>1, WrapStep
    <2>3. Shown # Size - 1
      BY <1>2, <1>4, <2>2, SizeAssumption DEF PutWait, Wrap, Slots
    <2>4. Shown < Size - 1
      BY <2>1, <2>3, SizeAssumption
    <2>5. QED
      BY <1>1, <1>4, <2>4, QuietStep DEF PutWait, IndicesShow, CharSeen
  <1>5. ASSUME GetWait PROVE RingInv'
    <2>1. Shown # 0
      BY <1>1, <1>2, <1>5, SizeAssumption DEF GetWait, IndicesShow, Wrap, Slots
    <2>2. Shown > 0
      BY <1>1, <2>1, SizeAssumption DEF IndicesShow
    <2>3. QED
      BY <1>1, <1>5, <2>2, QuietStep DEF GetWait, IndicesShow, SlotSeen
  <1>6. ASSUME GetTest \/ GetSet \/ GetClear PROVE RingInv'
    BY <1>1, <1>6, QuietStep
       DEF GetTest, GetSet, GetClear, IndicesShow, SlotSeen, CharSeen
  <1>7. CASE UNCHANGED ringVars
    BY <1>1, <1>7, QuietStep DEF ringVars, IndicesShow, SlotSeen, CharSeen
  <1>8. QED
    BY <1>3, <1>4, <1>5, <1>6, <1>7, PutStoreKeeps, PutInKeeps, GetFetchKeeps,
       GetOutKeeps DEF RingNext, PutStep, GetStep

(* The occupied slots always hold, in order, the characters not read yet.    *)
THEOREM RingHoldsChars == RingSpec => []RingInv
  <1>1. RingSpec => [](RingTypeOK /\ RingInv)
    BY InitRingTypes, StepRingTypes, InitRingInv, StepRingInv, PTL DEF RingSpec
  <1>2. QED
    BY <1>1, PTL

--------------------------------------------------------------------------------
(* Every step of the ring is one of the channel, or none.                    *)
LEMMA RefinementStep == RingTypeOK /\ RingInv /\ [RingNext]_ringVars => [Fifo!Next]_Fifo!vars
  <1> SUFFICES ASSUME RingTypeOK, RingInv, [RingNext]_ringVars PROVE [Fifo!Next]_Fifo!vars
    OBVIOUS
  <1> USE DEF Fifo!vars
  <1>1. ASSUME PutStore PROVE [Fifo!Next]_Fifo!vars
    <2>1. Len(accepted) - Len(delivered) < Size - 1
      BY <1>1, NewSlot, SizeAssumption DEF PutStore, Occupied
    <2>2. Fifo!Send(c) /\ c \in Data
      BY <1>1, <2>1 DEF PutStore, Fifo!Send, RingTypeOK
    <2>3. QED
      BY <2>2 DEF Fifo!Next
  <1>2. ASSUME GetFetch PROVE [Fifo!Next]_Fifo!vars
    <2>1. getPc = "fetch" /\ delivered' = Append(delivered, buf[out])
          /\ accepted' = accepted
      BY <1>2 DEF GetFetch
    <2>2. HeadSlot = out /\ Occupied > 0
      BY <2>1, CountTypes DEF HeadSlot, Shown, RingInv, CharSeen
    <2>3. Wrap(out + 0) = out
      BY SizeAssumption DEF RingTypeOK, Wrap, Slots
    <2>4. 0 \in 0 .. Size - 1 /\ Len(delivered) + 0 + 1 = Len(delivered) + 1
      BY SizeAssumption, CountTypes
    <2>5. buf[out] = accepted[Len(delivered) + 1]
      BY <2>2, <2>3, <2>4 DEF RingInv, SlotsHold
    <2>6. Len(delivered) < Len(accepted)
      BY <2>2, CountTypes DEF Occupied
    <2>7. Fifo!Receive
      BY <2>1, <2>5, <2>6 DEF Fifo!Receive
    <2>8. QED
      BY <2>7 DEF Fifo!Next
  <1>3. CASE UNCHANGED <<accepted, delivered>>
    BY <1>3
  <1>4. PutStore \/ GetFetch \/ UNCHANGED <<accepted, delivered>>
    BY DEF RingNext, PutStep, GetStep, PutCall, PutNext, PutWait, PutTest, PutSet, PutIn,
           PutClear, GetWait, GetTest, GetSet, GetOut, GetClear, ringVars
  <1>5. QED
    BY <1>1, <1>2, <1>3, <1>4

(* The busy-waiting ring implements a FIFO channel of Size - 1 characters:   *)
(* buf_put and buf_get lose, repeat, overwrite and reorder nothing, for one  *)
(* sender and one receiver, although their critical sections may overlap.    *)
THEOREM RingImplementsFifo == RingSpec => ImplementsFifo
  <1>1. RingInit => Fifo!Init
    BY DEF RingInit, Fifo!Init
  <1>2. RingSpec => [](RingTypeOK /\ RingInv)
    BY InitRingTypes, StepRingTypes, InitRingInv, StepRingInv, PTL DEF RingSpec
  <1>3. QED
    BY <1>1, <1>2, RefinementStep, PTL DEF RingSpec, ImplementsFifo, Fifo!Spec

--------------------------------------------------------------------------------
(* The session of ActiveSession.                                             *)

(* Who made a segment; the labels of a program that is over or nearly so,    *)
(* and those at which it surely has a segment attached.                      *)
Makers == {p \in Procs : fresh[p]}
Leaving == InDestroy \cup Ended
Mapped == InStruct \cup InPut \cup InGet \cup {"detach"}

(* The types of the session: of the kernel's tables, of the variables of the *)
(* programs, and what a program's label says of its segment.  Every segment  *)
(* has a program that made it.                                               *)
SegTypes ==
  /\ segs \in Seq(Segment) /\ segKey \in 0 .. Len(segs)
  /\ attached \in [Procs -> 0 .. Len(segs)] /\ shmid \in [Procs -> 0 .. Len(segs)]
VarTypes ==
  /\ pc \in [Procs -> Labels] /\ fresh \in [Procs -> BOOLEAN]
  /\ position \in [Procs -> 0 .. Room] /\ char \in [Procs -> Chars \cup {Nul}]
  /\ typed \in [Senders -> Seq(Chars)] /\ got \in [Receivers -> Seq(Chars \cup {Nul})]
  /\ crashes \in 0 .. MaxCrashes
  /\ breaches \subseteq {"half_made_ring", "early_quit"}
Place(p) ==
  /\ pc[p] \in Unattached => attached[p] = None
  /\ pc[p] \in {"start", "shm_existing"} => ~ fresh[p]
  /\ pc[p] \in InStruct => fresh[p]
  /\ pc[p] = "attach" => shmid[p] # None
  /\ pc[p] \in Mapped => attached[p] # None
  /\ attached[p] # None => attached[p] = shmid[p]
  /\ pc[p] \in InPut => p \in Senders
  /\ pc[p] \in InGet => p \in Receivers
  /\ pc[p] \in InPut => char[p] \in Chars
TypeInv ==
  /\ SegTypes /\ VarTypes /\ Len(segs) = Cardinality(Makers)
  /\ \A p \in Procs : Place(p)

--------------------------------------------------------------------------------
(* The inductive invariant of a session of one sender and one receiver.      *)
Pair(s, r) == Senders = {s} /\ Receivers = {r}

(* No sender came upon a ring that was still being made. *)
Filled == "half_made_ring" \notin breaches

(* The sender gave its segment's key away. *)
Gone == {"detach", "exit"} \cup Ended

(* The key leads to the only segment, if there is one. *)
Standing ==
  /\ Len(segs) <= 1 /\ segKey = Len(segs)
  /\ \A g \in 1 .. Len(segs) : ~ segs[g].removed

QuitTyped(s) == Len(typed[s]) > 0 /\ typed[s][Len(typed[s])] = Quit

(* Whoever is not in yet finds the segment of the other, as long as the      *)
(* sender has not given the key away; a receiver that comes later makes a    *)
(* ring of its own, on which nothing ever happens.                           *)
Keys(s, r) ==
  /\ \A p \in Procs : pc[p] # "start" => Len(segs) # 0
  /\ pc[s] \in Unattached => Standing
  /\ pc[s] \in {"loop"} \cup InStruct \cup InPut => attached[s] = 1
  /\ pc[r] \in Unattached /\ pc[s] \notin Gone => Standing
  /\ pc[r] = "loop" /\ attached[r] = None => pc[s] \in Gone /\ got[r] = <<>>
  /\ pc[r] \in Leaving \ {"killed"} => pc[s] \in Gone \/ QuitTyped(s)
  /\ Len(segs) > 1 =>
       /\ Len(segs) = 2 /\ pc[s] \in Gone /\ fresh[r] /\ shmid[r] = 2 /\ shmid[s] <= 1
       /\ pc[r] \in {"attach", "loop", "get_wait", "killed"} \cup InStruct
       /\ got[r] = <<>> /\ segs[2].in = 0 /\ segs[2].out = 0
       /\ ~ segs[2].removed /\ (pc[r] = "loop" => attached[r] # None)

(* While buf_init writes to the struct, nobody has used the ring: the writes *)
(* of its zeros change nothing.                                              *)
Making(p) == fresh[p] /\ shmid[p] = 1 /\ pc[p] \in InInit
Opening(s, r) ==
  /\ pc[s] \in {"start"} \cup InInit => typed[s] = <<>>
  /\ pc[r] \in {"start"} \cup InInit => got[r] = <<>>
  /\ \A p \in Procs : Making(p) =>
       /\ TheSegment.in = 0 /\ TheSegment.out = 0 /\ TheSegment.mutex = 0
       /\ typed[s] = <<>> /\ pc[r] \notin InGet \ {"get_wait"}
       /\ p = r => pc[s] \in Unattached \cup {"killed"}

(* 'q' is the last character typed. *)
Quits(s) ==
  /\ \A i \in 1 .. Len(typed[s]) : typed[s][i] = Quit =>
       i = Len(typed[s]) /\ pc[s] \in InPut \cup Leaving
  /\ pc[s] \in InPut => Len(typed[s]) > 0 /\ char[s] = typed[s][Len(typed[s])]
  /\ Len(typed[s]) <= MaxTyped
  /\ Len(typed[s]) = MaxTyped => typed[s][Len(typed[s])] = Quit

(* The slot reached from slot 0 in i steps, for i below twice their number. *)
Slot(i) == IF i <= Room THEN i ELSE i - (Room + 1)
One(label, L) == IF label \in L THEN 1 ELSE 0

(* The labels of buf_put before in has moved on, those after the wait, those *)
(* at which nextPos is known; of buf_get, those after the wait and those     *)
(* after the character is fetched.                                           *)
Holding    == BeforeStore \cup {"put_in"}
Storing    == {"put_test", "put_set", "put_store", "put_in"}
Positioned == {"put_wait"} \cup Storing
Taking     == {"get_test", "get_set", "get_fetch", "get_out"}
Handing    == {"get_out", "get_clear"}

(* m characters have come into the ring: how many of them the indices show,  *)
(* and the slot of the first one that is not fetched.                        *)
Shows(m, r) == m - Len(got[r]) + One(pc[r], {"get_out"})
First(r) == IF pc[r] = "get_out" THEN Slot(TheSegment.out + 1) ELSE TheSegment.out

(* The sender's side: m is all that it typed but the character in hand; one  *)
(* that was killed leaves that open.  The receiver's side.  The ring between *)
(* them, which a receiver killed between its fetch and its index may leave   *)
(* in any state: it fetches no more.                                         *)
Sent(m, s, r) ==
  /\ Len(got[r]) <= m /\ m <= Len(typed[s])
  /\ pc[s] \notin {"killed", "faulted"} =>
       m = Len(typed[s]) - One(pc[s], Holding)
  /\ TheSegment.size = 0 => m = 0 /\ pc[s] \notin InPut \ {"put_next"}
  /\ pc[s] \in Positioned =>
       position[s] = Slot(TheSegment.in + 1)
  /\ pc[s] = "put_in" => TheSegment.buf[TheSegment.in] = char[s]
Fetched(s, r) ==
  /\ IsPrefixOf(got[r], typed[s])
  /\ pc[r] \in Handing => Len(got[r]) > 0 /\ char[r] = got[r][Len(got[r])]
  /\ pc[r] # "faulted"
Between(m, s, r) == pc[r] # "killed" =>
  /\ Shows(m, r) \in 0 .. Room
  /\ TheSegment.in = Slot(TheSegment.out + Shows(m, r))
  /\ pc[s] \in Storing => Shows(m, r) < Room
  /\ pc[r] \in Taking => Shows(m, r) > 0
  /\ \A k \in 0 .. Room : k < m - Len(got[r]) =>
       TheSegment.buf[Slot(First(r) + k)] = typed[s][Len(got[r]) + k + 1]
RingAt(m, s, r) == Sent(m, s, r) /\ Fetched(s, r) /\ Between(m, s, r)

(* What holds while nobody came upon a half-made ring, also after kills. *)
FilledParts(s, r) ==
  /\ Keys(s, r) /\ Opening(s, r) /\ Quits(s)
  /\ \E m \in 0 .. Len(typed[s]) : RingAt(m, s, r)
FilledInv(s, r) == Filled => FilledParts(s, r)

(* What holds in an orderly session besides: there is one segment, both come *)
(* to it, the sender leaves after it typed 'q', the receiver after it        *)
(* fetched 'q', and a ring without a size has a maker who will write it.     *)
OrderlyParts(s, r) ==
  /\ Len(segs) <= 1
  /\ \A p \in Procs : pc[p] \notin {"killed", "faulted"}
  /\ QuitTyped(s) => pc[r] \notin Unattached
  /\ pc[s] \in Leaving => QuitTyped(s)
  /\ pc[r] = "loop" => attached[r] # None
  /\ pc[r] \in Leaving => Len(got[r]) > 0 /\ got[r][Len(got[r])] = Quit
  /\ Len(segs) # 0 /\ TheSegment.size = 0 =>
       \E p \in Procs : fresh[p] /\ pc[p] \in {"attach", "set_size"}
OrderlyInv(s, r) == Orderly => OrderlyParts(s, r)

--------------------------------------------------------------------------------
(* Types of the session. *)

(* There are finitely many programs. *)
LEMMA ProcsFinite == IsFiniteSet(Procs) /\ Cardinality(Procs) \in Nat
  BY ProgramAssumption, FS_Union, FS_CardinalityType DEF Procs

(* So is the set of those that made a segment, and it has at most as many. *)
LEMMA MakersFinite ==
  IsFiniteSet(Makers) /\ Cardinality(Makers) \in Nat
  /\ Cardinality(Makers) <= Cardinality(Procs)
  <1>1. Makers \subseteq Procs
    BY DEF Makers
  <1>2. QED
    BY <1>1, ProcsFinite, FS_Subset, FS_CardinalityType

(* A segment costs a maker. *)
LEMMA SessionTypeOK == ASSUME TypeInv PROVE TypeOK
  <1>1. segs \in Seq(Segment) /\ DOMAIN segs = 1 .. Len(segs) /\ Len(segs) \in Nat
        /\ Len(segs) <= Cardinality(Procs)
    BY MakersFinite DEF TypeInv, SegTypes
  <1>2. 1 .. Len(segs) \subseteq SegIds /\ 0 .. Len(segs) = DOMAIN segs \cup {None}
    BY <1>1, ProcsFinite DEF SegIds, None
  <1>3. /\ segKey \in DOMAIN segs \cup {None}
        /\ attached \in [Procs -> SegIds \cup {None}]
        /\ shmid \in [Procs -> SegIds \cup {None}]
    BY <1>1, <1>2 DEF TypeInv, SegTypes
  <1>4. \A g \in DOMAIN segs : segs[g] \in Segment
    BY <1>1
  <1>5. QED
    BY <1>1, <1>3, <1>4 DEF TypeOK, TypeInv, VarTypes

(* Who has a segment attached reads and writes a segment that exists. *)
LEMMA OwnSegment ==
  ASSUME TypeInv, NEW p \in Procs, attached[p] # None
  PROVE  attached[p] \in 1 .. Len(segs) /\ Seg(p) \in Segment
  <1>1. attached[p] \in 1 .. Len(segs) /\ segs \in Seq(Segment)
    BY DEF TypeInv, SegTypes, None
  <1>2. QED
    BY <1>1 DEF Seg

(* A write to a segment leaves the other segments alone. *)
LEMMA Replaced ==
  ASSUME TypeInv, NEW p \in Procs, attached[p] # None, NEW new \in Segment,
         segs' = [segs EXCEPT ![attached[p]] = new]
  PROVE  /\ segs' \in Seq(Segment) /\ Len(segs') = Len(segs)
         /\ segs'[attached[p]] = new
         /\ \A g \in 1 .. Len(segs) : g # attached[p] => segs'[g] = segs[g]
  BY OwnSegment DEF TypeInv, SegTypes

(* The writes to the struct, field by field. *)
LEMMA WroteSize ==
  ASSUME TypeInv, NEW p \in Procs, attached[p] # None, NEW v \in {0, Room + 1},
         Write(p, "size", v)
  PROVE  /\ segs' \in Seq(Segment) /\ Len(segs') = Len(segs)
         /\ segs'[attached[p]] = [Seg(p) EXCEPT !.size = v]
         /\ \A g \in 1 .. Len(segs) : g # attached[p] => segs'[g] = segs[g]
  <1> DEFINE new == [Seg(p) EXCEPT !.size = v]
  <1>1. new \in Segment
    BY OwnSegment DEF Segment
  <1>2. segs' = [segs EXCEPT ![attached[p]] = new]
    BY DEF Write, Seg
  <1> HIDE DEF new
  <1>3. QED
    BY <1>1, <1>2, Replaced DEF new

(* The same for in,                                                          *)
LEMMA WroteIn ==
  ASSUME TypeInv, NEW p \in Procs, attached[p] # None, NEW v \in 0 .. Room,
         Write(p, "in", v)
  PROVE  /\ segs' \in Seq(Segment) /\ Len(segs') = Len(segs)
         /\ segs'[attached[p]] = [Seg(p) EXCEPT !.in = v]
         /\ \A g \in 1 .. Len(segs) : g # attached[p] => segs'[g] = segs[g]
  <1> DEFINE new == [Seg(p) EXCEPT !.in = v]
  <1>1. new \in Segment
    BY OwnSegment DEF Segment
  <1>2. segs' = [segs EXCEPT ![attached[p]] = new]
    BY DEF Write, Seg
  <1> HIDE DEF new
  <1>3. QED
    BY <1>1, <1>2, Replaced DEF new

(* for out,                                                                  *)
LEMMA WroteOut ==
  ASSUME TypeInv, NEW p \in Procs, attached[p] # None, NEW v \in 0 .. Room,
         Write(p, "out", v)
  PROVE  /\ segs' \in Seq(Segment) /\ Len(segs') = Len(segs)
         /\ segs'[attached[p]] = [Seg(p) EXCEPT !.out = v]
         /\ \A g \in 1 .. Len(segs) : g # attached[p] => segs'[g] = segs[g]
  <1> DEFINE new == [Seg(p) EXCEPT !.out = v]
  <1>1. new \in Segment
    BY OwnSegment DEF Segment
  <1>2. segs' = [segs EXCEPT ![attached[p]] = new]
    BY DEF Write, Seg
  <1> HIDE DEF new
  <1>3. QED
    BY <1>1, <1>2, Replaced DEF new

(* for the flag,                                                             *)
LEMMA WroteMutex ==
  ASSUME TypeInv, NEW p \in Procs, attached[p] # None, NEW v \in {0, 1},
         Write(p, "mutex", v)
  PROVE  /\ segs' \in Seq(Segment) /\ Len(segs') = Len(segs)
         /\ segs'[attached[p]] = [Seg(p) EXCEPT !.mutex = v]
         /\ \A g \in 1 .. Len(segs) : g # attached[p] => segs'[g] = segs[g]
  <1> DEFINE new == [Seg(p) EXCEPT !.mutex = v]
  <1>1. new \in Segment
    BY OwnSegment DEF Segment
  <1>2. segs' = [segs EXCEPT ![attached[p]] = new]
    BY DEF Write, Seg
  <1> HIDE DEF new
  <1>3. QED
    BY <1>1, <1>2, Replaced DEF new

(* for the slots,                                                            *)
LEMMA WroteBuf ==
  ASSUME TypeInv, NEW p \in Procs, attached[p] # None, NEW v \in [0 .. Room -> Chars \cup {Nul}],
         Write(p, "buf", v)
  PROVE  /\ segs' \in Seq(Segment) /\ Len(segs') = Len(segs)
         /\ segs'[attached[p]] = [Seg(p) EXCEPT !.buf = v]
         /\ \A g \in 1 .. Len(segs) : g # attached[p] => segs'[g] = segs[g]
  <1> DEFINE new == [Seg(p) EXCEPT !.buf = v]
  <1>1. new \in Segment
    BY OwnSegment DEF Segment
  <1>2. segs' = [segs EXCEPT ![attached[p]] = new]
    BY DEF Write, Seg
  <1> HIDE DEF new
  <1>3. QED
    BY <1>1, <1>2, Replaced DEF new

(* and for the mark that the segment is to be removed.                       *)
LEMMA WroteRemoved ==
  ASSUME TypeInv, NEW p \in Procs, attached[p] # None, NEW v \in BOOLEAN,
         Write(p, "removed", v)
  PROVE  /\ segs' \in Seq(Segment) /\ Len(segs') = Len(segs)
         /\ segs'[attached[p]] = [Seg(p) EXCEPT !.removed = v]
         /\ \A g \in 1 .. Len(segs) : g # attached[p] => segs'[g] = segs[g]
  <1> DEFINE new == [Seg(p) EXCEPT !.removed = v]
  <1>1. new \in Segment
    BY OwnSegment DEF Segment
  <1>2. segs' = [segs EXCEPT ![attached[p]] = new]
    BY DEF Write, Seg
  <1> HIDE DEF new
  <1>3. QED
    BY <1>1, <1>2, Replaced DEF new

(* A step that makes nothing keeps the count of makers. *)
LEMMA MakersKept ==
  ASSUME TypeInv, Len(segs') = Len(segs), fresh' = fresh
  PROVE  Len(segs') = Cardinality(Makers')
  BY DEF TypeInv, Makers

(* What the label of another program says stays true. *)
LEMMA PlacesKept ==
  ASSUME TypeInv, NEW p \in Procs, NEW to \in Labels, pc' = [pc EXCEPT ![p] = to],
         \A q \in Procs \ {p} : /\ attached'[q] = attached[q] /\ shmid'[q] = shmid[q]
                                /\ fresh'[q] = fresh[q] /\ char'[q] = char[q],
         Place(p)'
  PROVE  \A q \in Procs : Place(q)'
  <1> SUFFICES ASSUME NEW q \in Procs \ {p} PROVE Place(q)'
    OBVIOUS
  <1>1. pc'[q] = pc[q] /\ Place(q)
    BY DEF TypeInv, VarTypes
  <1>2. QED
    BY <1>1 DEF Place

(* A step that keeps the segments, or writes to one, keeps TypeInv if it     *)
(* keeps the types of the local variables.                                   *)
LEMMA TypesKept ==
  ASSUME TypeInv, NEW p \in Procs, NEW to \in Labels, pc' = [pc EXCEPT ![p] = to],
         segs' \in Seq(Segment), Len(segs') = Len(segs), UNCHANGED fresh,
         segKey' \in 0 .. Len(segs),
         attached' \in [Procs -> 0 .. Len(segs)], shmid' \in [Procs -> 0 .. Len(segs)],
         \A q \in Procs \ {p} : /\ attached'[q] = attached[q] /\ shmid'[q] = shmid[q]
                                /\ char'[q] = char[q],
         VarTypes', Place(p)'
  PROVE  TypeInv'
  <1>1. Len(segs') = Cardinality(Makers')
    BY MakersKept
  <1>2. \A q \in Procs : Place(q)'
    BY PlacesKept
  <1>3. QED
    BY <1>1, <1>2 DEF TypeInv, SegTypes

(* A step that only writes to a segment and goes on. *)
LEMMA TypesWrite ==
  ASSUME TypeInv, NEW p \in Procs, NEW to \in Labels, pc' = [pc EXCEPT ![p] = to],
         segs' \in Seq(Segment), Len(segs') = Len(segs),
         UNCHANGED <<segKey, attached, locals, history>>, Place(p)'
  PROVE  TypeInv'
  <1>1. VarTypes'
    BY DEF TypeInv, VarTypes, locals, history
  <1>2. segKey' \in 0 .. Len(segs) /\ attached' \in [Procs -> 0 .. Len(segs)]
        /\ shmid' \in [Procs -> 0 .. Len(segs)]
        /\ UNCHANGED <<fresh, attached, shmid, char>>
    BY DEF TypeInv, SegTypes, locals
  <1>3. QED
    BY <1>1, <1>2, TypesKept

(* shmget with IPC_CREAT (line 30). *)
LEMMA ShmCreateTypes ==
  ASSUME TypeInv, NEW p \in Procs, ShmCreate(p)
  PROVE  TypeInv'
  <1>0. UNCHANGED <<attached, position, char, typed, got, crashes, breaches>>
    BY DEF ShmCreate, history
  <1>1. CASE segKey = None
    <2>1. /\ pc[p] = "start" /\ segs' = Append(segs, ZeroedSegment)
          /\ segKey' = Len(segs') /\ shmid' = [shmid EXCEPT ![p] = segKey']
          /\ fresh' = [fresh EXCEPT ![p] = TRUE] /\ pc' = [pc EXCEPT ![p] = "attach"]
      BY <1>1 DEF ShmCreate, Goto
    <2>2. ZeroedSegment \in Segment
      BY BoundAssumption DEF ZeroedSegment, Segment
    <2>3. segs' \in Seq(Segment) /\ Len(segs') = Len(segs) + 1 /\ Len(segs) \in Nat
      <3>1. segs \in Seq(Segment)
        BY DEF TypeInv, SegTypes
      <3>2. QED
        BY <2>1, <2>2, <3>1
    <2>4. SegTypes'
      BY <1>0, <2>1, <2>3 DEF TypeInv, SegTypes
    <2>5. VarTypes'
      BY <1>0, <2>1 DEF TypeInv, VarTypes, Labels, InInit
    <2>6. Len(segs') = Cardinality(Makers')
      <3>1. Makers' = Makers \cup {p} /\ p \notin Makers
        BY <2>1 DEF Makers, TypeInv, VarTypes, Place
      <3>2. Cardinality(Makers \cup {p}) = Cardinality(Makers) + 1
        BY <3>1, MakersFinite, FS_AddElement
      <3>3. QED
        BY <2>3, <3>1, <3>2 DEF TypeInv
    <2>7. Place(p)'
      <3>1. pc'[p] = "attach" /\ shmid'[p] # None /\ attached'[p] = attached[p]
        BY <1>0, <2>1, <2>3 DEF TypeInv, VarTypes, SegTypes, None
      <3>2. attached[p] = None
        BY <2>1 DEF TypeInv, Place, Unattached
      <3>3. QED
        BY <3>1, <3>2 DEF Place, Mapped, InStruct, InPut, BeforeStore, InGet
    <2>8. \A q \in Procs : Place(q)'
      <3>1. "attach" \in Labels
        BY DEF Labels, InInit
      <3>2. QED
        BY <1>0, <2>1, <2>7, <3>1, PlacesKept DEF TypeInv, VarTypes, SegTypes
    <2>9. QED
      BY <2>4, <2>5, <2>6, <2>8 DEF TypeInv
  <1>2. CASE segKey # None
    <2>1. /\ pc[p] = "start" /\ pc' = [pc EXCEPT ![p] = "shm_existing"]
          /\ UNCHANGED <<segs, segKey, shmid, fresh>>
      BY <1>2 DEF ShmCreate, Goto
    <2>2. "shm_existing" \in Labels
      BY DEF Labels, InInit
    <2>3. Place(p)'
      <3>1. pc'[p] = "shm_existing" /\ attached'[p] = None /\ ~ fresh'[p]
        BY <1>0, <2>1 DEF TypeInv, VarTypes, Place, Unattached
      <3>2. QED
        BY <3>1 DEF Place, Mapped, InStruct, InPut, BeforeStore, InGet
    <2>4. QED
      BY <1>0, <2>1, <2>2, <2>3, TypesWrite DEF locals, history, TypeInv, SegTypes
  <1>3. QED
    BY <1>1, <1>2

(* What there is to show of the label a program goes on to.                  *)
LEMMA GoesOn ==
  ASSUME TypeInv, NEW p \in Procs, NEW to \in Labels \ Unattached,
         pc' = [pc EXCEPT ![p] = to],
         to \in Mapped => attached'[p] # None,
         attached'[p] # None => attached'[p] = shmid'[p],
         to \in InPut => p \in Senders /\ char'[p] \in Chars,
         to \in InGet => p \in Receivers,
         to \in InStruct => fresh'[p]
  PROVE  Place(p)'
  <1>1. pc'[p] = to
    BY DEF TypeInv, VarTypes
  <1>2. QED
    BY <1>1 DEF Place, Unattached

(* Where main goes after a call.                                             *)
LEMMA AfterLabel ==
  ASSUME NEW ch
  PROVE  AfterCall(ch) \in {"loop", "shm_rmid"}
  BY DEF AfterCall

(* The second shmget and shmat (lines 37 and 55).                            *)
LEMMA LaunchTypes ==
  ASSUME TypeInv, NEW p \in Procs, ShmExisting(p) \/ Attach(p)
  PROVE  TypeInv'
  <1>0. UNCHANGED <<segKey, segs, fresh, position, char, typed, got, crashes>>
    BY DEF ShmExisting, Attach, kernel, locals, history
  <1>1. pc[p] \in {"shm_existing", "attach"} /\ attached[p] = None
    BY DEF ShmExisting, Attach, TypeInv, Place, Unattached
  <1>2. CASE ShmExisting(p)
    <2>1. UNCHANGED <<attached, breaches>>
      BY <1>2 DEF ShmExisting, kernel, history
    <2>2. CASE segKey # None /\ shmid' = [shmid EXCEPT ![p] = segKey]
               /\ pc' = [pc EXCEPT ![p] = "attach"]
      <3>1. "attach" \in Labels /\ pc'[p] = "attach"
        BY <2>2 DEF Labels, InInit, TypeInv, VarTypes
      <3>2. Place(p)'
        <4>1. shmid'[p] # None /\ attached'[p] = None
          BY <1>1, <2>1, <2>2 DEF TypeInv, SegTypes
        <4>2. QED
          BY <3>1, <4>1 DEF Place, Mapped, InStruct, InPut, BeforeStore, InGet
      <3>3. VarTypes'
        BY <1>0, <2>1, <2>2, <3>1 DEF TypeInv, VarTypes
      <3>4. shmid' \in [Procs -> 0 .. Len(segs)]
        BY <2>2 DEF TypeInv, SegTypes
      <3>5. QED
        BY <1>0, <2>1, <2>2, <3>1, <3>2, <3>3, <3>4, TypesKept DEF TypeInv, SegTypes
    <2>3. CASE UNCHANGED shmid /\ pc' = [pc EXCEPT ![p] = "loop"]
      <3>1. "loop" \in Labels \ Unattached /\ "loop" \notin Mapped \cup InPut \cup InGet \cup InStruct
        BY DEF Labels, Unattached, Mapped, InStruct, InPut, BeforeStore, InGet
      <3>2. Place(p)'
        BY <1>1, <2>1, <2>3, <3>1, GoesOn
      <3>3. QED
        BY <1>0, <2>1, <2>3, <3>1, <3>2, TypesWrite DEF locals, history, TypeInv, SegTypes
    <2>4. QED
      BY <1>2, <2>2, <2>3 DEF ShmExisting, Goto
  <1>3. CASE Attach(p)
    <2>1. UNCHANGED shmid
      BY <1>3 DEF Attach, locals
    <2>2. PICK to \in {"set_size", "loop"} : pc' = [pc EXCEPT ![p] = to]
            /\ (to = "set_size" => attached'[p] = shmid[p] /\ fresh[p])
      BY <1>3 DEF Attach, Goto, TypeInv, SegTypes
    <2>3. attached' \in [Procs -> 0 .. Len(segs)]
          /\ (\A q \in Procs \ {p} : attached'[q] = attached[q])
          /\ attached'[p] \in {None, shmid[p]}
      <3>1. attached' = attached \/ attached' = [attached EXCEPT ![p] = shmid[p]]
        BY <1>3 DEF Attach
      <3>2. QED
        BY <1>1, <3>1 DEF TypeInv, SegTypes
    <2>4. breaches' \subseteq {"half_made_ring", "early_quit"}
      BY <1>3 DEF Attach, Note, TypeInv, VarTypes
    <2>5. /\ to \in Labels \ Unattached /\ to \notin InPut \cup InGet
          /\ to \in Mapped \cup InStruct => to = "set_size"
      BY <2>2 DEF Labels, Unattached, InInit, InStruct, Mapped, InPut, BeforeStore, InGet
    <2>6. shmid[p] # None
      <3>1. pc[p] = "attach"
        BY <1>3 DEF Attach
      <3>2. QED
        BY <3>1 DEF TypeInv, Place
    <2>7. Place(p)'
      BY <1>0, <2>1, <2>2, <2>3, <2>5, <2>6, GoesOn
    <2>8. VarTypes'
      BY <1>0, <2>2, <2>4, <2>5 DEF TypeInv, VarTypes
    <2>9. QED
      BY <1>0, <2>1, <2>2, <2>3, <2>5, <2>7, <2>8, TypesKept DEF TypeInv, SegTypes
  <1>4. QED
    BY <1>2, <1>3

(* A step of one who has the segment attached, that writes at most to it.    *)
LEMMA TypesInside ==
  ASSUME TypeInv, NEW p \in Procs, pc[p] \in Mapped,
         NEW to \in Labels \ Unattached, pc' = [pc EXCEPT ![p] = to],
         segs' \in Seq(Segment), Len(segs') = Len(segs),
         UNCHANGED <<segKey, attached, locals, history>>,
         to \in InPut => pc[p] \in InPut, to \in InGet => pc[p] \in InGet,
         to \in InStruct => pc[p] \in InStruct
  PROVE  TypeInv'
  <1>1. Place(p) /\ attached' = attached /\ shmid' = shmid /\ char' = char /\ fresh' = fresh
    BY DEF TypeInv, locals
  <1>2. Place(p)'
    BY <1>1, GoesOn DEF Place
  <1>3. QED
    BY <1>2, TypesWrite

(* Line 64 to 66.                                                            *)
LEMMA InitStructTypes ==
  ASSUME TypeInv, NEW p \in Procs, InitStruct(p)
  PROVE  TypeInv'
  <1>1. UNCHANGED <<segKey, attached, locals, history>>
    BY DEF InitStruct
  <1>2. pc[p] \in InStruct /\ pc[p] \in Mapped /\ attached[p] # None
    BY DEF InitStruct, InStruct, Mapped, TypeInv, Place
  <1>3. PICK to \in {"set_out", "set_in", "set_mutex", "loop"} : pc' = [pc EXCEPT ![p] = to]
    BY DEF InitStruct, Goto
  <1>4. /\ to \in Labels \ Unattached /\ to \notin InPut \cup InGet
    BY DEF Labels, Unattached, InInit, InStruct, InPut, BeforeStore, InGet
  <1>5. /\ Room + 1 \in {0, Room + 1} /\ 0 \in 0 .. Room /\ 0 \in {0, 1}
        /\ Write(p, "size", Room + 1) \/ Write(p, "out", 0) \/ Write(p, "in", 0)
             \/ Write(p, "mutex", 0)
    BY BoundAssumption DEF InitStruct
  <1>6. segs' \in Seq(Segment) /\ Len(segs') = Len(segs)
    BY <1>2, <1>5, WroteSize, WroteOut, WroteIn, WroteMutex
  <1>7. QED
    BY <1>1, <1>2, <1>3, <1>4, <1>6, TypesInside

(* sender.c reads a character (lines 14 to 17).                              *)
LEMMA TypeTypes ==
  ASSUME TypeInv, NEW p \in Senders, Type(p)
  PROVE  TypeInv'
  <1>1. PICK d \in Chars :
          /\ Note("early_quit", d = Quit /\ \E q \in Receivers : pc[q] \in Unattached)
          /\ char' = [char EXCEPT ![p] = d] /\ typed' = [typed EXCEPT ![p] = Append(@, d)]
          /\ pc' = [pc EXCEPT ![p] = IF is_mem_ok(p) THEN "put_next" ELSE AfterCall(d)]
    BY DEF Type, Goto
  <1>2. UNCHANGED <<segKey, segs, attached, shmid, fresh, position, got, crashes>>
    BY DEF Type, kernel
  <1> DEFINE to == IF is_mem_ok(p) THEN "put_next" ELSE AfterCall(d)
  <1>3. /\ to \in {"put_next", "loop", "shm_rmid"}
        /\ to = "put_next" => attached[p] # None
        /\ p \in Procs
    BY AfterLabel DEF is_mem_ok, Procs
  <1>4. /\ to \in Labels \ Unattached /\ to \notin InGet \cup InStruct
        /\ to \in Mapped => to = "put_next"
    <2> HIDE DEF to
    <2>1. QED
      BY <1>3 DEF Labels, Unattached, InInit, InStruct, InDestroy, InPut, BeforeStore, InGet, Mapped
  <1>5. pc' = [pc EXCEPT ![p] = to]
    BY <1>1
  <1> HIDE DEF to
  <1>6. char'[p] = d /\ char' \in [Procs -> Chars \cup {Nul}]
        /\ \A q \in Procs \ {p} : char'[q] = char[q]
    BY <1>1, <1>3 DEF TypeInv, VarTypes
  <1>7. typed' \in [Senders -> Seq(Chars)]
    BY <1>1 DEF TypeInv, VarTypes
  <1>8. breaches' \subseteq {"half_made_ring", "early_quit"}
    BY <1>1 DEF Note, TypeInv, VarTypes
  <1>9. Place(p)'
    BY <1>2, <1>3, <1>4, <1>5, <1>6, GoesOn DEF TypeInv, Place
  <1>10. VarTypes'
    BY <1>2, <1>4, <1>5, <1>6, <1>7, <1>8 DEF TypeInv, VarTypes
  <1>11. QED
    BY <1>2, <1>3, <1>4, <1>5, <1>6, <1>9, <1>10, TypesKept DEF TypeInv, SegTypes

(* The index after one in range.                                             *)
LEMMA NextSlot ==
  ASSUME NEW i \in 0 .. Room
  PROVE  (i + 1) % (Room + 1) = Slot(i + 1) /\ Slot(i + 1) \in 0 .. Room
  <1>1. CASE i + 1 < Room + 1
    BY <1>1, BoundAssumption DEF Slot
  <1>2. CASE i = Room
    BY <1>2, BoundAssumption DEF Slot
  <1>3. QED
    BY <1>1, <1>2, BoundAssumption

(* Line 106.                                                                 *)
LEMMA PutNextTypes ==
  ASSUME TypeInv, NEW p \in Senders, put_next(p)
  PROVE  TypeInv'
  <1>1. UNCHANGED <<segKey, segs, attached, shmid, fresh, char, typed, got, crashes, breaches>>
    BY DEF put_next, kernel, history
  <1>2. /\ pc[p] = "put_next" /\ pc' = [pc EXCEPT ![p] = "put_wait"] /\ Seg(p).size # 0
        /\ position' = [position EXCEPT ![p] = (Seg(p).in + 1) % Seg(p).size]
        /\ p \in Procs
    BY DEF put_next, Goto, Procs
  <1>3. pc[p] \in InPut /\ "put_wait" \in InPut /\ "put_wait" \in Labels \ Unattached
        /\ pc[p] \in Mapped /\ "put_wait" \notin InGet \cup InStruct
    BY <1>2 DEF InPut, BeforeStore, Labels, Unattached, Mapped, InGet, InStruct
  <1>4. Place(p) /\ Seg(p) \in Segment /\ attached[p] # None
    BY <1>2, <1>3, OwnSegment DEF TypeInv, Place
  <1>5. (Seg(p).in + 1) % Seg(p).size \in 0 .. Room
    BY <1>2, <1>4, NextSlot DEF Segment
  <1>6. Place(p)'
    BY <1>1, <1>2, <1>3, <1>4, GoesOn DEF Place
  <1>7. VarTypes'
    BY <1>1, <1>2, <1>3, <1>5 DEF TypeInv, VarTypes
  <1>8. QED
    BY <1>1, <1>2, <1>3, <1>6, <1>7, TypesKept DEF TypeInv, SegTypes

(* The polls of buf_put, its writes, and those of buf_get.                   *)
PutPoll(p) == put_wait(p) \/ put_test(p)
GetPoll(p) == get_wait(p) \/ get_test(p)
PutWrite(p) == put_set(p) \/ put_store(p) \/ put_in(p) \/ put_clear(p)
GetWrite(p) == get_set(p) \/ get_out(p) \/ get_clear(p)

(* A poll changes nothing but the label.                                     *)
LEMMA PollTypes ==
  ASSUME TypeInv, NEW p \in Procs, PutPoll(p) \/ GetPoll(p)
  PROVE  TypeInv'
  <1>1. UNCHANGED <<segKey, segs, attached, locals, history>>
    BY DEF PutPoll, GetPoll, put_wait, put_test, get_wait, get_test, Poll, kernel
  <1>2. /\ pc[p] \in {"put_wait", "put_test", "get_wait", "get_test"}
        /\ \E to \in {"put_test", "put_set", "get_test", "get_set"} :
             /\ pc' = [pc EXCEPT ![p] = to]
             /\ to \in {"put_test", "put_set"} <=> pc[p] \in {"put_wait", "put_test"}
    BY DEF PutPoll, GetPoll, put_wait, put_test, get_wait, get_test, Poll, Goto
  <1>3. PICK to \in {"put_test", "put_set", "get_test", "get_set"} :
             /\ pc' = [pc EXCEPT ![p] = to]
             /\ to \in {"put_test", "put_set"} <=> pc[p] \in {"put_wait", "put_test"}
    BY <1>2
  <1>4. /\ pc[p] \in Mapped /\ to \in Labels \ Unattached
        /\ to \in InPut => pc[p] \in InPut
        /\ to \in InGet => pc[p] \in InGet
        /\ to \notin InStruct
    BY <1>2, <1>3 DEF Mapped, InPut, BeforeStore, InGet, Labels, Unattached, InStruct
  <1>5. QED
    BY <1>1, <1>3, <1>4, TypesInside DEF TypeInv, SegTypes

(* What buf_put writes fits the struct.                                      *)
LEMMA PutWriteTypes ==
  ASSUME TypeInv, NEW p \in Senders, PutWrite(p)
  PROVE  TypeInv'
  <1>1. UNCHANGED <<segKey, attached, locals, history>> /\ p \in Procs
    BY DEF PutWrite, put_set, put_store, put_in, put_clear, Assign, Procs
  <1>2. pc[p] \in {"put_set", "put_store", "put_in", "put_clear"}
    BY DEF PutWrite, put_set, put_store, put_in, put_clear
  <1>3. PICK to \in {"put_store", "put_in", "put_clear", "loop", "shm_rmid"} :
          pc' = [pc EXCEPT ![p] = to]
    BY AfterLabel DEF PutWrite, put_set, put_store, put_in, put_clear, Assign, Goto
  <1>4. /\ pc[p] \in Mapped /\ pc[p] \in InPut /\ to \in Labels \ Unattached
        /\ to \notin InGet \cup InStruct
    BY <1>2, <1>3
       DEF Mapped, InPut, BeforeStore, InGet, Labels, Unattached, InDestroy, InStruct
  <1>5. attached[p] # None /\ char[p] \in Chars /\ position[p] \in 0 .. Room
        /\ Seg(p) \in Segment
    BY <1>1, <1>4, OwnSegment DEF TypeInv, Place, VarTypes
  <1>6. [Seg(p).buf EXCEPT ![Seg(p).in] = char[p]] \in [0 .. Room -> Chars \cup {Nul}]
    BY <1>5 DEF Segment
  <1>7. segs' \in Seq(Segment) /\ Len(segs') = Len(segs)
    <2>1. /\ Write(p, "mutex", 1) \/ Write(p, "mutex", 0) \/ Write(p, "in", position[p])
               \/ Write(p, "buf", [Seg(p).buf EXCEPT ![Seg(p).in] = char[p]])
      BY DEF PutWrite, put_set, put_store, put_in, put_clear, Assign
    <2>2. QED
      BY <1>1, <1>5, <1>6, <2>1, WroteMutex, WroteIn, WroteBuf
  <1>8. QED
    BY <1>1, <1>3, <1>4, <1>7, TypesInside

(* What buf_get writes fits the struct.                                      *)
LEMMA GetWriteTypes ==
  ASSUME TypeInv, NEW p \in Receivers, GetWrite(p)
  PROVE  TypeInv'
  <1>1. UNCHANGED <<segKey, attached, locals, history>> /\ p \in Procs
    BY DEF GetWrite, get_set, get_out, get_clear, Assign, Procs
  <1>2. pc[p] \in {"get_set", "get_out", "get_clear"}
    BY DEF GetWrite, get_set, get_out, get_clear
  <1>3. PICK to \in {"get_fetch", "get_clear", "loop", "shm_rmid"} :
          pc' = [pc EXCEPT ![p] = to]
    BY AfterLabel DEF GetWrite, get_set, get_out, get_clear, Assign, Goto
  <1>4. /\ pc[p] \in Mapped /\ pc[p] \in InGet /\ to \in Labels \ Unattached
        /\ to \notin InPut \cup InStruct
    BY <1>2, <1>3
       DEF Mapped, InPut, BeforeStore, InGet, Labels, Unattached, InDestroy, InStruct
  <1>5. attached[p] # None /\ Seg(p) \in Segment
    BY <1>1, <1>4, OwnSegment DEF TypeInv, Place, VarTypes
  <1>6. segs' \in Seq(Segment) /\ Len(segs') = Len(segs)
    <2>1. CASE get_out(p)
      <3>1. Write(p, "out", (Seg(p).out + 1) % Seg(p).size)
            /\ (Seg(p).out + 1) % Seg(p).size \in 0 .. Room
        BY <1>5, <2>1, NextSlot DEF get_out, Assign, Segment
      <3>2. QED
        BY <1>1, <1>5, <3>1, WroteOut
    <2>2. CASE Write(p, "mutex", 1) \/ Write(p, "mutex", 0)
      BY <1>1, <1>5, <2>2, WroteMutex
    <2>3. QED
      BY <2>1, <2>2 DEF GetWrite, get_set, get_clear, Assign
  <1>7. QED
    BY <1>1, <1>3, <1>4, <1>6, TypesInside

(* receiver.c calls buf_get (line 14).                                       *)
LEMMA CallGetTypes ==
  ASSUME TypeInv, NEW p \in Receivers, CallGet(p)
  PROVE  TypeInv'
  <1> DEFINE to == IF is_mem_ok(p) THEN "get_wait" ELSE AfterCall(char[p])
  <1>1. /\ UNCHANGED <<segKey, segs, attached, locals, history>> /\ p \in Procs
        /\ pc' = [pc EXCEPT ![p] = to]
        /\ to \in {"get_wait", "loop", "shm_rmid"}
        /\ to = "get_wait" => attached[p] # None
    BY AfterLabel DEF CallGet, kernel, Procs, Goto, is_mem_ok
  <1> HIDE DEF to
  <1>2. /\ to \in Labels \ Unattached /\ to \notin InPut /\ to \in Mapped => to = "get_wait"
    BY <1>1 DEF Labels, Unattached, InPut, BeforeStore, InGet, Mapped, InStruct, InDestroy
  <1>3. Place(p) /\ attached' = attached /\ shmid' = shmid
    BY <1>1 DEF TypeInv, locals
  <1>4. Place(p)'
    <2>1. to \in Mapped => attached'[p] # None
      BY <1>1, <1>3 DEF Labels, Unattached, InPut, BeforeStore, InGet, Mapped, InStruct, InDestroy
    <2>2. to \notin InPut \cup InStruct /\ to \in Labels \ Unattached
      BY <1>1 DEF Labels, Unattached, InPut, BeforeStore, InGet, Mapped, InStruct, InDestroy
    <2>3. QED
      BY <1>1, <1>3, <2>1, <2>2, GoesOn DEF Place
  <1>5. to \in Labels
    BY <1>1 DEF Labels, InGet, InDestroy
  <1>6. QED
    BY <1>1, <1>4, <1>5, TypesWrite DEF TypeInv, SegTypes

(* Line 164.                                                                 *)
LEMMA GetFetchTypes ==
  ASSUME TypeInv, NEW p \in Receivers, get_fetch(p)
  PROVE  TypeInv'
  <1>1. /\ UNCHANGED <<segKey, segs, attached, shmid, fresh, position, typed, crashes, breaches>>
        /\ pc[p] = "get_fetch" /\ pc' = [pc EXCEPT ![p] = "get_out"] /\ p \in Procs
        /\ char' = [char EXCEPT ![p] = Seg(p).buf[Seg(p).out]]
        /\ got' = [got EXCEPT ![p] = Append(@, char'[p])]
    BY DEF get_fetch, kernel, Goto, Procs
  <1>2. /\ pc[p] \in Mapped /\ pc[p] \in InGet /\ "get_out" \in Labels \ Unattached
        /\ "get_out" \notin InPut \cup InStruct
    BY <1>1 DEF Mapped, InGet, Labels, Unattached, InPut, BeforeStore, InStruct
  <1>3. Place(p) /\ attached[p] # None /\ Seg(p) \in Segment
    BY <1>1, <1>2, OwnSegment DEF TypeInv, Place
  <1>4. /\ char' \in [Procs -> Chars \cup {Nul}] /\ char'[p] \in Chars \cup {Nul}
        /\ \A q \in Procs \ {p} : char'[q] = char[q]
    BY <1>1, <1>3 DEF TypeInv, VarTypes, Segment
  <1>5. got' \in [Receivers -> Seq(Chars \cup {Nul})]
    <2>1. Append(got[p], char'[p]) \in Seq(Chars \cup {Nul})
      BY <1>4 DEF TypeInv, VarTypes
    <2>2. QED
      BY <1>1, <2>1 DEF TypeInv, VarTypes
  <1>6. VarTypes'
    BY <1>1, <1>2, <1>4, <1>5 DEF TypeInv, VarTypes
  <1>7. Place(p)'
    BY <1>1, <1>2, <1>3, GoesOn DEF Place
  <1>8. QED
    BY <1>1, <1>2, <1>4, <1>6, <1>7, TypesKept DEF TypeInv, SegTypes

(* Lines 73 and 85.                                                          *)
LEMMA BufDestroyTypes ==
  ASSUME TypeInv, NEW p \in Procs, BufDestroy(p)
  PROVE  TypeInv'
  <1>1. CASE ShmRmid(p) /\ is_mem_ok(p)
    <2>1. /\ pc' = [pc EXCEPT ![p] = "detach"] /\ Write(p, "removed", TRUE)
          /\ segKey' = IF segKey = shmid[p] THEN None ELSE segKey
          /\ UNCHANGED <<attached, locals, history>> /\ attached[p] # None
      BY <1>1 DEF ShmRmid, Goto, is_mem_ok
    <2>2. segs' \in Seq(Segment) /\ Len(segs') = Len(segs)
      BY <2>1, WroteRemoved
    <2>3. segKey' \in 0 .. Len(segs)
      BY <2>1 DEF TypeInv, SegTypes, None
    <2>4. "detach" \in Labels \ Unattached /\ "detach" \notin InPut \cup InGet \cup InStruct
      BY DEF Labels, Unattached, InPut, BeforeStore, InGet, InDestroy, InStruct
    <2>5. Place(p)'
      BY <2>1, <2>4, GoesOn DEF TypeInv, Place, locals
    <2>6. VarTypes'
      BY <2>1, <2>4 DEF TypeInv, VarTypes, locals, history
    <2>7. QED
      BY <2>1, <2>2, <2>3, <2>4, <2>5, <2>6, TypesKept DEF TypeInv, SegTypes, locals
  <1>2. CASE ShmRmid(p) /\ ~ is_mem_ok(p)
    <2>1. /\ pc' = [pc EXCEPT ![p] = "exit"]
          /\ UNCHANGED <<segs, segKey, attached, locals, history>> /\ attached[p] = None
      BY <1>2 DEF ShmRmid, Goto, is_mem_ok
    <2>2. "exit" \in Labels \ Unattached /\ "exit" \notin InPut \cup InGet \cup InStruct \cup Mapped
      BY DEF Labels, Unattached, InPut, BeforeStore, InGet, InDestroy, Mapped, InStruct
    <2>3. Place(p)'
      BY <2>1, <2>2, GoesOn
    <2>4. QED
      BY <2>1, <2>2, <2>3, TypesWrite DEF TypeInv, SegTypes
  <1>3. CASE Detach(p)
    <2>1. /\ pc' = [pc EXCEPT ![p] = "exit"] /\ attached' = [attached EXCEPT ![p] = None]
          /\ UNCHANGED <<segs, segKey, locals, history>>
      BY <1>3 DEF Detach, Goto
    <2>2. "exit" \in Labels \ Unattached /\ "exit" \notin InPut \cup InGet \cup InStruct \cup Mapped
      BY DEF Labels, Unattached, InPut, BeforeStore, InGet, InDestroy, Mapped, InStruct
    <2>3. /\ attached'[p] = None /\ attached' \in [Procs -> 0 .. Len(segs)]
          /\ \A q \in Procs \ {p} : attached'[q] = attached[q]
      BY <2>1 DEF TypeInv, SegTypes, None
    <2>4. Place(p)'
      BY <2>1, <2>2, <2>3, GoesOn
    <2>5. VarTypes'
      BY <2>1, <2>2 DEF TypeInv, VarTypes, locals, history
    <2>6. QED
      BY <2>1, <2>2, <2>3, <2>4, <2>5, TypesKept DEF TypeInv, SegTypes, locals
  <1>4. QED
    BY <1>1, <1>2, <1>3 DEF BufDestroy

(* The end of a program, by itself or not.                                   *)
LEMMA EndTypes ==
  ASSUME TypeInv, NEW p \in Procs, Exit(p) \/ Fault(p) \/ Crash(p)
  PROVE  TypeInv'
  <1>1. /\ \E label \in Ended : pc' = [pc EXCEPT ![p] = label]
        /\ attached' = [attached EXCEPT ![p] = None]
        /\ UNCHANGED <<segKey, segs, locals, typed, got, breaches>>
        /\ crashes' = crashes \/ (crashes < MaxCrashes /\ crashes' = crashes + 1)
    BY DEF Exit, Fault, Crash, End, Ended, Goto
  <1>2. PICK to \in Ended : pc' = [pc EXCEPT ![p] = to]
    BY <1>1
  <1>3. to \in Labels \ Unattached /\ to \notin InPut \cup InGet \cup InStruct \cup Mapped
    BY <1>2 DEF Labels, Ended, Unattached, InPut, BeforeStore, InGet, Mapped, InStruct
  <1>4. /\ attached'[p] = None /\ attached' \in [Procs -> 0 .. Len(segs)]
        /\ \A q \in Procs \ {p} : attached'[q] = attached[q]
    BY <1>1 DEF TypeInv, SegTypes, None
  <1>5. crashes' \in 0 .. MaxCrashes
    BY <1>1, BoundAssumption DEF TypeInv, VarTypes
  <1>6. Place(p)'
    BY <1>2, <1>3, <1>4, GoesOn
  <1>7. VarTypes'
    BY <1>1, <1>2, <1>3, <1>5 DEF TypeInv, VarTypes, locals
  <1>8. QED
    BY <1>1, <1>2, <1>3, <1>4, <1>6, <1>7, TypesKept DEF TypeInv, SegTypes, locals

(* No program has begun.                                                     *)
LEMMA SessionTypesInit == Init => TypeInv
  <1> SUFFICES ASSUME Init PROVE TypeInv
    OBVIOUS
  <1>1. segs = <<>> /\ Len(segs) = 0 /\ segs \in Seq(Segment)
    BY DEF Init
  <1>2. SegTypes
    BY <1>1 DEF Init, SegTypes, None
  <1>3. VarTypes
    <2>1. "start" \in Labels /\ 0 \in 0 .. Room /\ 0 \in 0 .. MaxCrashes
      BY BoundAssumption DEF Labels
    <2>2. char \in [Procs -> Chars \cup {Nul}]
      BY DEF Init, Chars
    <2>3. typed \in [Senders -> Seq(Chars)] /\ got \in [Receivers -> Seq(Chars \cup {Nul})]
      BY DEF Init
    <2>4. QED
      BY <2>1, <2>2, <2>3 DEF Init, VarTypes
  <1>4. Len(segs) = Cardinality(Makers)
    <2>1. Makers = {}
      BY DEF Init, Makers
    <2>2. QED
      BY <1>1, <2>1, FS_EmptySet
  <1>5. \A p \in Procs : Place(p)
    BY DEF Init, Place, Mapped, InStruct, InPut, BeforeStore, InGet, None
  <1>6. QED
    BY <1>2, <1>3, <1>4, <1>5 DEF TypeInv

(* Every step of the session keeps the types.                                *)
LEMMA SessionTypesStep == TypeInv /\ [Next]_vars => TypeInv'
  <1> SUFFICES ASSUME TypeInv, [Next]_vars PROVE TypeInv'
    OBVIOUS
  <1>1. CASE UNCHANGED vars
    BY <1>1 DEF vars, TypeInv, SegTypes, VarTypes, Place, Makers
  <1>2. ASSUME NEW p \in Procs, Run(p) \/ Crash(p) PROVE TypeInv'
    <2>1. CASE BufInit(p)
      BY <2>1, ShmCreateTypes, LaunchTypes, InitStructTypes DEF BufInit
    <2>2. CASE BufDestroy(p) \/ Exit(p) \/ Fault(p) \/ Crash(p)
      BY <2>2, BufDestroyTypes, EndTypes
    <2>3. CASE p \in Senders /\ Send(p)
      <3>1. Type(p) \/ put_next(p) \/ PutPoll(p) \/ PutWrite(p)
        BY <2>3 DEF Send, PutPoll, PutWrite
      <3>2. QED
        BY <2>3, <3>1, TypeTypes, PutNextTypes, PollTypes, PutWriteTypes
    <2>4. CASE p \in Receivers /\ Receive(p)
      <3>1. CallGet(p) \/ get_fetch(p) \/ GetPoll(p) \/ GetWrite(p)
        BY <2>4 DEF Receive, GetPoll, GetWrite
      <3>2. QED
        BY <2>4, <3>1, CallGetTypes, GetFetchTypes, PollTypes, GetWriteTypes
    <2>5. QED
      BY <1>2, <2>1, <2>2, <2>3, <2>4 DEF Run
  <1>3. QED
    BY <1>1, <1>2 DEF Next

(* Type correctness of the session, for any numbers of senders and           *)
(* receivers, whatever launches, quits and kills: in particular what the     *)
(* programs write stays inside the ring, and the segments a disorderly       *)
(* session makes are never more than its programs.                           *)
THEOREM SessionTypeCorrect == Spec => []TypeOK
  <1>1. Spec => []TypeInv
    BY SessionTypesInit, SessionTypesStep, PTL DEF Spec
  <1>2. TypeInv => TypeOK
    BY SessionTypeOK
  <1>3. QED
    BY <1>1, <1>2, PTL

(* The types of what belongs to the pair.                                    *)
LEMMA PairTypes ==
  ASSUME TypeInv, NEW s, NEW r, Pair(s, r)
  PROVE  /\ s \in Senders /\ r \in Receivers /\ s # r /\ Procs = {s, r}
         /\ s \in Procs /\ r \in Procs
         /\ typed[s] \in Seq(Chars) /\ Len(typed[s]) \in Nat
         /\ got[r] \in Seq(Chars \cup {Nul}) /\ Len(got[r]) \in Nat
         /\ char[s] \in Chars \cup {Nul} /\ char[r] \in Chars \cup {Nul}
         /\ Room \in Nat \ {0}
  <1>1. /\ s \in Senders /\ r \in Receivers /\ s # r /\ Procs = {s, r}
        /\ s \in Procs /\ r \in Procs
    BY ProgramAssumption DEF Pair, Procs
  <1>2. QED
    BY <1>1, BoundAssumption DEF TypeInv, VarTypes

(* The first segment is one even before it is made.                          *)
LEMMA FirstSegment ==
  ASSUME TypeInv
  PROVE  /\ TheSegment \in Segment
         /\ Len(segs) # 0 => TheSegment = segs[1]
         /\ Len(segs) = 0 => TheSegment = ZeroedSegment
         /\ Len(segs) \in Nat /\ segs \in Seq(Segment)
  <1>1. ZeroedSegment \in Segment
    BY BoundAssumption DEF ZeroedSegment, Segment
  <1>2. segs \in Seq(Segment) /\ Len(segs) \in Nat
    BY DEF TypeInv, SegTypes
  <1>3. segs # <<>> <=> Len(segs) # 0
    BY <1>2
  <1>4. Len(segs) # 0 => segs[1] \in Segment
    BY <1>2
  <1>5. QED
    BY <1>1, <1>2, <1>3, <1>4 DEF TheSegment

(* A step by which nobody looks for a segment or removes one.                *)
KeysFrame(s, r, p, to) ==
  /\ pc' = [pc EXCEPT ![p] = to] /\ pc[p] # "start" /\ Len(segs') = Len(segs)
  /\ \A g \in 1 .. Len(segs) : segs'[g].removed = segs[g].removed
  /\ UNCHANGED <<segKey, shmid, fresh>>
  /\ \A q \in Procs \ {p} : attached'[q] = attached[q]
  /\ p = s /\ to \in {"loop"} \cup InStruct \cup InPut => attached'[p] = 1
  /\ p = s /\ pc[p] \in Gone => to \in Gone
  /\ p = r /\ to = "loop" /\ attached'[p] = None => pc[s] \in Gone
  /\ p = r /\ to \in Leaving \ {"killed"} => pc[s] \in Gone \/ QuitTyped(s)
  /\ QuitTyped(s) \/ pc'[r] \in Leaving \ {"killed"} => typed'[s] = typed[s]
  /\ got'[r] = got[r] \/ (Len(segs) = 1 /\ attached'[r] # None)
  /\ Len(segs) > 1 =>
       /\ segs'[2].in = segs[2].in /\ segs'[2].out = segs[2].out
       /\ p = r => to \in {"loop", "get_wait", "killed"} \cup InStruct
       /\ p = r /\ to = "loop" => attached'[p] # None
  /\ pc'[r] = "loop" /\ attached'[r] = None => got'[r] = <<>>

(* Keys, for such a step.                                                    *)
LEMMA KeysKept ==
  ASSUME TypeInv, NEW s, NEW r, Pair(s, r), Keys(s, r), NEW p \in Procs,
         NEW to \in Labels \ ({"start"} \cup Unattached), KeysFrame(s, r, p, to)
  PROVE  Keys(s, r)'
  <1> USE DEF KeysFrame
  <1>1. pc'[p] = to /\ \A q \in Procs \ {p} : pc'[q] = pc[q]
    BY DEF TypeInv, VarTypes
  <1>2. s \in Procs /\ r \in Procs /\ s # r /\ Procs = {s, r}
    BY PairTypes
  <1>3. Standing => Standing'
    BY DEF Standing
  <1>4. pc[s] \in Gone => pc'[s] \in Gone
    BY <1>1, <1>2
  <1>5. \A q \in Procs : pc'[q] # "start" => Len(segs') # 0
    BY <1>1 DEF Keys
  <1>6. pc'[s] \in Unattached => Standing'
    BY <1>1, <1>2, <1>3 DEF Keys
  <1>7. pc'[s] \in {"loop"} \cup InStruct \cup InPut => attached'[s] = 1
    BY <1>1, <1>2 DEF Keys
  <1>8. pc'[r] \in Unattached /\ pc'[s] \notin Gone => Standing'
    BY <1>1, <1>2, <1>3, <1>4 DEF Keys
  <1>9. pc'[r] = "loop" /\ attached'[r] = None => pc'[s] \in Gone /\ got'[r] = <<>>
    BY <1>1, <1>2, <1>4 DEF Keys
  <1>10. pc'[r] \in Leaving \ {"killed"} => pc'[s] \in Gone \/ QuitTyped(s)'
    <2> SUFFICES ASSUME pc'[r] \in Leaving \ {"killed"} PROVE pc'[s] \in Gone \/ QuitTyped(s)'
      OBVIOUS
    <2>1. pc[s] \in Gone \/ QuitTyped(s)
      BY <1>1, <1>2 DEF Keys
    <2>2. typed'[s] = typed[s]
      OBVIOUS
    <2>3. QED
      BY <1>4, <2>1, <2>2 DEF QuitTyped
  <1>11. Len(segs') > 1 =>
           /\ Len(segs') = 2 /\ pc'[s] \in Gone /\ fresh'[r] /\ shmid'[r] = 2
           /\ shmid'[s] <= 1
           /\ pc'[r] \in {"attach", "loop", "get_wait", "killed"} \cup InStruct
           /\ got'[r] = <<>> /\ segs'[2].in = 0 /\ segs'[2].out = 0
           /\ ~ segs'[2].removed /\ (pc'[r] = "loop" => attached'[r] # None)
    <2> SUFFICES ASSUME Len(segs') > 1
                 PROVE  /\ Len(segs') = 2 /\ pc'[s] \in Gone /\ fresh'[r] /\ shmid'[r] = 2
                        /\ shmid'[s] <= 1
                        /\ pc'[r] \in {"attach", "loop", "get_wait", "killed"} \cup InStruct
                        /\ got'[r] = <<>> /\ segs'[2].in = 0 /\ segs'[2].out = 0
                        /\ ~ segs'[2].removed /\ (pc'[r] = "loop" => attached'[r] # None)
      OBVIOUS
    <2>1. Len(segs) > 1 /\ Len(segs) = 2 /\ 2 \in 1 .. Len(segs)
      BY DEF Keys
    <2>2. /\ pc'[s] \in Gone /\ fresh'[r] /\ shmid'[r] = 2 /\ shmid'[s] <= 1
          /\ got'[r] = <<>>
      BY <1>4, <2>1 DEF Keys
    <2>3. pc'[r] \in {"attach", "loop", "get_wait", "killed"} \cup InStruct
      BY <1>1, <1>2, <2>1 DEF Keys
    <2>4. segs'[2].in = 0 /\ segs'[2].out = 0 /\ ~ segs'[2].removed
      BY <2>1 DEF Keys
    <2>5. pc'[r] = "loop" => attached'[r] # None
      BY <1>1, <1>2, <2>1 DEF Keys
    <2>6. QED
      BY <2>1, <2>2, <2>3, <2>4, <2>5
  <1>12. QED
    BY <1>5, <1>6, <1>7, <1>8, <1>9, <1>10, <1>11 DEF Keys

(* Opening, for a step that makes no segment.                                *)
LEMMA OpeningKept ==
  ASSUME TypeInv, NEW s, NEW r, Pair(s, r), Opening(s, r), NEW p \in Procs,
         NEW to \in Labels \ {"start"}, pc' = [pc EXCEPT ![p] = to],
         UNCHANGED <<shmid, fresh>> \/ (UNCHANGED fresh /\ ~ fresh[p]
           /\ \A q \in Procs \ {p} : shmid'[q] = shmid[q]),
         to \in InInit => pc[p] \in {"start"} \cup InInit,
         pc[s] \in {"start"} \cup InInit => typed'[s] = typed[s],
         pc[r] \in {"start"} \cup InInit => got'[r] = got[r],
         \A q \in Procs : Making(q) =>
           /\ TheSegment'.in = 0 /\ TheSegment'.out = 0 /\ TheSegment'.mutex = 0
           /\ typed'[s] = <<>>
           /\ p = r => to \notin InGet \ {"get_wait"}
           /\ p = s /\ q = r => to \in Unattached \cup {"killed"}
  PROVE  Opening(s, r)'
  <1>1. pc'[p] = to /\ \A q \in Procs \ {p} : pc'[q] = pc[q]
    BY DEF TypeInv, VarTypes
  <1>2. s \in Procs /\ r \in Procs /\ s # r /\ Procs = {s, r}
    BY PairTypes
  <1>3. ASSUME NEW q \in Procs, Making(q)' PROVE Making(q)
    <2>1. pc[p] \in InInit \/ p # q
      <3> SUFFICES ASSUME p = q, pc[p] = "start" PROVE FALSE
        BY <1>1, <1>3 DEF Making
      <3>1. ~ fresh[p]
        BY DEF TypeInv, Place
      <3>2. QED
        BY <1>3, <3>1 DEF Making
    <2>2. QED
      BY <1>1, <1>3, <2>1 DEF Making
  <1>4. pc'[s] \in {"start"} \cup InInit => typed'[s] = <<>>
    BY <1>1, <1>2 DEF Opening
  <1>5. pc'[r] \in {"start"} \cup InInit => got'[r] = <<>>
    BY <1>1, <1>2 DEF Opening
  <1>6. ASSUME NEW q \in Procs, Making(q)'
        PROVE  /\ TheSegment'.in = 0 /\ TheSegment'.out = 0 /\ TheSegment'.mutex = 0
               /\ typed'[s] = <<>> /\ pc'[r] \notin InGet \ {"get_wait"}
               /\ q = r => pc'[s] \in Unattached \cup {"killed"}
    BY <1>1, <1>2, <1>3, <1>6 DEF Opening
  <1>7. QED
    BY <1>4, <1>5, <1>6 DEF Opening

(* Quits, for a step that types nothing.                                     *)
LEMMA QuitsKept ==
  ASSUME TypeInv, NEW s, NEW r, Pair(s, r), Quits(s), NEW p \in Procs,
         NEW to \in Labels, pc' = [pc EXCEPT ![p] = to], typed'[s] = typed[s],
         p = s => /\ pc[p] \in InPut \cup Leaving /\ QuitTyped(s) => to \in InPut \cup Leaving
                  /\ to \in InPut => pc[p] \in InPut,
         char'[s] = char[s] \/ pc'[s] \notin InPut
  PROVE  Quits(s)'
  <1>1. pc'[p] = to /\ \A q \in Procs \ {p} : pc'[q] = pc[q]
    BY DEF TypeInv, VarTypes
  <1>2. s \in Procs /\ Len(typed[s]) \in Nat
    BY PairTypes
  <1>3. ASSUME NEW i \in 1 .. Len(typed[s]), typed[s][i] = Quit
        PROVE  i = Len(typed[s]) /\ pc'[s] \in InPut \cup Leaving
    <2>1. i = Len(typed[s]) /\ pc[s] \in InPut \cup Leaving
      BY <1>3 DEF Quits
    <2>2. QuitTyped(s)
      BY <1>2, <1>3, <2>1 DEF QuitTyped
    <2>3. QED
      BY <1>1, <1>2, <2>1, <2>2
  <1>4. QED
    BY <1>1, <1>2, <1>3 DEF Quits

(* The ring after m characters, for a step that neither stores nor fetches   *)
(* and moves no index.                                                       *)
LEMMA RingQuiet ==
  ASSUME TypeInv, NEW s, NEW r, Pair(s, r), NEW m \in Nat, RingAt(m, s, r),
         NEW p \in Procs, NEW to \in Labels, pc' = [pc EXCEPT ![p] = to],
         TheSegment'.in = TheSegment.in, TheSegment'.out = TheSegment.out,
         TheSegment'.buf = TheSegment.buf,
         typed'[s] = typed[s], got'[r] = got[r],
         TheSegment'.size = 0 => TheSegment.size = 0 /\ (p = s => to \notin InPut \ {"put_next"}),
         p = s => \/ to \in {"killed", "faulted"}
                  \/ /\ pc[p] \notin {"killed", "faulted"}
                     /\ One(to, Holding) = One(pc[p], Holding)
                     /\ to \in Positioned => position'[s] = Slot(TheSegment.in + 1)
                     /\ to \in Storing => pc[p] \in Storing \/ (pc[r] # "killed" => Shows(m, r) < Room)
                     /\ to # "put_in",
         p # s => position'[s] = position[s] /\ char'[s] = char[s],
         p = r => \/ to = "killed"
                  \/ /\ pc[p] # "killed" /\ to # "faulted" /\ to # "get_out" /\ pc[p] # "get_out"
                     /\ to \in Handing => pc[p] \in Handing
                     /\ to \in Taking => pc[p] \in Taking \/ Shows(m, r) > 0,
         pc'[r] \in Handing => char'[r] = char[r]
  PROVE  RingAt(m, s, r)'
  <1>1. pc'[p] = to /\ \A q \in Procs \ {p} : pc'[q] = pc[q]
    BY DEF TypeInv, VarTypes
  <1>2. s \in Procs /\ r \in Procs /\ s # r /\ Procs = {s, r}
    BY PairTypes
  <1>3. Sent(m, s, r)'
    <2>1. pc'[s] \notin {"killed", "faulted"} =>
            m = Len(typed'[s]) - One(pc'[s], Holding)
      BY <1>1, <1>2 DEF RingAt, Sent
    <2>2. TheSegment'.size = 0 => m = 0 /\ pc'[s] \notin InPut \ {"put_next"}
      BY <1>1, <1>2 DEF RingAt, Sent
    <2>3. pc'[s] \in Positioned => position'[s] = Slot(TheSegment'.in + 1)
      BY <1>1, <1>2 DEF RingAt, Sent, Positioned, Storing
    <2>4. pc'[s] = "put_in" => TheSegment'.buf[TheSegment'.in] = char'[s]
      BY <1>1, <1>2 DEF RingAt, Sent
    <2>5. QED
      BY <2>1, <2>2, <2>3, <2>4 DEF RingAt, Sent
  <1>4. Fetched(s, r)'
    BY <1>1, <1>2 DEF RingAt, Fetched, IsPrefixOf, Handing
  <1>5. Between(m, s, r)'
    <2> SUFFICES ASSUME pc'[r] # "killed" PROVE Between(m, s, r)'
      BY DEF Between
    <2>1. pc[r] # "killed" /\ (pc'[r] = "get_out" <=> pc[r] = "get_out")
      BY <1>1, <1>2
    <2>2. Shows(m, r)' = Shows(m, r) /\ First(r)' = First(r)
      BY <2>1 DEF Shows, First, One
    <2>3. pc'[s] \in Storing => Shows(m, r) < Room
      BY <1>1, <1>2, <2>1 DEF RingAt, Between, Storing
    <2>4. pc'[r] \in Taking => Shows(m, r) > 0
      BY <1>1, <1>2, <2>1 DEF RingAt, Between
    <2>5. QED
      BY <2>1, <2>2, <2>3, <2>4 DEF RingAt, Between
  <1>6. QED
    BY <1>3, <1>4, <1>5 DEF RingAt

(* FilledParts after a step, part by part.                                   *)
LEMMA PartsFrom ==
  ASSUME TypeInv', NEW s, NEW r, Pair(s, r), Keys(s, r)', Opening(s, r)', Quits(s)',
         NEW m \in Nat, RingAt(m, s, r)'
  PROVE  FilledParts(s, r)'
  <1>1. Len(typed'[s]) \in Nat
    BY ProgramAssumption DEF Pair, TypeInv, VarTypes
  <1>2. m <= Len(typed'[s])
    BY DEF RingAt, Sent
  <1>3. m \in 0 .. Len(typed'[s])
    BY <1>1, <1>2
  <1>4. QED
    BY <1>3 DEF FilledParts

(* The parts of FilledParts.                                                 *)
LEMMA PartsOf ==
  ASSUME TypeInv, NEW s, NEW r, Pair(s, r), FilledParts(s, r)
  PROVE  /\ Keys(s, r) /\ Opening(s, r) /\ Quits(s)
         /\ \E m \in Nat : RingAt(m, s, r)
  <1>1. Len(typed[s]) \in Nat
    BY PairTypes
  <1>2. QED
    BY <1>1 DEF FilledParts

(* The sender works on the first segment, and so does the receiver once it   *)
(* saw a character.                                                          *)
LEMMA WorksOnFirst ==
  ASSUME TypeInv, NEW s, NEW r, Pair(s, r), Keys(s, r)
  PROVE  /\ pc[s] \in InStruct \cup InPut => attached[s] = 1 /\ Seg(s) = TheSegment /\ Len(segs) # 0
         /\ pc[r] \in InGet \ {"get_wait"} => attached[r] = 1 /\ Seg(r) = TheSegment /\ Len(segs) = 1
         /\ Len(segs) = 1 /\ pc[r] \in Mapped => attached[r] = 1 /\ Seg(r) = TheSegment
  <1>1. s \in Procs /\ r \in Procs /\ segs \in Seq(Segment) /\ Len(segs) \in Nat
    BY PairTypes, FirstSegment
  <1>2. InStruct \cup InPut \cup InGet \subseteq Mapped /\ "start" \notin Mapped
    BY DEF Mapped, InStruct, InPut, BeforeStore, InGet
  <1>3. pc[s] \in InStruct \cup InPut => attached[s] = 1 /\ Seg(s) = TheSegment /\ Len(segs) # 0
    <2> SUFFICES ASSUME pc[s] \in InStruct \cup InPut
                 PROVE  attached[s] = 1 /\ Seg(s) = TheSegment /\ Len(segs) # 0
      OBVIOUS
    <2>1. attached[s] = 1
      BY DEF Keys
    <2>2. Len(segs) # 0
      BY <1>1, <2>1, OwnSegment DEF None
    <2>3. QED
      BY <2>1, <2>2, FirstSegment DEF Seg
  <1>4. Len(segs) = 1 /\ pc[r] \in Mapped => attached[r] = 1 /\ Seg(r) = TheSegment
    <2> SUFFICES ASSUME Len(segs) = 1, pc[r] \in Mapped
                 PROVE  attached[r] = 1 /\ Seg(r) = TheSegment
      OBVIOUS
    <2>1. attached[r] # None
      BY <1>1 DEF TypeInv, Place
    <2>2. attached[r] = 1
      BY <1>1, <2>1, OwnSegment
    <2>3. QED
      BY <2>2, FirstSegment DEF Seg
  <1>5. pc[r] \in InGet \ {"get_wait"} => Len(segs) = 1
    <2> SUFFICES ASSUME pc[r] \in InGet \ {"get_wait"} PROVE Len(segs) = 1
      OBVIOUS
    <2>1. pc[r] \notin {"attach", "loop", "get_wait", "killed"} \cup InStruct /\ pc[r] # "start"
      BY DEF InGet, InStruct
    <2>2. ~(Len(segs) > 1)
      BY <2>1 DEF Keys
    <2>3. Len(segs) # 0
      BY <1>1, <2>1 DEF Keys
    <2> DEFINE l == Len(segs)
    <2>4. l \in Nat /\ l # 0 /\ ~(l > 1)
      BY <1>1, <2>2, <2>3
    <2> HIDE DEF l
    <2>5. l = 1
      BY <2>4
    <2>6. QED
      BY <2>5 DEF l
  <1>6. QED
    BY <1>2, <1>3, <1>4, <1>5

(* buf_get never divides by zero: who fetched a character has a ring.        *)
LEMMA NoFaultOfReceiver ==
  ASSUME TypeInv, NEW s, NEW r, Pair(s, r), FilledParts(s, r), Fault(r)
  PROVE  FALSE
  <1>1. /\ pc[r] \in {"put_next", "get_out"} /\ Seg(r).size = 0
        /\ r \in Procs /\ r \notin Senders /\ Len(got[r]) \in Nat
    BY PairTypes, ProgramAssumption DEF Fault, Pair
  <1>2. pc[r] = "get_out"
    <2>1. pc[r] \notin InPut
      BY <1>1 DEF TypeInv, Place
    <2>2. QED
      BY <1>1, <2>1 DEF InPut, BeforeStore
  <1>3. PICK m \in Nat : RingAt(m, s, r)
    BY PartsOf
  <1>4. TheSegment.size = 0
    BY <1>1, <1>2, PartsOf, WorksOnFirst DEF InGet
  <1>5. m = 0 /\ Len(got[r]) <= m /\ Len(got[r]) > 0
    BY <1>2, <1>3, <1>4 DEF RingAt, Sent, Fetched, Handing
  <1>6. QED
    BY <1>1, <1>5

(* A program that comes to its end, by itself or not.                        *)
LEMMA EndFilled ==
  ASSUME TypeInv, TypeInv', NEW s, NEW r, Pair(s, r), FilledParts(s, r), NEW p \in Procs,
         Detach(p) \/ Exit(p) \/ Fault(p) \/ Crash(p)
  PROVE  FilledParts(s, r)'
  <1>1. Keys(s, r) /\ Opening(s, r) /\ Quits(s)
    BY PartsOf
  <1>2. PICK m \in Nat : RingAt(m, s, r)
    BY PartsOf
  <1>3. /\ attached' = [attached EXCEPT ![p] = None]
        /\ UNCHANGED <<segKey, segs, locals, typed, got>>
        /\ UNCHANGED <<shmid, fresh, position, char>>
    BY DEF Detach, Exit, Fault, Crash, End, locals, history
  <1>4. PICK to \in {"exit", "done", "faulted", "killed"} :
          /\ pc' = [pc EXCEPT ![p] = to]
          /\ to \in {"exit", "done"} => pc[p] \in {"detach", "exit"}
          /\ to = "faulted" => Fault(p)
          /\ to = "killed" => pc[p] \notin Ended \cup {"start"}
    BY DEF Detach, Exit, Fault, Crash, End, Goto
  <1>5. s \in Procs /\ r \in Procs /\ s # r /\ Procs = {s, r}
    BY PairTypes
  <1>6. p = r => to # "faulted"
    BY <1>4, NoFaultOfReceiver
  <1>7. p = s /\ to = "faulted" => pc[p] \in InPut
    <2>1. Fault(p) => pc[p] \in InPut \cup InGet
      BY DEF Fault, InPut, BeforeStore, InGet
    <2>2. p = s => pc[p] \notin InGet
      BY <1>5, PairTypes, ProgramAssumption DEF TypeInv, Place, Pair
    <2>3. QED
      BY <1>4, <2>1, <2>2
  <1>8. /\ to \in Labels \ ({"start"} \cup Unattached) /\ to \in Gone /\ to \in Leaving
        /\ to \notin {"loop"} \cup InStruct \cup InPut \cup InGet \cup InInit
    BY DEF Labels, Unattached, Gone, Leaving, Ended, InDestroy, InStruct, InPut, BeforeStore,
           InGet, InInit
  <1>9. pc[p] # "start"
    BY <1>4 DEF Fault
  <1>10. Keys(s, r)'
    <2>1. p = r /\ to \in Leaving \ {"killed"} => pc[s] \in Gone \/ QuitTyped(s)
      BY <1>1, <1>4, <1>6 DEF Keys, Leaving, InDestroy
    <2>2. Len(segs) > 1 =>
            /\ p = r => to \in {"loop", "get_wait", "killed"} \cup InStruct
            /\ p = r /\ to = "loop" => attached'[p] # None
      BY <1>1, <1>4, <1>6, <1>8 DEF Keys, InStruct
    <2>3. \A q \in Procs \ {p} : attached'[q] = attached[q]
      BY <1>3 DEF TypeInv, SegTypes
    <2>4. pc'[r] = "loop" /\ attached'[r] = None => got'[r] = <<>>
      BY <1>1, <1>3, <1>4, <1>5, <1>8, <2>3 DEF Keys, TypeInv, VarTypes
    <2>5. segs' = segs /\ Len(segs') = Len(segs) /\ got'[r] = got[r] /\ typed'[s] = typed[s]
          /\ UNCHANGED <<segKey, shmid, fresh>>
      BY <1>3
    <2>6. KeysFrame(s, r, p, to)
      <3>1. Len(segs) > 1 => segs'[2].in = segs[2].in /\ segs'[2].out = segs[2].out
        BY <2>5
      <3>2. \A g \in 1 .. Len(segs) : segs'[g].removed = segs[g].removed
        BY <2>5
      <3>3. /\ to \notin {"loop"} \cup InStruct \cup InPut /\ to \in Gone
            /\ pc' = [pc EXCEPT ![p] = to]
        BY <1>4, <1>8
      <3>4. QED
        BY <1>9, <2>1, <2>2, <2>3, <2>4, <2>5, <3>1, <3>2, <3>3 DEF KeysFrame
    <2>7. to \in Labels \ ({"start"} \cup Unattached)
      BY <1>8
    <2>8. QED
      BY <1>1, <2>6, <2>7, KeysKept
  <1>11. Opening(s, r)'
    <2>1. ASSUME NEW q \in Procs, Making(q), p = s, q = r PROVE to \in Unattached \cup {"killed"}
      <3>1. pc[s] \in Unattached \cup {"killed"}
        BY <1>1, <2>1 DEF Opening
      <3>2. pc[s] \notin {"detach", "exit"} \cup InPut
        BY <3>1 DEF Unattached, InPut, BeforeStore
      <3>3. QED
        BY <1>4, <1>7, <2>1, <3>2
    <2>2. \A q \in Procs : Making(q) =>
           /\ TheSegment'.in = 0 /\ TheSegment'.out = 0 /\ TheSegment'.mutex = 0
           /\ typed'[s] = <<>>
           /\ p = r => to \notin InGet \ {"get_wait"}
           /\ p = s /\ q = r => to \in Unattached \cup {"killed"}
      BY <1>1, <1>3, <1>8, <2>1 DEF Opening, TheSegment
    <2>3. UNCHANGED <<shmid, fresh>> /\ typed'[s] = typed[s] /\ got'[r] = got[r]
      BY <1>3
    <2>4. QED
      BY <1>1, <1>4, <1>8, <2>2, <2>3, OpeningKept
  <1>12. Quits(s)'
    BY <1>1, <1>3, <1>4, <1>8, QuitsKept
  <1>13. RingAt(m, s, r)'
    <2>1. TheSegment' = TheSegment /\ typed'[s] = typed[s] /\ got'[r] = got[r]
          /\ position' = position /\ char' = char
      BY <1>3 DEF TheSegment
    <2>2. p = s => \/ to \in {"killed", "faulted"}
                   \/ /\ pc[p] \notin {"killed", "faulted"}
                      /\ One(to, Holding) = One(pc[p], Holding)
                      /\ to \in Positioned => position'[s] = Slot(TheSegment.in + 1)
                      /\ to \in Storing => pc[p] \in Storing \/ (pc[r] # "killed" => Shows(m, r) < Room)
                      /\ to # "put_in"
      BY <1>4 DEF One, Holding, BeforeStore, Positioned, Storing
    <2>3. p = r => \/ to = "killed"
                   \/ /\ pc[p] # "killed" /\ to # "faulted" /\ to # "get_out" /\ pc[p] # "get_out"
                      /\ to \in Handing => pc[p] \in Handing
                      /\ to \in Taking => pc[p] \in Taking \/ Shows(m, r) > 0
      BY <1>4, <1>6 DEF Handing, Taking
    <2>4. to \notin InPut
      BY <1>8
    <2>5. to \in Labels
      BY <1>8
    <2>6. QED
      BY <1>2, <1>4, <2>1, <2>2, <2>3, <2>4, <2>5, RingQuiet
  <1>14. QED
    BY <1>10, <1>11, <1>12, <1>13, PartsFrom

(* A step from a label outside buf_put and buf_get to another one.           *)
LEMMA RingAside ==
  ASSUME TypeInv, NEW s, NEW r, Pair(s, r), NEW m \in Nat, RingAt(m, s, r),
         NEW p \in Procs, NEW to \in {"loop"} \cup InInit, pc' = [pc EXCEPT ![p] = to],
         pc[p] \in {"start"} \cup InInit,
         TheSegment'.in = TheSegment.in, TheSegment'.out = TheSegment.out,
         TheSegment'.buf = TheSegment.buf,
         TheSegment'.size = 0 => TheSegment.size = 0,
         UNCHANGED <<typed, got, position, char>>
  PROVE  RingAt(m, s, r)'
  <1>1. /\ to \notin InPut \cup Holding \cup Positioned \cup Storing \cup Handing \cup Taking
        /\ pc[p] \notin InPut \cup Holding \cup Positioned \cup Storing \cup Handing \cup Taking
        /\ pc[p] \notin {"killed", "faulted", "get_out"}
        /\ to \notin {"put_in", "get_out", "faulted", "start"}
        /\ to \in Labels
    BY DEF InInit, InStruct, InPut, BeforeStore, Holding, Positioned, Storing, Handing, Taking,
           Labels
  <1>2. One(to, Holding) = 0 /\ One(pc[p], Holding) = 0
    BY <1>1 DEF One
  <1>3. typed'[s] = typed[s] /\ got'[r] = got[r] /\ position'[s] = position[s]
        /\ char'[s] = char[s] /\ char'[r] = char[r]
    OBVIOUS
  <1>4. QED
    BY <1>1, <1>2, <1>3, RingQuiet

(* What the pair has done while one of them is not in yet.                   *)
LEMMA NotInYet ==
  ASSUME TypeInv, NEW s, NEW r, Pair(s, r), Keys(s, r), Opening(s, r)
  PROVE  /\ Len(segs) = 0 => pc[s] = "start" /\ pc[r] = "start"
         /\ pc[s] \in Unattached => typed[s] = <<>>
         /\ pc[r] \in Unattached => got[r] = <<>>
         /\ pc[r] \in {"start", "shm_existing"} => Len(segs) <= 1
  <1>1. s \in Procs /\ r \in Procs /\ Len(segs) \in Nat
    BY PairTypes, FirstSegment
  <1>2. Len(segs) > 1 => pc[r] # "start" /\ pc[r] # "shm_existing"
    BY DEF Keys, InStruct
  <1>3. Unattached \subseteq {"start"} \cup InInit
    BY DEF Unattached, InInit
  <1>4. QED
    BY <1>1, <1>2, <1>3 DEF Keys, Opening, Unattached

(* shmget (line 30), when the key leads to a segment.                        *)
LEMMA FoundFilled ==
  ASSUME TypeInv, TypeInv', NEW s, NEW r, Pair(s, r), FilledParts(s, r), NEW p \in Procs,
         ShmCreate(p), segKey # None
  PROVE  FilledParts(s, r)'
  <1>1. Keys(s, r) /\ Opening(s, r) /\ Quits(s)
    BY PartsOf
  <1>2. PICK m \in Nat : RingAt(m, s, r)
    BY PartsOf
  <1>3. /\ pc[p] = "start" /\ pc' = [pc EXCEPT ![p] = "shm_existing"]
        /\ UNCHANGED <<segs, segKey, attached, shmid, fresh, position, char, typed, got>>
    BY DEF ShmCreate, Goto, history
  <1>4. s \in Procs /\ r \in Procs /\ s # r /\ Procs = {s, r}
    BY PairTypes
  <1>5. pc'[p] = "shm_existing" /\ \A q \in Procs \ {p} : pc'[q] = pc[q]
    BY <1>3 DEF TypeInv, VarTypes
  <1>6. /\ "shm_existing" \in Unattached /\ "start" \in Unattached
        /\ "shm_existing" \in InInit /\ "shm_existing" \in Labels \ {"start"}
        /\ "shm_existing" \notin {"loop"} \cup InStruct \cup InPut \cup InGet \cup Leaving
        /\ "start" \notin Gone \cup InPut \cup Leaving
    BY DEF Unattached, InInit, Labels, InStruct, InPut, BeforeStore, InGet, Leaving, InDestroy,
           Ended, Gone
  <1>7. Keys(s, r)'
    <2>1. Len(segs) # 0
      BY DEF TypeInv, SegTypes, None
    <2>2. Standing' <=> Standing
      BY <1>3 DEF Standing
    <2>3. pc[s] \in Gone <=> pc'[s] \in Gone
      BY <1>3, <1>4, <1>5 DEF Gone, Ended
    <2>4. pc[s] \in Unattached <=> pc'[s] \in Unattached
      BY <1>3, <1>4, <1>5, <1>6
    <2>5. pc[r] \in Unattached <=> pc'[r] \in Unattached
      BY <1>3, <1>4, <1>5, <1>6
    <2>6. QuitTyped(s) <=> QuitTyped(s)'
      BY <1>3 DEF QuitTyped
    <2>7. /\ pc'[s] \in {"loop"} \cup InStruct \cup InPut => pc'[s] = pc[s]
          /\ pc'[r] = "loop" => pc'[r] = pc[r]
          /\ pc'[r] \in Leaving \ {"killed"} => pc'[r] = pc[r]
      BY <1>4, <1>5, <1>6
    <2>8. Len(segs) > 1 => p # r
      BY <1>1, <1>3 DEF Keys, InStruct
    <2>9. QED
      BY <1>1, <1>3, <1>4, <1>5, <2>1, <2>2, <2>3, <2>4, <2>5, <2>6, <2>7, <2>8 DEF Keys
  <1>8. Opening(s, r)'
    <2>1. \A q \in Procs : Making(q) =>
           /\ TheSegment'.in = 0 /\ TheSegment'.out = 0 /\ TheSegment'.mutex = 0
           /\ typed'[s] = <<>>
           /\ p = r => "shm_existing" \notin InGet \ {"get_wait"}
           /\ p = s /\ q = r => "shm_existing" \in Unattached \cup {"killed"}
      BY <1>1, <1>3, <1>6 DEF Opening, TheSegment
    <2>2. UNCHANGED <<shmid, fresh>> /\ typed'[s] = typed[s] /\ got'[r] = got[r]
      BY <1>3
    <2>3. QED
      BY <1>1, <1>3, <1>6, <2>1, <2>2, OpeningKept
  <1>9. Quits(s)'
    BY <1>1, <1>3, <1>6, QuitsKept
  <1>10. RingAt(m, s, r)'
    <2>1. TheSegment' = TheSegment
      BY <1>3 DEF TheSegment
    <2>2. QED
      BY <1>2, <1>3, <1>6, <2>1, RingAside
  <1>11. QED
    BY <1>7, <1>8, <1>9, <1>10, PartsFrom

(* shmget, when it makes the first segment or, after the sender is gone, a   *)
(* second one.                                                               *)
LEMMA MadeFilled ==
  ASSUME TypeInv, TypeInv', NEW s, NEW r, Pair(s, r), FilledParts(s, r), NEW p \in Procs,
         ShmCreate(p), segKey = None
  PROVE  FilledParts(s, r)'
  <1>1. Keys(s, r) /\ Opening(s, r) /\ Quits(s)
    BY PartsOf
  <1>2. PICK m \in Nat : RingAt(m, s, r)
    BY PartsOf
  <1>3. /\ pc[p] = "start" /\ pc' = [pc EXCEPT ![p] = "attach"]
        /\ segs' = Append(segs, ZeroedSegment) /\ segKey' = Len(segs')
        /\ shmid' = [shmid EXCEPT ![p] = segKey'] /\ fresh' = [fresh EXCEPT ![p] = TRUE]
        /\ UNCHANGED <<attached, position, char, typed, got>>
    BY DEF ShmCreate, Goto, history
  <1>4. s \in Procs /\ r \in Procs /\ s # r /\ Procs = {s, r}
    BY PairTypes
  <1>5. /\ pc'[p] = "attach" /\ \A q \in Procs \ {p} : pc'[q] = pc[q]
        /\ fresh'[p] /\ \A q \in Procs \ {p} : fresh'[q] = fresh[q]
    BY <1>3 DEF TypeInv, VarTypes
  <1>6. /\ "attach" \in Unattached /\ "start" \in Unattached
        /\ "attach" \in InInit /\ "attach" \in Labels \ {"start"}
        /\ "attach" \notin {"loop"} \cup InStruct \cup InPut \cup InGet \cup Leaving
        /\ "start" \notin Gone \cup InPut \cup Leaving
        /\ "start" \notin {"loop"} \cup InStruct \cup InPut \cup InGet
    BY DEF Unattached, InInit, Labels, InStruct, InPut, BeforeStore, InGet, Leaving, InDestroy,
           Ended, Gone
  <1>7. /\ segs \in Seq(Segment) /\ Len(segs) \in Nat /\ ZeroedSegment \in Segment
        /\ ZeroedSegment.in = 0 /\ ZeroedSegment.out = 0 /\ ZeroedSegment.mutex = 0
        /\ ~ ZeroedSegment.removed
    BY FirstSegment, BoundAssumption DEF ZeroedSegment, Segment
  <1>8. /\ Len(segs') = Len(segs) + 1
        /\ segs'[Len(segs) + 1] = ZeroedSegment
        /\ \A g \in 1 .. Len(segs) : segs'[g] = segs[g]
    BY <1>3, <1>7
  <1>9. shmid'[p] = Len(segs) + 1 /\ (\A q \in Procs \ {p} : shmid'[q] = shmid[q])
        /\ segKey' = Len(segs) + 1
    BY <1>3, <1>8 DEF TypeInv, SegTypes
  <1>10. Quits(s)'
    BY <1>1, <1>3, <1>6, QuitsKept
  <1>11. TheSegment' = TheSegment
    <2>1. CASE Len(segs) = 0
      <3>1. TheSegment = ZeroedSegment
        BY <2>1, FirstSegment
      <3>2. TheSegment' = segs'[1]
        BY <1>8, <2>1, FirstSegment DEF TheSegment
      <3>3. QED
        BY <1>8, <2>1, <3>1, <3>2
    <2>2. CASE Len(segs) # 0
      <3>1. TheSegment = segs[1]
        BY <2>2, FirstSegment
      <3>2. segs'[1] = segs[1] /\ segs' # <<>>
        BY <1>7, <1>8, <2>2
      <3>3. QED
        BY <3>1, <3>2 DEF TheSegment
    <2>3. QED
      BY <2>1, <2>2
  <1>12. RingAt(m, s, r)'
    BY <1>2, <1>3, <1>6, <1>11, RingAside
  <1>13. CASE Len(segs) = 0
    <2>1. pc[s] = "start" /\ pc[r] = "start" /\ typed[s] = <<>> /\ got[r] = <<>>
      BY <1>1, <1>6, <1>13, NotInYet
    <2>2. pc'[s] \in {"start", "attach"} /\ pc'[r] \in {"start", "attach"}
      BY <1>4, <1>5, <2>1
    <2>3. Standing'
      BY <1>7, <1>8, <1>9, <1>13 DEF Standing
    <2>4. Keys(s, r)'
      <3>1. Len(segs') = 1
        BY <1>8, <1>13
      <3>2. \A x \in {"start", "attach"} :
              /\ x \notin {"loop"} \cup InStruct \cup InPut \cup Leaving /\ x \in Unattached
        BY <1>6
      <3>3. QED
        BY <2>2, <2>3, <3>1, <3>2 DEF Keys
    <2>5. Opening(s, r)'
      <3>1. TheSegment'.in = 0 /\ TheSegment'.out = 0 /\ TheSegment'.mutex = 0
        BY <1>7, <1>11, <1>13, FirstSegment
      <3>2. pc'[s] \in Unattached /\ pc'[r] \notin InGet
        BY <1>6, <2>2
      <3>3. QED
        BY <1>3, <2>1, <3>1, <3>2 DEF Opening
    <2>6. QED
      BY <1>10, <1>12, <2>4, <2>5, PartsFrom
  <1>14. CASE Len(segs) # 0
    <2>1. ~ Standing
      BY <1>14 DEF Standing, None
    <2>2. p = r /\ pc[s] \in Gone /\ Len(segs) = 1
      <3>1. p = r
        BY <1>1, <1>3, <1>4, <1>6, <2>1 DEF Keys
      <3>2. pc[s] \in Gone
        BY <1>1, <1>3, <1>6, <2>1, <3>1 DEF Keys
      <3>3. Len(segs) <= 1
        BY <1>1, <1>3, <3>1, NotInYet
      <3>4. Len(segs) = 1
        <4>1. Len(segs) \in Nat /\ Len(segs) # 0
          BY <1>7, <1>14
        <4>2. QED
          BY <3>3, <4>1
      <3>5. QED
        BY <3>1, <3>2, <3>4
    <2>3. /\ pc'[s] = pc[s] /\ pc'[s] \in Gone /\ pc'[r] = "attach" /\ shmid'[r] = 2
          /\ fresh'[r] /\ Len(segs') = 2 /\ segs'[2] = ZeroedSegment /\ shmid'[s] = shmid[s]
          /\ got'[r] = <<>>
      BY <1>1, <1>3, <1>4, <1>5, <1>6, <1>8, <1>9, <2>2, NotInYet
    <2>4. /\ pc'[s] \notin Unattached \cup {"loop"} \cup InStruct \cup InPut \cup InInit
          /\ pc'[s] # "start"
      BY <2>3 DEF Gone, Ended, Unattached, InStruct, InPut, BeforeStore, InInit
    <2>5. Keys(s, r)'
      <3>1. shmid[s] <= 1
        BY <1>4, <2>2 DEF TypeInv, SegTypes
      <3>2. "attach" \notin Leaving /\ "attach" # "loop"
        BY <1>6
      <3>3. QED
        BY <1>7, <2>3, <2>4, <3>1, <3>2 DEF Keys
    <2>6. Opening(s, r)'
      <3>1. \A q \in Procs : ~ Making(q)'
        BY <1>4, <2>3, <2>4 DEF Making
      <3>2. QED
        BY <2>3, <2>4, <3>1 DEF Opening
    <2>7. QED
      BY <1>10, <1>12, <2>5, <2>6, PartsFrom
  <1>15. QED
    BY <1>13, <1>14

(* The second shmget (line 37).                                              *)
LEMMA ShmExistingFilled ==
  ASSUME TypeInv, TypeInv', NEW s, NEW r, Pair(s, r), FilledParts(s, r), NEW p \in Procs,
         ShmExisting(p)
  PROVE  FilledParts(s, r)'
  <1>1. Keys(s, r) /\ Opening(s, r) /\ Quits(s)
    BY PartsOf
  <1>2. PICK m \in Nat : RingAt(m, s, r)
    BY PartsOf
  <1>3. /\ pc[p] = "shm_existing"
        /\ UNCHANGED <<segs, segKey, attached, fresh, position, char, typed, got>>
    BY DEF ShmExisting, kernel, history
  <1>4. s \in Procs /\ r \in Procs /\ s # r /\ Procs = {s, r}
    BY PairTypes
  <1>5. /\ "shm_existing" \in Unattached /\ "attach" \in Unattached
        /\ "shm_existing" \notin Gone \cup InPut \cup Leaving
        /\ "attach" \in InInit /\ "attach" \in Labels \ {"start"}
        /\ "loop" \in Labels \ ({"start"} \cup Unattached)
        /\ "attach" \notin {"loop"} \cup InStruct \cup InPut \cup InGet \cup Leaving
        /\ "loop" \notin InPut \cup InGet \cup Leaving \cup InInit
        /\ "shm_existing" \in InInit
    BY DEF Unattached, InInit, Labels, InStruct, InPut, BeforeStore, InGet, Leaving, InDestroy,
           Ended, Gone
  <1>6. ~ fresh[p] /\ attached[p] = None
    BY <1>3, <1>5 DEF TypeInv, Place
  <1>7. PICK to \in {"attach", "loop"} :
          /\ pc' = [pc EXCEPT ![p] = to]
          /\ to = "attach" => segKey # None /\ shmid' = [shmid EXCEPT ![p] = segKey]
          /\ to = "loop" => segKey = None /\ shmid' = shmid
    BY DEF ShmExisting, Goto
  <1>8. pc'[p] = to /\ \A q \in Procs \ {p} : pc'[q] = pc[q] /\ shmid'[q] = shmid[q]
    BY <1>7 DEF TypeInv, VarTypes, SegTypes
  <1>9. TheSegment' = TheSegment
    BY <1>3 DEF TheSegment
  <1>10. RingAt(m, s, r)'
    <2>1. to \in {"loop"} \cup InInit /\ pc[p] \in {"start"} \cup InInit
      BY <1>3, <1>5
    <2>2. QED
      BY <1>2, <1>3, <1>7, <1>9, <2>1, RingAside
  <1>11. Quits(s)'
    BY <1>1, <1>3, <1>5, <1>7, QuitsKept
  <1>12. to = "loop" => p = r /\ pc[s] \in Gone /\ got[r] = <<>>
    <2> SUFFICES ASSUME to = "loop" PROVE p = r /\ pc[s] \in Gone /\ got[r] = <<>>
      OBVIOUS
    <2>1. Len(segs) # 0 /\ segKey = None
      BY <1>1, <1>3, <1>7 DEF Keys
    <2>2. ~ Standing
      BY <2>1 DEF Standing, None
    <2>3. p = r
      BY <1>1, <1>3, <1>4, <1>5, <2>2 DEF Keys
    <2>4. pc[s] \in Gone
      BY <1>1, <1>3, <1>5, <2>2, <2>3 DEF Keys
    <2>5. QED
      BY <1>1, <1>3, <1>5, <2>3, <2>4, NotInYet
  <1>13. Opening(s, r)'
    <2>1. \A q \in Procs : Making(q) =>
           /\ TheSegment'.in = 0 /\ TheSegment'.out = 0 /\ TheSegment'.mutex = 0
           /\ typed'[s] = <<>>
           /\ p = r => to \notin InGet \ {"get_wait"}
           /\ p = s /\ q = r => to \in Unattached \cup {"killed"}
      BY <1>1, <1>3, <1>4, <1>5, <1>9, <1>12 DEF Opening
    <2>2. /\ UNCHANGED fresh /\ ~ fresh[p] /\ \A q \in Procs \ {p} : shmid'[q] = shmid[q]
          /\ typed'[s] = typed[s] /\ got'[r] = got[r]
      BY <1>3, <1>6, <1>8
    <2>3. to \in Labels \ {"start"} /\ (to \in InInit => pc[p] \in {"start"} \cup InInit)
      BY <1>3, <1>5
    <2>4. QED
      BY <1>1, <1>7, <2>1, <2>2, <2>3, OpeningKept
  <1>14. Len(segs) <= 1
    <2>1. p = r => Len(segs) <= 1
      BY <1>1, <1>3, NotInYet
    <2>2. p = s => Len(segs) <= 1
      BY <1>1, <1>3, <1>5 DEF Keys, Standing
    <2>3. QED
      BY <1>4, <2>1, <2>2
  <1>15. Len(segs) \in Nat /\ ~ (Len(segs) > 1)
    BY <1>14, FirstSegment
  <1>16. CASE to = "attach"
    <2>1. /\ Standing' <=> Standing
          /\ QuitTyped(s)' <=> QuitTyped(s)
      BY <1>3 DEF Standing, QuitTyped
    <2>2. /\ pc[s] \in Gone <=> pc'[s] \in Gone
          /\ pc[s] \in Unattached <=> pc'[s] \in Unattached
          /\ pc[r] \in Unattached <=> pc'[r] \in Unattached
      BY <1>3, <1>4, <1>5, <1>8, <1>16 DEF Gone, Ended
    <2>3. /\ pc'[s] \in {"loop"} \cup InStruct \cup InPut => pc'[s] = pc[s]
          /\ pc'[r] = "loop" => pc'[r] = pc[r]
          /\ pc'[r] \in Leaving \ {"killed"} => pc'[r] = pc[r]
      BY <1>4, <1>5, <1>8, <1>16
    <2>4. \A q \in Procs : pc'[q] # "start" => Len(segs) # 0
      BY <1>1, <1>3, <1>8 DEF Keys
    <2>5. pc'[s] \in {"loop"} \cup InStruct \cup InPut => attached[s] = 1
      BY <1>1, <2>3 DEF Keys
    <2>6. pc'[r] = "loop" /\ attached[r] = None => pc'[s] \in Gone /\ got[r] = <<>>
      BY <1>1, <2>2, <2>3 DEF Keys
    <2>7. pc'[r] \in Leaving \ {"killed"} => pc'[s] \in Gone \/ QuitTyped(s)
      BY <1>1, <2>2, <2>3 DEF Keys
    <2>8. Keys(s, r)'
      BY <1>1, <1>3, <1>15, <2>1, <2>2, <2>4, <2>5, <2>6, <2>7 DEF Keys
    <2>9. QED
      BY <1>10, <1>11, <1>13, <2>8, PartsFrom
  <1>17. CASE to = "loop"
    <2>1. /\ Len(segs') = Len(segs) /\ UNCHANGED <<segKey, shmid, fresh>>
          /\ \A g \in 1 .. Len(segs) : segs'[g].removed = segs[g].removed
          /\ \A q \in Procs \ {p} : attached'[q] = attached[q]
          /\ typed'[s] = typed[s] /\ got'[r] = got[r]
      BY <1>3, <1>7, <1>17
    <2>2. p = r /\ p # s /\ pc[s] \in Gone /\ got'[r] = <<>> /\ pc[p] # "start"
      BY <1>3, <1>4, <1>12, <1>17
    <2>3. to \in Labels \ ({"start"} \cup Unattached) /\ to \notin Leaving
      BY <1>5, <1>17
    <2>4. /\ p = s /\ to \in {"loop"} \cup InStruct \cup InPut => attached'[p] = 1
          /\ p = s /\ pc[p] \in Gone => to \in Gone
          /\ p = r /\ to = "loop" /\ attached'[p] = None => pc[s] \in Gone
          /\ p = r /\ to \in Leaving \ {"killed"} => pc[s] \in Gone \/ QuitTyped(s)
          /\ pc'[r] = "loop" /\ attached'[r] = None => got'[r] = <<>>
      BY <2>2, <2>3
    <2>5. Len(segs) > 1 =>
           /\ segs'[2].in = segs[2].in /\ segs'[2].out = segs[2].out
           /\ p = r => to \in {"loop", "get_wait", "killed"} \cup InStruct
           /\ p = r /\ to = "loop" => attached'[p] # None
      BY <1>15
    <2>6. /\ QuitTyped(s) \/ pc'[r] \in Leaving \ {"killed"} => typed'[s] = typed[s]
          /\ got'[r] = got[r] \/ (Len(segs) = 1 /\ attached'[r] # None)
          /\ \A q \in Procs \ {p} : attached'[q] = attached[q]
          /\ UNCHANGED <<segKey, shmid, fresh>>
          /\ Len(segs') = Len(segs)
          /\ \A g \in 1 .. Len(segs) : segs'[g].removed = segs[g].removed
      BY <2>1
    <2>7. Keys(s, r)'
      <3>1. to \in Labels \ ({"start"} \cup Unattached) /\ pc[p] # "start"
        BY <2>2, <2>3
      <3>2. TypeInv /\ Pair(s, r) /\ Keys(s, r) /\ pc' = [pc EXCEPT ![p] = to]
        BY <1>1, <1>7
      <3>3. KeysFrame(s, r, p, to)
        BY <2>4, <2>5, <2>6, <3>1, <3>2 DEF KeysFrame
      <3>4. QED
        BY <3>1, <3>2, <3>3, KeysKept
    <2>8. QED
      BY <1>10, <1>11, <1>13, <2>7, PartsFrom
  <1>18. QED
    BY <1>16, <1>17

(* shmat (line 55): a sender does not come upon a ring that is half made.    *)
LEMMA AttachFilled ==
  ASSUME TypeInv, TypeInv', NEW s, NEW r, Pair(s, r), FilledParts(s, r), NEW p \in Procs,
         Attach(p), Filled'
  PROVE  FilledParts(s, r)'
  <1>1. Keys(s, r) /\ Opening(s, r) /\ Quits(s)
    BY PartsOf
  <1>2. PICK m \in Nat : RingAt(m, s, r)
    BY PartsOf
  <1>3. /\ pc[p] = "attach"
        /\ UNCHANGED <<segs, segKey, shmid, fresh, position, char, typed, got>>
    BY DEF Attach, locals
  <1>4. s \in Procs /\ r \in Procs /\ s # r /\ Procs = {s, r} /\ s \in Senders /\ Receivers = {r}
    BY PairTypes DEF Pair
  <1>5. /\ "attach" \in Unattached /\ "attach" \notin Gone \cup InPut \cup Leaving
        /\ "attach" \in InInit
        /\ {"loop", "set_size"} \subseteq Labels \ ({"start"} \cup Unattached)
        /\ "set_size" \in InStruct
        /\ "loop" \notin InPut \cup InGet \cup Leaving \cup InInit
        /\ "set_size" \notin InPut \cup InGet \cup Leaving /\ "set_size" \in InInit
    BY DEF Unattached, InInit, Labels, InStruct, InPut, BeforeStore, InGet, Leaving, InDestroy,
           Ended, Gone
  <1>6. attached[p] = None /\ shmid[p] # None /\ shmid[p] \in 1 .. Len(segs)
    BY <1>3, <1>5 DEF TypeInv, Place, SegTypes, None
  <1>7. PICK to \in {"loop", "set_size"} : pc' = [pc EXCEPT ![p] = to]
    BY DEF Attach, Goto
  <1>8. Standing => shmid[p] = 1 /\ Exists(1)
    <2> SUFFICES ASSUME Standing PROVE shmid[p] = 1 /\ Exists(1)
      OBVIOUS
    <2>1. shmid[p] = 1
      BY <1>6, FirstSegment DEF Standing
    <2>2. 1 \in 1 .. Len(segs)
      BY <1>6, <2>1
    <2>3. QED
      BY <2>1, <2>2 DEF Standing, Exists
  <1>9. p = s => Standing
    BY <1>1, <1>3, <1>5 DEF Keys
  <1>10. \/ Exists(shmid[p]) /\ attached' = [attached EXCEPT ![p] = shmid[p]]
         \/ ~ Exists(shmid[p]) /\ attached' = attached /\ to = "loop"
    <2>1. "loop" = to \/ Exists(shmid[p])
      BY <1>7 DEF Attach, Goto, TypeInv, VarTypes
    <2>2. QED
      BY <2>1 DEF Attach
  <1>11. \A q \in Procs \ {p} : attached'[q] = attached[q]
    BY <1>10 DEF TypeInv, SegTypes
  <1>12. attached'[p] = None => /\ p = r /\ to = "loop" /\ pc[s] \in Gone
                                /\ ~ Exists(shmid[p])
    <2> SUFFICES ASSUME attached'[p] = None
                 PROVE  p = r /\ to = "loop" /\ pc[s] \in Gone /\ ~ Exists(shmid[p])
      OBVIOUS
    <2>1. ~ Exists(shmid[p]) /\ to = "loop"
      BY <1>6, <1>10 DEF TypeInv, SegTypes
    <2>2. ~ Standing
      BY <1>8, <2>1
    <2>3. p = r
      BY <1>4, <1>9, <2>2
    <2>4. pc[s] \in Gone
      BY <1>1, <1>3, <1>5, <2>2, <2>3 DEF Keys
    <2>5. QED
      BY <2>1, <2>3, <2>4
  <1>13. p = s => attached'[p] = 1
    <2> SUFFICES ASSUME p = s PROVE attached'[p] = 1
      OBVIOUS
    <2>1. shmid[p] = 1 /\ Exists(shmid[p])
      BY <1>8, <1>9
    <2>2. attached' = [attached EXCEPT ![p] = shmid[p]]
      BY <1>10, <2>1
    <2>3. QED
      BY <2>1, <2>2 DEF TypeInv, SegTypes
  <1>14. Len(segs) > 1 => p = r /\ attached'[p] # None
    <2> SUFFICES ASSUME Len(segs) > 1 PROVE p = r /\ attached'[p] # None
      OBVIOUS
    <2>1. pc[s] \in Gone /\ shmid[r] = 2 /\ ~ segs[2].removed
      BY <1>1 DEF Keys
    <2>2. p = r
      BY <1>3, <1>4, <1>5, <2>1
    <2>3. Exists(shmid[p])
      BY <2>1, <2>2 DEF Exists
    <2>4. QED
      BY <1>12, <2>2, <2>3
  <1>15. /\ Len(segs') = Len(segs) /\ UNCHANGED <<segKey, shmid, fresh>>
         /\ \A g \in 1 .. Len(segs) : segs'[g].removed = segs[g].removed
         /\ typed'[s] = typed[s] /\ got'[r] = got[r] /\ TheSegment' = TheSegment
    BY <1>3 DEF TheSegment
  <1>16. got[r] = <<>> \/ p = s
    BY <1>1, <1>3, <1>4, <1>5, NotInYet
  <1>17. Keys(s, r)'
    <2>1. to \in Labels \ ({"start"} \cup Unattached) /\ to \notin Leaving /\ to \notin Gone
          /\ to \in {"loop"} \cup InStruct /\ pc[p] \notin Gone /\ pc[p] # "start"
      BY <1>3, <1>5 DEF Gone, Leaving
    <2>2. pc'[r] = "loop" /\ attached'[r] = None => got'[r] = <<>>
      <3>1. CASE p = r
        BY <1>3, <1>4, <1>16, <3>1
      <3>2. CASE p # r
        <4>1. pc'[r] = pc[r] /\ attached'[r] = attached[r]
          BY <1>4, <1>7, <1>11, <3>2 DEF TypeInv, VarTypes
        <4>2. QED
          BY <1>1, <1>15, <4>1 DEF Keys
      <3>3. QED
        BY <3>1, <3>2
    <2>3. p = r /\ to = "loop" /\ attached'[p] = None => pc[s] \in Gone
      BY <1>12
    <2>4. Len(segs) > 1 =>
           /\ segs'[2].in = segs[2].in /\ segs'[2].out = segs[2].out
           /\ p = r => to \in {"loop", "get_wait", "killed"} \cup InStruct
           /\ p = r /\ to = "loop" => attached'[p] # None
      BY <1>3, <1>14, <2>1
    <2>5. /\ p = s /\ to \in {"loop"} \cup InStruct \cup InPut => attached'[p] = 1
          /\ p = s /\ pc[p] \in Gone => to \in Gone
          /\ p = r /\ to \in Leaving \ {"killed"} => pc[s] \in Gone \/ QuitTyped(s)
      BY <1>13, <2>1
    <2>6. /\ QuitTyped(s) \/ pc'[r] \in Leaving \ {"killed"} => typed'[s] = typed[s]
          /\ got'[r] = got[r] \/ (Len(segs) = 1 /\ attached'[r] # None)
          /\ \A q \in Procs \ {p} : attached'[q] = attached[q]
          /\ UNCHANGED <<segKey, shmid, fresh>>
          /\ Len(segs') = Len(segs)
          /\ \A g \in 1 .. Len(segs) : segs'[g].removed = segs[g].removed
      BY <1>11, <1>15
    <2>7. to \in Labels \ ({"start"} \cup Unattached) /\ pc[p] # "start"
      BY <2>1
    <2>8. /\ p = s /\ to \in {"loop"} \cup InStruct \cup InPut => attached'[p] = 1
          /\ p = s /\ pc[p] \in Gone => to \in Gone
          /\ p = r /\ to = "loop" /\ attached'[p] = None => pc[s] \in Gone
          /\ p = r /\ to \in Leaving \ {"killed"} => pc[s] \in Gone \/ QuitTyped(s)
          /\ pc'[r] = "loop" /\ attached'[r] = None => got'[r] = <<>>
      BY <2>2, <2>3, <2>5
    <2>9. TypeInv /\ Pair(s, r) /\ Keys(s, r) /\ pc' = [pc EXCEPT ![p] = to]
      BY <1>1, <1>7
    <2>10. KeysFrame(s, r, p, to)
      BY <2>4, <2>6, <2>7, <2>8, <2>9 DEF KeysFrame
    <2>11. QED
      BY <2>7, <2>9, <2>10, KeysKept
  <1>18. Opening(s, r)'
    <2>1. ASSUME NEW q \in Procs, Making(q), p = s, q = r PROVE FALSE
      <3>1. shmid[s] = 1 /\ Exists(shmid[s])
        BY <1>8, <1>9, <2>1
      <3>2. HalfMade(shmid[s])
        BY <1>4, <2>1, <3>1 DEF HalfMade, Making
      <3>3. "half_made_ring" \in breaches'
        BY <1>4, <2>1, <3>1, <3>2 DEF Attach, Note
      <3>4. QED
        BY <3>3 DEF Filled
    <2>2. \A q \in Procs : Making(q) =>
           /\ TheSegment'.in = 0 /\ TheSegment'.out = 0 /\ TheSegment'.mutex = 0
           /\ typed'[s] = <<>>
           /\ p = r => to \notin InGet \ {"get_wait"}
           /\ p = s /\ q = r => to \in Unattached \cup {"killed"}
      BY <1>1, <1>5, <1>15, <2>1 DEF Opening
    <2>3. to \in Labels \ {"start"} /\ (to \in InInit => pc[p] \in {"start"} \cup InInit)
      BY <1>3, <1>5
    <2>4. QED
      BY <1>1, <1>7, <1>15, <2>2, <2>3, OpeningKept
  <1>19. Quits(s)'
    BY <1>1, <1>3, <1>5, <1>7, QuitsKept
  <1>20. RingAt(m, s, r)'
    <2>1. to \in {"loop"} \cup InInit /\ pc[p] \in {"start"} \cup InInit
      BY <1>3, <1>5
    <2>2. QED
      BY <1>2, <1>3, <1>7, <1>15, <2>1, RingAside
  <1>21. QED
    BY <1>17, <1>18, <1>19, <1>20, PartsFrom

(* What buf_init writes to the struct (lines 63 to 66).                      *)
LEMMA StructWritten ==
  ASSUME TypeInv, NEW s, NEW r, Pair(s, r), FilledParts(s, r), NEW p \in Procs,
         InitStruct(p)
  PROVE  /\ Len(segs') = Len(segs) /\ attached[p] # None
         /\ \A g \in 1 .. Len(segs) : segs'[g].removed = segs[g].removed
         /\ TheSegment'.in = TheSegment.in /\ TheSegment'.out = TheSegment.out
         /\ TheSegment'.buf = TheSegment.buf
         /\ TheSegment'.mutex = TheSegment.mutex
         /\ TheSegment'.size = 0 => TheSegment.size = 0
         /\ Len(segs) > 1 => segs'[2].in = segs[2].in /\ segs'[2].out = segs[2].out
         /\ p = s => attached[p] = 1
  <1>1. Keys(s, r) /\ Opening(s, r)
    BY PartsOf
  <1>2. pc[p] \in InStruct
    BY DEF InitStruct, InStruct
  <1>3. /\ pc[p] \in Mapped /\ pc[p] \in InInit
    BY <1>2 DEF Mapped, InInit
  <1>4. /\ s \in Procs /\ r \in Procs /\ s # r /\ Procs = {s, r} /\ Room \in Nat \ {0}
    BY PairTypes
  <1>5. attached[p] # None /\ fresh[p] /\ attached[p] = shmid[p]
    BY <1>2, <1>3 DEF TypeInv, Place
  <1>6. attached[p] \in 1 .. Len(segs) /\ Seg(p) \in Segment
    BY <1>5, OwnSegment
  <1>7. 0 \in 0 .. Room /\ 0 \in {0, 1} /\ Room + 1 \in {0, Room + 1} /\ Room + 1 # 0
    BY <1>4
  <1>8. PICK new \in Segment :
          /\ Len(segs') = Len(segs) /\ segs' \in Seq(Segment)
          /\ segs'[attached[p]] = new
          /\ \A g \in 1 .. Len(segs) : g # attached[p] => segs'[g] = segs[g]
          /\ new.removed = Seg(p).removed /\ new.buf = Seg(p).buf
          /\ new.in \in {0, Seg(p).in} /\ new.out \in {0, Seg(p).out}
          /\ new.mutex \in {0, Seg(p).mutex}
          /\ new.size \in {Room + 1, Seg(p).size}
    <2>1. CASE pc[p] = "set_size" /\ Write(p, "size", Room + 1)
      <3>1. [Seg(p) EXCEPT !.size = Room + 1] \in Segment
        BY <1>6, <1>7 DEF Segment
      <3>2. QED
        BY <1>5, <1>6, <1>7, <2>1, <3>1, WroteSize DEF Segment
    <2>2. CASE pc[p] = "set_out" /\ Write(p, "out", 0)
      <3>1. [Seg(p) EXCEPT !.out = 0] \in Segment
        BY <1>6, <1>7 DEF Segment
      <3>2. QED
        BY <1>5, <1>6, <1>7, <2>2, <3>1, WroteOut DEF Segment
    <2>3. CASE pc[p] = "set_in" /\ Write(p, "in", 0)
      <3>1. [Seg(p) EXCEPT !.in = 0] \in Segment
        BY <1>6, <1>7 DEF Segment
      <3>2. QED
        BY <1>5, <1>6, <1>7, <2>3, <3>1, WroteIn DEF Segment
    <2>4. CASE pc[p] = "set_mutex" /\ Write(p, "mutex", 0)
      <3>1. [Seg(p) EXCEPT !.mutex = 0] \in Segment
        BY <1>6, <1>7 DEF Segment
      <3>2. QED
        BY <1>5, <1>6, <1>7, <2>4, <3>1, WroteMutex DEF Segment
    <2>5. QED
      BY <2>1, <2>2, <2>3, <2>4 DEF InitStruct
  <1>9. \A g \in 1 .. Len(segs) : segs'[g].removed = segs[g].removed
    BY <1>6, <1>8 DEF Seg
  <1>10. Len(segs) # 0 /\ segs' # <<>> /\ TheSegment = segs[1] /\ TheSegment' = segs'[1]
    <2>1. Len(segs) # 0 /\ Len(segs') # 0
      BY <1>6, <1>8
    <2>2. segs' # <<>>
      BY <2>1
    <2>3. QED
      BY <2>1, <2>2, FirstSegment DEF TheSegment
  <1>11. p = s => attached[p] = 1
    BY <1>1, <1>2 DEF Keys
  <1>12. CASE attached[p] = 1
    <2>1. Making(p)
      BY <1>3, <1>5, <1>12 DEF Making
    <2>2. Seg(p) = TheSegment /\ TheSegment.in = 0 /\ TheSegment.out = 0 /\ TheSegment.mutex = 0
      BY <1>1, <1>10, <1>12, <2>1 DEF Opening, Seg
    <2>3. TheSegment' = new
      BY <1>8, <1>10, <1>12
    <2>4. Len(segs) > 1 => segs'[2] = segs[2]
      <3>1. Len(segs) > 1 => 2 \in 1 .. Len(segs)
        BY <1>1 DEF Keys
      <3>2. QED
        BY <1>8, <1>12, <3>1
    <2>5. QED
      BY <1>5, <1>7, <1>8, <1>9, <1>12, <2>2, <2>3, <2>4
  <1>13. CASE attached[p] # 1
    <2>1. Len(segs) = 2 /\ attached[p] = 2 /\ segs[2].in = 0 /\ segs[2].out = 0
      <3>1. Len(segs) > 1
        BY <1>6, <1>13, FirstSegment
      <3>2. Len(segs) = 2 /\ segs[2].in = 0 /\ segs[2].out = 0
        BY <1>1, <3>1 DEF Keys
      <3>3. QED
        BY <1>6, <1>13, <3>2
    <2>2. segs'[1] = segs[1]
      BY <1>8, <2>1
    <2>3. segs'[2].in = 0 /\ segs'[2].out = 0
      BY <1>8, <2>1 DEF Seg
    <2>4. TheSegment' = TheSegment
      BY <1>10, <2>2
    <2>5. p = r
      BY <1>4, <1>11, <1>13
    <2>6. QED
      BY <1>4, <1>5, <1>8, <1>9, <1>13, <2>1, <2>3, <2>4, <2>5
  <1>14. QED
    BY <1>12, <1>13

(* The writes of buf_init to the struct.                                     *)
LEMMA InitStructFilled ==
  ASSUME TypeInv, TypeInv', NEW s, NEW r, Pair(s, r), FilledParts(s, r), NEW p \in Procs,
         InitStruct(p)
  PROVE  FilledParts(s, r)'
  <1>1. Keys(s, r) /\ Opening(s, r) /\ Quits(s)
    BY PartsOf
  <1>2. PICK m \in Nat : RingAt(m, s, r)
    BY PartsOf
  <1>3. PICK to \in {"set_out", "set_in", "set_mutex", "loop"} : pc' = [pc EXCEPT ![p] = to]
    BY DEF InitStruct, Goto
  <1>4. /\ pc[p] \in InStruct
        /\ UNCHANGED <<segKey, attached, shmid, fresh, position, char, typed, got>>
    BY DEF InitStruct, InStruct, locals, history
  <1>5. s \in Procs /\ r \in Procs /\ s # r /\ Procs = {s, r}
    BY PairTypes
  <1>6. /\ Len(segs') = Len(segs) /\ attached[p] # None
        /\ \A g \in 1 .. Len(segs) : segs'[g].removed = segs[g].removed
        /\ TheSegment'.in = TheSegment.in /\ TheSegment'.out = TheSegment.out
        /\ TheSegment'.buf = TheSegment.buf
        /\ TheSegment'.mutex = TheSegment.mutex
        /\ TheSegment'.size = 0 => TheSegment.size = 0
        /\ Len(segs) > 1 => segs'[2].in = segs[2].in /\ segs'[2].out = segs[2].out
        /\ p = s => attached[p] = 1
    BY StructWritten
  <1>7. /\ to \in Labels \ ({"start"} \cup Unattached) /\ to \in {"loop"} \cup InStruct
        /\ to \in {"loop"} \cup InInit
        /\ to \notin InPut \cup InGet \cup Leaving \cup Gone
    BY DEF Unattached, InInit, Labels, InStruct, InPut, BeforeStore, InGet, Leaving, InDestroy,
           Ended, Gone
  <1>8. /\ pc[p] \in InInit /\ pc[p] # "start" /\ pc[p] \notin Gone \cup Leaving \cup InPut
        /\ pc[p] \notin Unattached \cup {"killed"}
    BY <1>4 DEF InInit, InStruct, Gone, Ended, Leaving, InDestroy, InPut, BeforeStore, Unattached
  <1>9. /\ typed'[s] = typed[s] /\ got'[r] = got[r] /\ char'[s] = char[s]
        /\ UNCHANGED <<segKey, shmid, fresh>> /\ \A q \in Procs \ {p} : attached'[q] = attached[q]
    BY <1>4
  <1>10. Keys(s, r)'
    <2>1. pc'[r] = "loop" /\ attached'[r] = None => got'[r] = <<>>
      <3>1. CASE p = r
        BY <1>4, <1>6, <3>1
      <3>2. CASE p # r
        <4>1. pc'[r] = pc[r] /\ attached'[r] = attached[r]
          BY <1>3, <1>4, <1>5, <3>2 DEF TypeInv, VarTypes
        <4>2. QED
          BY <1>1, <1>9, <4>1 DEF Keys
      <3>3. QED
        BY <3>1, <3>2
    <2>2. /\ p = s /\ to \in {"loop"} \cup InStruct \cup InPut => attached'[p] = 1
          /\ p = s /\ pc[p] \in Gone => to \in Gone
          /\ p = r /\ to = "loop" /\ attached'[p] = None => pc[s] \in Gone
          /\ p = r /\ to \in Leaving \ {"killed"} => pc[s] \in Gone \/ QuitTyped(s)
      BY <1>4, <1>6, <1>7, <1>8
    <2>3. Len(segs) > 1 =>
           /\ segs'[2].in = segs[2].in /\ segs'[2].out = segs[2].out
           /\ p = r => to \in {"loop", "get_wait", "killed"} \cup InStruct
           /\ p = r /\ to = "loop" => attached'[p] # None
      BY <1>4, <1>6, <1>7
    <2>4. to \in Labels \ ({"start"} \cup Unattached) /\ pc[p] # "start"
      BY <1>7, <1>8
    <2>5. /\ QuitTyped(s) \/ pc'[r] \in Leaving \ {"killed"} => typed'[s] = typed[s]
          /\ got'[r] = got[r] \/ (Len(segs) = 1 /\ attached'[r] # None)
          /\ \A q \in Procs \ {p} : attached'[q] = attached[q]
          /\ UNCHANGED <<segKey, shmid, fresh>>
          /\ Len(segs') = Len(segs)
          /\ \A g \in 1 .. Len(segs) : segs'[g].removed = segs[g].removed
      BY <1>6, <1>9
    <2>6. TypeInv /\ Pair(s, r) /\ Keys(s, r) /\ pc' = [pc EXCEPT ![p] = to]
      BY <1>1, <1>3
    <2>7. KeysFrame(s, r, p, to)
      BY <2>1, <2>2, <2>3, <2>4, <2>5, <2>6 DEF KeysFrame
    <2>8. QED
      BY <2>4, <2>6, <2>7, KeysKept
  <1>11. Opening(s, r)'
    <2>1. \A q \in Procs : Making(q) =>
           /\ TheSegment'.in = 0 /\ TheSegment'.out = 0 /\ TheSegment'.mutex = 0
           /\ typed'[s] = <<>>
           /\ p = r => to \notin InGet \ {"get_wait"}
           /\ p = s /\ q = r => to \in Unattached \cup {"killed"}
      BY <1>1, <1>6, <1>7, <1>8, <1>9 DEF Opening
    <2>2. to \in Labels \ {"start"} /\ (to \in InInit => pc[p] \in {"start"} \cup InInit)
      BY <1>7, <1>8
    <2>3. QED
      BY <1>1, <1>3, <1>9, <2>1, <2>2, OpeningKept
  <1>12. Quits(s)'
    <2>1. p = s => /\ pc[p] \in InPut \cup Leaving /\ QuitTyped(s) => to \in InPut \cup Leaving
                   /\ to \in InPut => pc[p] \in InPut
      BY <1>7, <1>8
    <2>2. to \in Labels
      BY <1>7
    <2>3. QED
      BY <1>1, <1>3, <1>9, <2>1, <2>2, QuitsKept
  <1>13. RingAt(m, s, r)'
    <2>1. pc[p] \in {"start"} \cup InInit /\ UNCHANGED <<typed, got, position, char>>
      BY <1>4, <1>8
    <2>2. QED
      BY <1>2, <1>3, <1>6, <1>7, <2>1, RingAside
  <1>14. QED
    BY <1>10, <1>11, <1>12, <1>13, PartsFrom

--------------------------------------------------------------------------------
(* A sender that has begun is not overtaken by one that makes the ring.      *)
LEMMA NobodyMakes ==
  ASSUME TypeInv, NEW s, NEW r, Pair(s, r), Keys(s, r), Opening(s, r),
         pc[s] \in {"loop"} \cup InPut
  PROVE  (\A q \in Procs : ~ Making(q)) /\ ~ (Len(segs) > 1) /\ attached[s] = 1
  <1>1. pc[s] \notin InInit \cup Unattached \cup {"killed"} \cup Gone
    BY DEF InPut, BeforeStore, InInit, InStruct, Unattached, Gone, Ended
  <1>2. Procs = {s, r}
    BY PairTypes
  <1>3. ~ Making(s)
    BY <1>1 DEF Making
  <1>4. ~ Making(r)
    BY <1>1, <1>2 DEF Opening
  <1>5. QED
    BY <1>1, <1>2, <1>3, <1>4 DEF Keys

(* main of the sender: a character is typed.                                 *)
LEMMA TypeFilled ==
  ASSUME TypeInv, TypeInv', NEW s, NEW r, Pair(s, r), FilledParts(s, r), Type(s)
  PROVE  FilledParts(s, r)'
  <1>1. Keys(s, r) /\ Opening(s, r) /\ Quits(s)
    BY PartsOf
  <1>2. PICK m \in Nat : RingAt(m, s, r)
    BY PartsOf
  <1>3. /\ s \in Procs /\ r \in Procs /\ s # r /\ Procs = {s, r} /\ s \in Senders
        /\ typed[s] \in Seq(Chars) /\ Len(typed[s]) \in Nat /\ got[r] \in Seq(Chars \cup {Nul})
        /\ Len(got[r]) \in Nat
    BY PairTypes
  <1>4. /\ pc[s] = "loop"
        /\ UNCHANGED <<segKey, segs, attached, shmid, fresh, position, got>>
    BY DEF Type, kernel
  <1>5. (\A q \in Procs : ~ Making(q)) /\ ~ (Len(segs) > 1) /\ attached[s] = 1
    BY <1>1, <1>4, NobodyMakes
  <1>6. PICK d \in Chars :
          /\ Len(typed[s]) + 1 = MaxTyped => d = Quit
          /\ char' = [char EXCEPT ![s] = d] /\ typed' = [typed EXCEPT ![s] = Append(@, d)]
          /\ pc' = [pc EXCEPT ![s] = "put_next"]
    <2>1. is_mem_ok(s)
      BY <1>5 DEF is_mem_ok, None
    <2>2. PICK d \in Chars :
            /\ Len(typed[s]) + 1 = MaxTyped => d = Quit
            /\ char' = [char EXCEPT ![s] = d] /\ typed' = [typed EXCEPT ![s] = Append(@, d)]
            /\ Goto(s, IF is_mem_ok(s) THEN "put_next" ELSE AfterCall(d))
      BY DEF Type
    <2>3. pc' = [pc EXCEPT ![s] = "put_next"]
      BY <2>1, <2>2 DEF Goto
    <2>4. QED
      BY <2>2, <2>3
  <1>7. /\ pc'[s] = "put_next" /\ \A q \in Procs \ {s} : pc'[q] = pc[q]
        /\ char'[s] = d /\ \A q \in Procs \ {s} : char'[q] = char[q]
        /\ typed'[s] = Append(typed[s], d)
    BY <1>3, <1>6 DEF TypeInv, VarTypes
  <1>8. /\ Len(typed'[s]) = Len(typed[s]) + 1 /\ typed'[s][Len(typed[s]) + 1] = d
        /\ \A i \in 1 .. Len(typed[s]) : typed'[s][i] = typed[s][i]
    BY <1>3, <1>7
  <1>9. /\ "put_next" \in Labels \ ({"start"} \cup Unattached) /\ "put_next" \in InPut
        /\ "put_next" \notin InGet \cup Gone \cup Leaving \cup InInit \cup Unattached
        /\ "loop" \notin {"start"} \cup Gone \cup Leaving \cup InInit \cup Unattached \cup InPut
        /\ "put_next" \in Holding /\ "put_next" \notin Positioned \cup Storing \cup {"put_in"}
        /\ "loop" \notin Holding
    BY DEF Unattached, InInit, Labels, InStruct, InPut, BeforeStore, InGet, Leaving, InDestroy,
           Ended, Gone, Holding, Positioned, Storing
  <1>10. ~ QuitTyped(s)
    <2>1. ASSUME QuitTyped(s) PROVE FALSE
      <3>1. Len(typed[s]) \in 1 .. Len(typed[s]) /\ typed[s][Len(typed[s])] = Quit
        BY <1>3, <2>1 DEF QuitTyped
      <3>2. pc[s] \in InPut \cup Leaving
        BY <1>1, <3>1 DEF Quits
      <3>3. QED
        BY <1>4, <1>9, <3>2
    <2>2. QED
      BY <2>1
  <1>11. pc[r] \notin Leaving \ {"killed"} /\ pc'[r] = pc[r]
    BY <1>1, <1>3, <1>4, <1>7, <1>9, <1>10 DEF Keys
  <1>12. Keys(s, r)'
    <2>1. pc'[r] = "loop" /\ attached'[r] = None => got'[r] = <<>>
      BY <1>1, <1>4, <1>11 DEF Keys
    <2>2. /\ Len(segs') = Len(segs)
          /\ \A g \in 1 .. Len(segs) : segs'[g].removed = segs[g].removed
          /\ UNCHANGED <<segKey, shmid, fresh>>
          /\ \A q \in Procs \ {s} : attached'[q] = attached[q]
          /\ attached'[s] = 1 /\ got'[r] = got[r]
      BY <1>4, <1>5
    <2>3. KeysFrame(s, r, s, "put_next")
      <3>1. Len(segs) > 1 => segs'[2].in = segs[2].in /\ segs'[2].out = segs[2].out
        BY <1>4
      <3>2. /\ pc' = [pc EXCEPT ![s] = "put_next"] /\ pc[s] # "start" /\ pc[s] \notin Gone
            /\ QuitTyped(s) \/ pc'[r] \in Leaving \ {"killed"} => typed'[s] = typed[s]
        BY <1>4, <1>6, <1>10, <1>11 DEF Gone, Ended
      <3>3. QED
        BY <1>3, <2>1, <2>2, <3>1, <3>2 DEF KeysFrame
    <2>4. "put_next" \in Labels \ ({"start"} \cup Unattached)
      BY <1>9
    <2>5. QED
      BY <1>1, <1>3, <2>3, <2>4, KeysKept
  <1>13. Opening(s, r)'
    <2>1. UNCHANGED <<shmid, fresh>> /\ got'[r] = got[r] /\ pc[s] \notin {"start"} \cup InInit
      BY <1>4, <1>9
    <2>2. /\ "put_next" \in Labels \ {"start"} /\ "put_next" \notin InInit
          /\ pc' = [pc EXCEPT ![s] = "put_next"]
      BY <1>6, <1>9
    <2>3. "put_next" \in InInit => pc[s] \in {"start"} \cup InInit
      BY <2>2
    <2>4. /\ pc[s] \in {"start"} \cup InInit => typed'[s] = typed[s]
          /\ pc[r] \in {"start"} \cup InInit => got'[r] = got[r]
      BY <2>1
    <2>5. ASSUME NEW q \in Procs, Making(q)
          PROVE  /\ TheSegment'.in = 0 /\ TheSegment'.out = 0 /\ TheSegment'.mutex = 0
                 /\ typed'[s] = <<>>
                 /\ s = r => "put_next" \notin InGet \ {"get_wait"}
                 /\ s = s /\ q = r => "put_next" \in Unattached \cup {"killed"}
      BY <1>5, <2>5
    <2>6. QED
      BY <1>1, <1>3, <2>1, <2>2, <2>3, <2>4, <2>5, OpeningKept
  <1>14. Quits(s)'
    <2>1. ASSUME NEW i \in 1 .. Len(typed'[s]), typed'[s][i] = Quit
          PROVE  i = Len(typed'[s]) /\ pc'[s] \in InPut \cup Leaving
      <3>1. CASE i \in 1 .. Len(typed[s])
        <4>1. typed[s][i] = Quit
          BY <1>8, <2>1, <3>1
        <4>2. pc[s] \in InPut \cup Leaving
          BY <1>1, <3>1, <4>1 DEF Quits
        <4>3. QED
          BY <1>4, <1>9, <4>2
      <3>2. CASE i \notin 1 .. Len(typed[s])
        <4>1. i = Len(typed'[s])
          BY <1>3, <1>8, <3>2
        <4>2. QED
          BY <1>7, <1>9, <4>1
      <3>3. QED
        BY <3>1, <3>2
    <2>2. Len(typed'[s]) > 0 /\ char'[s] = typed'[s][Len(typed'[s])]
      BY <1>3, <1>7, <1>8
    <2>3. Len(typed[s]) # MaxTyped
      <3>1. ASSUME Len(typed[s]) = MaxTyped PROVE FALSE
        <4>1. typed[s][Len(typed[s])] = Quit
          BY <1>1, <3>1 DEF Quits
        <4>2. Len(typed[s]) > 0
          BY <3>1, BoundAssumption
        <4>3. QED
          BY <1>10, <4>1, <4>2 DEF QuitTyped
      <3>2. QED
        BY <3>1
    <2>4. Len(typed'[s]) <= MaxTyped
      <3>1. Len(typed[s]) <= MaxTyped
        BY <1>1 DEF Quits
      <3>2. QED
        BY <1>3, <1>8, <2>3, <3>1, BoundAssumption
    <2>5. Len(typed'[s]) = MaxTyped => typed'[s][Len(typed'[s])] = Quit
      BY <1>6, <1>8
    <2>6. QED
      BY <2>1, <2>2, <2>4, <2>5 DEF Quits
  <1>15. TheSegment' = TheSegment
    BY <1>4 DEF TheSegment
  <1>16. m = Len(typed[s]) /\ Len(got[r]) <= m
    <2>1. m = Len(typed[s]) - One(pc[s], Holding)
      BY <1>2, <1>4 DEF RingAt, Sent
    <2>2. One(pc[s], Holding) = 0
      BY <1>4, <1>9 DEF One
    <2>3. QED
      BY <1>2, <1>3, <2>1, <2>2 DEF RingAt, Sent
  <1>17. Sent(m, s, r)'
    <2>1. One(pc'[s], Holding) = 1
      BY <1>7, <1>9 DEF One
    <2>2. m = Len(typed'[s]) - One(pc'[s], Holding) /\ m <= Len(typed'[s])
      BY <1>3, <1>8, <1>16, <2>1
    <2>3. TheSegment'.size = 0 => m = 0
      BY <1>2, <1>15 DEF RingAt, Sent
    <2>4. got'[r] = got[r] /\ pc'[s] \notin Positioned /\ pc'[s] # "put_in"
          /\ pc'[s] \notin InPut \ {"put_next"}
      BY <1>4, <1>7, <1>9
    <2>5. QED
      BY <1>16, <2>2, <2>3, <2>4 DEF Sent
  <1>18. Fetched(s, r)'
    <2>1. got'[r] = got[r] /\ pc'[r] = pc[r] /\ char'[r] = char[r]
      BY <1>3, <1>4, <1>7
    <2>2. IsPrefixOf(got[r], typed'[s])
      <3>1. \A i \in 1 .. Len(got[r]) : got[r][i] = typed[s][i]
        BY <1>2 DEF RingAt, Fetched, IsPrefixOf
      <3>2. \A i \in 1 .. Len(got[r]) : i \in 1 .. Len(typed[s])
        BY <1>3, <1>16
      <3>3. Len(got[r]) <= Len(typed'[s])
        BY <1>3, <1>8, <1>16
      <3>4. QED
        BY <1>8, <3>1, <3>2, <3>3 DEF IsPrefixOf
    <2>3. QED
      BY <1>2, <2>1, <2>2 DEF RingAt, Fetched
  <1>19. Between(m, s, r)'
    <2> SUFFICES ASSUME pc'[r] # "killed" PROVE Between(m, s, r)'
      BY DEF Between
    <2>1. Shows(m, r)' = Shows(m, r) /\ First(r)' = First(r) /\ got'[r] = got[r]
      BY <1>4, <1>11, <1>15 DEF Shows, First
    <2>2. ASSUME NEW k \in 0 .. Room, k < m - Len(got[r])
          PROVE  TheSegment'.buf[Slot(First(r) + k)] = typed'[s][Len(got[r]) + k + 1]
      <3>1. Len(got[r]) + k + 1 \in 1 .. Len(typed[s])
        <4>1. k \in Nat
          BY BoundAssumption
        <4>2. k < Len(typed[s]) - Len(got[r])
          BY <1>16, <2>2
        <4>3. Len(typed[s]) \in Nat /\ Len(got[r]) \in Nat
          BY <1>3
        <4> DEFINE a == Len(typed[s])
                   b == Len(got[r])
        <4>4. k < a - b /\ a \in Nat /\ b \in Nat
          BY <4>2, <4>3
        <4> HIDE DEF a, b
        <4>5. b + k + 1 \in 1 .. a
          BY <4>1, <4>4
        <4>6. QED
          BY <4>5 DEF a, b
      <3>2. TheSegment.buf[Slot(First(r) + k)] = typed[s][Len(got[r]) + k + 1]
        BY <1>2, <1>11, <2>2 DEF RingAt, Between
      <3>3. QED
        BY <1>8, <1>15, <3>1, <3>2
    <2>3. /\ Shows(m, r) \in 0 .. Room /\ TheSegment'.in = Slot(TheSegment'.out + Shows(m, r))
          /\ pc'[r] \in Taking => Shows(m, r) > 0
      BY <1>2, <1>11, <1>15 DEF RingAt, Between
    <2>4. pc'[s] \notin Storing
      BY <1>7, <1>9
    <2>5. QED
      BY <2>1, <2>2, <2>3, <2>4 DEF Between
  <1>20. RingAt(m, s, r)'
    BY <1>17, <1>18, <1>19 DEF RingAt
  <1>21. QED
    BY <1>12, <1>13, <1>14, <1>20, PartsFrom

(* The keys, the opening and the typing, for a step inside buf_put.          *)
LEMMA PutFrame ==
  ASSUME TypeInv, NEW s, NEW r, Pair(s, r), Keys(s, r), Opening(s, r), Quits(s),
         pc[s] \in InPut, NEW to \in InPut \cup {"loop", "shm_rmid"},
         pc' = [pc EXCEPT ![s] = to], to = "loop" => char[s] # Quit,
         Len(segs') = Len(segs),
         \A g \in 1 .. Len(segs) : segs'[g].removed = segs[g].removed,
         UNCHANGED <<segKey, attached, shmid, fresh, char, typed, got>>
  PROVE  Keys(s, r)' /\ Opening(s, r)' /\ Quits(s)'
  <1>1. (\A q \in Procs : ~ Making(q)) /\ ~ (Len(segs) > 1) /\ attached[s] = 1
    BY NobodyMakes
  <1>2. /\ s \in Procs /\ r \in Procs /\ s # r /\ Procs = {s, r}
    BY PairTypes
  <1>3. /\ to \in Labels \ ({"start"} \cup Unattached) /\ to \notin InInit
        /\ pc[s] \notin Gone \cup InInit \cup {"start"}
        /\ "shm_rmid" \in Leaving /\ "loop" \notin InPut
    BY DEF Unattached, InInit, Labels, InStruct, InPut, BeforeStore, InDestroy, Ended, Gone,
           Leaving
  <1>4. /\ typed'[s] = typed[s] /\ got'[r] = got[r] /\ char'[s] = char[s]
        /\ UNCHANGED <<segKey, shmid, fresh>> /\ \A q \in Procs \ {s} : attached'[q] = attached[q]
        /\ attached'[s] = 1
    BY <1>1
  <1>5. Keys(s, r)'
    <2>1. pc'[r] = "loop" /\ attached'[r] = None => got'[r] = <<>>
      <3>1. pc'[r] = pc[r]
        BY <1>2 DEF TypeInv, VarTypes
      <3>2. QED
        BY <1>2, <1>4, <3>1 DEF Keys
    <2>2. QED
      BY <1>1, <1>2, <1>3, <1>4, <2>1, KeysKept DEF KeysFrame
  <1>6. Opening(s, r)'
    BY <1>1, <1>2, <1>3, <1>4, OpeningKept
  <1>7. Quits(s)'
    <2>1. QuitTyped(s) => to \in InPut \cup Leaving
      <3> SUFFICES ASSUME QuitTyped(s) PROVE to \in InPut \cup Leaving
        OBVIOUS
      <3>1. char[s] = Quit
        BY DEF QuitTyped, Quits
      <3>2. QED
        BY <1>3, <3>1
    <2>2. to \in Labels
      BY <1>3
    <2>3. QED
      BY <1>2, <1>4, <2>1, <2>2, QuitsKept
  <1>8. QED
    BY <1>5, <1>6, <1>7

(* Inside buf_put the ring has its size, unless it is being entered.         *)
LEMMA SizedInPut ==
  ASSUME TypeInv, NEW s, NEW r, Pair(s, r), NEW m, RingAt(m, s, r),
         pc[s] \in InPut \ {"put_next"}
  PROVE  TheSegment.size # 0
  BY DEF RingAt, Sent

(* Line 109.                                                                 *)
LEMMA PutNextFilled ==
  ASSUME TypeInv, TypeInv', NEW s, NEW r, Pair(s, r), FilledParts(s, r), put_next(s)
  PROVE  FilledParts(s, r)'
  <1>1. Keys(s, r) /\ Opening(s, r) /\ Quits(s)
    BY PartsOf
  <1>2. PICK m \in Nat : RingAt(m, s, r)
    BY PartsOf
  <1>3. /\ pc[s] = "put_next" /\ pc' = [pc EXCEPT ![s] = "put_wait"]
        /\ position' = [position EXCEPT ![s] = (Seg(s).in + 1) % Seg(s).size]
        /\ Seg(s).size # 0
        /\ UNCHANGED <<segKey, segs, attached, shmid, fresh, char, typed, got>>
    BY DEF put_next, kernel, history, Goto
  <1>4. /\ s \in Procs /\ r \in Procs /\ s # r /\ Procs = {s, r}
    BY PairTypes
  <1>5. /\ "put_next" \in InPut /\ "put_wait" \in InPut /\ "put_wait" \in Labels
        /\ "put_next" \in Holding /\ "put_wait" \in Holding
        /\ "put_wait" \notin Storing
    BY DEF InPut, BeforeStore, Labels, Holding, Storing
  <1>6. TheSegment' = TheSegment /\ Seg(s) = TheSegment /\ TheSegment \in Segment
    BY <1>1, <1>3, <1>5, WorksOnFirst, FirstSegment DEF TheSegment
  <1>7. position'[s] = Slot(TheSegment.in + 1)
    <2>1. TheSegment.size = Room + 1 /\ TheSegment.in \in 0 .. Room
      BY <1>3, <1>6 DEF Segment
    <2>2. (TheSegment.in + 1) % (Room + 1) = Slot(TheSegment.in + 1)
      BY <2>1, NextSlot
    <2>3. position'[s] = (TheSegment.in + 1) % (Room + 1)
      BY <1>3, <1>4, <1>6, <2>1 DEF TypeInv, VarTypes
    <2>4. QED
      BY <2>2, <2>3
  <1>8. Keys(s, r)' /\ Opening(s, r)' /\ Quits(s)'
    <2>1. /\ Len(segs') = Len(segs)
          /\ \A g \in 1 .. Len(segs) : segs'[g].removed = segs[g].removed
          /\ UNCHANGED <<segKey, attached, shmid, fresh, char, typed, got>>
      BY <1>3
    <2>2. QED
      BY <1>1, <1>3, <1>5, <2>1, PutFrame
  <1>9. RingAt(m, s, r)'
    <2>1. One("put_wait", Holding) = One(pc[s], Holding)
      BY <1>3, <1>5 DEF One
    <2>2. /\ typed'[s] = typed[s] /\ got'[r] = got[r] /\ char'[r] = char[r]
          /\ TheSegment'.size # 0
      BY <1>3, <1>6
    <2>3. QED
      BY <1>2, <1>3, <1>4, <1>5, <1>6, <1>7, <2>1, <2>2, RingQuiet
  <1>10. QED
    BY <1>8, <1>9, PartsFrom

(* Walking slots.                                                            *)
LEMMA SlotStep ==
  ASSUME NEW i \in 0 .. Room, NEW n \in 0 .. Room
  PROVE  /\ Slot(i + n) \in 0 .. Room
         /\ Slot(Slot(i + n) + 1) = Slot(i + (n + 1))
         /\ Slot(Slot(i + 1) + n) = Slot(i + (n + 1))
  BY BoundAssumption DEF Slot

(* Different steps lead to different slots.                                  *)
LEMMA SlotDistinct ==
  ASSUME NEW i \in 0 .. Room, NEW m \in 0 .. Room, NEW n \in 0 .. Room, m # n
  PROVE  Slot(i + m) # Slot(i + n)
  BY BoundAssumption DEF Slot

(* Who sees another place than the next one in out has a free slot.          *)
LEMMA SeesFree ==
  ASSUME NEW i \in 0 .. Room, NEW o \in 0 .. Room, NEW n \in 0 .. Room,
         i = Slot(o + n), o # Slot(i + 1)
  PROVE  n < Room
  <1>1. Slot(i + 1) = Slot(o + (n + 1))
    BY SlotStep
  <1>2. n # Room
    BY <1>1, BoundAssumption DEF Slot
  <1>3. QED
    BY <1>2, BoundAssumption

(* Lines 111 and 119.                                                        *)
LEMMA PutPollFilled ==
  ASSUME TypeInv, TypeInv', NEW s, NEW r, Pair(s, r), FilledParts(s, r),
         put_wait(s) \/ put_test(s)
  PROVE  FilledParts(s, r)'
  <1>1. Keys(s, r) /\ Opening(s, r) /\ Quits(s)
    BY PartsOf
  <1>2. PICK m \in Nat : RingAt(m, s, r)
    BY PartsOf
  <1>3. UNCHANGED <<segKey, segs, attached, shmid, fresh, position, char, typed, got>>
    BY DEF put_wait, put_test, Poll, kernel, locals, history
  <1>4. PICK to \in {"put_test", "put_set"} :
          /\ pc' = [pc EXCEPT ![s] = to]
          /\ to = "put_test" => pc[s] = "put_wait" /\ Seg(s).out # position[s]
          /\ to = "put_set" => pc[s] = "put_test"
    BY DEF put_wait, put_test, Poll, Goto
  <1>5. /\ s \in Procs /\ r \in Procs /\ s # r /\ Procs = {s, r} /\ Room \in Nat
    BY PairTypes
  <1>6. /\ pc[s] \in InPut \ {"put_next"} /\ to \in InPut /\ to \in Labels
        /\ pc[s] \in Holding /\ to \in Holding
        /\ pc[s] \in Positioned
        /\ to \notin {"loop", "put_in", "killed", "faulted"}
        /\ pc[s] \notin {"killed", "faulted"}
        /\ to = "put_set" => pc[s] \in Storing
    BY <1>4 DEF InPut, BeforeStore, Labels, Holding, Positioned, Storing
  <1>7. TheSegment' = TheSegment /\ Seg(s) = TheSegment /\ TheSegment \in Segment
    BY <1>1, <1>3, <1>6, WorksOnFirst, FirstSegment DEF TheSegment
  <1>8. Keys(s, r)' /\ Opening(s, r)' /\ Quits(s)'
    <2>1. /\ Len(segs') = Len(segs)
          /\ \A g \in 1 .. Len(segs) : segs'[g].removed = segs[g].removed
          /\ UNCHANGED <<segKey, attached, shmid, fresh, char, typed, got>>
      BY <1>3
    <2>2. to \in InPut \cup {"loop", "shm_rmid"} /\ pc[s] \in InPut
      BY <1>6
    <2>3. QED
      BY <1>1, <1>4, <1>6, <2>1, <2>2, PutFrame
  <1>9. position[s] = Slot(TheSegment.in + 1)
    BY <1>2, <1>6 DEF RingAt, Sent
  <1>10. to \in Storing => pc[s] \in Storing \/ (pc[r] # "killed" => Shows(m, r) < Room)
    <2> SUFFICES ASSUME pc[s] \notin Storing, pc[r] # "killed" PROVE Shows(m, r) < Room
      OBVIOUS
    <2>1. TheSegment.out # position[s]
      BY <1>4, <1>6, <1>7
    <2>2. /\ Shows(m, r) \in 0 .. Room /\ TheSegment.in = Slot(TheSegment.out + Shows(m, r))
      BY <1>2 DEF RingAt, Between
    <2>3. TheSegment.in \in 0 .. Room /\ TheSegment.out \in 0 .. Room
      BY <1>7 DEF Segment
    <2>4. QED
      BY <1>9, <2>1, <2>2, <2>3, SeesFree
  <1>11. RingAt(m, s, r)'
    <2>1. One(to, Holding) = One(pc[s], Holding)
      BY <1>6 DEF One
    <2>2. /\ typed'[s] = typed[s] /\ got'[r] = got[r] /\ char'[r] = char[r]
          /\ position'[s] = position[s] /\ TheSegment'.size # 0
      BY <1>2, <1>3, <1>6, <1>7, SizedInPut
    <2>3. QED
      BY <1>2, <1>4, <1>5, <1>6, <1>7, <1>9, <1>10, <2>1, <2>2, RingQuiet
  <1>12. QED
    BY <1>8, <1>11, PartsFrom

(* A write of the sender to the first segment.                               *)
LEMMA SenderWrites ==
  ASSUME TypeInv, NEW s, NEW r, Pair(s, r), Keys(s, r), pc[s] \in InPut,
         NEW new, new.removed = TheSegment.removed,
         Len(segs') = Len(segs), segs'[attached[s]] = new,
         \A g \in 1 .. Len(segs) : g # attached[s] => segs'[g] = segs[g]
  PROVE  /\ \A g \in 1 .. Len(segs) : segs'[g].removed = segs[g].removed
         /\ TheSegment' = new
  <1>1. attached[s] = 1 /\ Seg(s) = TheSegment /\ Len(segs) # 0
    BY WorksOnFirst
  <1>2. segs' # <<>> /\ TheSegment = segs[1]
    BY <1>1, FirstSegment
  <1>3. QED
    BY <1>1, <1>2 DEF TheSegment

(* Lines 121 and 130: the flag.                                              *)
LEMMA PutFlagFilled ==
  ASSUME TypeInv, TypeInv', NEW s, NEW r, Pair(s, r), FilledParts(s, r),
         put_set(s) \/ put_clear(s)
  PROVE  FilledParts(s, r)'
  <1>1. Keys(s, r) /\ Opening(s, r) /\ Quits(s)
    BY PartsOf
  <1>2. PICK m \in Nat : RingAt(m, s, r)
    BY PartsOf
  <1>3. UNCHANGED <<segKey, attached, shmid, fresh, position, char, typed, got>>
    BY DEF put_set, put_clear, Assign, locals, history
  <1>4. PICK v \in {0, 1} :
          /\ Write(s, "mutex", v)
          /\ \/ pc[s] = "put_set" /\ pc' = [pc EXCEPT ![s] = "put_store"]
             \/ pc[s] = "put_clear" /\ pc' = [pc EXCEPT ![s] = AfterCall(char[s])]
    BY DEF put_set, put_clear, Assign, Goto
  <1>5. PICK to \in {"put_store", "loop", "shm_rmid"} :
          /\ pc' = [pc EXCEPT ![s] = to]
          /\ to = "put_store" => pc[s] = "put_set"
          /\ to # "put_store" => pc[s] = "put_clear"
          /\ to = "loop" => char[s] # Quit
    BY <1>4 DEF AfterCall
  <1>6. /\ s \in Procs /\ r \in Procs /\ s # r /\ Procs = {s, r} /\ Room \in Nat
    BY PairTypes
  <1>7. /\ pc[s] \in InPut \ {"put_next"} /\ to \in InPut \cup {"loop", "shm_rmid"}
        /\ to \in Labels
        /\ to = "put_store" => pc[s] \in Holding /\ to \in Holding
        /\ to # "put_store" => pc[s] \notin Holding /\ to \notin Holding
        /\ to \in Positioned => pc[s] \in Positioned
        /\ to \in Storing => pc[s] \in Storing
        /\ to \notin {"put_in", "killed", "faulted"}
        /\ pc[s] \notin {"killed", "faulted"}
    BY <1>5 DEF InPut, BeforeStore, InDestroy, Labels, Holding, Positioned, Storing
  <1>8. attached[s] # None /\ Seg(s) = TheSegment /\ TheSegment \in Segment
    BY <1>1, <1>7, WorksOnFirst, FirstSegment DEF None
  <1>9. /\ Len(segs') = Len(segs) /\ segs'[attached[s]] = [TheSegment EXCEPT !.mutex = v]
        /\ \A g \in 1 .. Len(segs) : g # attached[s] => segs'[g] = segs[g]
    BY <1>4, <1>6, <1>8, WroteMutex
  <1>10. /\ \A g \in 1 .. Len(segs) : segs'[g].removed = segs[g].removed
         /\ TheSegment' = [TheSegment EXCEPT !.mutex = v]
    <2> DEFINE seg == [TheSegment EXCEPT !.mutex = v]
    <2>1. seg.removed = TheSegment.removed
      BY <1>8 DEF Segment
    <2>2. Len(segs') = Len(segs) /\ segs'[attached[s]] = seg
      BY <1>9
    <2>3. \A g \in 1 .. Len(segs) : g # attached[s] => segs'[g] = segs[g]
      BY <1>9
    <2>4. pc[s] \in InPut
      BY <1>7
    <2> HIDE DEF seg
    <2>5. (\A g \in 1 .. Len(segs) : segs'[g].removed = segs[g].removed) /\ TheSegment' = seg
      BY <1>1, <2>1, <2>2, <2>3, <2>4, SenderWrites
    <2>6. QED
      BY <2>5 DEF seg
  <1>11. /\ TheSegment'.in = TheSegment.in /\ TheSegment'.out = TheSegment.out
         /\ TheSegment'.buf = TheSegment.buf /\ TheSegment'.size = TheSegment.size
    BY <1>8, <1>10 DEF Segment
  <1>12. Keys(s, r)' /\ Opening(s, r)' /\ Quits(s)'
    <2>1. UNCHANGED <<segKey, attached, shmid, fresh, char, typed, got>> /\ pc[s] \in InPut
      BY <1>3, <1>7
    <2>2. QED
      BY <1>1, <1>5, <1>7, <1>9, <1>10, <2>1, PutFrame
  <1>13. RingAt(m, s, r)'
    <2>1. One(to, Holding) = One(pc[s], Holding)
      BY <1>7 DEF One
    <2>2. /\ typed'[s] = typed[s] /\ got'[r] = got[r] /\ char'[r] = char[r]
          /\ position'[s] = position[s] /\ TheSegment'.size # 0
      BY <1>2, <1>3, <1>7, <1>11, SizedInPut
    <2>3. to \in Positioned => position'[s] = Slot(TheSegment.in + 1)
      BY <1>2, <1>7, <2>2 DEF RingAt, Sent
    <2>4. QED
      BY <1>2, <1>5, <1>6, <1>7, <1>11, <2>1, <2>2, <2>3, RingQuiet
  <1>14. QED
    BY <1>12, <1>13, PartsFrom

(* in is just behind the newest character that is shown.                     *)
LEMMA NextFree ==
  ASSUME TypeInv, NEW s, NEW r, Pair(s, r), NEW m \in Nat, RingAt(m, s, r),
         pc[r] # "killed"
  PROVE  /\ First(r) \in 0 .. Room /\ m - Len(got[r]) \in 0 .. Room
         /\ TheSegment.in = Slot(First(r) + (m - Len(got[r])))
         /\ pc[s] \in Storing => m - Len(got[r]) < Room
         /\ Shows(m, r) = m - Len(got[r]) + One(pc[r], {"get_out"})
         /\ Shows(m, r) \in 0 .. Room /\ TheSegment.in = Slot(TheSegment.out + Shows(m, r))
  <1> DEFINE n == m - Len(got[r])
  <1>1. Len(got[r]) \in Nat /\ Room \in Nat \ {0} /\ Len(got[r]) <= m
    BY PairTypes DEF RingAt, Sent
  <1>2. n \in Nat
    BY <1>1
  <1>3. TheSegment.out \in 0 .. Room
    BY FirstSegment DEF Segment
  <1>4. /\ Shows(m, r) \in 0 .. Room /\ TheSegment.in = Slot(TheSegment.out + Shows(m, r))
        /\ pc[s] \in Storing => Shows(m, r) < Room
    BY DEF RingAt, Between
  <1>5. CASE pc[r] = "get_out"
    <2>1. Shows(m, r) = n + 1 /\ First(r) = Slot(TheSegment.out + 1)
      BY <1>5 DEF Shows, One, First
    <2> HIDE DEF n
    <2>2. n + 1 \in 0 .. Room /\ n \in 0 .. Room /\ (pc[s] \in Storing => n < Room)
      BY <1>1, <1>2, <1>4, <2>1
    <2>3. Slot(Slot(TheSegment.out + 1) + n) = Slot(TheSegment.out + (n + 1))
      BY <1>3, <2>2, SlotStep
    <2>4. 0 \in 0 .. Room /\ 1 \in 0 .. Room
      BY <1>1
    <2>5. Slot(TheSegment.out + 1) \in 0 .. Room
      BY <1>3, <2>4, SlotStep
    <2>6. QED
      BY <1>4, <1>5, <2>1, <2>2, <2>3, <2>5 DEF n, One
  <1>6. CASE pc[r] # "get_out"
    <2>1. Shows(m, r) = n /\ First(r) = TheSegment.out /\ One(pc[r], {"get_out"}) = 0
      BY <1>1, <1>2, <1>6 DEF Shows, One, First
    <2>2. Shows(m, r) = m - Len(got[r]) + One(pc[r], {"get_out"})
      BY DEF Shows
    <2>3. n \in 0 .. Room /\ TheSegment.in = Slot(TheSegment.out + n)
          /\ (pc[s] \in Storing => n < Room)
      BY <1>4, <2>1
    <2> QED
      BY <1>3, <1>4, <2>1, <2>2, <2>3
  <1>7. QED
    BY <1>5, <1>6

(* Line 124: the character is stored where nobody expects one.               *)
LEMMA PutStoreFilled ==
  ASSUME TypeInv, TypeInv', NEW s, NEW r, Pair(s, r), FilledParts(s, r), put_store(s)
  PROVE  FilledParts(s, r)'
  <1>1. Keys(s, r) /\ Opening(s, r) /\ Quits(s)
    BY PartsOf
  <1>2. PICK m \in Nat : RingAt(m, s, r)
    BY PartsOf
  <1>3. /\ pc[s] = "put_store" /\ pc' = [pc EXCEPT ![s] = "put_in"]
        /\ Write(s, "buf", [Seg(s).buf EXCEPT ![Seg(s).in] = char[s]])
        /\ UNCHANGED <<segKey, attached, shmid, fresh, position, char, typed, got>>
    BY DEF put_store, Assign, locals, history, Goto
  <1>4. /\ s \in Procs /\ r \in Procs /\ s # r /\ Procs = {s, r} /\ Room \in Nat
        /\ char[s] \in Chars \cup {Nul} /\ Len(got[r]) \in Nat
    BY PairTypes
  <1>5. /\ "put_store" \in InPut /\ "put_in" \in InPut /\ "put_in" # "loop"
        /\ "put_store" \in Holding /\ "put_in" \in Holding
        /\ "put_store" \in Storing /\ "put_store" \in Positioned
        /\ "put_in" \notin {"killed", "faulted"}
    BY DEF InPut, BeforeStore, Holding, Storing, Positioned
  <1>6. attached[s] # None /\ Seg(s) = TheSegment /\ TheSegment \in Segment
    BY <1>1, <1>3, <1>5, WorksOnFirst, FirstSegment DEF None
  <1> DEFINE new == [TheSegment.buf EXCEPT ![TheSegment.in] = char[s]]
  <1>7. /\ new \in [0 .. Room -> Chars \cup {Nul}] /\ TheSegment.in \in 0 .. Room
        /\ new[TheSegment.in] = char[s]
        /\ \A i \in 0 .. Room : i # TheSegment.in => new[i] = TheSegment.buf[i]
    BY <1>4, <1>6 DEF Segment
  <1>8. Write(s, "buf", new)
    BY <1>3, <1>6
  <1> HIDE DEF new
  <1>9. /\ Len(segs') = Len(segs) /\ segs'[attached[s]] = [TheSegment EXCEPT !.buf = new]
        /\ \A g \in 1 .. Len(segs) : g # attached[s] => segs'[g] = segs[g]
    BY <1>4, <1>6, <1>7, <1>8, WroteBuf
  <1>10. /\ \A g \in 1 .. Len(segs) : segs'[g].removed = segs[g].removed
         /\ TheSegment' = [TheSegment EXCEPT !.buf = new]
    <2> DEFINE seg == [TheSegment EXCEPT !.buf = new]
    <2>1. seg.removed = TheSegment.removed
      BY <1>6 DEF Segment
    <2>2. Len(segs') = Len(segs) /\ segs'[attached[s]] = seg
      BY <1>9
    <2>3. \A g \in 1 .. Len(segs) : g # attached[s] => segs'[g] = segs[g]
      BY <1>9
    <2>4. pc[s] \in InPut
      BY <1>3, <1>5
    <2> HIDE DEF seg
    <2>5. (\A g \in 1 .. Len(segs) : segs'[g].removed = segs[g].removed) /\ TheSegment' = seg
      BY <1>1, <2>1, <2>2, <2>3, <2>4, SenderWrites
    <2>6. QED
      BY <2>5 DEF seg
  <1>11. /\ TheSegment'.in = TheSegment.in /\ TheSegment'.out = TheSegment.out
         /\ TheSegment'.buf = new /\ TheSegment'.size = TheSegment.size
    BY <1>6, <1>10 DEF Segment
  <1>12. Keys(s, r)' /\ Opening(s, r)' /\ Quits(s)'
    <2>1. UNCHANGED <<segKey, attached, shmid, fresh, char, typed, got>> /\ pc[s] \in InPut
          /\ "put_in" \in InPut \cup {"loop", "shm_rmid"}
      BY <1>3, <1>5
    <2>2. QED
      BY <1>1, <1>3, <1>5, <1>9, <1>10, <2>1, PutFrame
  <1>13. /\ pc'[s] = "put_in" /\ pc'[r] = pc[r] /\ typed'[s] = typed[s] /\ got'[r] = got[r]
         /\ position'[s] = position[s] /\ char'[s] = char[s] /\ char'[r] = char[r]
    BY <1>3, <1>4 DEF TypeInv, VarTypes
  <1>14. Sent(m, s, r)'
    <2>1. One(pc'[s], Holding) = One(pc[s], Holding)
      BY <1>3, <1>5, <1>13 DEF One
    <2>2. m = Len(typed[s]) - One(pc[s], Holding)
      BY <1>2, <1>3 DEF RingAt, Sent
    <2>3. /\ Len(got'[r]) <= m /\ m <= Len(typed'[s]) /\ m = Len(typed'[s]) - One(pc'[s], Holding)
      BY <1>2, <1>13, <2>1, <2>2 DEF RingAt, Sent
    <2>4. TheSegment'.size # 0
      BY <1>2, <1>3, <1>5, <1>11, SizedInPut
    <2>5. position'[s] = Slot(TheSegment'.in + 1)
      BY <1>2, <1>3, <1>5, <1>11, <1>13 DEF RingAt, Sent
    <2>6. TheSegment'.buf[TheSegment'.in] = char'[s]
      BY <1>7, <1>11, <1>13
    <2>7. QED
      BY <2>3, <2>4, <2>5, <2>6 DEF Sent
  <1>15. Fetched(s, r)'
    BY <1>2, <1>13 DEF RingAt, Fetched, IsPrefixOf
  <1>16. Between(m, s, r)'
    <2> SUFFICES ASSUME pc'[r] # "killed" PROVE Between(m, s, r)'
      BY DEF Between
    <2>1. Shows(m, r)' = Shows(m, r) /\ First(r)' = First(r) /\ got'[r] = got[r]
      BY <1>11, <1>13 DEF Shows, First
    <2>2. /\ First(r) \in 0 .. Room /\ m - Len(got[r]) \in 0 .. Room
          /\ TheSegment.in = Slot(First(r) + (m - Len(got[r])))
      BY <1>2, <1>13, NextFree
    <2>3. ASSUME NEW k \in 0 .. Room, k < m - Len(got[r])
          PROVE  TheSegment'.buf[Slot(First(r) + k)] = typed'[s][Len(got[r]) + k + 1]
      <3>1. TheSegment.buf[Slot(First(r) + k)] = typed[s][Len(got[r]) + k + 1]
        BY <1>2, <1>13, <2>3 DEF RingAt, Between
      <3>2. k # m - Len(got[r])
        BY <1>4, <2>3
      <3>3. Slot(First(r) + k) # TheSegment.in
        BY <2>2, <3>2, SlotDistinct
      <3>4. Slot(First(r) + k) \in 0 .. Room
        BY <2>2, SlotStep
      <3>5. QED
        BY <1>7, <1>11, <1>13, <3>1, <3>3, <3>4
    <2>4. /\ Shows(m, r) \in 0 .. Room /\ TheSegment'.in = Slot(TheSegment'.out + Shows(m, r))
          /\ pc'[r] \in Taking => Shows(m, r) > 0
          /\ Shows(m, r) < Room
      BY <1>2, <1>3, <1>5, <1>11, <1>13 DEF RingAt, Between
    <2>5. QED
      BY <2>1, <2>3, <2>4 DEF Between
  <1>17. RingAt(m, s, r)'
    BY <1>14, <1>15, <1>16 DEF RingAt
  <1>18. QED
    BY <1>12, <1>17, PartsFrom

(* Line 127: the character is shown.                                         *)
LEMMA PutInFilled ==
  ASSUME TypeInv, TypeInv', NEW s, NEW r, Pair(s, r), FilledParts(s, r), put_in(s)
  PROVE  FilledParts(s, r)'
  <1>1. Keys(s, r) /\ Opening(s, r) /\ Quits(s)
    BY PartsOf
  <1>2. PICK m \in Nat : RingAt(m, s, r)
    BY PartsOf
  <1>3. /\ pc[s] = "put_in" /\ pc' = [pc EXCEPT ![s] = "put_clear"]
        /\ Write(s, "in", position[s])
        /\ UNCHANGED <<segKey, attached, shmid, fresh, position, char, typed, got>>
    BY DEF put_in, Assign, locals, history, Goto
  <1>4. /\ s \in Procs /\ r \in Procs /\ s # r /\ Procs = {s, r} /\ Room \in Nat
        /\ Len(got[r]) \in Nat /\ position[s] \in 0 .. Room /\ Len(typed[s]) \in Nat
    BY PairTypes DEF TypeInv, VarTypes
  <1>5. /\ "put_in" \in InPut /\ "put_clear" \in InPut /\ "put_clear" # "loop"
        /\ "put_in" \in Holding /\ "put_clear" \notin Holding
        /\ "put_in" \in Storing /\ "put_in" \in Positioned
        /\ "put_clear" \notin Storing \cup Positioned
        /\ "put_clear" \notin {"killed", "faulted", "put_in"}
    BY DEF InPut, BeforeStore, Holding, Storing, Positioned
  <1>6. attached[s] # None /\ Seg(s) = TheSegment /\ TheSegment \in Segment
    BY <1>1, <1>3, <1>5, WorksOnFirst, FirstSegment DEF None
  <1>7. /\ Len(segs') = Len(segs) /\ segs'[attached[s]] = [TheSegment EXCEPT !.in = position[s]]
        /\ \A g \in 1 .. Len(segs) : g # attached[s] => segs'[g] = segs[g]
    BY <1>3, <1>4, <1>6, WroteIn
  <1>8. /\ \A g \in 1 .. Len(segs) : segs'[g].removed = segs[g].removed
        /\ TheSegment' = [TheSegment EXCEPT !.in = position[s]]
    <2> DEFINE seg == [TheSegment EXCEPT !.in = position[s]]
    <2>1. seg.removed = TheSegment.removed
      BY <1>6 DEF Segment
    <2>2. Len(segs') = Len(segs) /\ segs'[attached[s]] = seg
      BY <1>7
    <2>3. \A g \in 1 .. Len(segs) : g # attached[s] => segs'[g] = segs[g]
      BY <1>7
    <2>4. pc[s] \in InPut
      BY <1>3, <1>5
    <2> HIDE DEF seg
    <2>5. (\A g \in 1 .. Len(segs) : segs'[g].removed = segs[g].removed) /\ TheSegment' = seg
      BY <1>1, <2>1, <2>2, <2>3, <2>4, SenderWrites
    <2>6. QED
      BY <2>5 DEF seg
  <1>9. /\ TheSegment'.in = position[s] /\ TheSegment'.out = TheSegment.out
        /\ TheSegment'.buf = TheSegment.buf /\ TheSegment'.size = TheSegment.size
    BY <1>6, <1>8 DEF Segment
  <1>10. Keys(s, r)' /\ Opening(s, r)' /\ Quits(s)'
    <2>1. UNCHANGED <<segKey, attached, shmid, fresh, char, typed, got>> /\ pc[s] \in InPut
          /\ "put_clear" \in InPut \cup {"loop", "shm_rmid"}
      BY <1>3, <1>5
    <2>2. QED
      BY <1>1, <1>3, <1>5, <1>7, <1>8, <2>1, PutFrame
  <1>11. /\ pc'[s] = "put_clear" /\ pc'[r] = pc[r] /\ typed'[s] = typed[s] /\ got'[r] = got[r]
         /\ char'[s] = char[s] /\ char'[r] = char[r]
    BY <1>3, <1>4 DEF TypeInv, VarTypes
  <1>12. m + 1 = Len(typed[s]) /\ Len(got[r]) <= m
    <2>1. One(pc[s], Holding) = 1
      BY <1>3, <1>5 DEF One
    <2>2. m = Len(typed[s]) - One(pc[s], Holding) /\ Len(got[r]) <= m
      BY <1>2, <1>3 DEF RingAt, Sent
    <2>3. QED
      BY <1>4, <2>1, <2>2
  <1>13. Sent(m + 1, s, r)'
    <2>1. One(pc'[s], Holding) = 0
      BY <1>5, <1>11 DEF One
    <2>2. /\ Len(got'[r]) <= m + 1 /\ m + 1 <= Len(typed'[s])
          /\ m + 1 = Len(typed'[s]) - One(pc'[s], Holding)
      BY <1>4, <1>11, <1>12, <2>1
    <2>3. TheSegment'.size # 0
      BY <1>2, <1>3, <1>5, <1>9, SizedInPut
    <2>4. QED
      BY <1>5, <1>11, <2>2, <2>3 DEF Sent
  <1>14. Fetched(s, r)'
    BY <1>2, <1>11 DEF RingAt, Fetched, IsPrefixOf
  <1>15. Between(m + 1, s, r)'
    <2> SUFFICES ASSUME pc'[r] # "killed" PROVE Between(m + 1, s, r)'
      BY DEF Between
    <2> DEFINE n == m - Len(got[r])
    <2>1. /\ First(r) \in 0 .. Room /\ n \in 0 .. Room /\ n < Room
          /\ TheSegment.in = Slot(First(r) + n)
          /\ Shows(m, r) = n + One(pc[r], {"get_out"})
          /\ Shows(m, r) \in 0 .. Room /\ TheSegment.in = Slot(TheSegment.out + Shows(m, r))
      BY <1>2, <1>3, <1>5, <1>11, NextFree
    <2>2. Shows(m, r) < Room
      BY <1>2, <1>3, <1>5, <1>11 DEF RingAt, Between
    <2>3. First(r)' = First(r) /\ got'[r] = got[r]
      BY <1>9, <1>11 DEF First
    <2>4. (m + 1) - Len(got[r]) = n + 1
      BY <1>4
    <2>5. Shows(m + 1, r)' = Shows(m, r) + 1
      <3>1. Shows(m + 1, r)' = ((m + 1) - Len(got[r])) + One(pc[r], {"get_out"})
        BY <1>11 DEF Shows
      <3> DEFINE o == One(pc[r], {"get_out"})
      <3>2. o \in {0, 1}
        BY DEF One
      <3>3. n \in Nat /\ Shows(m, r) = n + o
        BY <1>4, <2>1
      <3>4. Shows(m + 1, r)' = (n + 1) + o
        BY <2>4, <3>1
      <3> HIDE DEF n, o
      <3>5. QED
        BY <3>2, <3>3, <3>4
    <2>6. Shows(m, r) + 1 \in 0 .. Room
      BY <1>4, <2>1, <2>2
    <2>7. TheSegment'.in = Slot(TheSegment'.out + (Shows(m, r) + 1))
      <3>1. position[s] = Slot(TheSegment.in + 1)
        BY <1>2, <1>3, <1>5 DEF RingAt, Sent
      <3>2. TheSegment.out \in 0 .. Room
        BY <1>6 DEF Segment
      <3>3. Slot(Slot(TheSegment.out + Shows(m, r)) + 1)
              = Slot(TheSegment.out + (Shows(m, r) + 1))
        BY <2>1, <3>2, SlotStep
      <3>4. QED
        BY <1>9, <2>1, <3>1, <3>3
    <2>8. ASSUME NEW k \in 0 .. Room, k < n + 1
          PROVE  TheSegment'.buf[Slot(First(r) + k)] = typed'[s][Len(got[r]) + k + 1]
      <3>1. CASE k = n
        <4>1. TheSegment.buf[TheSegment.in] = char[s]
          BY <1>2, <1>3 DEF RingAt, Sent
        <4>2. char[s] = typed[s][Len(typed[s])]
          BY <1>1, <1>3, <1>5 DEF Quits
        <4>3. Len(got[r]) + k + 1 = Len(typed[s])
          BY <1>4, <1>12, <3>1
        <4>4. Slot(First(r) + k) = TheSegment.in
          BY <2>1, <3>1
        <4>5. QED
          BY <1>9, <1>11, <4>1, <4>2, <4>3, <4>4
      <3>2. CASE k # n
        <4>1. k < n
          <5> HIDE DEF n
          <5> QED BY <2>1, <2>8, <3>2
        <4>2. TheSegment.buf[Slot(First(r) + k)] = typed[s][Len(got[r]) + k + 1]
          BY <1>2, <1>11, <4>1 DEF RingAt, Between
        <4>3. QED
          BY <1>9, <1>11, <4>2
      <3>3. QED
        BY <3>1, <3>2
    <2>9. ASSUME NEW k \in 0 .. Room, k < (m + 1) - Len(got'[r])
          PROVE  TheSegment'.buf[Slot(First(r)' + k)] = typed'[s][Len(got'[r]) + k + 1]
      <3>1. k < n + 1
        BY <2>3, <2>4, <2>9
      <3> HIDE DEF n
      <3>2. QED
        BY <2>3, <2>8, <3>1
    <2>10. pc'[r] \in Taking => Shows(m, r) + 1 > 0
      BY <2>1, <1>4
    <2>11. pc'[s] \notin Storing
      BY <1>5, <1>11
    <2> HIDE DEF n
    <2>12. QED
      BY <2>5, <2>6, <2>7, <2>9, <2>10, <2>11 DEF Between
  <1>16. RingAt(m + 1, s, r)'
    BY <1>13, <1>14, <1>15 DEF RingAt
  <1>17. m + 1 \in Nat
    OBVIOUS
  <1>18. QED
    BY <1>10, <1>16, <1>17, PartsFrom

(* The keys, the opening and the typing, for a step inside buf_get once a    *)
(* character was seen.                                                       *)
LEMMA GetFrame ==
  ASSUME TypeInv, NEW s, NEW r, Pair(s, r), Keys(s, r), Opening(s, r), Quits(s),
         Len(segs) = 1, pc[r] \in InGet, \A q \in Procs : ~ Making(q),
         NEW to \in InGet \cup {"loop", "shm_rmid"},
         pc' = [pc EXCEPT ![r] = to], to = "shm_rmid" => QuitTyped(s),
         Len(segs') = Len(segs),
         \A g \in 1 .. Len(segs) : segs'[g].removed = segs[g].removed,
         UNCHANGED <<segKey, attached, shmid, fresh, typed>>, char'[s] = char[s]
  PROVE  Keys(s, r)' /\ Opening(s, r)' /\ Quits(s)'
  <1>1. /\ s \in Procs /\ r \in Procs /\ s # r /\ Procs = {s, r}
    BY PairTypes
  <1>2. /\ to \in Labels \ ({"start"} \cup Unattached) /\ to \notin InInit
        /\ pc[r] \notin Gone \cup InInit \cup {"start"} /\ pc[r] \in Mapped
        /\ to \in Leaving => to = "shm_rmid"
    BY DEF Unattached, InInit, Labels, InStruct, InGet, InDestroy, Ended, Gone, Leaving, Mapped
  <1>3. /\ typed'[s] = typed[s] /\ UNCHANGED <<segKey, shmid, fresh>>
        /\ \A q \in Procs \ {r} : attached'[q] = attached[q]
    OBVIOUS
  <1>4. attached'[r] # None
    BY <1>1, <1>2 DEF TypeInv, Place
  <1>5. ~ (Len(segs) > 1) /\ ~ (r = s)
    BY <1>1
  <1>6. Keys(s, r)'
    BY <1>1, <1>2, <1>3, <1>4, <1>5, KeysKept DEF KeysFrame
  <1>7. Opening(s, r)'
    BY <1>1, <1>2, <1>3, <1>5, OpeningKept
  <1>8. Quits(s)'
    BY <1>1, <1>2, <1>3, <1>5, QuitsKept
  <1>9. QED
    BY <1>6, <1>7, <1>8

(* Nobody makes the ring once the receiver saw a character.                  *)
LEMMA GetPlace ==
  ASSUME TypeInv, NEW s, NEW r, Pair(s, r), Keys(s, r), Opening(s, r),
         pc[r] \in InGet \ {"get_wait"}
  PROVE  /\ Len(segs) = 1 /\ attached[r] = 1 /\ attached[r] # None /\ Seg(r) = TheSegment
         /\ TheSegment \in Segment /\ \A q \in Procs : ~ Making(q)
  BY WorksOnFirst, FirstSegment DEF Opening, None

(* main of the receiver calls buf_get (line 14).                             *)
LEMMA CallGetFilled ==
  ASSUME TypeInv, TypeInv', NEW s, NEW r, Pair(s, r), FilledParts(s, r), CallGet(r)
  PROVE  FilledParts(s, r)'
  <1>1. Keys(s, r) /\ Opening(s, r) /\ Quits(s)
    BY PartsOf
  <1>2. PICK m \in Nat : RingAt(m, s, r)
    BY PartsOf
  <1>3. /\ pc[r] = "loop"
        /\ UNCHANGED <<segKey, segs, attached, shmid, fresh, position, char, typed, got>>
    BY DEF CallGet, kernel, locals, history
  <1>4. PICK to \in {"get_wait", "loop", "shm_rmid"} :
          /\ pc' = [pc EXCEPT ![r] = to]
          /\ to # "get_wait" => attached[r] = None
    BY AfterLabel DEF CallGet, Goto, is_mem_ok
  <1>5. /\ s \in Procs /\ r \in Procs /\ s # r /\ Procs = {s, r}
    BY PairTypes
  <1>6. /\ to \in Labels \ ({"start"} \cup Unattached) /\ to \notin InInit
        /\ to \notin InGet \ {"get_wait"}
        /\ to \notin {"killed", "faulted", "get_out"} \cup Handing \cup Taking
        /\ "loop" \notin {"killed", "get_out", "start"} \cup InInit \cup Gone
    BY DEF Unattached, InInit, Labels, InStruct, InGet, InDestroy, Ended, Gone, Handing, Taking
  <1>7. to # "get_wait" => pc[s] \in Gone /\ got[r] = <<>> /\ ~ (Len(segs) > 1)
    BY <1>1, <1>3, <1>4 DEF Keys
  <1>8. pc'[r] = to
    BY <1>4, <1>5 DEF TypeInv, VarTypes
  <1>9. /\ typed'[s] = typed[s] /\ got'[r] = got[r] /\ char'[s] = char[s] /\ char'[r] = char[r]
        /\ UNCHANGED <<segKey, shmid, fresh>> /\ attached' = attached
        /\ Len(segs') = Len(segs) /\ TheSegment' = TheSegment /\ position'[s] = position[s]
        /\ \A g \in 1 .. Len(segs) : segs'[g].removed = segs[g].removed
        /\ Len(segs) > 1 => segs'[2].in = segs[2].in /\ segs'[2].out = segs[2].out
    BY <1>3 DEF TheSegment
  <1>10. Keys(s, r)'
    <2>1. \A q \in Procs \ {r} : attached'[q] = attached[q]
      BY <1>9
    <2>2. /\ r = s /\ to \in {"loop"} \cup InStruct \cup InPut => attached'[r] = 1
          /\ r = s /\ pc[r] \in Gone => to \in Gone
          /\ r = r /\ to = "loop" /\ attached'[r] = None => pc[s] \in Gone
          /\ r = r /\ to \in Leaving \ {"killed"} => pc[s] \in Gone \/ QuitTyped(s)
          /\ pc'[r] = "loop" /\ attached'[r] = None => got'[r] = <<>>
      <3>1. "get_wait" \notin Leaving
        BY DEF Leaving, InDestroy, Ended
      <3>2. QED
        BY <1>5, <1>7, <1>8, <1>9, <3>1
    <2>3. Len(segs) > 1 =>
           /\ segs'[2].in = segs[2].in /\ segs'[2].out = segs[2].out
           /\ r = r => to \in {"loop", "get_wait", "killed"} \cup InStruct
           /\ r = r /\ to = "loop" => attached'[r] # None
      BY <1>7, <1>9
    <2>4. pc[r] # "start"
      BY <1>3
    <2>5. QED
      BY <1>1, <1>4, <1>5, <1>6, <1>9, <2>1, <2>2, <2>3, <2>4, KeysKept DEF KeysFrame
  <1>11. Opening(s, r)'
    <2>1. \A q \in Procs : Making(q) =>
           /\ TheSegment'.in = 0 /\ TheSegment'.out = 0 /\ TheSegment'.mutex = 0
           /\ typed'[s] = <<>>
           /\ r = r => to \notin InGet \ {"get_wait"}
           /\ r = s /\ q = r => to \in Unattached \cup {"killed"}
      BY <1>1, <1>5, <1>6, <1>9 DEF Opening
    <2>2. to \in Labels \ {"start"} /\ UNCHANGED <<shmid, fresh>>
          /\ (to \in InInit => pc[r] \in {"start"} \cup InInit)
      BY <1>6, <1>9
    <2>3. QED
      BY <1>1, <1>4, <1>5, <1>9, <2>1, <2>2, OpeningKept
  <1>12. Quits(s)'
    BY <1>1, <1>4, <1>5, <1>6, <1>9, QuitsKept
  <1>13. RingAt(m, s, r)'
    <2>1. \/ to = "killed"
          \/ /\ pc[r] # "killed" /\ to # "faulted" /\ to # "get_out" /\ pc[r] # "get_out"
             /\ to \in Handing => pc[r] \in Handing
             /\ to \in Taking => pc[r] \in Taking \/ Shows(m, r) > 0
      BY <1>3, <1>6
    <2>2. TheSegment'.size = 0 => TheSegment.size = 0 /\ (r = s => to \notin InPut \ {"put_next"})
      BY <1>5, <1>9
    <2>3. to \in Labels
      BY <1>6
    <2>4. QED
      BY <1>2, <1>4, <1>5, <1>9, <2>1, <2>2, <2>3, RingQuiet
  <1>14. QED
    BY <1>10, <1>11, <1>12, <1>13, PartsFrom

(* Who sees different indices has a character.                               *)
LEMMA SeesChar ==
  ASSUME NEW i \in 0 .. Room, NEW o \in 0 .. Room, NEW n \in 0 .. Room,
         i = Slot(o + n), i - o # 0
  PROVE  n > 0
  BY BoundAssumption DEF Slot

(* Lines 148 and 157.                                                        *)
LEMMA GetPollFilled ==
  ASSUME TypeInv, TypeInv', NEW s, NEW r, Pair(s, r), FilledParts(s, r),
         get_wait(r) \/ get_test(r)
  PROVE  FilledParts(s, r)'
  <1>1. Keys(s, r) /\ Opening(s, r) /\ Quits(s)
    BY PartsOf
  <1>2. PICK m \in Nat : RingAt(m, s, r)
    BY PartsOf
  <1>3. UNCHANGED <<segKey, segs, attached, shmid, fresh, position, char, typed, got>>
    BY DEF get_wait, get_test, Poll, kernel, locals, history
  <1>4. PICK to \in {"get_test", "get_set"} :
          /\ pc' = [pc EXCEPT ![r] = to]
          /\ to = "get_test" => pc[r] = "get_wait" /\ Seg(r).in - Seg(r).out # 0
          /\ to = "get_set" => pc[r] = "get_test"
    BY DEF get_wait, get_test, Poll, Goto
  <1>5. /\ s \in Procs /\ r \in Procs /\ s # r /\ Procs = {s, r} /\ Room \in Nat
        /\ Len(segs) \in Nat
    BY PairTypes, FirstSegment
  <1>6. /\ pc[r] \in InGet /\ pc[r] \in Mapped /\ to \in InGet /\ to \in Labels
        /\ pc[r] \notin {"killed", "get_out", "start"}
        /\ to \notin {"killed", "faulted", "get_out", "shm_rmid"} \cup Handing
        /\ to = "get_set" => pc[r] \in Taking
    BY <1>4 DEF InGet, Mapped, Labels, Handing, Taking
  <1>7. to = "get_test" => Len(segs) = 1
    <2> SUFFICES ASSUME to = "get_test" PROVE Len(segs) = 1
      OBVIOUS
    <2>1. Seg(r).in - Seg(r).out # 0 /\ attached[r] # None
      BY <1>4, <1>5, <1>6 DEF TypeInv, Place
    <2>2. attached[r] \in 1 .. Len(segs) /\ attached[r] = shmid[r]
      BY <1>5, <2>1, OwnSegment DEF TypeInv, Place
    <2>3. ASSUME Len(segs) > 1 PROVE FALSE
      <3>1. shmid[r] = 2 /\ segs[2].in = 0 /\ segs[2].out = 0
        BY <1>1, <2>3 DEF Keys
      <3>2. Seg(r).in = 0 /\ Seg(r).out = 0
        BY <2>2, <3>1 DEF Seg
      <3>3. QED
        BY <2>1, <3>2
    <2> DEFINE n == Len(segs)
    <2>4. n \in Nat /\ ~ (n > 1)
      BY <1>5, <2>3
    <2>5. attached[r] \in 1 .. n
      BY <2>2
    <2> HIDE DEF n
    <2>6. n = 1
      BY <2>4, <2>5
    <2>7. QED
      BY <2>6 DEF n
  <1>8. to = "get_set" => Len(segs) = 1
    BY <1>1, <1>4, <1>6, GetPlace
  <1>9. Len(segs) = 1
    BY <1>4, <1>7, <1>8
  <1>10. Seg(r) = TheSegment /\ TheSegment \in Segment
    BY <1>1, <1>6, <1>9, WorksOnFirst, FirstSegment
  <1>11. to = "get_test" => TheSegment.in - TheSegment.out # 0
    BY <1>4, <1>10
  <1>12. \A q \in Procs : ~ Making(q)
    <2>1. CASE to = "get_set"
      BY <1>1, <1>4, <1>6, <2>1, GetPlace
    <2>2. CASE to = "get_test"
      <3>1. ASSUME NEW q \in Procs, Making(q) PROVE FALSE
        <4>1. TheSegment.in = 0 /\ TheSegment.out = 0
          BY <1>1, <3>1 DEF Opening
        <4>2. QED
          BY <1>11, <2>2, <4>1
      <3>2. QED
        BY <3>1
    <2>3. QED
      BY <1>4, <2>1, <2>2
  <1>13. /\ typed'[s] = typed[s] /\ got'[r] = got[r] /\ char'[s] = char[s] /\ char'[r] = char[r]
         /\ UNCHANGED <<segKey, attached, shmid, fresh, typed>>
         /\ Len(segs') = Len(segs) /\ TheSegment' = TheSegment /\ position'[s] = position[s]
         /\ \A g \in 1 .. Len(segs) : segs'[g].removed = segs[g].removed
    BY <1>3 DEF TheSegment
  <1>14. Keys(s, r)' /\ Opening(s, r)' /\ Quits(s)'
    <2>1. to \in InGet \cup {"loop", "shm_rmid"} /\ to # "shm_rmid"
      BY <1>6
    <2>2. QED
      BY <1>1, <1>4, <1>6, <1>9, <1>12, <1>13, <2>1, GetFrame
  <1>15. to = "get_test" => Shows(m, r) > 0
    <2> SUFFICES ASSUME to = "get_test" PROVE Shows(m, r) > 0
      OBVIOUS
    <2>1. TheSegment.in \in 0 .. Room /\ TheSegment.out \in 0 .. Room
      BY <1>10 DEF Segment
    <2>2. Shows(m, r) \in 0 .. Room /\ TheSegment.in = Slot(TheSegment.out + Shows(m, r))
      BY <1>2, <1>6 DEF RingAt, Between
    <2>3. QED
      BY <1>11, <2>1, <2>2, SeesChar
  <1>16. RingAt(m, s, r)'
    <2>1. /\ pc[r] # "killed" /\ to # "faulted" /\ to # "get_out" /\ pc[r] # "get_out"
          /\ to \in Handing => pc[r] \in Handing
          /\ to \in Taking => pc[r] \in Taking \/ Shows(m, r) > 0
      BY <1>4, <1>6, <1>15
    <2>2. TheSegment'.size = 0 => TheSegment.size = 0 /\ (r = s => to \notin InPut \ {"put_next"})
      BY <1>5, <1>13
    <2>3. /\ TheSegment'.in = TheSegment.in /\ TheSegment'.out = TheSegment.out
          /\ TheSegment'.buf = TheSegment.buf /\ ~ (r = s)
      BY <1>5, <1>13
    <2>4. QED
      BY <1>2, <1>4, <1>5, <1>6, <1>13, <2>1, <2>2, <2>3, RingQuiet
  <1>17. QED
    BY <1>14, <1>16, PartsFrom

(* A write of the receiver to the first segment.                             *)
LEMMA ReceiverWrites ==
  ASSUME TypeInv, NEW s, NEW r, Pair(s, r), Keys(s, r), Opening(s, r),
         pc[r] \in InGet \ {"get_wait"},
         NEW new, new.removed = TheSegment.removed,
         Len(segs') = Len(segs), segs'[attached[r]] = new,
         \A g \in 1 .. Len(segs) : g # attached[r] => segs'[g] = segs[g]
  PROVE  /\ \A g \in 1 .. Len(segs) : segs'[g].removed = segs[g].removed
         /\ TheSegment' = new
  <1>1. attached[r] = 1 /\ Seg(r) = TheSegment /\ Len(segs) = 1 /\ Len(segs) # 0
    BY GetPlace
  <1>2. segs' # <<>> /\ TheSegment = segs[1]
    BY <1>1, FirstSegment
  <1>3. QED
    BY <1>1, <1>2 DEF TheSegment

(* Who fetched a 'q' fetched it from the user.                               *)
LEMMA FetchedQuit ==
  ASSUME TypeInv, NEW s, NEW r, Pair(s, r), Quits(s), NEW m \in Nat, RingAt(m, s, r),
         pc[r] \in Handing, char[r] = Quit
  PROVE  QuitTyped(s) /\ Len(got[r]) = Len(typed[s])
  <1> DEFINE i == Len(got[r])
  <1>1. /\ i \in Nat /\ Len(typed[s]) \in Nat
    BY PairTypes
  <1>2. i > 0 /\ got[r][i] = Quit /\ i <= Len(typed[s]) /\ \A j \in 1 .. i : got[r][j] = typed[s][j]
    BY DEF RingAt, Fetched, IsPrefixOf
  <1> HIDE DEF i
  <1>3. i \in 1 .. i /\ i \in 1 .. Len(typed[s])
    BY <1>1, <1>2
  <1>4. typed[s][i] = Quit
    BY <1>2, <1>3
  <1>5. i = Len(typed[s])
    BY <1>3, <1>4 DEF Quits
  <1>6. QED
    BY <1>2, <1>4, <1>5 DEF QuitTyped, i

(* Lines 159 and 169: the flag.                                              *)
LEMMA GetFlagFilled ==
  ASSUME TypeInv, TypeInv', NEW s, NEW r, Pair(s, r), FilledParts(s, r),
         get_set(r) \/ get_clear(r)
  PROVE  FilledParts(s, r)'
  <1>1. Keys(s, r) /\ Opening(s, r) /\ Quits(s)
    BY PartsOf
  <1>2. PICK m \in Nat : RingAt(m, s, r)
    BY PartsOf
  <1>3. UNCHANGED <<segKey, attached, shmid, fresh, position, char, typed, got>>
    BY DEF get_set, get_clear, Assign, locals, history
  <1>4. PICK v \in {0, 1} :
          /\ Write(r, "mutex", v)
          /\ \/ pc[r] = "get_set" /\ pc' = [pc EXCEPT ![r] = "get_fetch"]
             \/ pc[r] = "get_clear" /\ pc' = [pc EXCEPT ![r] = AfterCall(char[r])]
    BY DEF get_set, get_clear, Assign, Goto
  <1>5. PICK to \in {"get_fetch", "loop", "shm_rmid"} :
          /\ pc' = [pc EXCEPT ![r] = to]
          /\ to = "get_fetch" => pc[r] = "get_set"
          /\ to # "get_fetch" => pc[r] = "get_clear"
          /\ to = "shm_rmid" => char[r] = Quit
    BY <1>4 DEF AfterCall
  <1>6. /\ s \in Procs /\ r \in Procs /\ s # r /\ Procs = {s, r} /\ Room \in Nat
    BY PairTypes
  <1>7. /\ pc[r] \in InGet \ {"get_wait"} /\ to \in InGet \cup {"loop", "shm_rmid"}
        /\ to \in Labels
        /\ to # "get_fetch" => pc[r] \in Handing
        /\ to \notin Handing
        /\ to \in Taking => pc[r] \in Taking
        /\ to \notin {"killed", "faulted", "get_out"}
        /\ pc[r] \notin {"killed", "faulted", "get_out"}
    BY <1>5 DEF InGet, InDestroy, Labels, Handing, Taking
  <1>8. /\ Len(segs) = 1 /\ attached[r] # None /\ Seg(r) = TheSegment
        /\ TheSegment \in Segment /\ \A q \in Procs : ~ Making(q)
    BY <1>1, <1>7, GetPlace
  <1>9. /\ Len(segs') = Len(segs) /\ segs'[attached[r]] = [TheSegment EXCEPT !.mutex = v]
        /\ \A g \in 1 .. Len(segs) : g # attached[r] => segs'[g] = segs[g]
    BY <1>4, <1>6, <1>8, WroteMutex
  <1>10. /\ \A g \in 1 .. Len(segs) : segs'[g].removed = segs[g].removed
         /\ TheSegment' = [TheSegment EXCEPT !.mutex = v]
    <2>1. [TheSegment EXCEPT !.mutex = v].removed = TheSegment.removed
      BY <1>8 DEF Segment
    <2>2. pc[r] \in InGet \ {"get_wait"}
      BY <1>7
    <2> DEFINE new == [TheSegment EXCEPT !.mutex = v]
    <2>3. /\ new.removed = TheSegment.removed /\ segs'[attached[r]] = new
          /\ Len(segs') = Len(segs)
          /\ \A g \in 1 .. Len(segs) : g # attached[r] => segs'[g] = segs[g]
      BY <1>9, <2>1
    <2> HIDE DEF new
    <2>4. /\ \A g \in 1 .. Len(segs) : segs'[g].removed = segs[g].removed
          /\ TheSegment' = new
      BY <1>1, <2>2, <2>3, ReceiverWrites
    <2>5. QED
      BY <2>4 DEF new
  <1>11. /\ TheSegment'.in = TheSegment.in /\ TheSegment'.out = TheSegment.out
         /\ TheSegment'.buf = TheSegment.buf /\ TheSegment'.size = TheSegment.size
    BY <1>8, <1>10 DEF Segment
  <1>12. Keys(s, r)' /\ Opening(s, r)' /\ Quits(s)'
    <2>1. UNCHANGED <<segKey, attached, shmid, fresh, typed>> /\ char'[s] = char[s]
          /\ pc[r] \in InGet
      BY <1>3, <1>7
    <2>2. to = "shm_rmid" => QuitTyped(s)
      BY <1>1, <1>2, <1>5, <1>7, FetchedQuit
    <2>3. QED
      BY <1>1, <1>5, <1>7, <1>8, <1>9, <1>10, <2>1, <2>2, GetFrame
  <1>13. RingAt(m, s, r)'
    <2>1. /\ typed'[s] = typed[s] /\ got'[r] = got[r] /\ char'[r] = char[r] /\ char'[s] = char[s]
          /\ position'[s] = position[s]
          /\ TheSegment'.size = 0 => TheSegment.size = 0 /\ (r = s => to \notin InPut \ {"put_next"})
      BY <1>3, <1>6, <1>11
    <2>2. /\ pc[r] # "killed" /\ to # "faulted" /\ to # "get_out" /\ pc[r] # "get_out"
          /\ to \in Handing => pc[r] \in Handing
          /\ to \in Taking => pc[r] \in Taking \/ Shows(m, r) > 0
      BY <1>7
    <2>3. QED
      BY <1>2, <1>5, <1>6, <1>7, <1>11, <2>1, <2>2, RingQuiet
  <1>14. QED
    BY <1>12, <1>13, PartsFrom

(* Line 164: what is fetched is the next character of the user.              *)
LEMMA GetFetchFilled ==
  ASSUME TypeInv, TypeInv', NEW s, NEW r, Pair(s, r), FilledParts(s, r), get_fetch(r)
  PROVE  FilledParts(s, r)'
  <1>1. Keys(s, r) /\ Opening(s, r) /\ Quits(s)
    BY PartsOf
  <1>2. PICK m \in Nat : RingAt(m, s, r)
    BY PartsOf
  <1>3. /\ pc[r] = "get_fetch" /\ pc' = [pc EXCEPT ![r] = "get_out"]
        /\ char' = [char EXCEPT ![r] = Seg(r).buf[Seg(r).out]]
        /\ got' = [got EXCEPT ![r] = Append(@, char'[r])]
        /\ UNCHANGED <<segKey, segs, attached, shmid, fresh, position, typed>>
    BY DEF get_fetch, kernel, Goto
  <1>4. /\ s \in Procs /\ r \in Procs /\ s # r /\ Procs = {s, r} /\ Room \in Nat \ {0}
        /\ r \in Receivers /\ got[r] \in Seq(Chars \cup {Nul}) /\ Len(got[r]) \in Nat
        /\ Len(typed[s]) \in Nat
    BY PairTypes
  <1>5. /\ "get_fetch" \in InGet \ {"get_wait"} /\ "get_out" \in InGet /\ "get_out" # "shm_rmid"
        /\ "get_fetch" \in Taking /\ "get_out" \in Taking /\ "get_out" \in Handing
        /\ "get_out" \notin {"faulted", "killed"}
    BY DEF InGet, Taking, Handing
  <1>6. /\ Len(segs) = 1 /\ Seg(r) = TheSegment
        /\ TheSegment \in Segment /\ \A q \in Procs : ~ Making(q)
    BY <1>1, <1>3, <1>5, GetPlace
  <1>7. TheSegment' = TheSegment
    BY <1>3 DEF TheSegment
  <1> DEFINE ch == TheSegment.buf[TheSegment.out]
  <1>8. /\ char'[r] = ch /\ char'[s] = char[s] /\ got'[r] = Append(got[r], ch)
        /\ pc'[r] = "get_out" /\ pc'[s] = pc[s]
    BY <1>3, <1>4, <1>6 DEF TypeInv, VarTypes
  <1>9. /\ TheSegment.out \in 0 .. Room /\ ch \in Chars \cup {Nul}
    BY <1>6 DEF Segment
  <1> HIDE DEF ch
  <1>10. /\ Len(got'[r]) = Len(got[r]) + 1 /\ got'[r][Len(got[r]) + 1] = ch
         /\ \A i \in 1 .. Len(got[r]) : got'[r][i] = got[r][i]
    BY <1>4, <1>8, <1>9
  <1>11. Keys(s, r)' /\ Opening(s, r)' /\ Quits(s)'
    <2>1. /\ Len(segs') = Len(segs) /\ pc[r] \in InGet
          /\ \A g \in 1 .. Len(segs) : segs'[g].removed = segs[g].removed
          /\ UNCHANGED <<segKey, attached, shmid, fresh, typed>>
          /\ "get_out" \in InGet \cup {"loop", "shm_rmid"}
      BY <1>3, <1>5
    <2>2. QED
      BY <1>1, <1>3, <1>5, <1>6, <1>8, <2>1, GetFrame
  <1> DEFINE l == Len(got[r])
  <1> DEFINE n == m - l
  <1>12. /\ First(r) = TheSegment.out /\ First(r)' = Slot(TheSegment.out + 1)
    BY <1>3, <1>7, <1>8 DEF First
  <1>13. /\ Shows(m, r) = n /\ Shows(m, r) \in 0 .. Room /\ Shows(m, r) > 0 /\ l \in Nat
         /\ TheSegment.in = Slot(TheSegment.out + Shows(m, r))
    <2>1. One(pc[r], {"get_out"}) = 0
      BY <1>3 DEF One
    <2>2. Shows(m, r) = n + One(pc[r], {"get_out"})
      BY DEF Shows
    <2>3. n \in Int
      BY <1>4
    <2>4. /\ Shows(m, r) \in 0 .. Room /\ Shows(m, r) > 0
          /\ TheSegment.in = Slot(TheSegment.out + Shows(m, r))
      BY <1>2, <1>3, <1>5 DEF RingAt, Between
    <2> HIDE DEF n
    <2>5. Shows(m, r) = n
      BY <2>1, <2>2, <2>3
    <2>6. QED
      BY <1>4, <2>4, <2>5
  <1>14. Shows(m, r)' = n
    <2>1. One(pc'[r], {"get_out"}) = 1
      BY <1>8 DEF One
    <2>2. Shows(m, r)' = m - (l + 1) + 1
      BY <1>10, <2>1 DEF Shows
    <2>3. QED
      BY <1>4, <2>2
  <1>15. ASSUME NEW k \in 0 .. Room, k < n
         PROVE  TheSegment.buf[Slot(TheSegment.out + k)] = typed[s][l + k + 1]
    <2>1. pc[r] # "killed"
      BY <1>3
    <2>2. \A j \in 0 .. Room : j < m - Len(got[r]) =>
            TheSegment.buf[Slot(First(r) + j)] = typed[s][Len(got[r]) + j + 1]
      BY <1>2, <2>1 DEF RingAt, Between
    <2>3. QED
      BY <1>12, <1>15, <2>2
  <1>16. n \in 1 .. Room
    <2> HIDE DEF n
    <2>1. QED
      BY <1>4, <1>13
  <1>17. ch = typed[s][l + 1]
    <2>1. 0 \in 0 .. Room /\ 0 < n
      BY <1>4, <1>16
    <2>2. TheSegment.buf[Slot(TheSegment.out + 0)] = typed[s][l + 0 + 1]
      BY <1>15, <2>1
    <2>3. Slot(TheSegment.out + 0) = TheSegment.out
      BY <1>4, <1>9 DEF Slot
    <2>4. l + 0 + 1 = l + 1
      BY <1>13
    <2>5. QED
      BY <2>2, <2>3, <2>4 DEF ch
  <1>18. Len(got'[r]) <= m
    <2>1. l + 1 <= m
      <3>1. m - l > 0 /\ m \in Nat /\ l \in Nat
        BY <1>13
      <3> HIDE DEF l
      <3>2. QED
        BY <3>1
    <2>2. QED
      BY <1>10, <2>1
  <1>19. Sent(m, s, r)'
    <2>1. /\ m <= Len(typed'[s]) /\ typed'[s] = typed[s] /\ position'[s] = position[s]
      BY <1>2, <1>3 DEF RingAt, Sent
    <2>2. QED
      BY <1>2, <1>7, <1>8, <1>18, <2>1 DEF RingAt, Sent
  <1>20. Fetched(s, r)'
    <2>1. \A i \in 1 .. l : got[r][i] = typed[s][i]
      BY <1>2 DEF RingAt, Fetched, IsPrefixOf
    <2>2. \A i \in 1 .. l + 1 : i \in 1 .. l \/ i = l + 1
      BY <1>13
    <2>3. \A i \in 1 .. Len(got'[r]) : got'[r][i] = typed'[s][i]
      BY <1>3, <1>10, <1>17, <2>1, <2>2
    <2>4. Len(got'[r]) <= Len(typed'[s])
      <3>1. m <= Len(typed[s]) /\ typed'[s] = typed[s]
        BY <1>2, <1>3 DEF RingAt, Sent
      <3>2. Len(got'[r]) \in Nat
        BY <1>4, <1>10
      <3>3. QED
        BY <1>4, <1>18, <3>1, <3>2
    <2>5. Len(got'[r]) > 0 /\ char'[r] = got'[r][Len(got'[r])]
      BY <1>4, <1>8, <1>10
    <2>6. QED
      BY <1>5, <1>8, <2>3, <2>4, <2>5 DEF Fetched, IsPrefixOf
  <1>21. Between(m, s, r)'
    <2>1. ASSUME NEW k \in 0 .. Room, k < m - Len(got'[r])
          PROVE  TheSegment.buf[Slot(Slot(TheSegment.out + 1) + k)]
                   = typed[s][Len(got'[r]) + k + 1]
      <3>1. k + 1 < n /\ k \in Nat
        <4>1. k < m - (l + 1)
          BY <1>10, <2>1
        <4>2. k \in Nat /\ l \in Nat
          BY <1>4, <1>13
        <4> HIDE DEF l
        <4>3. QED
          BY <4>1, <4>2
      <3>2. k + 1 \in 0 .. Room
        <4> HIDE DEF n
        <4> QED BY <1>4, <1>16, <3>1
      <3>3. TheSegment.buf[Slot(TheSegment.out + (k + 1))] = typed[s][l + (k + 1) + 1]
        BY <1>15, <3>1, <3>2
      <3>4. Slot(Slot(TheSegment.out + 1) + k) = Slot(TheSegment.out + (k + 1))
        BY <1>9, SlotStep
      <3>5. Len(got'[r]) + k + 1 = l + (k + 1) + 1
        <4>1. Len(got'[r]) = l + 1 /\ l \in Nat /\ k \in Nat
          BY <1>10, <1>13, <3>1
        <4> HIDE DEF l
        <4>2. QED
          BY <4>1
      <3>6. QED
        BY <3>3, <3>4, <3>5
    <2>2. pc'[s] \in Storing => n < Room
      BY <1>2, <1>3, <1>8, <1>13 DEF RingAt, Between
    <2>3. n \in 0 .. Room /\ n > 0 /\ TheSegment.in = Slot(TheSegment.out + n)
      BY <1>13
    <2> HIDE DEF n, l
    <2>4. typed'[s] = typed[s]
      BY <1>3
    <2>5. QED
      BY <1>7, <1>12, <1>14, <2>1, <2>2, <2>3, <2>4 DEF Between
  <1>22. RingAt(m, s, r)'
    BY <1>19, <1>20, <1>21 DEF RingAt
  <1>23. QED
    BY <1>11, <1>22, PartsFrom

(* Line 167: the slot is given back.                                         *)
LEMMA GetOutFilled ==
  ASSUME TypeInv, TypeInv', NEW s, NEW r, Pair(s, r), FilledParts(s, r), get_out(r)
  PROVE  FilledParts(s, r)'
  <1>1. Keys(s, r) /\ Opening(s, r) /\ Quits(s)
    BY PartsOf
  <1>2. PICK m \in Nat : RingAt(m, s, r)
    BY PartsOf
  <1>3. /\ pc[r] = "get_out" /\ pc' = [pc EXCEPT ![r] = "get_clear"] /\ Seg(r).size # 0
        /\ Write(r, "out", (Seg(r).out + 1) % Seg(r).size)
        /\ UNCHANGED <<segKey, attached, shmid, fresh, position, char, typed, got>>
    BY DEF get_out, Assign, locals, history, Goto
  <1>4. /\ s \in Procs /\ r \in Procs /\ s # r /\ Procs = {s, r} /\ Room \in Nat \ {0}
        /\ Len(got[r]) \in Nat
    BY PairTypes
  <1>5. /\ "get_out" \in InGet \ {"get_wait"} /\ "get_clear" \in InGet /\ "get_clear" # "shm_rmid"
        /\ "get_out" \in Taking /\ "get_clear" \notin Taking
        /\ "get_out" \in Handing /\ "get_clear" \in Handing
        /\ "get_clear" \notin {"faulted", "killed", "get_out"}
    BY DEF InGet, Taking, Handing
  <1>6. /\ Len(segs) = 1 /\ Seg(r) = TheSegment /\ attached[r] # None
        /\ TheSegment \in Segment /\ \A q \in Procs : ~ Making(q)
    BY <1>1, <1>3, <1>5, GetPlace
  <1> DEFINE o == Slot(TheSegment.out + 1)
  <1>7. (Seg(r).out + 1) % Seg(r).size = o /\ o \in 0 .. Room /\ TheSegment.out \in 0 .. Room
    <2>1. TheSegment.size = Room + 1 /\ TheSegment.out \in 0 .. Room
      BY <1>3, <1>6 DEF Segment
    <2>2. (TheSegment.out + 1) % (Room + 1) = Slot(TheSegment.out + 1)
          /\ Slot(TheSegment.out + 1) \in 0 .. Room
      BY <2>1, NextSlot
    <2>3. QED
      BY <1>6, <2>1, <2>2
  <1> HIDE DEF o
  <1>8. Write(r, "out", o)
    BY <1>3, <1>7
  <1>9. /\ Len(segs') = Len(segs) /\ segs'[attached[r]] = [TheSegment EXCEPT !.out = o]
        /\ \A g \in 1 .. Len(segs) : g # attached[r] => segs'[g] = segs[g]
    BY <1>4, <1>6, <1>7, <1>8, WroteOut
  <1>10. /\ \A g \in 1 .. Len(segs) : segs'[g].removed = segs[g].removed
         /\ TheSegment' = [TheSegment EXCEPT !.out = o]
    <2> DEFINE new == [TheSegment EXCEPT !.out = o]
    <2>1. new.removed = TheSegment.removed
      BY <1>6 DEF Segment
    <2>2. pc[r] \in InGet \ {"get_wait"}
      BY <1>3, <1>5
    <2>3. /\ new.removed = TheSegment.removed /\ segs'[attached[r]] = new
          /\ Len(segs') = Len(segs)
          /\ \A g \in 1 .. Len(segs) : g # attached[r] => segs'[g] = segs[g]
      BY <1>9, <2>1
    <2> HIDE DEF new
    <2>4. /\ \A g \in 1 .. Len(segs) : segs'[g].removed = segs[g].removed
          /\ TheSegment' = new
      BY <1>1, <2>2, <2>3, ReceiverWrites
    <2>5. QED
      BY <2>4 DEF new
  <1>11. /\ TheSegment'.in = TheSegment.in /\ TheSegment'.out = o
         /\ TheSegment'.buf = TheSegment.buf /\ TheSegment'.size = TheSegment.size
    BY <1>6, <1>10 DEF Segment
  <1>12. /\ char'[r] = char[r] /\ char'[s] = char[s] /\ got'[r] = got[r] /\ typed'[s] = typed[s]
         /\ pc'[r] = "get_clear" /\ pc'[s] = pc[s] /\ position'[s] = position[s]
    BY <1>3, <1>4 DEF TypeInv, VarTypes
  <1>13. Keys(s, r)' /\ Opening(s, r)' /\ Quits(s)'
    <2>1. /\ UNCHANGED <<segKey, attached, shmid, fresh, typed>>
          /\ "get_clear" \in InGet \cup {"loop", "shm_rmid"} /\ pc[r] \in InGet
      BY <1>3, <1>5
    <2>2. QED
      BY <1>1, <1>3, <1>5, <1>6, <1>9, <1>10, <1>12, <2>1, GetFrame
  <1>14. Sent(m, s, r)'
    BY <1>2, <1>11, <1>12 DEF RingAt, Sent
  <1>15. Fetched(s, r)'
    BY <1>2, <1>3, <1>5, <1>12 DEF RingAt, Fetched, IsPrefixOf
  <1>16. Between(m, s, r)'
    <2> DEFINE n == m - Len(got[r])
    <2>1. First(r) = o /\ First(r)' = o
      BY <1>3, <1>11, <1>12 DEF First, o
    <2>2. /\ n \in 0 .. Room /\ TheSegment.in = Slot(o + n)
          /\ pc[s] \in Storing => n < Room
      BY <1>2, <1>3, <2>1, NextFree
    <2>3. Shows(m, r)' = n
      <3>1. One(pc'[r], {"get_out"}) = 0
        BY <1>12 DEF One
      <3>2. Shows(m, r)' = n + One(pc'[r], {"get_out"})
        BY <1>12 DEF Shows
      <3> HIDE DEF n
      <3>3. QED
        BY <1>4, <2>2, <3>1, <3>2
    <2>4. \A k \in 0 .. Room : k < m - Len(got[r]) =>
            TheSegment.buf[Slot(First(r) + k)] = typed[s][Len(got[r]) + k + 1]
      BY <1>2, <1>3 DEF RingAt, Between
    <2>5. pc'[r] \notin Taking
      BY <1>5, <1>12
    <2> HIDE DEF n
    <2>6. QED
      BY <1>11, <1>12, <2>1, <2>2, <2>3, <2>4, <2>5 DEF Between
  <1>17. RingAt(m, s, r)'
    BY <1>14, <1>15, <1>16 DEF RingAt
  <1>18. QED
    BY <1>13, <1>17, PartsFrom

(* shmctl (line 73): the first to leave takes the key away.                  *)
LEMMA ShmRmidFilled ==
  ASSUME TypeInv, TypeInv', NEW s, NEW r, Pair(s, r), FilledParts(s, r), NEW p \in Procs,
         ShmRmid(p)
  PROVE  FilledParts(s, r)'
  <1>1. Keys(s, r) /\ Opening(s, r) /\ Quits(s)
    BY PartsOf
  <1>2. PICK m \in Nat : RingAt(m, s, r)
    BY PartsOf
  <1>3. /\ pc[p] = "shm_rmid"
        /\ UNCHANGED <<attached, shmid, fresh, position, char, typed, got>>
    BY DEF ShmRmid, locals, history
  <1>4. /\ s \in Procs /\ r \in Procs /\ s # r /\ Procs = {s, r} /\ Len(segs) \in Nat
    BY PairTypes, FirstSegment
  <1>5. PICK to \in {"detach", "exit"} :
          /\ pc' = [pc EXCEPT ![p] = to]
          /\ to = "exit" => UNCHANGED <<segs, segKey>>
          /\ to = "detach" => attached[p] # None /\ Write(p, "removed", TRUE)
    BY DEF ShmRmid, Goto, is_mem_ok
  <1>6. /\ "shm_rmid" \in Leaving \ {"killed"}
        /\ "shm_rmid" \notin Unattached \cup {"killed", "loop"} \cup InStruct \cup InInit \cup Gone
             \cup InPut
        /\ "shm_rmid" \notin {"attach", "loop", "get_wait", "killed"} \cup InStruct
        /\ to \in Labels \ ({"start"} \cup Unattached) /\ to \in Gone /\ to \in Leaving
        /\ to \notin {"loop"} \cup InStruct \cup InPut \cup InGet \cup InInit
        /\ to \notin {"killed", "faulted", "get_out", "put_in"} \cup Handing \cup Taking \cup Holding
             \cup Positioned \cup Storing
        /\ "shm_rmid" \notin Holding
    BY DEF Labels, Unattached, Gone, Leaving, Ended, InDestroy, InStruct, InPut, BeforeStore,
           InGet, InInit, Handing, Taking, Holding, Positioned, Storing
  <1>7. pc'[p] = to /\ \A q \in Procs \ {p} : pc'[q] = pc[q]
    BY <1>5 DEF TypeInv, VarTypes
  <1>8. p = r => pc[s] \in Gone \/ QuitTyped(s)
    BY <1>1, <1>3, <1>6 DEF Keys
  <1>9. ~ (Len(segs) > 1)
    BY <1>1, <1>3, <1>4, <1>6 DEF Keys
  <1>10. /\ Len(segs') = Len(segs) /\ TheSegment'.in = TheSegment.in
         /\ TheSegment'.out = TheSegment.out /\ TheSegment'.buf = TheSegment.buf
         /\ TheSegment'.mutex = TheSegment.mutex /\ TheSegment'.size = TheSegment.size
    <2>1. CASE to = "exit"
      BY <1>5, <2>1 DEF TheSegment
    <2>2. CASE to = "detach"
      <3>1. /\ Len(segs') = Len(segs) /\ segs'[attached[p]] = [Seg(p) EXCEPT !.removed = TRUE]
            /\ attached[p] \in 1 .. Len(segs) /\ Seg(p) \in Segment
        BY <1>5, <2>2, WroteRemoved, OwnSegment
      <3>2. attached[p] = 1 /\ Len(segs) # 0
        <4> DEFINE n == Len(segs)
        <4>1. attached[p] \in 1 .. n /\ n \in Nat /\ ~ (n > 1)
          BY <1>4, <1>9, <3>1
        <4> HIDE DEF n
        <4>2. attached[p] = 1 /\ n # 0
          BY <4>1
        <4>3. QED
          BY <4>2 DEF n
      <3>3. TheSegment = segs[1] /\ Seg(p) = segs[1] /\ segs' # <<>>
        BY <3>1, <3>2, FirstSegment DEF Seg
      <3>4. TheSegment' = [TheSegment EXCEPT !.removed = TRUE]
        BY <3>1, <3>2, <3>3 DEF TheSegment
      <3>5. QED
        BY <3>1, <3>3, <3>4 DEF Segment
    <2>3. QED
      BY <2>1, <2>2
  <1>11. /\ typed'[s] = typed[s] /\ got'[r] = got[r] /\ char'[s] = char[s] /\ char'[r] = char[r]
         /\ position'[s] = position[s] /\ UNCHANGED <<shmid, fresh>> /\ attached' = attached
    BY <1>3
  <1>12. Keys(s, r)'
    <2>1. \A q \in Procs : pc'[q] # "start" => Len(segs') # 0
      BY <1>1, <1>3, <1>7, <1>10 DEF Keys
    <2>2. p = r => pc[s] \notin Unattached
      <3> SUFFICES ASSUME p = r, pc[s] \in Unattached PROVE FALSE
        OBVIOUS
      <3>1. typed[s] = <<>> /\ Len(typed[s]) = 0
        BY <1>1, NotInYet
      <3>2. pc[s] \notin Gone
        BY DEF Unattached, Gone, Ended
      <3>3. QED
        BY <1>8, <3>1, <3>2 DEF QuitTyped
    <2>3. pc'[s] \notin Unattached
      BY <1>4, <1>6, <1>7, <2>2
    <2>4. ~ (pc'[r] \in Unattached /\ pc'[s] \notin Gone)
      BY <1>4, <1>6, <1>7
    <2>5. pc'[s] \in {"loop"} \cup InStruct \cup InPut => attached'[s] = 1
      BY <1>1, <1>4, <1>6, <1>7, <1>11 DEF Keys
    <2>6. pc[s] \in Gone => pc'[s] \in Gone
      BY <1>4, <1>6, <1>7
    <2>7. pc'[r] = "loop" /\ attached'[r] = None => pc'[s] \in Gone /\ got'[r] = <<>>
      BY <1>1, <1>4, <1>6, <1>7, <1>11, <2>6 DEF Keys
    <2>8. pc'[r] \in Leaving \ {"killed"} => pc'[s] \in Gone \/ QuitTyped(s)'
      <3>1. QuitTyped(s)' <=> QuitTyped(s)
        BY <1>11 DEF QuitTyped
      <3>2. CASE p = s
        BY <1>6, <1>7, <3>2
      <3>3. CASE p = r
        BY <1>8, <2>6, <3>1, <3>3
      <3>4. QED
        BY <1>4, <3>2, <3>3
    <2>9. QED
      BY <1>9, <1>10, <2>1, <2>3, <2>4, <2>5, <2>7, <2>8 DEF Keys
  <1>13. Opening(s, r)'
    <2>1. \A q \in Procs : Making(q) =>
           /\ TheSegment'.in = 0 /\ TheSegment'.out = 0 /\ TheSegment'.mutex = 0
           /\ typed'[s] = <<>>
           /\ p = r => to \notin InGet \ {"get_wait"}
           /\ p = s /\ q = r => to \in Unattached \cup {"killed"}
      BY <1>1, <1>3, <1>6, <1>10, <1>11 DEF Opening
    <2>2. to \in Labels \ {"start"} /\ (to \in InInit => pc[p] \in {"start"} \cup InInit)
      BY <1>6
    <2>3. QED
      BY <1>1, <1>5, <1>11, <2>1, <2>2, OpeningKept
  <1>14. Quits(s)'
    <2>1. p = s => /\ pc[p] \in InPut \cup Leaving /\ QuitTyped(s) => to \in InPut \cup Leaving
                   /\ to \in InPut => pc[p] \in InPut
      BY <1>6
    <2>2. to \in Labels
      BY <1>6
    <2>3. QED
      BY <1>1, <1>5, <1>11, <2>1, <2>2, QuitsKept
  <1>15. RingAt(m, s, r)'
    <2>1. One(to, Holding) = One(pc[p], Holding)
      BY <1>3, <1>6 DEF One
    <2>2. /\ pc[p] \notin {"killed", "faulted", "get_out"} /\ to \in Labels
      BY <1>3, <1>6
    <2>3. TheSegment'.size = 0 => TheSegment.size = 0 /\ (p = s => to \notin InPut \ {"put_next"})
      BY <1>6, <1>10
    <2>4. p = s => \/ to \in {"killed", "faulted"}
                   \/ /\ pc[p] \notin {"killed", "faulted"}
                      /\ One(to, Holding) = One(pc[p], Holding)
                      /\ to \in Positioned => position'[s] = Slot(TheSegment.in + 1)
                      /\ to \in Storing => pc[p] \in Storing \/ (pc[r] # "killed" => Shows(m, r) < Room)
                      /\ to # "put_in"
      BY <1>6, <2>1, <2>2
    <2>5. p = r => \/ to = "killed"
                   \/ /\ pc[p] # "killed" /\ to # "faulted" /\ to # "get_out" /\ pc[p] # "get_out"
                      /\ to \in Handing => pc[p] \in Handing
                      /\ to \in Taking => pc[p] \in Taking \/ Shows(m, r) > 0
      BY <1>6, <2>2
    <2>6. QED
      BY <1>2, <1>5, <1>10, <1>11, <2>2, <2>3, <2>4, <2>5, RingQuiet
  <1>16. QED
    BY <1>12, <1>13, <1>14, <1>15, PartsFrom

--------------------------------------------------------------------------------
(* The beginning.                                                            *)
LEMMA FilledStart ==
  ASSUME Init, NEW s, NEW r, Pair(s, r)
  PROVE  FilledParts(s, r)
  <1>1. TypeInv
    BY SessionTypesInit
  <1>2. /\ s \in Procs /\ r \in Procs /\ Procs = {s, r} /\ s \in Senders /\ r \in Receivers
        /\ Room \in Nat \ {0}
    BY <1>1, PairTypes
  <1>3. /\ pc[s] = "start" /\ pc[r] = "start" /\ typed[s] = <<>> /\ got[r] = <<>>
        /\ Len(segs) = 0 /\ segKey = 0 /\ segs = <<>> /\ \A p \in Procs : pc[p] = "start"
    BY <1>2 DEF Init, None
  <1>4. TheSegment = ZeroedSegment
    BY <1>1, <1>3, FirstSegment
  <1>5. "start" \in Unattached /\ "start" \notin {"loop"} \cup InStruct \cup InPut \cup Leaving
        /\ "start" \notin InInit \cup Holding \cup Positioned \cup Storing \cup Taking \cup Handing
    BY DEF Unattached, InStruct, InPut, BeforeStore, Leaving, InDestroy, Ended, InInit, Holding,
           Positioned, Storing, Taking, Handing
  <1>6. Standing
    BY <1>3 DEF Standing
  <1>7. Keys(s, r)
    BY <1>3, <1>5, <1>6 DEF Keys
  <1>8. Opening(s, r)
    BY <1>3, <1>5 DEF Opening, Making
  <1>9. Quits(s)
    BY <1>3, <1>5, BoundAssumption DEF Quits
  <1>10. RingAt(0, s, r)
    <2>1. Sent(0, s, r)
      BY <1>3, <1>5 DEF Sent, One
    <2>2. Fetched(s, r)
      BY <1>3, <1>5 DEF Fetched, IsPrefixOf
    <2>3. Between(0, s, r)
      <3>1. Shows(0, r) = 0
        BY <1>3 DEF Shows, One
      <3>2. TheSegment.in = 0 /\ TheSegment.out = 0
        BY <1>4 DEF ZeroedSegment
      <3>3. TheSegment.in = Slot(TheSegment.out + Shows(0, r))
        BY <1>2, <3>1, <3>2 DEF Slot
      <3>4. \A k \in 0 .. Room : ~ (k < 0 - Len(got[r]))
        BY <1>2, <1>3
      <3>5. QED
        BY <1>2, <1>3, <1>5, <3>1, <3>3, <3>4 DEF Between
    <2>4. QED
      BY <2>1, <2>2, <2>3 DEF RingAt
  <1>11. QED
    BY <1>3, <1>7, <1>8, <1>9, <1>10 DEF FilledParts

(* What is noted stays noted, and only a kill counts as one.                 *)
LEMMA HistoryGrows ==
  ASSUME [Next]_vars
  PROVE  breaches \subseteq breaches' /\ (crashes' = crashes \/ \E p \in Procs : Crash(p))
  <1>1. CASE UNCHANGED vars
    BY <1>1 DEF vars
  <1>2. ASSUME NEW p \in Procs, BufInit(p) PROVE breaches \subseteq breaches' /\ crashes' = crashes
    <2>1. CASE ShmCreate(p) \/ ShmExisting(p) \/ InitStruct(p)
      BY <2>1 DEF ShmCreate, ShmExisting, InitStruct, history
    <2>2. CASE Attach(p)
      BY <2>2 DEF Attach, Note
    <2>3. QED
      BY <1>2, <2>1, <2>2 DEF BufInit
  <1>3. ASSUME NEW p \in Procs, BufDestroy(p) \/ Exit(p) \/ Fault(p)
        PROVE  breaches \subseteq breaches' /\ crashes' = crashes
    BY <1>3 DEF BufDestroy, ShmRmid, Detach, Exit, Fault, End, history
  <1>4. ASSUME NEW p \in Procs, Send(p) PROVE breaches \subseteq breaches' /\ crashes' = crashes
    <2>1. CASE Type(p)
      BY <2>1 DEF Type, Note
    <2>2. CASE put_next(p) \/ put_wait(p) \/ put_test(p)
      BY <2>2 DEF put_next, put_wait, put_test, Poll, history
    <2>3. CASE put_set(p) \/ put_store(p) \/ put_in(p) \/ put_clear(p)
      BY <2>3 DEF put_set, put_store, put_in, put_clear, Assign, history
    <2>4. QED
      BY <1>4, <2>1, <2>2, <2>3 DEF Send
  <1>5. ASSUME NEW p \in Procs, Receive(p)
        PROVE  breaches \subseteq breaches' /\ crashes' = crashes
    <2>1. CASE CallGet(p) \/ get_wait(p) \/ get_test(p) \/ get_fetch(p)
      BY <2>1 DEF CallGet, get_wait, get_test, get_fetch, Poll, history
    <2>2. CASE get_set(p) \/ get_out(p) \/ get_clear(p)
      BY <2>2 DEF get_set, get_out, get_clear, Assign, history
    <2>3. QED
      BY <1>5, <2>1, <2>2 DEF Receive
  <1>6. ASSUME NEW p \in Procs, Crash(p) PROVE breaches \subseteq breaches'
    BY <1>6 DEF Crash, End
  <1>7. ASSUME NEW p \in Procs, Run(p) PROVE breaches \subseteq breaches' /\ crashes' = crashes
    BY <1>2, <1>3, <1>4, <1>5, <1>7 DEF Run
  <1>8. QED
    BY <1>1, <1>6, <1>7 DEF Next

(* Every step.                                                               *)
LEMMA FilledStep ==
  ASSUME TypeInv, TypeInv', NEW s, NEW r, Pair(s, r), FilledInv(s, r), [Next]_vars
  PROVE  FilledInv(s, r)'
  <1> SUFFICES ASSUME Filled' PROVE FilledParts(s, r)'
    BY DEF FilledInv
  <1>1. breaches \subseteq breaches'
    BY HistoryGrows
  <1>2. FilledParts(s, r)
    BY <1>1 DEF FilledInv, Filled
  <1>3. /\ s \in Senders /\ r \in Receivers /\ Senders = {s} /\ Receivers = {r}
    BY PairTypes DEF Pair
  <1>4. CASE UNCHANGED vars
    <2>1. UNCHANGED <<segKey, segs, attached, pc, shmid, fresh, position, char, typed, got>>
      BY <1>4 DEF vars
    <2>2. Keys(s, r)' <=> Keys(s, r)
      BY <2>1 DEF Keys, Standing, QuitTyped
    <2>3. Opening(s, r)' <=> Opening(s, r)
      BY <2>1 DEF Opening, Making, TheSegment
    <2>4. Quits(s)' <=> Quits(s)
      BY <2>1 DEF Quits
    <2>5. ASSUME NEW m \in Nat PROVE RingAt(m, s, r)' <=> RingAt(m, s, r)
      <3>1. TheSegment' = TheSegment
        BY <2>1 DEF TheSegment
      <3>2. Sent(m, s, r)' <=> Sent(m, s, r)
        BY <2>1, <3>1 DEF Sent
      <3>3. Fetched(s, r)' <=> Fetched(s, r)
        BY <2>1 DEF Fetched
      <3>4. Shows(m, r)' = Shows(m, r) /\ First(r)' = First(r)
        BY <2>1, <3>1 DEF Shows, First
      <3>5. Between(m, s, r)' <=> Between(m, s, r)
        BY <2>1, <3>1, <3>4 DEF Between
      <3>6. QED
        BY <3>2, <3>3, <3>5 DEF RingAt
    <2>6. Keys(s, r)' /\ Opening(s, r)' /\ Quits(s)'
      BY <1>2, <2>2, <2>3, <2>4, PartsOf
    <2>7. PICK m \in Nat : RingAt(m, s, r)
      BY <1>2, PartsOf
    <2>8. RingAt(m, s, r)'
      BY <2>5, <2>7
    <2>9. QED
      BY <2>6, <2>8, PartsFrom
  <1>5. ASSUME NEW p \in Procs, Run(p) \/ Crash(p) PROVE FilledParts(s, r)'
    <2>1. CASE ShmCreate(p)
      BY <1>2, <2>1, FoundFilled, MadeFilled
    <2>2. CASE ShmExisting(p)
      BY <1>2, <2>2, ShmExistingFilled
    <2>3. CASE Attach(p)
      BY <1>2, <2>3, AttachFilled
    <2>4. CASE InitStruct(p)
      BY <1>2, <2>4, InitStructFilled
    <2>5. CASE ShmRmid(p)
      BY <1>2, <2>5, ShmRmidFilled
    <2>6. CASE Detach(p) \/ Exit(p) \/ Fault(p) \/ Crash(p)
      BY <1>2, <2>6, EndFilled
    <2>7. CASE p \in Senders /\ Send(p)
      <3>1. p = s
        BY <1>3, <2>7
      <3>2. CASE Type(s)
        BY <1>2, <3>2, TypeFilled
      <3>3. CASE put_next(s)
        BY <1>2, <3>3, PutNextFilled
      <3>4. CASE put_wait(s) \/ put_test(s)
        BY <1>2, <3>4, PutPollFilled
      <3>5. CASE put_set(s) \/ put_clear(s)
        BY <1>2, <3>5, PutFlagFilled
      <3>6. CASE put_store(s)
        BY <1>2, <3>6, PutStoreFilled
      <3>7. CASE put_in(s)
        BY <1>2, <3>7, PutInFilled
      <3>8. QED
        BY <2>7, <3>1, <3>2, <3>3, <3>4, <3>5, <3>6, <3>7 DEF Send
    <2>8. CASE p \in Receivers /\ Receive(p)
      <3>1. p = r
        BY <1>3, <2>8
      <3>2. CASE CallGet(r)
        BY <1>2, <3>2, CallGetFilled
      <3>3. CASE get_wait(r) \/ get_test(r)
        BY <1>2, <3>3, GetPollFilled
      <3>4. CASE get_set(r) \/ get_clear(r)
        BY <1>2, <3>4, GetFlagFilled
      <3>5. CASE get_fetch(r)
        BY <1>2, <3>5, GetFetchFilled
      <3>6. CASE get_out(r)
        BY <1>2, <3>6, GetOutFilled
      <3>7. QED
        BY <2>8, <3>1, <3>2, <3>3, <3>4, <3>5, <3>6 DEF Receive
    <2>9. QED
      BY <1>5, <2>1, <2>2, <2>3, <2>4, <2>5, <2>6, <2>7, <2>8 DEF Run, BufInit, BufDestroy
  <1>6. QED
    BY <1>4, <1>5 DEF Next

(* A write to the first segment.                                             *)
LEMMA FirstWritten ==
  ASSUME TypeInv, NEW p \in Procs, attached[p] = 1, NEW new,
         Len(segs') = Len(segs), segs'[attached[p]] = new
  PROVE  TheSegment' = new
  <1>1. Len(segs) # 0 /\ Len(segs') # 0
    BY OwnSegment DEF None
  <1>2. segs' # <<>>
    BY <1>1
  <1>3. QED
    BY <1>2 DEF TheSegment

(* What the steps of buf_put do to the ring.                                 *)
LEMMA PutWritten ==
  ASSUME TypeInv, NEW s, NEW r, Pair(s, r), Keys(s, r)
  PROVE  /\ put_set(s) => Len(segs') = Len(segs) /\ TheSegment' = [TheSegment EXCEPT !.mutex = 1]
         /\ put_clear(s) => Len(segs') = Len(segs) /\ TheSegment' = [TheSegment EXCEPT !.mutex = 0]
         /\ put_in(s) =>
              Len(segs') = Len(segs) /\ TheSegment' = [TheSegment EXCEPT !.in = position[s]]
         /\ put_store(s) =>
              /\ Len(segs') = Len(segs)
              /\ TheSegment' = [TheSegment EXCEPT !.buf =
                                  [TheSegment.buf EXCEPT ![TheSegment.in] = char[s]]]
  <1>1. s \in Procs
    BY PairTypes
  <1>2. TheSegment \in Segment
    BY FirstSegment
  <1>3. ASSUME pc[s] \in {"put_set", "put_store", "put_in", "put_clear"}
        PROVE  attached[s] = 1 /\ attached[s] # None /\ Seg(s) = TheSegment
    BY <1>3, WorksOnFirst DEF InPut, BeforeStore, None
  <1>4. ASSUME NEW v \in {0, 1}, Write(s, "mutex", v),
               pc[s] \in {"put_set", "put_store", "put_in", "put_clear"}
        PROVE  Len(segs') = Len(segs) /\ TheSegment' = [TheSegment EXCEPT !.mutex = v]
    <2>1. Len(segs') = Len(segs) /\ segs'[attached[s]] = [TheSegment EXCEPT !.mutex = v]
      BY <1>1, <1>3, <1>4, WroteMutex
    <2>2. QED
      BY <1>1, <1>3, <1>4, <2>1, FirstWritten
  <1>5. ASSUME put_set(s)
        PROVE  Len(segs') = Len(segs) /\ TheSegment' = [TheSegment EXCEPT !.mutex = 1]
    <2>1. pc[s] = "put_set" /\ Write(s, "mutex", 1)
      BY <1>5 DEF put_set, Assign
    <2>2. QED
      BY <1>4, <2>1
  <1>6. ASSUME put_clear(s)
        PROVE  Len(segs') = Len(segs) /\ TheSegment' = [TheSegment EXCEPT !.mutex = 0]
    <2>1. pc[s] = "put_clear" /\ Write(s, "mutex", 0)
      BY <1>6 DEF put_clear, Assign
    <2>2. QED
      BY <1>4, <2>1
  <1>7. ASSUME put_in(s)
        PROVE  Len(segs') = Len(segs) /\ TheSegment' = [TheSegment EXCEPT !.in = position[s]]
    <2>1. pc[s] = "put_in" /\ Write(s, "in", position[s]) /\ position[s] \in 0 .. Room
      BY <1>1, <1>7 DEF put_in, Assign, TypeInv, VarTypes
    <2>2. Len(segs') = Len(segs) /\ segs'[attached[s]] = [TheSegment EXCEPT !.in = position[s]]
      BY <1>1, <1>3, <2>1, WroteIn
    <2>3. QED
      BY <1>1, <1>3, <2>1, <2>2, FirstWritten
  <1>8. ASSUME put_store(s)
        PROVE  /\ Len(segs') = Len(segs)
               /\ TheSegment' = [TheSegment EXCEPT !.buf =
                                   [TheSegment.buf EXCEPT ![TheSegment.in] = char[s]]]
    <2> DEFINE v == [TheSegment.buf EXCEPT ![TheSegment.in] = char[s]]
    <2>1. pc[s] = "put_store" /\ char[s] \in Chars \cup {Nul}
      BY <1>1, <1>8 DEF put_store, TypeInv, VarTypes
    <2>2. Write(s, "buf", v)
      BY <1>3, <1>8, <2>1 DEF put_store, Assign
    <2>3. v \in [0 .. Room -> Chars \cup {Nul}]
      BY <1>2, <2>1 DEF Segment
    <2> HIDE DEF v
    <2>4. Len(segs') = Len(segs) /\ segs'[attached[s]] = [TheSegment EXCEPT !.buf = v]
      BY <1>1, <1>3, <2>1, <2>2, <2>3, WroteBuf
    <2>5. TheSegment' = [TheSegment EXCEPT !.buf = v]
      BY <1>1, <1>3, <2>1, <2>4, FirstWritten
    <2>6. QED
      BY <2>4, <2>5 DEF v
  <1>9. QED
    BY <1>5, <1>6, <1>7, <1>8

(* What the steps of buf_get do to the ring.                                 *)
LEMMA GetWritten ==
  ASSUME TypeInv, NEW s, NEW r, Pair(s, r), Keys(s, r)
  PROVE  /\ get_set(r) => Len(segs') = Len(segs) /\ TheSegment' = [TheSegment EXCEPT !.mutex = 1]
         /\ get_clear(r) => Len(segs') = Len(segs) /\ TheSegment' = [TheSegment EXCEPT !.mutex = 0]
         /\ get_out(r) =>
              /\ Len(segs') = Len(segs) /\ TheSegment.size = Room + 1
              /\ TheSegment' = [TheSegment EXCEPT !.out = (TheSegment.out + 1) % TheSegment.size]
  <1>1. r \in Procs
    BY PairTypes
  <1>2. TheSegment \in Segment
    BY FirstSegment
  <1>3. ASSUME pc[r] \in {"get_set", "get_out", "get_clear"}
        PROVE  attached[r] = 1 /\ attached[r] # None /\ Seg(r) = TheSegment
    BY <1>3, WorksOnFirst DEF InGet, None
  <1>4. ASSUME NEW v \in {0, 1}, Write(r, "mutex", v),
               pc[r] \in {"get_set", "get_out", "get_clear"}
        PROVE  Len(segs') = Len(segs) /\ TheSegment' = [TheSegment EXCEPT !.mutex = v]
    <2>1. Len(segs') = Len(segs) /\ segs'[attached[r]] = [TheSegment EXCEPT !.mutex = v]
      BY <1>1, <1>3, <1>4, WroteMutex
    <2>2. QED
      BY <1>1, <1>3, <1>4, <2>1, FirstWritten
  <1>5. ASSUME get_set(r)
        PROVE  Len(segs') = Len(segs) /\ TheSegment' = [TheSegment EXCEPT !.mutex = 1]
    <2>1. pc[r] = "get_set" /\ Write(r, "mutex", 1)
      BY <1>5 DEF get_set, Assign
    <2>2. QED
      BY <1>4, <2>1
  <1>6. ASSUME get_clear(r)
        PROVE  Len(segs') = Len(segs) /\ TheSegment' = [TheSegment EXCEPT !.mutex = 0]
    <2>1. pc[r] = "get_clear" /\ Write(r, "mutex", 0)
      BY <1>6 DEF get_clear, Assign
    <2>2. QED
      BY <1>4, <2>1
  <1>7. ASSUME get_out(r)
        PROVE  /\ Len(segs') = Len(segs) /\ TheSegment.size = Room + 1
               /\ TheSegment' = [TheSegment EXCEPT !.out = (TheSegment.out + 1) % TheSegment.size]
    <2> DEFINE v == (TheSegment.out + 1) % TheSegment.size
    <2>1. pc[r] = "get_out" /\ Seg(r).size # 0
      BY <1>7 DEF get_out
    <2>2. Write(r, "out", v)
      BY <1>3, <1>7, <2>1 DEF get_out, Assign
    <2>3. TheSegment.size = Room + 1
      BY <1>2, <1>3, <2>1 DEF Segment
    <2>4. v \in 0 .. Room
      BY <1>2, <1>3, <2>1, NextSlot DEF Segment
    <2> HIDE DEF v
    <2>5. Len(segs') = Len(segs) /\ segs'[attached[r]] = [TheSegment EXCEPT !.out = v]
      BY <1>1, <1>3, <2>1, <2>2, <2>4, WroteOut
    <2>6. TheSegment' = [TheSegment EXCEPT !.out = v]
      BY <1>1, <1>3, <2>1, <2>5, FirstWritten
    <2>7. QED
      BY <2>3, <2>5, <2>6 DEF v
  <1>8. QED
    BY <1>5, <1>6, <1>7

(* The key is taken away: the struct stays as it is.                         *)
LEMMA RemovedWritten ==
  ASSUME TypeInv, NEW p \in Procs, ShmRmid(p)
  PROVE  /\ Len(segs') = Len(segs)
         /\ TheSegment'.size = TheSegment.size /\ TheSegment'.in = TheSegment.in
         /\ TheSegment'.out = TheSegment.out /\ TheSegment'.mutex = TheSegment.mutex
         /\ TheSegment'.buf = TheSegment.buf
  <1>1. CASE is_mem_ok(p)
    <2>1. Write(p, "removed", TRUE) /\ attached[p] # None
      BY <1>1 DEF ShmRmid, is_mem_ok
    <2>2. /\ Len(segs') = Len(segs) /\ segs'[attached[p]] = [Seg(p) EXCEPT !.removed = TRUE]
          /\ \A g \in 1 .. Len(segs) : g # attached[p] => segs'[g] = segs[g]
      BY <2>1, WroteRemoved
    <2>3. attached[p] \in 1 .. Len(segs) /\ Seg(p) \in Segment
      BY <2>1, OwnSegment
    <2>4. segs # <<>> /\ segs' # <<>> /\ 1 \in 1 .. Len(segs)
      BY <2>2, <2>3, FirstSegment
    <2>5. TheSegment = segs[1] /\ TheSegment' = segs'[1]
      BY <2>4 DEF TheSegment
    <2>6. CASE attached[p] = 1
      BY <2>2, <2>3, <2>5, <2>6 DEF Seg, Segment
    <2>7. CASE attached[p] # 1
      BY <2>2, <2>4, <2>5, <2>7
    <2>8. QED
      BY <2>2, <2>6, <2>7
  <1>2. CASE ~ is_mem_ok(p)
    BY <1>2 DEF ShmRmid, TheSegment
  <1>3. QED
    BY <1>1, <1>2

--------------------------------------------------------------------------------
(* A step in an orderly session that makes no segment.                       *)
OrderlyFrame(s, r, p, to) ==
  /\ pc' = [pc EXCEPT ![p] = to] /\ to \notin {"killed", "faulted"}
  /\ Len(segs') = Len(segs) /\ UNCHANGED fresh
  /\ QuitTyped(s) => QuitTyped(s)'
  /\ QuitTyped(s)' => QuitTyped(s) \/ pc'[r] \notin Unattached
  /\ to \in Unattached => pc[p] \in Unattached
  /\ p = s /\ to \in Leaving => QuitTyped(s)
  /\ pc'[r] = "loop" => attached'[r] # None
  /\ pc'[r] \in Leaving => Len(got'[r]) > 0 /\ got'[r][Len(got'[r])] = Quit
  /\ TheSegment'.size = 0 =>
       /\ TheSegment.size = 0
       /\ fresh[p] /\ pc[p] \in {"attach", "set_size"} => to \in {"attach", "set_size"}

(* OrderlyParts, for such a step.                                            *)
LEMMA OrderlyKept ==
  ASSUME TypeInv, NEW s, NEW r, Pair(s, r), OrderlyParts(s, r), NEW p \in Procs, NEW to,
         OrderlyFrame(s, r, p, to)
  PROVE  OrderlyParts(s, r)'
  <1> USE DEF OrderlyFrame
  <1>1. pc'[p] = to /\ \A q \in Procs \ {p} : pc'[q] = pc[q]
    BY DEF TypeInv, VarTypes
  <1>2. s \in Procs /\ r \in Procs /\ s # r
    BY PairTypes
  <1>3. Len(segs') <= 1 /\ \A q \in Procs : pc'[q] \notin {"killed", "faulted"}
    BY <1>1 DEF OrderlyParts
  <1>4. QuitTyped(s)' => pc'[r] \notin Unattached
    BY <1>1, <1>2 DEF OrderlyParts
  <1>5. pc'[s] \in Leaving => QuitTyped(s)'
    BY <1>1, <1>2 DEF OrderlyParts
  <1>6. Len(segs') # 0 /\ TheSegment'.size = 0 =>
          \E q \in Procs : fresh'[q] /\ pc'[q] \in {"attach", "set_size"}
    <2> SUFFICES ASSUME Len(segs') # 0, TheSegment'.size = 0
                 PROVE  \E q \in Procs : fresh'[q] /\ pc'[q] \in {"attach", "set_size"}
      OBVIOUS
    <2>1. PICK q \in Procs : fresh[q] /\ pc[q] \in {"attach", "set_size"}
      BY DEF OrderlyParts
    <2>2. pc'[q] \in {"attach", "set_size"}
      BY <1>1, <2>1
    <2>3. QED
      BY <2>1, <2>2
  <1>7. QED
    BY <1>3, <1>4, <1>5, <1>6 DEF OrderlyParts

(* Who may get a segment of an orderly session gets it.                      *)
LEMMA NotLost ==
  ASSUME TypeInv, NEW s, NEW r, Pair(s, r), OrderlyParts(s, r), Keys(s, r)', NEW p \in Procs,
         pc[p] \in Unattached, pc' = [pc EXCEPT ![p] = "loop"]
  PROVE  attached'[p] # None
  <1>1. pc'[p] = "loop" /\ \A q \in Procs \ {p} : pc'[q] = pc[q]
    BY DEF TypeInv, VarTypes
  <1>2. s \in Procs /\ r \in Procs /\ s # r /\ Procs = {s, r}
    BY PairTypes
  <1>3. CASE p = s
    BY <1>1, <1>3 DEF Keys, None
  <1>4. CASE p = r
    <2> SUFFICES ASSUME attached'[r] = None PROVE FALSE
      BY <1>4
    <2>1. pc'[s] \in Gone
      BY <1>1, <1>4 DEF Keys
    <2>2. pc[s] \in Leaving
      BY <1>1, <1>2, <1>4, <2>1 DEF Gone, Leaving, InDestroy
    <2>3. QED
      BY <1>4, <2>2 DEF OrderlyParts
  <1>5. QED
    BY <1>2, <1>3, <1>4

(* What to show of a step that types, fetches and writes no size.            *)
LEMMA OrderlyQuiet ==
  ASSUME TypeInv, NEW s, NEW r, Pair(s, r), OrderlyParts(s, r), NEW p \in Procs,
         NEW to \in Labels \ (Unattached \cup {"killed", "faulted"}),
         pc' = [pc EXCEPT ![p] = to], pc[p] \notin {"attach", "set_size"},
         Len(segs') = Len(segs), UNCHANGED <<fresh, typed, got>>,
         TheSegment'.size = 0 => TheSegment.size = 0,
         p = s /\ to \in Leaving => QuitTyped(s),
         p = r /\ to \in Leaving => Len(got[r]) > 0 /\ got[r][Len(got[r])] = Quit,
         p # r => attached'[r] = attached[r],
         p = r /\ to = "loop" => attached'[r] # None
  PROVE  OrderlyParts(s, r)'
  <1>1. pc'[p] = to /\ \A q \in Procs \ {p} : pc'[q] = pc[q]
    BY DEF TypeInv, VarTypes
  <1>2. s \in Procs /\ r \in Procs /\ s # r
    BY PairTypes
  <1>3. QuitTyped(s)' <=> QuitTyped(s)
    BY DEF QuitTyped
  <1>4. pc'[r] \in Leaving => Len(got'[r]) > 0 /\ got'[r][Len(got'[r])] = Quit
    BY <1>1, <1>2 DEF OrderlyParts
  <1>5. pc'[r] = "loop" => attached'[r] # None
    BY <1>1, <1>2 DEF OrderlyParts
  <1>6. OrderlyFrame(s, r, p, to)
    BY <1>3, <1>4, <1>5 DEF OrderlyFrame
  <1>7. QED
    BY <1>6, OrderlyKept

(* buf_init before the struct is written.                                    *)
LEMMA LaunchOrderly ==
  ASSUME TypeInv, TypeInv', NEW s, NEW r, Pair(s, r), FilledParts(s, r), Keys(s, r)',
         OrderlyParts(s, r), NEW p \in Procs, ShmCreate(p) \/ ShmExisting(p) \/ Attach(p)
  PROVE  OrderlyParts(s, r)'
  <1>1. Keys(s, r) /\ Opening(s, r) /\ Quits(s)
    BY PartsOf
  <1>2. s \in Procs /\ r \in Procs /\ s # r /\ Procs = {s, r} /\ Len(segs) \in Nat
    BY PairTypes, FirstSegment
  <1>3. /\ UNCHANGED <<typed, got>>
        /\ pc[p] \in Unattached
    BY DEF ShmCreate, ShmExisting, Attach, history, Unattached
  <1>4. QuitTyped(s)' <=> QuitTyped(s)
    BY <1>3 DEF QuitTyped
  <1>5. /\ {"start", "shm_existing", "attach"} \subseteq Unattached
        /\ {"start", "shm_existing", "attach", "set_size", "loop"} \cap Leaving = {}
    BY DEF Unattached, Leaving, InDestroy, Ended
  <1>6. CASE ShmCreate(p) /\ segKey = None
    <2>1. /\ pc[p] = "start" /\ pc' = [pc EXCEPT ![p] = "attach"]
          /\ segs' = Append(segs, ZeroedSegment) /\ fresh' = [fresh EXCEPT ![p] = TRUE]
      BY <1>6 DEF ShmCreate, Goto
    <2>2. Len(segs) = 0
      <3> SUFFICES ASSUME Len(segs) # 0 PROVE FALSE
        OBVIOUS
      <3>1. ~ Standing
        BY <1>6 DEF Standing, None
      <3>2. p = r /\ pc[s] \in Gone
        BY <1>1, <1>2, <1>3, <3>1 DEF Keys
      <3>3. pc[s] \in Leaving
        BY <3>2 DEF Gone, Leaving, InDestroy
      <3>4. QED
        BY <1>3, <3>2, <3>3 DEF OrderlyParts
    <2>3. pc[s] = "start" /\ pc[r] = "start" /\ typed[s] = <<>>
      BY <1>1, <1>5, <2>2, NotInYet
    <2>4. /\ pc'[p] = "attach" /\ fresh'[p] /\ \A q \in Procs : pc'[q] \in {"start", "attach"}
      BY <1>2, <2>1, <2>3 DEF TypeInv, VarTypes
    <2>5. Len(segs') = 1 /\ typed'[s] = <<>>
      BY <1>3, <2>1, <2>2, <2>3, FirstSegment
    <2>6. ~ QuitTyped(s)'
      BY <2>5 DEF QuitTyped
    <2>7. QED
      BY <1>2, <1>5, <2>4, <2>5, <2>6 DEF OrderlyParts
  <1>7. CASE ~ (ShmCreate(p) /\ segKey = None)
    <2>1. UNCHANGED <<segs, fresh>> /\ TheSegment' = TheSegment /\ Len(segs') = Len(segs)
      BY <1>7 DEF ShmCreate, ShmExisting, Attach, kernel, locals, TheSegment
    <2>2. PICK to \in {"shm_existing", "attach", "set_size", "loop"} :
            /\ pc' = [pc EXCEPT ![p] = to]
            /\ pc[p] = "attach" /\ fresh[p] => to = "set_size" \/ attached' = attached
      <3>1. CASE ShmCreate(p)
        BY <1>7, <3>1 DEF ShmCreate, Goto
      <3>2. CASE ShmExisting(p)
        BY <3>2 DEF ShmExisting, Goto, kernel
      <3>3. CASE Attach(p)
        BY <3>3 DEF Attach, Goto
      <3>4. QED
        BY <3>1, <3>2, <3>3
    <2>3. pc'[p] = to /\ \A q \in Procs \ {p} : pc'[q] = pc[q]
      BY <2>2 DEF TypeInv, VarTypes
    <2>4. to = "loop" => attached'[p] # None
      BY <1>3, <2>2, NotLost
    <2>5. attached[p] = None
      BY <1>3 DEF TypeInv, Place
    <2>6. pc[p] = "attach" /\ fresh[p] => to \in {"attach", "set_size"}
      <3>1. pc[p] = "attach" /\ pc[p] # "start" /\ pc[p] # "shm_existing" => Attach(p)
        BY DEF ShmCreate, ShmExisting
      <3>2. Attach(p) => to \in {"loop", "set_size"}
        BY <2>3 DEF Attach, Goto, TypeInv, VarTypes
      <3>3. QED
        BY <2>2, <2>4, <2>5, <3>1, <3>2
    <2>7. \A q \in Procs \ {p} : attached'[q] = attached[q]
      BY DEF ShmCreate, ShmExisting, Attach, kernel, TypeInv, SegTypes
    <2>8. pc'[r] = "loop" => attached'[r] # None
      BY <1>2, <2>3, <2>4, <2>7 DEF OrderlyParts
    <2>9. pc'[r] \in Leaving => Len(got'[r]) > 0 /\ got'[r][Len(got'[r])] = Quit
      BY <1>2, <1>3, <1>5, <2>3 DEF OrderlyParts
    <2>10. to \notin Leaving /\ to \notin {"killed", "faulted"} /\ pc[p] # "set_size"
      BY <1>3, <1>5 DEF Unattached
    <2>11. OrderlyFrame(s, r, p, to)
      BY <1>3, <1>4, <2>1, <2>2, <2>6, <2>8, <2>9, <2>10 DEF OrderlyFrame
    <2>12. QED
      BY <2>11, OrderlyKept
  <1>8. QED
    BY <1>6, <1>7

(* The struct is written: it gets its size first.                            *)
LEMMA StructOrderly ==
  ASSUME TypeInv, NEW s, NEW r, Pair(s, r), FilledParts(s, r), OrderlyParts(s, r),
         NEW p \in Procs, InitStruct(p)
  PROVE  OrderlyParts(s, r)'
  <1>1. /\ Len(segs') = Len(segs) /\ attached[p] # None
        /\ TheSegment'.size = 0 => TheSegment.size = 0
    BY StructWritten
  <1>2. s \in Procs /\ r \in Procs /\ s # r /\ Room \in Nat \ {0} /\ Len(segs) \in Nat
    BY PairTypes, FirstSegment
  <1>3. PICK to \in {"set_out", "set_in", "set_mutex", "loop"} : pc' = [pc EXCEPT ![p] = to]
    BY DEF InitStruct, Goto
  <1>4. UNCHANGED <<attached, fresh, typed, got>>
    BY DEF InitStruct, locals, history
  <1>5. pc[p] = "set_size" => TheSegment'.size # 0
    <2> SUFFICES ASSUME pc[p] = "set_size" PROVE TheSegment'.size # 0
      OBVIOUS
    <2>1. Write(p, "size", Room + 1)
      BY DEF InitStruct
    <2>2. attached[p] \in 1 .. Len(segs) /\ Seg(p) \in Segment
      BY <1>1, OwnSegment
    <2>3. attached[p] = 1
      BY <1>2, <2>2 DEF OrderlyParts
    <2>4. segs'[attached[p]] = [Seg(p) EXCEPT !.size = Room + 1]
      BY <1>1, <2>1, WroteSize
    <2>5. TheSegment' = [Seg(p) EXCEPT !.size = Room + 1]
      BY <1>1, <2>3, <2>4, FirstWritten
    <2>6. TheSegment'.size = Room + 1
      BY <2>2, <2>5 DEF Segment
    <2>7. QED
      BY <1>2, <2>6
  <1>6. /\ to \notin Leaving \cup Unattached \cup {"killed", "faulted"} /\ pc[p] # "attach"
    BY DEF Leaving, InDestroy, Ended, Unattached, InitStruct
  <1>7. pc'[p] = to /\ \A q \in Procs \ {p} : pc'[q] = pc[q]
    BY <1>3 DEF TypeInv, VarTypes
  <1>8. QuitTyped(s)' <=> QuitTyped(s)
    BY <1>4 DEF QuitTyped
  <1>9. pc'[r] = "loop" => attached'[r] # None
    BY <1>1, <1>2, <1>4, <1>7 DEF OrderlyParts
  <1>10. pc'[r] \in Leaving => Len(got'[r]) > 0 /\ got'[r][Len(got'[r])] = Quit
    BY <1>2, <1>4, <1>6, <1>7 DEF OrderlyParts
  <1>11. OrderlyFrame(s, r, p, to)
    BY <1>1, <1>3, <1>4, <1>5, <1>6, <1>8, <1>9, <1>10 DEF OrderlyFrame
  <1>12. QED
    BY <1>11, OrderlyKept

(* The user types: the last character only once the receiver is in.          *)
LEMMA TypeOrderly ==
  ASSUME TypeInv, NEW s, NEW r, Pair(s, r), FilledParts(s, r), OrderlyParts(s, r),
         Type(s), "early_quit" \notin breaches'
  PROVE  OrderlyParts(s, r)'
  <1>1. Keys(s, r) /\ Opening(s, r) /\ Quits(s)
    BY PartsOf
  <1>2. /\ s \in Procs /\ r \in Procs /\ s # r /\ s \in Senders /\ Receivers = {r}
        /\ typed[s] \in Seq(Chars) /\ Len(typed[s]) \in Nat
    BY PairTypes DEF Pair
  <1>3. /\ pc[s] = "loop" /\ UNCHANGED <<segs, attached, fresh, got>>
    BY DEF Type, kernel
  <1>4. attached[s] = 1
    BY <1>1, <1>3, NobodyMakes
  <1>5. PICK d \in Chars :
          /\ Note("early_quit", d = Quit /\ \E q \in Receivers : pc[q] \in Unattached)
          /\ typed' = [typed EXCEPT ![s] = Append(@, d)]
          /\ pc' = [pc EXCEPT ![s] = "put_next"]
    <2>1. is_mem_ok(s)
      BY <1>4 DEF is_mem_ok, None
    <2>2. PICK d \in Chars :
            /\ Note("early_quit", d = Quit /\ \E q \in Receivers : pc[q] \in Unattached)
            /\ typed' = [typed EXCEPT ![s] = Append(@, d)]
            /\ Goto(s, IF is_mem_ok(s) THEN "put_next" ELSE AfterCall(d))
      BY DEF Type
    <2>3. pc' = [pc EXCEPT ![s] = "put_next"]
      BY <2>1, <2>2 DEF Goto
    <2>4. QED
      BY <2>2, <2>3
  <1>6. d = Quit => pc[r] \notin Unattached
    BY <1>2, <1>5 DEF Note
  <1>7. /\ typed'[s] = Append(typed[s], d) /\ pc'[s] = "put_next" /\ pc'[r] = pc[r]
    BY <1>2, <1>5 DEF TypeInv, VarTypes
  <1>8. Len(typed'[s]) = Len(typed[s]) + 1 /\ typed'[s][Len(typed[s]) + 1] = d
    BY <1>2, <1>7
  <1>9. QuitTyped(s)' => pc'[r] \notin Unattached
    BY <1>6, <1>7, <1>8 DEF QuitTyped
  <1>10. ~ QuitTyped(s)
    <2>1. ASSUME QuitTyped(s) PROVE FALSE
      <3>1. Len(typed[s]) \in 1 .. Len(typed[s]) /\ typed[s][Len(typed[s])] = Quit
        BY <1>2, <2>1 DEF QuitTyped
      <3>2. pc[s] \in InPut \cup Leaving
        BY <1>1, <3>1 DEF Quits
      <3>3. QED
        BY <1>3, <3>2 DEF InPut, BeforeStore, Leaving, InDestroy, Ended
    <2>2. QED
      BY <2>1
  <1>11. "put_next" \notin Leaving \cup Unattached \cup {"killed", "faulted"}
    BY DEF Leaving, InDestroy, Ended, Unattached
  <1>12. Len(segs') = Len(segs) /\ TheSegment' = TheSegment
    BY <1>3 DEF TheSegment
  <1>13. pc'[r] = "loop" => attached'[r] # None
    BY <1>3, <1>7 DEF OrderlyParts
  <1>14. pc'[r] \in Leaving => Len(got'[r]) > 0 /\ got'[r][Len(got'[r])] = Quit
    BY <1>3, <1>7 DEF OrderlyParts
  <1>15. OrderlyFrame(s, r, s, "put_next")
    BY <1>3, <1>5, <1>9, <1>10, <1>11, <1>12, <1>13, <1>14 DEF OrderlyFrame
  <1>16. QED
    BY <1>2, <1>15, OrderlyKept

(* The rest of buf_put.                                                      *)
LEMMA PutOrderly ==
  ASSUME TypeInv, NEW s, NEW r, Pair(s, r), FilledParts(s, r), OrderlyParts(s, r),
         put_next(s) \/ PutPoll(s) \/ PutWrite(s)
  PROVE  OrderlyParts(s, r)'
  <1>1. Keys(s, r) /\ Opening(s, r) /\ Quits(s)
    BY PartsOf
  <1>2. s \in Procs /\ r \in Procs /\ s # r
    BY PairTypes
  <1>3. /\ UNCHANGED <<attached, fresh, typed, got>>
        /\ PutWrite(s) \/ segs' = segs
        /\ pc[s] \in InPut
    BY DEF put_next, PutPoll, put_wait, put_test, PutWrite, put_set, put_store, put_in, put_clear,
           Poll, Assign, kernel, locals, history, InPut, BeforeStore
  <1>4. Len(segs') = Len(segs) /\ TheSegment'.size = TheSegment.size
    <2>1. CASE segs' = segs
      BY <2>1 DEF TheSegment
    <2>2. CASE PutWrite(s)
      <3>1. TheSegment \in Segment
        BY FirstSegment
      <3>2. QED
        BY <1>1, <2>2, <3>1, PutWritten DEF PutWrite, Segment
    <2>3. QED
      BY <1>3, <2>1, <2>2
  <1>5. PICK to \in {"put_wait", "put_test", "put_set", "put_store", "put_in", "put_clear",
                     "loop", "shm_rmid"} :
          /\ pc' = [pc EXCEPT ![s] = to]
          /\ to = "shm_rmid" => char[s] = Quit
    BY DEF put_next, PutPoll, put_wait, put_test, PutWrite, put_set, put_store, put_in, put_clear,
           Poll, Assign, Goto, AfterCall
  <1>6. /\ to \in Labels \ (Unattached \cup {"killed", "faulted"})
        /\ pc[s] \notin {"attach", "set_size"}
        /\ to \in Leaving => to = "shm_rmid"
    BY <1>3, <1>5 DEF Labels, Unattached, InPut, BeforeStore, Leaving, InDestroy, Ended
  <1>7. to \in Leaving => QuitTyped(s)
    BY <1>1, <1>3, <1>5, <1>6 DEF Quits, QuitTyped
  <1>8. QED
    BY <1>2, <1>3, <1>4, <1>5, <1>6, <1>7, OrderlyQuiet

(* The receiver.                                                             *)
LEMMA ReceiveOrderly ==
  ASSUME TypeInv, TypeInv', NEW s, NEW r, Pair(s, r), FilledParts(s, r), OrderlyParts(s, r),
         Receive(r)
  PROVE  OrderlyParts(s, r)'
  <1>1. Keys(s, r) /\ Opening(s, r) /\ Quits(s)
    BY PartsOf
  <1>2. PICK m \in Nat : RingAt(m, s, r)
    BY PartsOf
  <1>3. /\ s \in Procs /\ r \in Procs /\ s # r
        /\ r \in Receivers /\ got[r] \in Seq(Chars \cup {Nul})
    BY PairTypes
  <1>4. /\ UNCHANGED <<attached, fresh, typed>>
        /\ GetWrite(r) \/ segs' = segs
        /\ pc[r] \in InGet \cup {"loop"}
    BY DEF Receive, CallGet, get_fetch, GetWrite, get_wait, get_test, get_set, get_out, get_clear,
           Poll, Assign, kernel, locals, history, InGet
  <1>5. Len(segs') = Len(segs) /\ TheSegment'.size = TheSegment.size
    <2>1. CASE segs' = segs
      BY <2>1 DEF TheSegment
    <2>2. CASE GetWrite(r)
      <3>1. TheSegment \in Segment
        BY FirstSegment
      <3>2. QED
        BY <1>1, <2>2, <3>1, GetWritten DEF GetWrite, Segment
    <2>3. QED
      BY <1>4, <2>1, <2>2
  <1>6. CASE get_fetch(r)
    <2>1. /\ pc' = [pc EXCEPT ![r] = "get_out"] /\ \E ch : got' = [got EXCEPT ![r] = ch]
      BY <1>6 DEF get_fetch, Goto
    <2>2. /\ pc'[r] = "get_out" /\ pc[r] = "get_fetch"
          /\ "get_out" \notin Leaving \cup Unattached \cup {"killed", "faulted", "loop"}
      BY <1>3, <1>6, <2>1
         DEF get_fetch, TypeInv, VarTypes, Leaving, InDestroy, Ended, Unattached
    <2>3. QuitTyped(s)' <=> QuitTyped(s)
      BY <1>4 DEF QuitTyped
    <2>4. OrderlyFrame(s, r, r, "get_out")
      BY <1>3, <1>4, <1>5, <2>1, <2>2, <2>3 DEF OrderlyFrame
    <2>5. QED
      BY <1>3, <2>4, OrderlyKept
  <1>7. CASE ~ get_fetch(r)
    <2>1. UNCHANGED got
      BY <1>7 DEF Receive, CallGet, get_wait, get_test, get_set, get_out, get_clear, Poll, Assign,
                  history
    <2>2. pc[r] = "loop" => attached[r] # None
      BY DEF OrderlyParts
    <2>3. PICK to \in {"get_wait", "get_test", "get_set", "get_fetch", "get_clear", "loop",
                       "shm_rmid"} :
            /\ pc' = [pc EXCEPT ![r] = to]
            /\ to \in {"loop", "shm_rmid"} => pc[r] = "get_clear"
            /\ to = "shm_rmid" => char[r] = Quit
      <3>1. CASE CallGet(r)
        BY <2>2, <3>1 DEF CallGet, Goto, is_mem_ok
      <3>2. CASE ~ CallGet(r)
        BY <1>7, <3>2 DEF Receive, get_wait, get_test, get_set, get_out, get_clear,
                  Poll, Assign, Goto, AfterCall
      <3>3. QED
        BY <3>1, <3>2
    <2>4. /\ to \in Labels \ (Unattached \cup {"killed", "faulted"})
          /\ pc[r] \notin {"attach", "set_size"}
          /\ to \in Leaving => to = "shm_rmid"
      BY <1>4, <2>3 DEF Labels, Unattached, InGet, Leaving, InDestroy, Ended
    <2>5. to \in Leaving => Len(got[r]) > 0 /\ got[r][Len(got[r])] = Quit
      BY <1>2, <2>3, <2>4 DEF RingAt, Fetched, Handing
    <2>6. to = "loop" => attached'[r] # None
      BY <1>3, <1>4, <2>3 DEF TypeInv, Place, Mapped, InGet
    <2>7. OrderlyFrame(s, r, r, to)
      <3>1. /\ pc' = [pc EXCEPT ![r] = to] /\ UNCHANGED <<fresh, typed, got>>
            /\ pc'[r] = to /\ Len(segs') = Len(segs)
            /\ TheSegment'.size = 0 => TheSegment.size = 0
        BY <1>3, <1>4, <1>5, <2>1, <2>3 DEF TypeInv, VarTypes
      <3>2. QuitTyped(s)' <=> QuitTyped(s)
        BY <3>1 DEF QuitTyped
      <3>3. pc'[r] \in Leaving => Len(got'[r]) > 0 /\ got'[r][Len(got'[r])] = Quit
        BY <2>5, <3>1
      <3>4. to \notin Unattached \cup {"killed", "faulted"}
        BY <2>4
      <3>5. QED
        BY <1>3, <2>4, <2>6, <3>1, <3>2, <3>3, <3>4 DEF OrderlyFrame
    <2>8. QED
      BY <1>3, <2>7, OrderlyKept
  <1>8. QED
    BY <1>6, <1>7

(* Who leaves goes on leaving.                                               *)
LEMMA LeaveOrderly ==
  ASSUME TypeInv, NEW s, NEW r, Pair(s, r), OrderlyParts(s, r),
         NEW p \in Procs, ShmRmid(p) \/ Detach(p) \/ Exit(p)
  PROVE  OrderlyParts(s, r)'
  <1>1. s \in Procs /\ r \in Procs /\ s # r
    BY PairTypes
  <1>2. /\ UNCHANGED <<fresh, typed, got>>
        /\ pc[p] \in InDestroy /\ (ShmRmid(p) \/ segs' = segs)
    BY DEF ShmRmid, Detach, Exit, End, locals, history, InDestroy
  <1>3. Len(segs') = Len(segs) /\ TheSegment'.size = TheSegment.size
    <2>1. CASE segs' = segs
      BY <2>1 DEF TheSegment
    <2>2. CASE ShmRmid(p)
      BY <2>2, RemovedWritten
    <2>3. QED
      BY <1>2, <2>1, <2>2
  <1>4. PICK to \in {"detach", "exit", "done"} : pc' = [pc EXCEPT ![p] = to]
    BY DEF ShmRmid, Detach, Exit, End, Goto
  <1>5. pc[p] \in InDestroy
    BY DEF ShmRmid, Detach, Exit, InDestroy
  <1>6. /\ to \in Labels \ (Unattached \cup {"killed", "faulted"})
        /\ pc[p] \notin {"attach", "set_size"} /\ pc[p] \in Leaving
        /\ to # "loop"
    BY <1>5 DEF Labels, Unattached, Leaving, InDestroy, Ended
  <1>7. /\ p = s => QuitTyped(s)
        /\ p = r => Len(got[r]) > 0 /\ got[r][Len(got[r])] = Quit
    BY <1>6 DEF OrderlyParts
  <1>8. \A q \in Procs \ {p} : attached'[q] = attached[q]
    BY DEF ShmRmid, Detach, Exit, End, TypeInv, SegTypes
  <1>9. QED
    BY <1>1, <1>2, <1>3, <1>4, <1>6, <1>7, <1>8, OrderlyQuiet

(* Nobody divides by zero: who makes the ring has sized it before the        *)
(* other one comes in.                                                       *)
LEMMA NoFault ==
  ASSUME TypeInv, NEW s, NEW r, Pair(s, r), FilledParts(s, r), OrderlyParts(s, r),
         NEW p \in Procs, Fault(p)
  PROVE  FALSE
  <1>1. Keys(s, r) /\ Opening(s, r)
    BY PartsOf
  <1>2. s \in Procs /\ r \in Procs /\ s # r /\ Procs = {s, r} /\ Len(segs) \in Nat
    BY PairTypes, FirstSegment
  <1>3. p = s
    BY <1>2, NoFaultOfReceiver
  <1>4. pc[s] = "put_next" /\ Seg(s).size = 0
    <2>1. pc[s] \in {"put_next", "get_out"} /\ Seg(s).size = 0
      BY <1>3 DEF Fault
    <2>2. s \notin Receivers
      BY PairTypes, ProgramAssumption
    <2>3. QED
      BY <1>2, <2>1, <2>2 DEF TypeInv, Place, InGet
  <1>5. TheSegment.size = 0 /\ Len(segs) # 0
    BY <1>1, <1>4, WorksOnFirst DEF InPut, BeforeStore
  <1>6. PICK q \in Procs : fresh[q] /\ pc[q] \in {"attach", "set_size"}
    BY <1>5 DEF OrderlyParts
  <1>7. q = r
    BY <1>2, <1>4, <1>6
  <1>8. shmid[r] = 1
    <2>1. shmid[r] # None
      BY <1>2, <1>6, <1>7 DEF TypeInv, Place, Mapped, InStruct, None
    <2>2. shmid[r] \in 0 .. Len(segs) /\ Len(segs) <= 1
      BY <1>2 DEF TypeInv, SegTypes, OrderlyParts
    <2>3. QED
      BY <1>2, <2>1, <2>2 DEF None
  <1>9. Making(r)
    BY <1>6, <1>7, <1>8 DEF Making, InInit, InStruct
  <1>10. pc[s] \in Unattached \cup {"killed"}
    BY <1>1, <1>2, <1>9 DEF Opening
  <1>11. QED
    BY <1>4, <1>10 DEF Unattached

--------------------------------------------------------------------------------
(* The beginning of an orderly session.                                      *)
LEMMA OrderlyStart ==
  ASSUME Init, NEW s, NEW r, Pair(s, r)
  PROVE  OrderlyParts(s, r)
  <1>1. TypeInv
    BY SessionTypesInit
  <1>2. s \in Procs /\ r \in Procs
    BY <1>1, PairTypes
  <1>3. /\ \A p \in Procs : pc[p] = "start"
        /\ typed[s] = <<>> /\ segs = <<>> /\ Len(segs) = 0
    BY <1>1, PairTypes DEF Init
  <1>4. "start" \notin Leaving
    BY DEF Leaving, InDestroy, Ended
  <1>5. ~ QuitTyped(s)
    BY <1>3 DEF QuitTyped
  <1>6. QED
    BY <1>2, <1>3, <1>4, <1>5 DEF OrderlyParts

(* An orderly session was always one.                                        *)
LEMMA OrderlyBefore ==
  ASSUME TypeInv, [Next]_vars, Orderly'
  PROVE  Orderly /\ Filled /\ Filled' /\ (\A p \in Procs : ~ Crash(p))
         /\ "early_quit" \notin breaches'
  <1>1. breaches \subseteq breaches'
    BY HistoryGrows
  <1>2. crashes \in Nat
    BY BoundAssumption DEF TypeInv, VarTypes
  <1>3. crashes' = crashes \/ \E p \in Procs : Crash(p)
    BY HistoryGrows
  <1>4. \A p \in Procs : ~ Crash(p)
    BY <1>2 DEF Crash, Orderly
  <1>5. QED
    BY <1>1, <1>3, <1>4 DEF Orderly, Filled

(* Every step.                                                               *)
LEMMA OrderlyStep ==
  ASSUME TypeInv, TypeInv', NEW s, NEW r, Pair(s, r), FilledInv(s, r), FilledInv(s, r)',
         OrderlyInv(s, r), [Next]_vars
  PROVE  OrderlyInv(s, r)'
  <1> SUFFICES ASSUME Orderly' PROVE OrderlyParts(s, r)'
    BY DEF OrderlyInv
  <1>1. /\ Orderly /\ Filled /\ Filled' /\ (\A p \in Procs : ~ Crash(p))
        /\ "early_quit" \notin breaches'
    BY OrderlyBefore
  <1>2. OrderlyParts(s, r) /\ FilledParts(s, r) /\ FilledParts(s, r)'
    BY <1>1 DEF OrderlyInv, FilledInv
  <1>3. Senders = {s} /\ Receivers = {r}
    BY DEF Pair
  <1>4. Keys(s, r)'
    BY <1>2 DEF FilledParts
  <1>5. CASE UNCHANGED vars
    <2>1. UNCHANGED <<segs, attached, pc, fresh, typed, got>>
      BY <1>5 DEF vars
    <2>2. TheSegment' = TheSegment /\ (QuitTyped(s)' <=> QuitTyped(s))
      BY <2>1 DEF TheSegment, QuitTyped
    <2>3. QED
      BY <1>2, <2>1, <2>2 DEF OrderlyParts
  <1>6. ASSUME NEW p \in Procs, Run(p) PROVE OrderlyParts(s, r)'
    <2>1. CASE ShmCreate(p) \/ ShmExisting(p) \/ Attach(p)
      BY <1>2, <1>4, <2>1, LaunchOrderly
    <2>2. CASE InitStruct(p)
      BY <1>2, <2>2, StructOrderly
    <2>3. CASE ShmRmid(p) \/ Detach(p) \/ Exit(p)
      BY <1>2, <2>3, LeaveOrderly
    <2>4. CASE Fault(p)
      BY <1>2, <2>4, NoFault
    <2>5. CASE p \in Senders /\ Send(p)
      <3>1. p = s
        BY <1>3, <2>5
      <3>2. CASE Type(s)
        BY <1>1, <1>2, <3>2, TypeOrderly
      <3>3. CASE put_next(s) \/ PutPoll(s) \/ PutWrite(s)
        BY <1>2, <3>3, PutOrderly
      <3>4. QED
        BY <2>5, <3>1, <3>2, <3>3 DEF Send, PutPoll, PutWrite
    <2>6. CASE p \in Receivers /\ Receive(p)
      <3>1. p = r
        BY <1>3, <2>6
      <3>2. QED
        BY <1>2, <2>6, <3>1, ReceiveOrderly
    <2>7. QED
      BY <1>6, <2>1, <2>2, <2>3, <2>4, <2>5, <2>6 DEF Run, BufInit, BufDestroy
  <1>7. QED
    BY <1>1, <1>5, <1>6 DEF Next

(* The pair of the properties.                                               *)
LEMMA ThePair ==
  ASSUME NEW s, NEW r, Pair(s, r)
  PROVE  sender = s /\ receiver = r
  <1>1. \E p \in Senders : TRUE
    BY DEF Pair
  <1>2. \E p \in Receivers : TRUE
    BY DEF Pair
  <1>3. sender \in Senders
    BY <1>1 DEF sender
  <1>4. receiver \in Receivers
    BY <1>2 DEF receiver
  <1>5. QED
    BY <1>3, <1>4 DEF Pair

(* All there is to know of a session of two programs.                        *)
PairInv(s, r) == TypeInv /\ FilledInv(s, r) /\ OrderlyInv(s, r)

(* It holds at the beginning ...                                             *)
LEMMA PairInvInit == ASSUME NEW s, NEW r, Pair(s, r), Init PROVE PairInv(s, r)
  BY SessionTypesInit, FilledStart, OrderlyStart DEF PairInv, FilledInv, OrderlyInv

(* ... and every step keeps it.                                              *)
LEMMA PairInvStep ==
  ASSUME NEW s, NEW r, Pair(s, r), PairInv(s, r), [Next]_vars
  PROVE  PairInv(s, r)'
  <1>1. TypeInv /\ FilledInv(s, r) /\ OrderlyInv(s, r)
    BY DEF PairInv
  <1>2. TypeInv'
    BY <1>1, SessionTypesStep
  <1>3. FilledInv(s, r)'
    BY <1>1, <1>2, FilledStep
  <1>4. OrderlyInv(s, r)'
    BY <1>1, <1>2, <1>3, OrderlyStep
  <1>5. QED
    BY <1>2, <1>3, <1>4 DEF PairInv

(* Who stopped in an orderly session got everything.                         *)
LEMMA GotItAll ==
  ASSUME NEW s, NEW r, Pair(s, r), PairInv(s, r)
  PROVE  AllDelivered
  <1>1. TypeInv /\ sender = s /\ receiver = r
    BY ThePair DEF PairInv
  <1>2. /\ typed[s] \in Seq(Chars) /\ Len(typed[s]) \in Nat
        /\ got[r] \in Seq(Chars \cup {Nul}) /\ Len(got[r]) \in Nat
    BY <1>1, PairTypes
  <1>3. ASSUME Filled PROVE Quits(s) /\ IsPrefixOf(got[r], typed[s])
    <2>1. FilledParts(s, r)
      BY <1>3 DEF PairInv, FilledInv
    <2>2. PICK m \in Nat : RingAt(m, s, r)
      BY <1>1, <2>1, PartsOf
    <2>3. QED
      BY <1>1, <2>1, <2>2, PartsOf DEF RingAt, Fetched
  <1>4. ASSUME Orderly, pc[r] = "done" PROVE got[r] = typed[s]
    <2>1. Filled
      BY <1>4 DEF Orderly, Filled
    <2>2. Quits(s) /\ Len(got[r]) <= Len(typed[s])
          /\ \A i \in 1 .. Len(got[r]) : got[r][i] = typed[s][i]
      BY <1>3, <2>1 DEF IsPrefixOf
    <2>3. Len(got[r]) > 0 /\ got[r][Len(got[r])] = Quit
      BY <1>4 DEF PairInv, OrderlyInv, OrderlyParts, Leaving, Ended
    <2>4. Len(got[r]) \in 1 .. Len(got[r]) /\ Len(got[r]) \in 1 .. Len(typed[s])
      BY <1>2, <2>2, <2>3
    <2>5. typed[s][Len(got[r])] = Quit
      BY <2>2, <2>3, <2>4
    <2>6. Len(got[r]) = Len(typed[s])
      BY <2>2, <2>4, <2>5 DEF Quits
    <2>7. QED
      BY <1>2, <2>2, <2>6
  <1>5. QED
    BY <1>1, <1>3, <1>4 DEF AllDelivered, Filled

(* AllDelivered: whatever is killed and wherever, what the receiver fetched  *)
(* from a ring that was made in time is the beginning of what the user of    *)
(* the sender typed; and a receiver that stopped in an orderly session got   *)
(* it all, the last 'q' included.                                            *)
THEOREM SessionDelivers ==
  ASSUME NEW s, NEW r, Pair(s, r)
  PROVE  Spec => []AllDelivered
  <1>1. Init => PairInv(s, r)
    BY PairInvInit
  <1>2. PairInv(s, r) /\ [Next]_vars => PairInv(s, r)'
    BY PairInvStep
  <1>3. PairInv(s, r) => AllDelivered
    BY GotItAll
  <1>4. QED
    BY <1>1, <1>2, <1>3, PTL DEF Spec

--------------------------------------------------------------------------------
(* The ring's name of a label.                                               *)
LabelOf(label, outside) ==
  IF label \in DOMAIN RingLabel THEN RingLabel[label] ELSE outside

(* Those of buf_put,                                                         *)
LEMMA PutLabels ==
  /\ LabelOf("put_next", "idle") = "next" /\ LabelOf("put_wait", "idle") = "wait"
  /\ LabelOf("put_test", "idle") = "test" /\ LabelOf("put_set", "idle") = "set"
  /\ LabelOf("put_store", "idle") = "store" /\ LabelOf("put_in", "idle") = "in"
  /\ LabelOf("put_clear", "idle") = "clear"
  BY DEF LabelOf, RingLabel

(* those of buf_get,                                                         *)
LEMMA GetLabels ==
  /\ LabelOf("get_wait", "wait") = "wait" /\ LabelOf("get_test", "wait") = "test"
  /\ LabelOf("get_set", "wait") = "set" /\ LabelOf("get_fetch", "wait") = "fetch"
  /\ LabelOf("get_out", "wait") = "out" /\ LabelOf("get_clear", "wait") = "clear"
  BY DEF LabelOf, RingLabel

(* and those of the rest of the programs.                                    *)
LEMMA OutsideLabels ==
  ASSUME NEW label \in {"start", "loop"} \cup InInit \cup InDestroy \cup Ended, NEW outside
  PROVE  LabelOf(label, outside) = outside /\ label \notin BeforeStore
  <1>1. label \notin InPut \cup InGet
    BY DEF InInit, InStruct, InDestroy, Ended, InPut, BeforeStore, InGet
  <1>2. DOMAIN RingLabel = InPut \cup InGet
    BY DEF RingLabel, InPut, BeforeStore, InGet
  <1>3. QED
    BY <1>1, <1>2 DEF LabelOf, InPut

(* A step the ring does not see.                                             *)
LEMMA RingUnmoved ==
  ASSUME NEW s, NEW r, Pair(s, r),
         TheSegment'.in = TheSegment.in, TheSegment'.out = TheSegment.out,
         TheSegment'.mutex = TheSegment.mutex, TheSegment'.buf = TheSegment.buf,
         position'[s] = position[s], char'[s] = char[s],
         typed'[s] = typed[s], got'[r] = got[r],
         LabelOf(pc'[s], "idle") = LabelOf(pc[s], "idle"),
         pc'[s] \in BeforeStore <=> pc[s] \in BeforeStore,
         LabelOf(pc'[r], "wait") = LabelOf(pc[r], "wait")
  PROVE  UNCHANGED Ring!ringVars
  <1>1. sender = s /\ receiver = r
    BY ThePair
  <1>2. Accepted' = Accepted
    BY <1>1 DEF Accepted
  <1>3. RingPc(sender, "idle")' = RingPc(sender, "idle")
        /\ RingPc(receiver, "wait")' = RingPc(receiver, "wait")
    BY <1>1 DEF RingPc, LabelOf
  <1>4. QED
    BY <1>1, <1>2, <1>3 DEF Ring!ringVars, Ring!putLocals

(* What the ring sees of the programs' places.                               *)
LEMMA RingPlaces ==
  ASSUME NEW s, NEW r, Pair(s, r)
  PROVE  /\ RingPc(sender, "idle") = LabelOf(pc[s], "idle")
         /\ RingPc(receiver, "wait") = LabelOf(pc[r], "wait")
         /\ RingPc(sender, "idle")' = LabelOf(pc'[s], "idle")
         /\ RingPc(receiver, "wait")' = LabelOf(pc'[r], "wait")
         /\ (pc'[s] \in BeforeStore <=> pc[s] \in BeforeStore) /\ typed'[s] = typed[s]
              => Accepted' = Accepted
  BY ThePair DEF RingPc, LabelOf, Accepted

(* A character typed is the ring's next buf_put.                             *)
LEMMA TypeCalls ==
  ASSUME TypeInv, NEW s, NEW r, Pair(s, r), FilledParts(s, r), Type(s)
  PROVE  Ring!PutCall
  <1>1. Keys(s, r) /\ Opening(s, r) /\ Quits(s)
    BY PartsOf
  <1>2. /\ s \in Procs /\ r \in Procs /\ s # r /\ s \in Senders
        /\ typed[s] \in Seq(Chars) /\ Len(typed[s]) \in Nat
    BY PairTypes
  <1>3. pc[s] = "loop" /\ UNCHANGED <<segs, attached, position, got>>
    BY DEF Type, kernel
  <1>4. attached[s] = 1
    BY <1>1, <1>3, NobodyMakes
  <1>5. PICK d \in Chars :
          /\ char' = [char EXCEPT ![s] = d]
          /\ typed' = [typed EXCEPT ![s] = Append(@, d)]
          /\ pc' = [pc EXCEPT ![s] = "put_next"]
    <2>1. is_mem_ok(s)
      BY <1>4 DEF is_mem_ok, None
    <2>2. PICK d \in Chars :
            /\ char' = [char EXCEPT ![s] = d]
            /\ typed' = [typed EXCEPT ![s] = Append(@, d)]
            /\ Goto(s, IF is_mem_ok(s) THEN "put_next" ELSE AfterCall(d))
      BY DEF Type
    <2>3. pc' = [pc EXCEPT ![s] = "put_next"]
      BY <2>1, <2>2 DEF Goto
    <2>4. QED
      BY <2>2, <2>3
  <1>6. /\ typed'[s] = Append(typed[s], d) /\ char'[s] = d
        /\ pc'[s] = "put_next" /\ pc'[r] = pc[r]
    BY <1>2, <1>5 DEF TypeInv, VarTypes
  <1>7. Len(typed'[s]) = Len(typed[s]) + 1
    BY <1>2, <1>6
  <1>8. Len(typed[s]) < MaxTyped
    <2>1. Len(typed[s]) <= MaxTyped /\ MaxTyped \in Nat \ {0}
      BY <1>1, BoundAssumption DEF Quits
    <2>2. Len(typed[s]) # MaxTyped
      <3> SUFFICES ASSUME Len(typed[s]) = MaxTyped PROVE FALSE
        OBVIOUS
      <3>1. typed[s][Len(typed[s])] = Quit
        BY <1>1 DEF Quits
      <3>2. Len(typed[s]) \in 1 .. Len(typed[s])
        BY <1>2, <2>1
      <3>3. pc[s] \in InPut \cup Leaving
        BY <1>1, <3>1, <3>2 DEF Quits
      <3>4. QED
        BY <1>3, <3>3 DEF InPut, BeforeStore, Leaving, InDestroy, Ended
    <2>3. QED
      BY <1>2, <2>1, <2>2
  <1>9. Accepted' = Accepted
    <2>1. SubSeq(typed'[s], 1, Len(typed'[s]) - 1) = typed[s]
      <3>1. SubSeq(Append(typed[s], d), 1, Len(typed[s])) = typed[s]
        BY <1>2
      <3>2. Len(typed'[s]) - 1 = Len(typed[s])
        BY <1>2, <1>7
      <3>3. QED
        BY <1>6, <3>1, <3>2
    <2>2. pc[s] \notin BeforeStore /\ pc'[s] \in BeforeStore
      BY <1>3, <1>6 DEF BeforeStore
    <2>3. Accepted = typed[s]
      BY <2>2, ThePair DEF Accepted
    <2>4. Accepted' = SubSeq(typed'[s], 1, Len(typed'[s]) - 1)
      <3>1. sender = s
        BY ThePair
      <3>2. QED
        BY <2>2, <3>1 DEF Accepted
    <2>5. QED
      BY <2>1, <2>3, <2>4
  <1>10. /\ RingPc(sender, "idle") = "idle" /\ RingPc(sender, "idle")' = "next"
         /\ RingPc(receiver, "wait")' = RingPc(receiver, "wait")
    BY <1>3, <1>6, RingPlaces, PutLabels, OutsideLabels
  <1>11. TheSegment' = TheSegment
    BY <1>3 DEF TheSegment
  <1>12. sender = s /\ receiver = r
    BY ThePair
  <1>13. QED
    BY <1>3, <1>6, <1>7, <1>8, <1>9, <1>10, <1>11, <1>12 DEF Ring!PutCall

(* Where a step of the sender leads, for the ring.                           *)
LEMMA SenderGoes ==
  ASSUME TypeInv, NEW s, NEW r, Pair(s, r), NEW to, pc' = [pc EXCEPT ![s] = to],
         UNCHANGED <<position, char, typed, got>>
  PROVE  /\ RingPc(sender, "idle") = LabelOf(pc[s], "idle")
         /\ RingPc(sender, "idle")' = LabelOf(to, "idle")
         /\ RingPc(receiver, "wait")' = RingPc(receiver, "wait")
         /\ (to \in BeforeStore <=> pc[s] \in BeforeStore) => Accepted' = Accepted
         /\ char[sender]' = char[sender] /\ position[sender]' = position[sender]
         /\ Len(typed[sender])' = Len(typed[sender]) /\ got[receiver]' = got[receiver]
  <1>1. s \in Procs /\ r \in Procs /\ s # r
    BY PairTypes
  <1>2. pc'[s] = to /\ pc'[r] = pc[r]
    BY <1>1 DEF TypeInv, VarTypes
  <1>3. QED
    BY <1>2, RingPlaces, ThePair

(* Line 109.                                                                 *)
LEMMA PutNextRuns ==
  ASSUME TypeInv, NEW s, NEW r, Pair(s, r), FilledParts(s, r), put_next(s)
  PROVE  Ring!PutNext
  <1>1. Keys(s, r)
    BY PartsOf
  <1>2. /\ s \in Procs /\ r \in Procs /\ s # r
    BY PairTypes
  <1>3. /\ pc[s] = "put_next" /\ Seg(s).size # 0
        /\ position' = [position EXCEPT ![s] = (Seg(s).in + 1) % Seg(s).size]
        /\ pc' = [pc EXCEPT ![s] = "put_wait"]
        /\ UNCHANGED <<segs, char, typed, got>>
    BY DEF put_next, Goto, kernel, history
  <1>4. Seg(s) = TheSegment
    BY <1>1, <1>3, WorksOnFirst DEF InPut, BeforeStore
  <1>5. TheSegment.size = Room + 1
    BY <1>3, <1>4, FirstSegment DEF Segment
  <1>6. /\ position'[s] = (TheSegment.in + 1) % (Room + 1)
        /\ pc'[s] = "put_wait" /\ pc'[r] = pc[r]
    BY <1>2, <1>3, <1>4, <1>5 DEF TypeInv, VarTypes
  <1>7. pc[s] \in BeforeStore /\ pc'[s] \in BeforeStore
    BY <1>3, <1>6 DEF BeforeStore
  <1>8. /\ RingPc(sender, "idle") = "next" /\ RingPc(sender, "idle")' = "wait"
        /\ RingPc(receiver, "wait")' = RingPc(receiver, "wait") /\ Accepted' = Accepted
    BY <1>3, <1>6, <1>7, RingPlaces, PutLabels
  <1>9. TheSegment' = TheSegment
    BY <1>3 DEF TheSegment
  <1>10. sender = s /\ receiver = r
    BY ThePair
  <1>11. QED
    BY <1>3, <1>6, <1>8, <1>9, <1>10 DEF Ring!PutNext

(* Lines 111 and 119.                                                        *)
LEMMA PutPollRuns ==
  ASSUME TypeInv, NEW s, NEW r, Pair(s, r), FilledParts(s, r), PutPoll(s)
  PROVE  Ring!PutWait \/ Ring!PutTest
  <1>1. Keys(s, r)
    BY PartsOf
  <1>2. UNCHANGED <<segs, position, char, typed, got>> /\ sender = s /\ receiver = r
    BY ThePair DEF PutPoll, put_wait, put_test, Poll, kernel, locals, history
  <1>3. TheSegment' = TheSegment
    BY <1>2 DEF TheSegment
  <1>4. {"put_wait", "put_test", "put_set"} \subseteq BeforeStore
    BY DEF BeforeStore
  <1>5. CASE put_wait(s)
    <2>1. pc[s] = "put_wait" /\ Seg(s).out # position[s] /\ pc' = [pc EXCEPT ![s] = "put_test"]
      BY <1>5 DEF put_wait, Poll, Goto
    <2>2. Seg(s) = TheSegment
      BY <1>1, <2>1, WorksOnFirst DEF InPut, BeforeStore
    <2>3. /\ RingPc(sender, "idle") = "wait" /\ RingPc(sender, "idle")' = "test"
          /\ RingPc(receiver, "wait")' = RingPc(receiver, "wait") /\ Accepted' = Accepted
      <3>1. "put_test" \in BeforeStore <=> "put_wait" \in BeforeStore
        BY <1>4
      <3>2. /\ RingPc(sender, "idle") = LabelOf("put_wait", "idle")
            /\ RingPc(sender, "idle")' = LabelOf("put_test", "idle")
            /\ RingPc(receiver, "wait")' = RingPc(receiver, "wait") /\ Accepted' = Accepted
        BY <1>2, <2>1, <3>1, SenderGoes
      <3>3. QED
        BY <3>2, PutLabels
    <2>4. QED
      BY <1>2, <1>3, <2>1, <2>2, <2>3 DEF Ring!PutWait, Ring!putLocals
  <1>6. CASE put_test(s)
    <2>1. pc[s] = "put_test" /\ Seg(s).mutex # 1 /\ pc' = [pc EXCEPT ![s] = "put_set"]
      BY <1>6 DEF put_test, Poll, Goto
    <2>2. Seg(s) = TheSegment
      BY <1>1, <2>1, WorksOnFirst DEF InPut, BeforeStore
    <2>3. /\ RingPc(sender, "idle") = "test" /\ RingPc(sender, "idle")' = "set"
          /\ RingPc(receiver, "wait")' = RingPc(receiver, "wait") /\ Accepted' = Accepted
      <3>1. "put_set" \in BeforeStore <=> "put_test" \in BeforeStore
        BY <1>4
      <3>2. /\ RingPc(sender, "idle") = LabelOf("put_test", "idle")
            /\ RingPc(sender, "idle")' = LabelOf("put_set", "idle")
            /\ RingPc(receiver, "wait")' = RingPc(receiver, "wait") /\ Accepted' = Accepted
        BY <1>2, <2>1, <3>1, SenderGoes
      <3>3. QED
        BY <3>2, PutLabels
    <2>4. QED
      BY <1>2, <1>3, <2>1, <2>2, <2>3 DEF Ring!PutTest, Ring!putLocals
  <1>7. QED
    BY <1>5, <1>6 DEF PutPoll

(* Lines 121 to 130.                                                         *)
LEMMA PutWriteRuns ==
  ASSUME TypeInv, NEW s, NEW r, Pair(s, r), FilledParts(s, r), PutWrite(s)
  PROVE  Ring!PutSet \/ Ring!PutStore \/ Ring!PutIn \/ Ring!PutClear
  <1>1. Keys(s, r) /\ Quits(s)
    BY PartsOf
  <1>2. UNCHANGED <<position, char, typed, got>> /\ sender = s /\ receiver = r
    BY ThePair DEF PutWrite, put_set, put_store, put_in, put_clear, Assign, locals, history
  <1>3. TheSegment \in Segment
    BY FirstSegment
  <1>4. /\ "put_set" \in BeforeStore /\ "put_store" \in BeforeStore
        /\ {"put_in", "put_clear", "loop", "shm_rmid"} \cap BeforeStore = {}
    BY DEF BeforeStore
  <1>5. CASE put_set(s)
    <2>1. pc[s] = "put_set" /\ pc' = [pc EXCEPT ![s] = "put_store"]
      BY <1>5 DEF put_set, Assign, Goto
    <2>2. TheSegment' = [TheSegment EXCEPT !.mutex = 1]
      BY <1>1, <1>5, PutWritten
    <2>3. /\ TheSegment'.mutex = 1 /\ TheSegment'.in = TheSegment.in
          /\ TheSegment'.out = TheSegment.out /\ TheSegment'.buf = TheSegment.buf
      BY <1>3, <2>2 DEF Segment
    <2>4. /\ RingPc(sender, "idle") = "set" /\ RingPc(sender, "idle")' = "store"
          /\ RingPc(receiver, "wait")' = RingPc(receiver, "wait") /\ Accepted' = Accepted
      <3>1. "put_store" \in BeforeStore <=> "put_set" \in BeforeStore
        BY <1>4
      <3>2. /\ RingPc(sender, "idle") = LabelOf("put_set", "idle")
            /\ RingPc(sender, "idle")' = LabelOf("put_store", "idle")
            /\ RingPc(receiver, "wait")' = RingPc(receiver, "wait") /\ Accepted' = Accepted
        BY <1>2, <2>1, <3>1, SenderGoes
      <3>3. QED
        BY <3>2, PutLabels
    <2>5. QED
      BY <1>2, <2>3, <2>4 DEF Ring!PutSet, Ring!putLocals
  <1>6. CASE put_store(s)
    <2>1. pc[s] = "put_store" /\ pc' = [pc EXCEPT ![s] = "put_in"]
      BY <1>6 DEF put_store, Assign, Goto
    <2>2. TheSegment' = [TheSegment EXCEPT !.buf =
                           [TheSegment.buf EXCEPT ![TheSegment.in] = char[s]]]
      BY <1>1, <1>6, PutWritten
    <2>3. /\ TheSegment'.mutex = TheSegment.mutex /\ TheSegment'.in = TheSegment.in
          /\ TheSegment'.out = TheSegment.out
          /\ TheSegment'.buf = [TheSegment.buf EXCEPT ![TheSegment.in] = char[s]]
      BY <1>3, <2>2 DEF Segment
    <2>4. /\ RingPc(sender, "idle") = "store" /\ RingPc(sender, "idle")' = "in"
          /\ RingPc(receiver, "wait")' = RingPc(receiver, "wait")
      <3>1. /\ RingPc(sender, "idle") = LabelOf("put_store", "idle")
            /\ RingPc(sender, "idle")' = LabelOf("put_in", "idle")
            /\ RingPc(receiver, "wait")' = RingPc(receiver, "wait")
        BY <1>2, <2>1, SenderGoes
      <3>2. QED
        BY <3>1, PutLabels
    <2>5. Accepted' = Append(Accepted, char[s])
      <3> DEFINE q == typed[s]
      <3>1. q \in Seq(Chars) /\ Len(q) \in Nat
        BY PairTypes
      <3>2. Len(q) > 0 /\ char[s] = q[Len(q)]
        BY <1>1, <2>1 DEF Quits, InPut, BeforeStore
      <3>3. Accepted = SubSeq(q, 1, Len(q) - 1)
        BY <1>2, <1>4, <2>1 DEF Accepted
      <3>4. pc'[s] = "put_in"
        BY <2>1, PairTypes DEF TypeInv, VarTypes
      <3>5. Accepted' = q
        BY <1>2, <1>4, <3>4 DEF Accepted
      <3> HIDE DEF q
      <3>6. q = Append(SubSeq(q, 1, Len(q) - 1), q[Len(q)])
        BY <3>1, <3>2
      <3>7. QED
        BY <3>2, <3>3, <3>5, <3>6
    <2>6. QED
      BY <1>2, <2>3, <2>4, <2>5 DEF Ring!PutStore, Ring!putLocals
  <1>7. CASE put_in(s)
    <2>1. pc[s] = "put_in" /\ pc' = [pc EXCEPT ![s] = "put_clear"]
      BY <1>7 DEF put_in, Assign, Goto
    <2>2. TheSegment' = [TheSegment EXCEPT !.in = position[s]]
      BY <1>1, <1>7, PutWritten
    <2>3. /\ TheSegment'.mutex = TheSegment.mutex /\ TheSegment'.in = position[s]
          /\ TheSegment'.out = TheSegment.out /\ TheSegment'.buf = TheSegment.buf
      BY <1>3, <2>2 DEF Segment
    <2>4. /\ RingPc(sender, "idle") = "in" /\ RingPc(sender, "idle")' = "clear"
          /\ RingPc(receiver, "wait")' = RingPc(receiver, "wait") /\ Accepted' = Accepted
      <3>1. "put_clear" \in BeforeStore <=> "put_in" \in BeforeStore
        BY <1>4
      <3>2. /\ RingPc(sender, "idle") = LabelOf("put_in", "idle")
            /\ RingPc(sender, "idle")' = LabelOf("put_clear", "idle")
            /\ RingPc(receiver, "wait")' = RingPc(receiver, "wait") /\ Accepted' = Accepted
        BY <1>2, <2>1, <3>1, SenderGoes
      <3>3. QED
        BY <3>2, PutLabels
    <2>5. QED
      BY <1>2, <2>3, <2>4 DEF Ring!PutIn, Ring!putLocals
  <1>8. CASE put_clear(s)
    <2>1. pc[s] = "put_clear"
      BY <1>8 DEF put_clear
    <2>2. PICK to \in {"loop", "shm_rmid"} : pc' = [pc EXCEPT ![s] = to]
      BY <1>8 DEF put_clear, Assign, Goto, AfterCall
    <2>3. TheSegment' = [TheSegment EXCEPT !.mutex = 0]
      BY <1>1, <1>8, PutWritten
    <2>4. /\ TheSegment'.mutex = 0 /\ TheSegment'.in = TheSegment.in
          /\ TheSegment'.out = TheSegment.out /\ TheSegment'.buf = TheSegment.buf
      BY <1>3, <2>3 DEF Segment
    <2>5. LabelOf(to, "idle") = "idle"
      BY OutsideLabels DEF InDestroy
    <2>6. /\ RingPc(sender, "idle") = "clear" /\ RingPc(sender, "idle")' = "idle"
          /\ RingPc(receiver, "wait")' = RingPc(receiver, "wait") /\ Accepted' = Accepted
      <3>1. /\ RingPc(sender, "idle") = LabelOf("put_clear", "idle")
            /\ RingPc(sender, "idle")' = LabelOf(to, "idle")
            /\ RingPc(receiver, "wait")' = RingPc(receiver, "wait")
            /\ (to \in BeforeStore <=> "put_clear" \in BeforeStore) => Accepted' = Accepted
        BY <1>2, <2>1, <2>2, SenderGoes
      <3>2. to \notin BeforeStore /\ "put_clear" \notin BeforeStore
        BY <1>4
      <3>3. QED
        BY <2>5, <3>1, <3>2, PutLabels
    <2>7. QED
      BY <1>2, <2>4, <2>6 DEF Ring!PutClear, Ring!putLocals
  <1>9. QED
    BY <1>5, <1>6, <1>7, <1>8 DEF PutWrite

(* Where a step of the receiver leads, for the ring.                         *)
LEMMA ReceiverGoes ==
  ASSUME TypeInv, NEW s, NEW r, Pair(s, r), NEW to, pc' = [pc EXCEPT ![r] = to],
         UNCHANGED position, UNCHANGED typed, char'[s] = char[s]
  PROVE  /\ RingPc(receiver, "wait") = LabelOf(pc[r], "wait")
         /\ RingPc(receiver, "wait")' = LabelOf(to, "wait")
         /\ RingPc(sender, "idle")' = RingPc(sender, "idle")
         /\ Accepted' = Accepted
         /\ char[sender]' = char[sender] /\ position[sender]' = position[sender]
         /\ Len(typed[sender])' = Len(typed[sender])
  <1>1. s \in Procs /\ r \in Procs /\ s # r
    BY PairTypes
  <1>2. pc'[r] = to /\ pc'[s] = pc[s]
    BY <1>1 DEF TypeInv, VarTypes
  <1>3. QED
    BY <1>2, RingPlaces, ThePair

(* Lines 149 and 157.                                                        *)
LEMMA GetPollRuns ==
  ASSUME TypeInv, NEW s, NEW r, Pair(s, r), FilledParts(s, r), OrderlyParts(s, r), GetPoll(r)
  PROVE  Ring!GetWait \/ Ring!GetTest
  <1>1. Keys(s, r)
    BY PartsOf
  <1>2. UNCHANGED <<segs, position, char, typed, got>> /\ char'[s] = char[s]
        /\ sender = s /\ receiver = r
    <2>1. UNCHANGED <<segs, position, char, typed, got>>
      BY DEF GetPoll, get_wait, get_test, Poll, kernel, locals, history
    <2>2. QED
      BY <2>1, ThePair
  <1>3. UNCHANGED position /\ UNCHANGED typed /\ char'[s] = char[s]
    BY <1>2
  <1>4. TheSegment' = TheSegment
    BY <1>2 DEF TheSegment
  <1>5. Seg(r) = TheSegment
    <2>1. pc[r] \in Mapped /\ pc[r] # "start"
      BY DEF GetPoll, get_wait, get_test, Mapped, InGet
    <2>2. r \in Procs /\ Len(segs) \in Nat
      BY PairTypes, FirstSegment
    <2>3. Len(segs) = 1
      <3>1. Len(segs) # 0
        BY <1>1, <2>1, <2>2 DEF Keys
      <3>2. Len(segs) <= 1
        BY DEF OrderlyParts
      <3> DEFINE l == Len(segs)
      <3>3. l \in Nat /\ l # 0 /\ l <= 1
        BY <2>2, <3>1, <3>2
      <3> HIDE DEF l
      <3>4. l = 1
        BY <3>3
      <3>5. QED
        BY <3>4 DEF l
    <2>4. QED
      BY <1>1, <2>1, <2>3, WorksOnFirst
  <1>6. CASE get_wait(r)
    <2>1. pc[r] = "get_wait" /\ Seg(r).in - Seg(r).out # 0 /\ pc' = [pc EXCEPT ![r] = "get_test"]
      BY <1>6 DEF get_wait, Poll, Goto
    <2>2. /\ RingPc(receiver, "wait") = "wait" /\ RingPc(receiver, "wait")' = "test"
          /\ RingPc(sender, "idle")' = RingPc(sender, "idle") /\ Accepted' = Accepted
      <3>1. /\ RingPc(receiver, "wait") = LabelOf("get_wait", "wait")
            /\ RingPc(receiver, "wait")' = LabelOf("get_test", "wait")
            /\ RingPc(sender, "idle")' = RingPc(sender, "idle") /\ Accepted' = Accepted
        BY <1>3, <2>1, ReceiverGoes
      <3>2. QED
        BY <3>1, GetLabels
    <2>3. QED
      BY <1>2, <1>4, <1>5, <2>1, <2>2 DEF Ring!GetWait, Ring!putLocals
  <1>7. CASE get_test(r)
    <2>1. pc[r] = "get_test" /\ Seg(r).mutex # 1 /\ pc' = [pc EXCEPT ![r] = "get_set"]
      BY <1>7 DEF get_test, Poll, Goto
    <2>2. /\ RingPc(receiver, "wait") = "test" /\ RingPc(receiver, "wait")' = "set"
          /\ RingPc(sender, "idle")' = RingPc(sender, "idle") /\ Accepted' = Accepted
      <3>1. /\ RingPc(receiver, "wait") = LabelOf("get_test", "wait")
            /\ RingPc(receiver, "wait")' = LabelOf("get_set", "wait")
            /\ RingPc(sender, "idle")' = RingPc(sender, "idle") /\ Accepted' = Accepted
        BY <1>3, <2>1, ReceiverGoes
      <3>2. QED
        BY <3>1, GetLabels
    <2>3. QED
      BY <1>2, <1>4, <1>5, <2>1, <2>2 DEF Ring!GetTest, Ring!putLocals
  <1>8. QED
    BY <1>6, <1>7 DEF GetPoll

(* Line 164.                                                                 *)
LEMMA GetFetchRuns ==
  ASSUME TypeInv, NEW s, NEW r, Pair(s, r), FilledParts(s, r), get_fetch(r)
  PROVE  Ring!GetFetch
  <1>1. Keys(s, r)
    BY PartsOf
  <1>2. /\ s \in Procs /\ r \in Procs /\ s # r /\ r \in Receivers
    BY PairTypes
  <1>3. /\ pc[r] = "get_fetch" /\ pc' = [pc EXCEPT ![r] = "get_out"]
        /\ char' = [char EXCEPT ![r] = Seg(r).buf[Seg(r).out]]
        /\ got' = [got EXCEPT ![r] = Append(@, char'[r])]
        /\ UNCHANGED <<segs, position, typed>>
    BY DEF get_fetch, Goto, kernel
  <1>4. Seg(r) = TheSegment
    BY <1>1, <1>3, WorksOnFirst DEF InGet
  <1>5. char'[s] = char[s] /\ got'[r] = Append(got[r], TheSegment.buf[TheSegment.out])
    BY <1>2, <1>3, <1>4 DEF TypeInv, VarTypes
  <1>6. /\ RingPc(receiver, "wait") = "fetch" /\ RingPc(receiver, "wait")' = "out"
        /\ RingPc(sender, "idle")' = RingPc(sender, "idle") /\ Accepted' = Accepted
    <2>1. /\ pc[r] = "get_fetch" /\ pc' = [pc EXCEPT ![r] = "get_out"]
          /\ char'[s] = char[s] /\ UNCHANGED position /\ UNCHANGED typed
      BY <1>3, <1>5
    <2>2. /\ RingPc(receiver, "wait") = LabelOf("get_fetch", "wait")
          /\ RingPc(receiver, "wait")' = LabelOf("get_out", "wait")
          /\ RingPc(sender, "idle")' = RingPc(sender, "idle") /\ Accepted' = Accepted
      BY <2>1, ReceiverGoes
    <2>3. QED
      BY <2>2, GetLabels
  <1>7. TheSegment' = TheSegment
    BY <1>3 DEF TheSegment
  <1>8. sender = s /\ receiver = r
    BY ThePair
  <1>9. QED
    BY <1>3, <1>5, <1>6, <1>7, <1>8 DEF Ring!GetFetch, Ring!putLocals

(* Lines 159, 166 and 169.                                                   *)
LEMMA GetWriteRuns ==
  ASSUME TypeInv, NEW s, NEW r, Pair(s, r), FilledParts(s, r), GetWrite(r)
  PROVE  Ring!GetSet \/ Ring!GetOut \/ Ring!GetClear
  <1>1. Keys(s, r)
    BY PartsOf
  <1>2. UNCHANGED <<position, char, typed, got>> /\ char'[s] = char[s]
        /\ sender = s /\ receiver = r
    <2>1. UNCHANGED <<position, char, typed, got>>
      BY DEF GetWrite, get_set, get_out, get_clear, Assign, locals, history
    <2>2. QED
      BY <2>1, ThePair
  <1>3. UNCHANGED position /\ UNCHANGED typed /\ char'[s] = char[s]
    BY <1>2
  <1>4. TheSegment \in Segment
    BY FirstSegment
  <1>5. CASE get_set(r)
    <2>1. pc[r] = "get_set" /\ pc' = [pc EXCEPT ![r] = "get_fetch"]
      BY <1>5 DEF get_set, Assign, Goto
    <2>2. TheSegment' = [TheSegment EXCEPT !.mutex = 1]
      BY <1>1, <1>5, GetWritten
    <2>3. /\ TheSegment'.mutex = 1 /\ TheSegment'.in = TheSegment.in
          /\ TheSegment'.out = TheSegment.out /\ TheSegment'.buf = TheSegment.buf
      BY <1>4, <2>2 DEF Segment
    <2>4. /\ RingPc(receiver, "wait") = "set" /\ RingPc(receiver, "wait")' = "fetch"
          /\ RingPc(sender, "idle")' = RingPc(sender, "idle") /\ Accepted' = Accepted
      <3>1. /\ RingPc(receiver, "wait") = LabelOf("get_set", "wait")
            /\ RingPc(receiver, "wait")' = LabelOf("get_fetch", "wait")
            /\ RingPc(sender, "idle")' = RingPc(sender, "idle") /\ Accepted' = Accepted
        BY <1>3, <2>1, ReceiverGoes
      <3>2. QED
        BY <3>1, GetLabels
    <2>5. QED
      BY <1>2, <2>3, <2>4 DEF Ring!GetSet, Ring!putLocals
  <1>6. CASE get_out(r)
    <2>1. pc[r] = "get_out" /\ pc' = [pc EXCEPT ![r] = "get_clear"]
      BY <1>6 DEF get_out, Assign, Goto
    <2>2. /\ TheSegment.size = Room + 1
          /\ TheSegment' = [TheSegment EXCEPT !.out = (TheSegment.out + 1) % TheSegment.size]
      BY <1>1, <1>6, GetWritten
    <2>3. /\ TheSegment'.mutex = TheSegment.mutex /\ TheSegment'.in = TheSegment.in
          /\ TheSegment'.out = (TheSegment.out + 1) % (Room + 1)
          /\ TheSegment'.buf = TheSegment.buf
      BY <1>4, <2>2 DEF Segment
    <2>4. /\ RingPc(receiver, "wait") = "out" /\ RingPc(receiver, "wait")' = "clear"
          /\ RingPc(sender, "idle")' = RingPc(sender, "idle") /\ Accepted' = Accepted
      <3>1. /\ RingPc(receiver, "wait") = LabelOf("get_out", "wait")
            /\ RingPc(receiver, "wait")' = LabelOf("get_clear", "wait")
            /\ RingPc(sender, "idle")' = RingPc(sender, "idle") /\ Accepted' = Accepted
        BY <1>3, <2>1, ReceiverGoes
      <3>2. QED
        BY <3>1, GetLabels
    <2>5. QED
      BY <1>2, <2>3, <2>4 DEF Ring!GetOut, Ring!putLocals
  <1>7. CASE get_clear(r)
    <2>1. pc[r] = "get_clear"
      BY <1>7 DEF get_clear
    <2>2. PICK to \in {"loop", "shm_rmid"} : pc' = [pc EXCEPT ![r] = to]
      BY <1>7 DEF get_clear, Assign, Goto, AfterCall
    <2>3. TheSegment' = [TheSegment EXCEPT !.mutex = 0]
      BY <1>1, <1>7, GetWritten
    <2>4. /\ TheSegment'.mutex = 0 /\ TheSegment'.in = TheSegment.in
          /\ TheSegment'.out = TheSegment.out /\ TheSegment'.buf = TheSegment.buf
      BY <1>4, <2>3 DEF Segment
    <2>5. LabelOf(to, "wait") = "wait"
      BY OutsideLabels DEF InDestroy
    <2>6. /\ RingPc(receiver, "wait") = "clear" /\ RingPc(receiver, "wait")' = "wait"
          /\ RingPc(sender, "idle")' = RingPc(sender, "idle") /\ Accepted' = Accepted
      <3>1. /\ RingPc(receiver, "wait") = LabelOf("get_clear", "wait")
            /\ RingPc(receiver, "wait")' = LabelOf(to, "wait")
            /\ RingPc(sender, "idle")' = RingPc(sender, "idle") /\ Accepted' = Accepted
        BY <1>3, <2>1, <2>2, ReceiverGoes
      <3>2. QED
        BY <2>5, <3>1, GetLabels
    <2>7. QED
      BY <1>2, <2>4, <2>6 DEF Ring!GetClear, Ring!putLocals
  <1>8. QED
    BY <1>5, <1>6, <1>7 DEF GetWrite

(* buf_init, the loop of the receiver and buf_destroy leave the ring alone.  *)
LEMMA RingLeftAlone ==
  ASSUME TypeInv, NEW s, NEW r, Pair(s, r), FilledParts(s, r), FilledParts(s, r)',
         OrderlyParts(s, r), OrderlyParts(s, r)', NEW p \in Procs,
         BufInit(p) \/ BufDestroy(p) \/ Exit(p) \/ (p = r /\ CallGet(p))
  PROVE  UNCHANGED Ring!ringVars
  <1>1. s \in Procs /\ r \in Procs /\ s # r
    BY PairTypes
  <1>2. UNCHANGED <<position, typed, got>> /\ char'[s] = char[s]
    <2>1. UNCHANGED <<position, typed, got, char>>
      BY DEF BufInit, ShmCreate, ShmExisting, Attach, InitStruct, BufDestroy, ShmRmid, Detach,
             Exit, End, CallGet, locals, history
    <2>2. QED
      BY <2>1
  <1>3. PICK to \in {"loop"} \cup InInit \cup InDestroy \cup Ended \cup {"get_wait"} :
          /\ pc' = [pc EXCEPT ![p] = to]
          /\ to = "get_wait" => p = r
    <2>1. CASE BufInit(p) \/ BufDestroy(p) \/ Exit(p)
      BY <2>1 DEF BufInit, ShmCreate, ShmExisting, Attach, InitStruct, BufDestroy, ShmRmid, Detach,
                  Exit, End, Goto, InInit, InStruct, InDestroy, Ended
    <2>2. CASE p = r /\ CallGet(p)
      BY <2>2, AfterLabel DEF CallGet, Goto, InDestroy
    <2>3. QED
      BY <2>1, <2>2
  <1>4. pc[p] \in {"start", "loop"} \cup InInit \cup InDestroy
    BY DEF BufInit, ShmCreate, ShmExisting, Attach, InitStruct, BufDestroy, ShmRmid, Detach,
           Exit, CallGet, InInit, InStruct, InDestroy
  <1>5. pc'[p] = to /\ \A q \in Procs \ {p} : pc'[q] = pc[q]
    BY <1>3 DEF TypeInv, VarTypes
  <1>6. /\ LabelOf(to, "wait") = "wait" /\ LabelOf(pc[p], "wait") = "wait"
        /\ LabelOf(pc[p], "idle") = "idle" /\ pc[p] \notin BeforeStore
        /\ to # "get_wait" => LabelOf(to, "idle") = "idle" /\ to \notin BeforeStore
    <2>1. LabelOf(pc[p], "wait") = "wait" /\ LabelOf(pc[p], "idle") = "idle"
      BY <1>4, OutsideLabels
    <2>2. pc[p] \notin BeforeStore
      BY <1>4 DEF BeforeStore, InInit, InStruct, InDestroy
    <2>3. CASE to = "get_wait"
      BY <2>1, <2>2, <2>3, GetLabels
    <2>4. CASE to # "get_wait"
      <3>1. to \in {"loop"} \cup InInit \cup InDestroy \cup Ended
        BY <2>4
      <3>2. LabelOf(to, "wait") = "wait" /\ LabelOf(to, "idle") = "idle"
        BY <3>1, OutsideLabels
      <3>3. to \notin BeforeStore
        BY <3>1 DEF BeforeStore, InInit, InStruct, InDestroy, Ended
      <3>4. QED
        BY <2>1, <2>2, <3>2, <3>3
    <2>5. QED
      BY <2>3, <2>4
  <1>7. /\ LabelOf(pc'[s], "idle") = LabelOf(pc[s], "idle")
        /\ pc'[s] \in BeforeStore <=> pc[s] \in BeforeStore
        /\ LabelOf(pc'[r], "wait") = LabelOf(pc[r], "wait")
    BY <1>1, <1>3, <1>5, <1>6
  <1>8. /\ TheSegment'.in = TheSegment.in /\ TheSegment'.out = TheSegment.out
        /\ TheSegment'.mutex = TheSegment.mutex /\ TheSegment'.buf = TheSegment.buf
    <2>1. CASE InitStruct(p)
      BY <2>1, StructWritten
    <2>2. CASE ShmRmid(p)
      BY <2>2, RemovedWritten
    <2>3. CASE ShmCreate(p) /\ segKey = None
      <3>1. segs' = Append(segs, ZeroedSegment)
        BY <2>3 DEF ShmCreate
      <3>2. segs \in Seq(Segment) /\ Len(segs) \in Nat
        BY FirstSegment
      <3>3. Len(segs') = Len(segs) + 1 /\ segs'[Len(segs) + 1] = ZeroedSegment
        BY <3>1, <3>2
      <3>4. Len(segs') <= 1
        BY DEF OrderlyParts
      <3>5. Len(segs) = 0
        BY <3>2, <3>3, <3>4
      <3>6. segs' # <<>> /\ segs'[1] = ZeroedSegment
        BY <3>1, <3>3, <3>5
      <3>7. TheSegment' = ZeroedSegment
        BY <3>6 DEF TheSegment
      <3>8. QED
        BY <3>5, <3>7, FirstSegment
    <2>4. CASE UNCHANGED segs
      BY <2>4 DEF TheSegment
    <2>5. QED
      BY <2>1, <2>2, <2>3, <2>4
         DEF BufInit, ShmCreate, ShmExisting, Attach, BufDestroy, Detach, Exit, End, CallGet, kernel
  <1>9. typed'[s] = typed[s] /\ got'[r] = got[r] /\ position'[s] = position[s]
    BY <1>2
  <1>10. QED
    BY <1>2, <1>7, <1>8, <1>9, RingUnmoved

--------------------------------------------------------------------------------
(* A session begins with an empty ring.                                      *)
LEMMA RingStart ==
  ASSUME Init, NEW s, NEW r, Pair(s, r)
  PROVE  Ring!RingInit
  <1>1. TypeInv /\ sender = s /\ receiver = r
    BY SessionTypesInit, ThePair
  <1>2. /\ s \in Procs /\ r \in Procs /\ s \in Senders /\ r \in Receivers /\ Room \in Nat
    BY <1>1, PairTypes
  <1>3. /\ pc[s] = "start" /\ pc[r] = "start" /\ typed[s] = <<>> /\ got[r] = <<>>
        /\ position[s] = 0 /\ char[s] = Nul /\ segs = <<>>
    BY <1>2 DEF Init
  <1>4. TheSegment = ZeroedSegment
    BY <1>3 DEF TheSegment
  <1>5. RingPc(sender, "idle") = "idle" /\ RingPc(receiver, "wait") = "wait"
        /\ "start" \notin BeforeStore
    BY <1>1, <1>3, OutsideLabels DEF RingPc, LabelOf
  <1>6. Accepted = <<>>
    BY <1>1, <1>3, <1>5 DEF Accepted
  <1>7. 0 .. (Room + 1) - 1 = 0 .. Room
    BY <1>2
  <1>8. /\ TheSegment.in = 0 /\ TheSegment.out = 0 /\ TheSegment.mutex = 0
        /\ TheSegment.buf = [i \in 0 .. (Room + 1) - 1 |-> Nul]
    BY <1>4, <1>7 DEF ZeroedSegment
  <1>9. QED
    BY <1>1, <1>3, <1>5, <1>6, <1>8 DEF Ring!RingInit

(* Every step of an orderly session is one of the ring's, or none.           *)
LEMMA RingStep ==
  ASSUME NEW s, NEW r, Pair(s, r), PairInv(s, r), PairInv(s, r)', [Next]_vars, Orderly'
  PROVE  [Ring!RingNext]_(Ring!ringVars)
  <1>1. TypeInv
    BY DEF PairInv
  <1>2. Orderly /\ Filled /\ Filled' /\ \A p \in Procs : ~ Crash(p)
    BY <1>1, OrderlyBefore
  <1>3. FilledParts(s, r) /\ FilledParts(s, r)' /\ OrderlyParts(s, r) /\ OrderlyParts(s, r)'
    BY <1>2 DEF PairInv, FilledInv, OrderlyInv
  <1>4. Senders = {s} /\ Receivers = {r}
    BY DEF Pair
  <1>5. CASE UNCHANGED vars
    <2>1. UNCHANGED <<segs, pc, position, char, typed, got>>
      BY <1>5 DEF vars
    <2>2. TheSegment' = TheSegment
      BY <2>1 DEF TheSegment
    <2>3. UNCHANGED Ring!ringVars
      BY <2>1, <2>2, RingUnmoved
    <2>4. QED
      BY <2>3
  <1>6. ASSUME NEW p \in Procs, Run(p) PROVE Ring!RingNext \/ UNCHANGED Ring!ringVars
    <2>1. CASE BufInit(p) \/ BufDestroy(p) \/ Exit(p)
      BY <1>1, <1>3, <2>1, RingLeftAlone
    <2>2. CASE Fault(p)
      BY <1>1, <1>3, <2>2, NoFault
    <2>3. CASE p \in Senders /\ Send(p)
      <3>1. p = s
        BY <1>4, <2>3
      <3>2. Ring!PutCall \/ Ring!PutStep
        <4>1. Type(s) \/ put_next(s) \/ PutPoll(s) \/ PutWrite(s)
          BY <2>3, <3>1 DEF Send, PutPoll, PutWrite
        <4>2. QED
          BY <1>1, <1>3, <4>1, TypeCalls, PutNextRuns, PutPollRuns, PutWriteRuns DEF Ring!PutStep
      <3>3. QED
        BY <3>2 DEF Ring!RingNext
    <2>4. CASE p \in Receivers /\ Receive(p)
      <3>1. p = r
        BY <1>4, <2>4
      <3>2. CASE CallGet(p)
        BY <1>1, <1>3, <3>1, <3>2, RingLeftAlone
      <3>3. CASE ~ CallGet(p)
        <4>1. GetPoll(r) \/ get_fetch(r) \/ GetWrite(r)
          BY <2>4, <3>1, <3>3 DEF Receive, GetPoll, GetWrite
        <4>2. Ring!GetStep
          BY <1>1, <1>3, <4>1, GetPollRuns, GetFetchRuns, GetWriteRuns DEF Ring!GetStep
        <4>3. QED
          BY <4>2 DEF Ring!RingNext
      <3>4. QED
        BY <3>2, <3>3
    <2>5. QED
      BY <1>6, <2>1, <2>2, <2>3, <2>4 DEF Run
  <1>7. QED
    BY <1>2, <1>5, <1>6 DEF Next

(* RunsTheRing: the detailed session implements ActiveRing.  As long as the  *)
(* session is orderly, buf_init, buf_put, buf_get and buf_destroy, over a    *)
(* segment that is found by its key, do to the struct what one put and one   *)
(* get process of ActiveRing do, with one slot more than was asked for.      *)
THEOREM SessionRunsTheRing ==
  ASSUME NEW s, NEW r, Pair(s, r)
  PROVE  Spec => RunsTheRing
  <1>1. Init => PairInv(s, r)
    BY PairInvInit
  <1>2. PairInv(s, r) /\ [Next]_vars => PairInv(s, r)'
    BY PairInvStep
  <1>3. Init => Ring!RingInit
    BY RingStart
  <1>4. PairInv(s, r) /\ PairInv(s, r)' /\ [Next]_vars
          => [Orderly' => [Ring!RingNext]_(Ring!ringVars)]_vars
    BY RingStep
  <1>5. QED
    BY <1>1, <1>2, <1>3, <1>4, PTL DEF Spec, RunsTheRing
--------------------------------------------------------------------------------
(* Who divides by a size that was not written.                               *)

(* Labels that are reached only once the size of the segment is written. *)
Opened == {"set_out", "set_in", "set_mutex",
           "put_wait", "put_test", "put_set", "put_store", "put_in", "put_clear",
           "get_test", "get_set", "get_fetch", "get_out", "get_clear"}

(* The struct is empty until its size is written, and every segment has a    *)
(* program that made it.                                                     *)
MadeBySomeone ==
  \A g \in 1 .. Len(segs) :
    /\ segs[g].size = 0 => segs[g].in = 0 /\ segs[g].out = 0
    /\ \E q \in Procs : fresh[q] /\ shmid[q] = g

(* Who is over with making a segment has written its size or found it gone.  *)
MadeOrLost ==
  \A p \in Procs : fresh[p] =>
    /\ shmid[p] # None
    /\ pc[p] \notin InInit \cup {"killed"} /\ segs[shmid[p]].size = 0 => ~ Exists(shmid[p])

(* No two programs made the same segment. *)
OneMaker ==
  \A p, q \in Procs : fresh[p] /\ fresh[q] /\ shmid[p] = shmid[q] => p = q

(* This program is about to divide by zero, or has done so. *)
Doomed(p) ==
  pc[p] = "faulted"
    \/ (attached[p] # None /\ pc[p] # "set_size" /\ Seg(p).size = 0)

(* The inductive invariant of a session with one sender.                     *)
HalfMadeInv(s) ==
  /\ MadeBySomeone /\ MadeOrLost /\ OneMaker
  /\ \A p \in Procs : pc[p] \in Opened => Seg(p).size # 0
  /\ \A p \in Receivers : pc[p] # "faulted"
  /\ Filled /\ Doomed(s) => LeftHalfMade(shmid[s])

(* How a step of a program may change a segment: a size that was written     *)
(* stays, and so does a mark for removal; who writes it has made the segment.*)
Advanced(p, g) ==
  /\ segs'[g].size = 0 => /\ segs[g].size = 0
                          /\ segs'[g].in = segs[g].in /\ segs'[g].out = segs[g].out
  /\ segs[g].removed => segs'[g].removed
  /\ segs[g].size = 0 /\ segs'[g].size # 0 => fresh[p] /\ shmid[p] = g

(* A segment that is gone stays gone.                                        *)
LEMMA GoneStays ==
  ASSUME NEW p \in Procs, NEW g \in 1 .. Len(segs), Advanced(p, g), ~ Exists(g),
         \A q \in Procs \ {p} : attached'[q] = attached[q],
         attached'[p] = None \/ Exists(attached'[p])
  PROVE  ~ Exists(g)'
  <1>1. segs[g].removed /\ \A q \in Procs : attached[q] # g
    BY DEF Exists
  <1>2. attached'[p] # g
    BY DEF None
  <1>3. QED
    BY <1>1, <1>2 DEF Exists, Advanced

(* What a receiver that was killed left behind stays, unless it is the one   *)
(* that takes the step: nobody else writes its size.                         *)
LEMMA LeftStays ==
  ASSUME TypeInv, OneMaker, NEW p \in Procs, NEW to, pc' = [pc EXCEPT ![p] = to],
         pc[p] \notin Ended,
         UNCHANGED fresh, \A q \in Procs \ {p} : shmid'[q] = shmid[q],
         NEW g, Advanced(p, g), LeftHalfMade(g)
  PROVE  LeftHalfMade(g)'
  <1>1. PICK q \in Receivers : shmid[q] = g /\ fresh[q] /\ pc[q] = "killed"
    BY DEF LeftHalfMade
  <1>2. q \in Procs /\ q # p
    BY <1>1 DEF Procs, Ended
  <1>3. shmid'[q] = g /\ fresh'[q] /\ pc'[q] = "killed"
    BY <1>1, <1>2 DEF TypeInv, VarTypes
  <1>4. ~ (fresh[p] /\ shmid[p] = g)
    BY <1>1, <1>2 DEF OneMaker
  <1>5. segs'[g].size = 0
    BY <1>4 DEF Advanced, LeftHalfMade
  <1>6. QED
    BY <1>1, <1>3, <1>5 DEF LeftHalfMade

(* What is to be shown of a step that makes no segment.                      *)
LEMMA HalfMadeKept ==
  ASSUME TypeInv, TypeInv', NEW s, Senders = {s}, HalfMadeInv(s), NEW p \in Procs, NEW to,
         pc' = [pc EXCEPT ![p] = to], pc[p] \notin Ended,
         Len(segs') = Len(segs), \A g \in 1 .. Len(segs) : Advanced(p, g),
         UNCHANGED fresh, breaches \subseteq breaches',
         \A q \in Procs \ {p} : attached'[q] = attached[q] /\ shmid'[q] = shmid[q],
         shmid'[p] = shmid[p] \/ (~ fresh[p] /\ attached'[p] = None /\ to # "faulted"),
         attached'[p] = None \/ Exists(attached'[p]),
         to \in Opened => Seg(p)'.size # 0,
         to = "faulted" => p \notin Receivers,
         (fresh[p] /\ pc[p] \in InInit /\ to \notin InInit \cup {"killed"}
            /\ segs'[shmid[p]].size = 0) => ~ Exists(shmid[p])',
         p = s /\ Filled' /\ Doomed(s)' => LeftHalfMade(shmid[s])
  PROVE  HalfMadeInv(s)'
  <1>1. pc'[p] = to /\ \A q \in Procs \ {p} : pc'[q] = pc[q]
    BY DEF TypeInv, VarTypes
  <1>2. \A q \in Procs : shmid[q] \in 0 .. Len(segs) /\ attached[q] \in 0 .. Len(segs)
    BY DEF TypeInv, SegTypes
  <1>3. \A q \in Procs : fresh[q] => shmid'[q] = shmid[q]
    OBVIOUS
  <1>4. MadeBySomeone'
    <2>1. SUFFICES ASSUME NEW g \in 1 .. Len(segs)
                   PROVE  /\ segs'[g].size = 0 => segs'[g].in = 0 /\ segs'[g].out = 0
                          /\ \E q \in Procs : fresh'[q] /\ shmid'[q] = g
      BY DEF MadeBySomeone
    <2>2. /\ segs[g].size = 0 => segs[g].in = 0 /\ segs[g].out = 0
          /\ \E q \in Procs : fresh[q] /\ shmid[q] = g
      BY DEF HalfMadeInv, MadeBySomeone
    <2>3. QED
      BY <1>3, <2>2 DEF Advanced
  <1>5. MadeOrLost'
    <2>1. SUFFICES ASSUME NEW q \in Procs, fresh[q]
                   PROVE  /\ shmid[q] # None
                          /\ (pc'[q] \notin InInit \cup {"killed"}
                                /\ segs'[shmid[q]].size = 0) => ~ Exists(shmid[q])'
      BY <1>3 DEF MadeOrLost, Exists
    <2>2. shmid[q] # None /\ shmid[q] \in 1 .. Len(segs)
      BY <1>2, <2>1 DEF HalfMadeInv, MadeOrLost, None
    <2>3. CASE ~ Exists(shmid[q])
      <3>1. PICK g \in 1 .. Len(segs) : g = shmid[q]
        BY <2>2
      <3>2. ~ Exists(g)
        BY <2>3, <3>1
      <3>3. ~ Exists(g)'
        BY <3>2, GoneStays
      <3>4. shmid'[q] = g
        BY <1>3, <2>1, <3>1
      <3>5. QED
        BY <2>2, <3>3, <3>4 DEF Exists
    <2>4. CASE Exists(shmid[q])
      <3>1. SUFFICES ASSUME pc'[q] \notin InInit \cup {"killed"}, segs'[shmid[q]].size = 0
                     PROVE  ~ Exists(shmid[q])'
        BY <2>2
      <3>2. segs[shmid[q]].size = 0
        BY <2>2, <3>1 DEF Advanced
      <3>3. pc[q] \in InInit \cup {"killed"}
        BY <2>1, <2>4, <3>2 DEF HalfMadeInv, MadeOrLost
      <3>4. p = q /\ pc[p] \in InInit
        BY <1>1, <3>1, <3>3 DEF Ended
      <3>5. QED
        BY <1>1, <2>1, <3>1, <3>4
    <2>5. QED
      BY <2>3, <2>4
  <1>6. ASSUME NEW q \in Procs, pc'[q] \in Opened PROVE Seg(q)'.size # 0
    <2>1. CASE q = p
      BY <1>1, <1>6, <2>1
    <2>2. CASE q # p
      <3>1. pc[q] \in Opened /\ attached'[q] = attached[q] /\ Seg(q).size # 0
        BY <1>1, <1>6, <2>2 DEF HalfMadeInv
      <3>2. attached[q] # None
        BY <3>1 DEF TypeInv, Place, Opened, Mapped, InStruct, InPut, BeforeStore, InGet
      <3>3. QED
        BY <1>2, <3>1, <3>2 DEF Seg, Advanced, None
    <2>3. QED
      BY <2>1, <2>2
  <1>7. ASSUME NEW q \in Receivers PROVE pc'[q] # "faulted"
    BY <1>1 DEF HalfMadeInv, Procs
  <1>8. ASSUME Filled', Doomed(s)' PROVE LeftHalfMade(shmid[s])' /\ shmid'[s] = shmid[s]
    <2>1. s \in Procs
      BY DEF Procs
    <2>2. Filled
      BY <1>8 DEF Filled
    <2>3. shmid'[s] = shmid[s]
      BY <1>1, <1>8, <2>1 DEF Doomed
    <2>4. LeftHalfMade(shmid[s])
      <3>1. CASE p = s
        BY <1>8, <3>1
      <3>2. CASE p # s
        <4>1. pc'[s] = pc[s] /\ attached'[s] = attached[s]
          BY <1>1, <2>1, <3>2
        <4>2. Doomed(s)
          BY <1>2, <1>8, <2>1, <4>1 DEF Doomed, Seg, Advanced, None
        <4>3. QED
          BY <2>2, <4>2 DEF HalfMadeInv
      <3>3. QED
        BY <3>1, <3>2
    <2>5. PICK g \in 1 .. Len(segs) : g = shmid[s]
      <3>1. PICK q \in Receivers : shmid[q] = shmid[s] /\ fresh[q]
        BY <2>4 DEF LeftHalfMade
      <3>2. q \in Procs /\ shmid[q] # None
        BY <3>1 DEF HalfMadeInv, MadeOrLost, Procs
      <3>3. QED
        BY <1>2, <3>1, <3>2 DEF None
    <2>6. LeftHalfMade(g)'
      <3>1. LeftHalfMade(g) /\ Advanced(p, g) /\ OneMaker
        BY <2>4, <2>5 DEF HalfMadeInv
      <3>2. QED
        BY <3>1, LeftStays
    <2>7. shmid'[s] = g
      BY <2>3, <2>5
    <2>8. QED
      BY <2>3, <2>6, <2>7 DEF LeftHalfMade
  <1>9. OneMaker'
    BY <1>3 DEF HalfMadeInv, OneMaker
  <1>10. QED
    BY <1>4, <1>5, <1>6, <1>7, <1>8, <1>9 DEF HalfMadeInv

(* A step that keeps the tables of the kernel but for what it writes to the  *)
(* segment.                                                                  *)
LEMMA HalfMadeQuiet ==
  ASSUME TypeInv, TypeInv', NEW s, Senders = {s}, HalfMadeInv(s), NEW p \in Procs, NEW to,
         pc' = [pc EXCEPT ![p] = to], pc[p] \notin Ended, to \notin Ended,
         Len(segs') = Len(segs), \A g \in 1 .. Len(segs) : Advanced(p, g),
         UNCHANGED <<attached, shmid, fresh>>, breaches \subseteq breaches',
         to \in Opened => Seg(p)'.size # 0,
         pc[p] \in InInit => attached[p] # None /\ Seg(p)'.size # 0
  PROVE  HalfMadeInv(s)'
  <1>1. attached'[p] = None \/ Exists(attached'[p])
    BY DEF Exists
  <1>2. pc[p] \in InInit => segs'[shmid[p]].size # 0
    BY DEF TypeInv, Place, Seg
  <1>3. ASSUME p = s, Filled', Doomed(s)' PROVE LeftHalfMade(shmid[s])
    <2>1. pc'[s] = to /\ Filled
      BY <1>3 DEF TypeInv, VarTypes, Filled
    <2>2. attached[s] # None /\ segs'[attached[s]].size = 0
      BY <1>3, <2>1 DEF Doomed, Seg, Ended
    <2>3. pc[s] # "set_size" /\ attached[s] \in 1 .. Len(segs)
      BY <1>3, <2>2, OwnSegment DEF Seg, InInit, InStruct
    <2>4. Doomed(s)
      BY <2>2, <2>3 DEF Doomed, Seg, Advanced
    <2>5. QED
      BY <2>1, <2>4 DEF HalfMadeInv
  <1>4. to # "faulted"
    BY DEF Ended
  <1>5. /\ fresh' = fresh /\ shmid'[p] = shmid[p]
        /\ \A q \in Procs \ {p} : attached'[q] = attached[q] /\ shmid'[q] = shmid[q]
    OBVIOUS
  <1>6. (fresh[p] /\ pc[p] \in InInit /\ to \notin InInit \cup {"killed"}
           /\ segs'[shmid[p]].size = 0) => ~ Exists(shmid[p])'
    BY <1>2
  <1>7. QED
    BY <1>1, <1>3, <1>4, <1>5, <1>6, HalfMadeKept

(* A step that leaves the segments alone advances them.                      *)
LEMMA NothingWritten ==
  ASSUME UNCHANGED segs, NEW p \in Procs
  PROVE  Len(segs') = Len(segs) /\ \A g \in 1 .. Len(segs) : Advanced(p, g)
  BY DEF Advanced

(* A write to the flag, a slot or the mark for removal.                      *)
LEMMA FlagAdvances ==
  ASSUME TypeInv, NEW p \in Procs, attached[p] # None,
         \/ \E v \in {0, 1} : Write(p, "mutex", v)
         \/ \E v \in [0 .. Room -> Chars \cup {Nul}] : Write(p, "buf", v)
         \/ Write(p, "removed", TRUE)
  PROVE  /\ Len(segs') = Len(segs) /\ \A g \in 1 .. Len(segs) : Advanced(p, g)
         /\ segs'[attached[p]].size = Seg(p).size
  <1>1. Seg(p) \in Segment /\ Seg(p) = segs[attached[p]]
    BY OwnSegment DEF Seg
  <1>2. /\ Len(segs') = Len(segs)
        /\ \A g \in 1 .. Len(segs) : g # attached[p] => segs'[g] = segs[g]
        /\ \/ \E v \in {0, 1} : segs'[attached[p]] = [Seg(p) EXCEPT !.mutex = v]
           \/ \E v \in [0 .. Room -> Chars \cup {Nul}] :
                segs'[attached[p]] = [Seg(p) EXCEPT !.buf = v]
           \/ segs'[attached[p]] = [Seg(p) EXCEPT !.removed = TRUE]
    <2>1. CASE \E v \in {0, 1} : Write(p, "mutex", v)
      BY <2>1, WroteMutex
    <2>2. CASE \E v \in [0 .. Room -> Chars \cup {Nul}] : Write(p, "buf", v)
      BY <2>2, WroteBuf
    <2>3. CASE Write(p, "removed", TRUE)
      BY <2>3, WroteRemoved
    <2>4. QED
      BY <2>1, <2>2, <2>3
  <1>3. LET new == segs'[attached[p]]
        IN  /\ new.size = Seg(p).size /\ new.in = Seg(p).in /\ new.out = Seg(p).out
            /\ Seg(p).removed => new.removed
    BY <1>1, <1>2 DEF Segment
  <1>4. Advanced(p, attached[p])
    BY <1>1, <1>3 DEF Advanced
  <1>5. QED
    BY <1>2, <1>3, <1>4 DEF Advanced

(* A write to in or out of a struct whose size is written.                   *)
LEMMA IndexAdvances ==
  ASSUME TypeInv, NEW p \in Procs, attached[p] # None, Seg(p).size # 0, NEW v \in 0 .. Room,
         Write(p, "in", v) \/ Write(p, "out", v)
  PROVE  /\ Len(segs') = Len(segs) /\ \A g \in 1 .. Len(segs) : Advanced(p, g)
         /\ segs'[attached[p]].size # 0
  <1>1. Seg(p) \in Segment /\ Seg(p) = segs[attached[p]]
    BY OwnSegment DEF Seg
  <1>2. /\ Len(segs') = Len(segs)
        /\ \A g \in 1 .. Len(segs) : g # attached[p] => segs'[g] = segs[g]
        /\ \/ segs'[attached[p]] = [Seg(p) EXCEPT !.in = v]
           \/ segs'[attached[p]] = [Seg(p) EXCEPT !.out = v]
    BY WroteIn, WroteOut
  <1>3. LET new == segs'[attached[p]]
        IN  new.size = Seg(p).size /\ (Seg(p).removed => new.removed)
    BY <1>1, <1>2 DEF Segment
  <1>4. Advanced(p, attached[p])
    BY <1>1, <1>3 DEF Advanced
  <1>5. QED
    BY <1>2, <1>3, <1>4 DEF Advanced

(* The write that opens the ring.                                            *)
LEMMA SizeAdvances ==
  ASSUME TypeInv, NEW p \in Procs, attached[p] # None, fresh[p], Write(p, "size", Room + 1)
  PROVE  /\ Len(segs') = Len(segs) /\ \A g \in 1 .. Len(segs) : Advanced(p, g)
         /\ segs'[attached[p]].size # 0
  <1>1. Seg(p) \in Segment /\ Seg(p) = segs[attached[p]]
    BY OwnSegment DEF Seg
  <1>2. /\ Len(segs') = Len(segs)
        /\ \A g \in 1 .. Len(segs) : g # attached[p] => segs'[g] = segs[g]
        /\ segs'[attached[p]] = [Seg(p) EXCEPT !.size = Room + 1]
    BY WroteSize
  <1>3. LET new == segs'[attached[p]]
        IN  new.size = Room + 1 /\ (Seg(p).removed => new.removed)
    BY <1>1, <1>2 DEF Segment
  <1>4. Room + 1 # 0 /\ shmid[p] = attached[p]
    BY BoundAssumption DEF TypeInv, Place
  <1>5. Advanced(p, attached[p])
    BY <1>1, <1>3, <1>4 DEF Advanced
  <1>6. QED
    BY <1>2, <1>3, <1>4, <1>5 DEF Advanced

(* The steps that neither attach nor detach nor end a program, and that are  *)
(* none of buf_init's but its writes to the struct.                          *)
LEMMA InsideHalfMade ==
  ASSUME TypeInv, TypeInv', NEW s, Senders = {s}, HalfMadeInv(s), NEW p \in Procs,
         \/ InitStruct(p) \/ ShmRmid(p)
         \/ p \in Senders /\ Send(p)
         \/ p \in Receivers /\ Receive(p)
  PROVE  HalfMadeInv(s)'
  <1>1. Place(p) /\ pc[p] \in Labels
    BY DEF TypeInv, VarTypes
  <1>2. ASSUME NEW to, pc' = [pc EXCEPT ![p] = to], pc[p] \notin Ended \cup InInit,
               to \notin Ended \cup Opened, Len(segs') = Len(segs),
               \A g \in 1 .. Len(segs) : Advanced(p, g),
               attached' = attached, shmid' = shmid, fresh' = fresh, breaches \subseteq breaches'
        PROVE  HalfMadeInv(s)'
    BY <1>2, HalfMadeQuiet
  <1>3. ASSUME NEW to, pc' = [pc EXCEPT ![p] = to], pc[p] \notin Ended,
               to \notin Ended, Len(segs') = Len(segs),
               \A g \in 1 .. Len(segs) : Advanced(p, g), attached[p] # None,
               segs'[attached[p]].size # 0,
               attached' = attached, shmid' = shmid, fresh' = fresh, breaches' = breaches
        PROVE  HalfMadeInv(s)'
    <2>1. Seg(p)'.size # 0
      BY <1>3 DEF Seg
    <2>2. QED
      BY <1>3, <2>1, HalfMadeQuiet
  <1>4. pc[p] \in Opened => attached[p] # None /\ Seg(p).size # 0 /\ Seg(p) \in Segment
    <2>1. pc[p] \in Opened => attached[p] # None
      BY <1>1 DEF Place, Opened, Mapped, InStruct, InPut, BeforeStore, InGet
    <2>2. QED
      BY <2>1, OwnSegment DEF HalfMadeInv
  <1>5. \A ch \in Chars \cup {Nul} : AfterCall(ch) \in {"loop", "shm_rmid"}
    BY AfterLabel
  <1>6. {"loop", "shm_rmid", "put_next", "get_wait", "detach", "exit"}
          \cap (Ended \cup Opened \cup InInit) = {}
    BY DEF Ended, Opened, InInit, InStruct
  <1>7. Opened \cap Ended = {}
    BY DEF Opened, Ended
  \* The writes of the ring's owner.
  <1>8. CASE InitStruct(p)
    <2>1. /\ pc[p] \in InStruct /\ attached' = attached /\ shmid' = shmid /\ fresh' = fresh
          /\ breaches' = breaches
      BY <1>8 DEF InitStruct, InStruct, locals, history
    <2>2. attached[p] # None /\ pc[p] \notin Ended
      BY <1>1, <2>1 DEF Place, Mapped, InStruct, Ended
    <2>3. PICK to \in {"set_out", "set_in", "set_mutex", "loop"} : pc' = [pc EXCEPT ![p] = to]
      BY <1>8 DEF InitStruct, Goto
    <2>4. to \notin Ended
      BY <2>3 DEF Ended
    <2>5. CASE pc[p] = "set_size"
      <3>1. Write(p, "size", Room + 1) /\ fresh[p]
        BY <1>1, <1>8, <2>5 DEF InitStruct, InStruct, Place
      <3>2. QED
        BY <1>3, <2>1, <2>2, <2>3, <2>4, <3>1, SizeAdvances
    <2>6. CASE pc[p] \in {"set_out", "set_in"}
      <3>1. (Write(p, "in", 0) \/ Write(p, "out", 0)) /\ 0 \in 0 .. Room
        BY <1>8, <2>6, BoundAssumption DEF InitStruct
      <3>2. Seg(p).size # 0
        BY <1>4, <2>6 DEF Opened
      <3>3. QED
        BY <1>3, <2>1, <2>2, <2>3, <2>4, <3>1, <3>2, IndexAdvances
    <2>7. CASE pc[p] = "set_mutex"
      <3>1. Write(p, "mutex", 0) /\ Seg(p).size # 0
        BY <1>4, <1>8, <2>7 DEF InitStruct, Opened
      <3>2. QED
        BY <1>3, <2>1, <2>2, <2>3, <2>4, <3>1, FlagAdvances
    <2>8. QED
      BY <1>8, <2>5, <2>6, <2>7 DEF InitStruct
  <1>9. CASE ShmRmid(p)
    <2>1. /\ pc[p] = "shm_rmid" /\ attached' = attached /\ shmid' = shmid /\ fresh' = fresh
          /\ breaches' = breaches
      BY <1>9 DEF ShmRmid, locals, history
    <2>2. CASE is_mem_ok(p)
      <3>1. attached[p] # None /\ Write(p, "removed", TRUE) /\ pc' = [pc EXCEPT ![p] = "detach"]
        BY <1>9, <2>2 DEF ShmRmid, is_mem_ok, Goto
      <3>2. QED
        BY <1>2, <1>6, <2>1, <3>1, FlagAdvances
    <2>3. CASE ~ is_mem_ok(p)
      <3>1. segs' = segs /\ pc' = [pc EXCEPT ![p] = "exit"]
        BY <1>9, <2>3 DEF ShmRmid, Goto
      <3>2. QED
        BY <1>2, <1>6, <2>1, <3>1, NothingWritten
    <2>4. QED
      BY <2>2, <2>3
  \* The sender.
  <1>10. CASE Type(p)
    <2>1. PICK d \in Chars :
            /\ pc' = [pc EXCEPT ![p] = IF is_mem_ok(p) THEN "put_next" ELSE AfterCall(d)]
            /\ Note("early_quit", d = Quit /\ \E q \in Receivers : pc[q] \in Unattached)
      BY <1>10 DEF Type, Goto
    <2>2. /\ pc[p] = "loop" /\ segs' = segs /\ attached' = attached /\ shmid' = shmid
          /\ fresh' = fresh /\ breaches \subseteq breaches'
      BY <1>10, <2>1 DEF Type, kernel, Note
    <2> DEFINE to == IF is_mem_ok(p) THEN "put_next" ELSE AfterCall(d)
    <2>3. to \in {"put_next", "loop", "shm_rmid"}
      BY <1>5
    <2>4. pc' = [pc EXCEPT ![p] = to]
      BY <2>1
    <2> HIDE DEF to
    <2>5. to \notin Ended \cup Opened
      BY <1>6, <2>3
    <2>6. QED
      BY <1>2, <1>6, <2>2, <2>4, <2>5, NothingWritten
  <1>11. CASE put_next(p)
    <2>1. /\ pc[p] = "put_next" /\ segs' = segs /\ attached' = attached /\ shmid' = shmid
          /\ fresh' = fresh /\ breaches' = breaches /\ Seg(p).size # 0
          /\ pc' = [pc EXCEPT ![p] = "put_wait"]
      BY <1>11 DEF put_next, kernel, history, Goto
    <2>2. attached[p] # None /\ segs'[attached[p]].size # 0
      BY <1>1, <2>1 DEF Place, Mapped, InPut, BeforeStore, Seg
    <2>3. "put_wait" \notin Ended
      BY DEF Ended
    <2>4. QED
      BY <1>3, <1>6, <2>1, <2>2, <2>3, NothingWritten
  <1>12. CASE PutPoll(p) \/ GetPoll(p)
    <2>1. /\ pc[p] \in {"put_wait", "put_test", "get_wait", "get_test"}
          /\ segs' = segs /\ attached' = attached /\ shmid' = shmid
          /\ fresh' = fresh /\ breaches' = breaches
          /\ pc[p] = "get_wait" => Seg(p).in - Seg(p).out # 0
          /\ \E to \in {"put_test", "put_set", "get_test", "get_set"} : pc' = [pc EXCEPT ![p] = to]
      BY <1>12 DEF PutPoll, GetPoll, put_wait, put_test, get_wait, get_test, Poll, kernel,
                   locals, history, Goto
    <2>2. PICK to \in {"put_test", "put_set", "get_test", "get_set"} : pc' = [pc EXCEPT ![p] = to]
      BY <2>1
    <2>3. attached[p] # None
      BY <1>1, <2>1 DEF Place, Mapped, InPut, BeforeStore, InGet
    <2>4. Seg(p).size # 0
      <3>1. CASE pc[p] = "get_wait"
        <4>1. attached[p] \in 1 .. Len(segs)
          BY <2>3, OwnSegment
        <4>2. Seg(p).size = 0 => Seg(p).in = 0 /\ Seg(p).out = 0
          BY <4>1 DEF HalfMadeInv, MadeBySomeone, Seg
        <4>3. QED
          BY <2>1, <3>1, <4>2
      <3>2. CASE pc[p] # "get_wait"
        BY <1>4, <2>1, <3>2 DEF Opened
      <3>3. QED
        BY <3>1, <3>2
    <2>5. segs'[attached[p]].size # 0 /\ pc[p] \notin Ended /\ to \notin Ended
      BY <2>1, <2>2, <2>4 DEF Seg, Ended
    <2>6. QED
      BY <1>3, <2>1, <2>2, <2>3, <2>5, NothingWritten
  <1>13. CASE PutWrite(p)
    <2>1. /\ pc[p] \in {"put_set", "put_store", "put_in", "put_clear"}
          /\ attached' = attached /\ shmid' = shmid /\ fresh' = fresh /\ breaches' = breaches
      BY <1>13 DEF PutWrite, put_set, put_store, put_in, put_clear, Assign, locals, history
    <2>2. PICK to \in {"put_store", "put_in", "put_clear", "loop", "shm_rmid"} :
            pc' = [pc EXCEPT ![p] = to]
      BY <1>13, AfterLabel DEF PutWrite, put_set, put_store, put_in, put_clear, Assign, Goto
    <2>3. attached[p] # None /\ Seg(p).size # 0 /\ Seg(p) \in Segment
          /\ pc[p] \notin Ended /\ to \notin Ended
      BY <1>4, <2>1, <2>2 DEF Opened, Ended
    <2>4. position[p] \in 0 .. Room /\ char[p] \in Chars \cup {Nul}
      BY DEF TypeInv, VarTypes
    <2>5. [Seg(p).buf EXCEPT ![Seg(p).in] = char[p]] \in [0 .. Room -> Chars \cup {Nul}]
      BY <2>3, <2>4 DEF Segment
    <2>6. \/ Write(p, "mutex", 1) \/ Write(p, "mutex", 0) \/ Write(p, "in", position[p])
          \/ Write(p, "buf", [Seg(p).buf EXCEPT ![Seg(p).in] = char[p]])
      BY <1>13 DEF PutWrite, put_set, put_store, put_in, put_clear, Assign
    <2>7. Len(segs') = Len(segs) /\ (\A g \in 1 .. Len(segs) : Advanced(p, g))
          /\ segs'[attached[p]].size # 0
      BY <2>3, <2>4, <2>5, <2>6, FlagAdvances, IndexAdvances
    <2>8. QED
      BY <1>3, <2>1, <2>2, <2>3, <2>7
  \* The receivers.
  <1>14. CASE CallGet(p)
    <2> DEFINE to == IF is_mem_ok(p) THEN "get_wait" ELSE AfterCall(char[p])
    <2>1. /\ pc[p] = "loop" /\ segs' = segs /\ attached' = attached /\ shmid' = shmid
          /\ fresh' = fresh /\ breaches' = breaches /\ pc' = [pc EXCEPT ![p] = to]
      BY <1>14 DEF CallGet, kernel, locals, history, Goto
    <2>2. to \in {"get_wait", "loop", "shm_rmid"}
      BY AfterLabel
    <2> HIDE DEF to
    <2>3. to \notin Ended \cup Opened
      BY <1>6, <2>2
    <2>4. QED
      BY <1>2, <1>6, <2>1, <2>3, NothingWritten
  <1>15. CASE get_fetch(p)
    <2>1. /\ pc[p] = "get_fetch" /\ segs' = segs /\ attached' = attached /\ shmid' = shmid
          /\ fresh' = fresh /\ breaches' = breaches /\ pc' = [pc EXCEPT ![p] = "get_out"]
      BY <1>15 DEF get_fetch, kernel, Goto
    <2>2. attached[p] # None /\ segs'[attached[p]].size # 0
          /\ pc[p] \notin Ended /\ "get_out" \notin Ended
      BY <1>4, <2>1 DEF Opened, Ended, Seg
    <2>3. QED
      BY <1>3, <2>1, <2>2, NothingWritten
  <1>16. CASE GetWrite(p)
    <2>1. /\ pc[p] \in {"get_set", "get_out", "get_clear"}
          /\ attached' = attached /\ shmid' = shmid /\ fresh' = fresh /\ breaches' = breaches
      BY <1>16 DEF GetWrite, get_set, get_out, get_clear, Assign, locals, history
    <2>2. PICK to \in {"get_fetch", "get_clear", "loop", "shm_rmid"} :
            pc' = [pc EXCEPT ![p] = to]
      BY <1>16, AfterLabel DEF GetWrite, get_set, get_out, get_clear, Assign, Goto
    <2>3. attached[p] # None /\ Seg(p).size # 0 /\ Seg(p) \in Segment
          /\ pc[p] \notin Ended /\ to \notin Ended
      BY <1>4, <2>1, <2>2 DEF Opened, Ended
    <2>4. (Seg(p).out + 1) % Seg(p).size \in 0 .. Room
      BY <2>3, NextSlot DEF Segment
    <2>5. \/ Write(p, "mutex", 1) \/ Write(p, "mutex", 0)
          \/ Write(p, "out", (Seg(p).out + 1) % Seg(p).size)
      BY <1>16 DEF GetWrite, get_set, get_out, get_clear, Assign
    <2>6. Len(segs') = Len(segs) /\ (\A g \in 1 .. Len(segs) : Advanced(p, g))
          /\ segs'[attached[p]].size # 0
      BY <2>3, <2>4, <2>5, FlagAdvances, IndexAdvances
    <2>7. QED
      BY <1>3, <2>1, <2>2, <2>3, <2>6
  <1>17. CASE Send(p)
    BY <1>10, <1>11, <1>12, <1>13, <1>17 DEF Send, PutPoll, PutWrite
  <1>18. CASE Receive(p)
    BY <1>12, <1>14, <1>15, <1>16, <1>18 DEF Receive, GetPoll, GetWrite
  <1>19. QED
    BY <1>8, <1>9, <1>17, <1>18

(* Who detaches or ends leaves what was said of the others.                  *)
LEMMA EndHalfMade ==
  ASSUME TypeInv, TypeInv', NEW s, Senders = {s}, HalfMadeInv(s), NEW p \in Procs,
         Detach(p) \/ Exit(p) \/ Fault(p) \/ Crash(p)
  PROVE  HalfMadeInv(s)'
  <1>1. /\ segs' = segs /\ fresh' = fresh /\ shmid' = shmid /\ breaches' = breaches
        /\ attached' = [attached EXCEPT ![p] = None]
    BY DEF Detach, Exit, Fault, Crash, End, locals, history
  <1>2. /\ attached'[p] = None
        /\ \A q \in Procs \ {p} : attached'[q] = attached[q] /\ shmid'[q] = shmid[q]
    BY <1>1 DEF TypeInv, SegTypes
  <1>3. PICK to : /\ pc' = [pc EXCEPT ![p] = to]
                  /\ \/ pc[p] \in {"detach", "exit"} /\ to \in {"exit", "done"}
                     \/ pc[p] \in {"put_next", "get_out"} /\ Seg(p).size = 0 /\ to = "faulted"
                     \/ pc[p] \notin Ended /\ to = "killed"
    BY DEF Detach, Exit, Fault, Crash, End, Goto
  <1>4. pc[p] \notin Ended /\ to \notin Opened /\ (pc[p] \in InInit => to = "killed")
    BY <1>3 DEF Ended, Opened, InInit, InStruct
  <1>5. to = "faulted" => pc[p] = "put_next" /\ Seg(p).size = 0
    <2>1. pc[p] = "get_out" => Seg(p).size # 0
      BY DEF HalfMadeInv, Opened
    <2>2. QED
      BY <1>3, <2>1
  <1>6. to = "faulted" => p \notin Receivers /\ attached[p] # None
    <2>1. Place(p)
      BY DEF TypeInv
    <2>2. QED
      BY <1>5, <2>1, ProgramAssumption DEF Place, InPut, BeforeStore, Mapped
  <1>7. ASSUME p = s, Filled', Doomed(s)' PROVE LeftHalfMade(shmid[s])
    <2>1. pc'[s] = to /\ attached'[s] = None /\ Filled
      BY <1>1, <1>2, <1>3, <1>7 DEF TypeInv, VarTypes, Filled
    <2>2. to = "faulted"
      BY <1>7, <2>1 DEF Doomed
    <2>3. Doomed(s)
      BY <1>5, <1>6, <1>7, <2>2 DEF Doomed
    <2>4. QED
      BY <2>1, <2>3 DEF HalfMadeInv
  <1>8. QED
    BY <1>1, <1>2, <1>3, <1>4, <1>6, <1>7, NothingWritten, HalfMadeKept

(* The second shmget.                                                        *)
LEMMA ExistingHalfMade ==
  ASSUME TypeInv, TypeInv', NEW s, Senders = {s}, HalfMadeInv(s), NEW p \in Procs,
         ShmExisting(p)
  PROVE  HalfMadeInv(s)'
  <1>1. /\ segs' = segs /\ fresh' = fresh /\ breaches' = breaches /\ attached' = attached
        /\ pc[p] = "shm_existing"
        /\ shmid' = shmid \/ shmid' = [shmid EXCEPT ![p] = segKey]
    BY DEF ShmExisting, kernel, history
  <1>2. attached[p] = None /\ ~ fresh[p]
    BY <1>1 DEF TypeInv, Place, Unattached, ShmExisting
  <1>3. \A q \in Procs \ {p} : attached'[q] = attached[q] /\ shmid'[q] = shmid[q]
    BY <1>1 DEF TypeInv, SegTypes
  <1>4. PICK to \in {"attach", "loop"} : pc' = [pc EXCEPT ![p] = to]
    BY DEF ShmExisting, Goto
  <1>5. pc[p] \notin Ended /\ to \notin Opened \cup Ended /\ attached'[p] = None
    BY <1>1, <1>2, <1>4 DEF Ended, Opened, ShmExisting
  <1>6. ASSUME p = s, Doomed(s)' PROVE FALSE
    BY <1>4, <1>5, <1>6 DEF Doomed, TypeInv, VarTypes
  <1>7. to # "faulted"
    BY <1>4
  <1>8. QED
    BY <1>1, <1>2, <1>3, <1>4, <1>5, <1>6, <1>7, NothingWritten, HalfMadeKept

(* Who attaches a segment without a size, and did not make it, finds its     *)
(* maker at work, killed, or gone with the segment.                          *)
LEMMA AttachHalfMade ==
  ASSUME TypeInv, TypeInv', NEW s, Senders = {s}, HalfMadeInv(s), NEW p \in Procs,
         Attach(p)
  PROVE  HalfMadeInv(s)'
  <1>1. /\ segs' = segs /\ fresh' = fresh /\ shmid' = shmid /\ pc[p] = "attach"
        /\ breaches \subseteq breaches'
    BY DEF Attach, locals, Note
  <1>2. PICK to \in {"set_size", "loop"} :
          /\ pc' = [pc EXCEPT ![p] = to]
          /\ \/ /\ Exists(shmid[p]) /\ attached' = [attached EXCEPT ![p] = shmid[p]]
                /\ Note("half_made_ring", p \in Senders /\ HalfMade(shmid[p]))
                /\ fresh[p] => to = "set_size"
             \/ ~ Exists(shmid[p]) /\ attached' = attached /\ to = "loop"
    BY DEF Attach, Goto
  <1>3. attached[p] = None /\ shmid[p] # None /\ shmid[p] \in 1 .. Len(segs)
    BY <1>1 DEF TypeInv, Place, Unattached, SegTypes, None
  <1>4. /\ \A q \in Procs \ {p} : attached'[q] = attached[q] /\ shmid'[q] = shmid[q]
        /\ attached'[p] = None \/ Exists(attached'[p])
        /\ attached'[p] # None => attached'[p] = shmid[p] /\ Exists(shmid[p])
    BY <1>1, <1>2, <1>3 DEF TypeInv, SegTypes
  <1>5. pc[p] \notin Ended /\ to \notin Opened \cup Ended /\ to # "faulted"
    BY <1>1, <1>2 DEF Ended, Opened
  <1>6. fresh[p] /\ to \notin InInit \cup {"killed"} => ~ Exists(shmid[p])'
    <2>1. SUFFICES ASSUME fresh[p], to \notin InInit PROVE ~ Exists(shmid[p])'
      OBVIOUS
    <2>2. ~ Exists(shmid[p]) /\ attached' = attached
      BY <1>2, <2>1 DEF InInit, InStruct
    <2>3. QED
      BY <1>1, <2>2 DEF Exists
  <1>7. ASSUME p = s, Filled', Doomed(s)' PROVE LeftHalfMade(shmid[s])
    <2>1. pc'[s] = to /\ to # "faulted"
      BY <1>2, <1>7 DEF TypeInv, VarTypes
    <2>2. attached'[s] # None /\ to # "set_size" /\ segs[attached'[s]].size = 0
      BY <1>1, <1>7, <2>1 DEF Doomed, Seg
    <2>3. /\ Exists(shmid[s]) /\ segs[shmid[s]].size = 0 /\ ~ fresh[s]
          /\ Note("half_made_ring", s \in Senders /\ HalfMade(shmid[s]))
      BY <1>2, <1>3, <1>4, <1>7, <2>2
    <2>4. ~ HalfMade(shmid[s])
      BY <1>7, <2>3 DEF Filled, Note
    <2>5. PICK q \in Procs : fresh[q] /\ shmid[q] = shmid[s]
      BY <1>3, <1>7 DEF HalfMadeInv, MadeBySomeone
    <2>6. q \in Receivers
      BY <2>3, <2>5 DEF Procs
    <2>7. pc[q] \notin InInit
      BY <2>4, <2>5, <2>6 DEF HalfMade
    <2>8. pc[q] = "killed"
      BY <2>3, <2>5, <2>7 DEF HalfMadeInv, MadeOrLost
    <2>9. QED
      BY <2>3, <2>5, <2>6, <2>8 DEF LeftHalfMade
  <1>8. QED
    BY <1>1, <1>2, <1>4, <1>5, <1>6, <1>7, NothingWritten, HalfMadeKept

(* A new segment has a maker that is still at it.                            *)
LEMMA CreateHalfMade ==
  ASSUME TypeInv, TypeInv', NEW s, Senders = {s}, HalfMadeInv(s), NEW p \in Procs,
         ShmCreate(p)
  PROVE  HalfMadeInv(s)'
  <1>1. /\ pc[p] = "start" /\ attached' = attached /\ breaches' = breaches /\ ~ fresh[p]
        /\ attached[p] = None
    BY DEF ShmCreate, history, TypeInv, Place, Unattached
  <1>2. CASE segKey # None
    <2>1. /\ segs' = segs /\ shmid' = shmid /\ fresh' = fresh
          /\ pc' = [pc EXCEPT ![p] = "shm_existing"]
      BY <1>2 DEF ShmCreate, Goto
    <2>2. pc[p] \notin Ended \cup InInit /\ "shm_existing" \notin Ended \cup Opened
      BY <1>1 DEF Ended, Opened, InInit, InStruct
    <2>3. QED
      BY <1>1, <2>1, <2>2, NothingWritten, HalfMadeQuiet
  <1>3. CASE segKey = None
    <2> DEFINE n == Len(segs) + 1
    <2>1. /\ segs' = Append(segs, ZeroedSegment) /\ shmid' = [shmid EXCEPT ![p] = Len(segs')]
          /\ fresh' = [fresh EXCEPT ![p] = TRUE] /\ pc' = [pc EXCEPT ![p] = "attach"]
      BY <1>3 DEF ShmCreate, Goto
    <2>2. /\ Len(segs) \in Nat /\ Len(segs') = n /\ segs'[n] = ZeroedSegment
          /\ \A g \in 1 .. Len(segs) : segs'[g] = segs[g]
      BY <2>1 DEF TypeInv, SegTypes
    <2> HIDE DEF n
    <2>3. /\ pc'[p] = "attach" /\ fresh'[p] /\ shmid'[p] = n
          /\ \A q \in Procs \ {p} : pc'[q] = pc[q] /\ fresh'[q] = fresh[q] /\ shmid'[q] = shmid[q]
      BY <2>1, <2>2 DEF TypeInv, VarTypes, SegTypes
    <2>4. \A q \in Procs : /\ shmid[q] \in 0 .. Len(segs) /\ attached[q] \in 0 .. Len(segs)
                           /\ attached[q] # None => attached[q] \in 1 .. Len(segs)
      BY <2>2 DEF TypeInv, SegTypes, None
    <2>5. MadeBySomeone'
      <3>1. ASSUME NEW g \in 1 .. Len(segs)
            PROVE  /\ segs'[g].size = 0 => segs'[g].in = 0 /\ segs'[g].out = 0
                   /\ \E q \in Procs : fresh'[q] /\ shmid'[q] = g
        BY <1>1, <2>2, <2>3 DEF HalfMadeInv, MadeBySomeone
      <3>2. segs'[n].in = 0 /\ segs'[n].out = 0
        BY <2>2 DEF ZeroedSegment
      <3>3. \A g \in 1 .. Len(segs') : g \in 1 .. Len(segs) \/ g = n
        BY <2>2 DEF n
      <3>4. QED
        BY <2>3, <3>1, <3>2, <3>3 DEF MadeBySomeone
    <2>6. MadeOrLost'
      <3>1. SUFFICES ASSUME NEW q \in Procs, fresh'[q]
                     PROVE  /\ shmid'[q] # None
                            /\ (pc'[q] \notin InInit \cup {"killed"}
                                  /\ segs'[shmid'[q]].size = 0) => ~ Exists(shmid[q])'
        BY DEF MadeOrLost, Exists
      <3>2. CASE q = p
        <4>1. pc'[q] \in InInit /\ n # None
          BY <2>2, <2>3, <3>2 DEF InInit, None, n
        <4>2. QED
          BY <2>3, <3>2, <4>1
      <3>3. CASE q # p
        <4>1. fresh[q] /\ shmid'[q] = shmid[q] /\ pc'[q] = pc[q]
          BY <2>3, <3>1, <3>3
        <4>2. /\ shmid[q] # None
              /\ (pc[q] \notin InInit \cup {"killed"} /\ segs[shmid[q]].size = 0)
                   => ~ Exists(shmid[q])
          BY <4>1 DEF HalfMadeInv, MadeOrLost
        <4>3. segs'[shmid[q]] = segs[shmid[q]]
          BY <2>2, <2>4, <4>2 DEF None
        <4>4. Exists(shmid[q])' <=> Exists(shmid[q])
          BY <1>1, <4>1, <4>3 DEF Exists
        <4>5. QED
          BY <4>1, <4>2, <4>3, <4>4
      <3>4. QED
        BY <3>2, <3>3
    <2>7. \A q \in Procs : attached[q] # None => Seg(q)' = Seg(q)
      BY <1>1, <2>2, <2>4 DEF Seg
    <2>8. ASSUME NEW q \in Procs, pc'[q] \in Opened PROVE Seg(q)'.size # 0
      <3>1. q # p
        BY <2>3, <2>8 DEF Opened
      <3>2. pc[q] \in Opened /\ Seg(q).size # 0
        BY <2>3, <2>8, <3>1 DEF HalfMadeInv
      <3>3. attached[q] # None
        BY <3>2 DEF TypeInv, Place, Opened, Mapped, InStruct, InPut, BeforeStore, InGet
      <3>4. QED
        BY <2>7, <3>2, <3>3
    <2>9. \A q \in Receivers : pc'[q] # "faulted"
      BY <2>3 DEF HalfMadeInv, Procs
    <2>10. Filled' /\ Doomed(s)' => LeftHalfMade(shmid[s])' /\ shmid'[s] = shmid[s]
      <3>1. SUFFICES ASSUME Filled', Doomed(s)'
                     PROVE  LeftHalfMade(shmid[s])' /\ shmid'[s] = shmid[s]
        OBVIOUS
      <3>2. s \in Procs /\ s # p
        BY <1>1, <2>3, <3>1 DEF Doomed, Procs
      <3>3. Doomed(s) /\ Filled
        BY <1>1, <2>3, <2>7, <3>1, <3>2 DEF Doomed, Filled
      <3>4. PICK q \in Receivers : shmid[q] = shmid[s] /\ fresh[q] /\ pc[q] = "killed"
        BY <3>3 DEF HalfMadeInv, LeftHalfMade
      <3>5. shmid'[q] = shmid[s] /\ fresh'[q] /\ pc'[q] = "killed"
        BY <1>1, <2>3, <3>4 DEF Procs
      <3>6. segs[shmid[s]].size = 0 /\ segs'[shmid[s]] = segs[shmid[s]]
        <4>1. shmid[s] # None
          BY <3>4 DEF HalfMadeInv, MadeOrLost, Procs
        <4>2. QED
          BY <2>2, <2>4, <3>2, <3>3, <4>1 DEF HalfMadeInv, LeftHalfMade, None
      <3>7. QED
        BY <2>3, <3>2, <3>4, <3>5, <3>6 DEF LeftHalfMade
    <2>11. OneMaker'
      <3>1. \A q \in Procs : shmid[q] # n
        BY <2>2, <2>4 DEF n
      <3>2. QED
        BY <2>3, <3>1 DEF HalfMadeInv, OneMaker
    <2>12. QED
      BY <2>5, <2>6, <2>8, <2>9, <2>10, <2>11 DEF HalfMadeInv
  <1>4. QED
    BY <1>2, <1>3

(* No program has begun.                                                     *)
LEMMA HalfMadeStart ==
  ASSUME Init, NEW s, Senders = {s}
  PROVE  HalfMadeInv(s)
  <1>1. /\ segs = <<>> /\ Len(segs) = 0
        /\ \A p \in Procs : pc[p] = "start" /\ ~ fresh[p] /\ attached[p] = None
    BY DEF Init
  <1>2. MadeBySomeone /\ MadeOrLost /\ OneMaker
    BY <1>1 DEF MadeBySomeone, MadeOrLost, OneMaker
  <1>3. s \in Procs /\ Receivers \subseteq Procs
    BY DEF Procs
  <1>4. QED
    BY <1>1, <1>2, <1>3 DEF HalfMadeInv, Doomed, Opened

(* Every step.                                                               *)
LEMMA HalfMadeStep ==
  ASSUME TypeInv, NEW s, Senders = {s}, HalfMadeInv(s), [Next]_vars
  PROVE  HalfMadeInv(s)'
  <1>1. TypeInv'
    BY SessionTypesStep
  <1>2. CASE UNCHANGED vars
    BY <1>2 DEF vars, HalfMadeInv, MadeBySomeone, MadeOrLost, OneMaker, Exists, Seg, Filled, Doomed,
                LeftHalfMade
  <1>3. ASSUME NEW p \in Procs, Run(p) \/ Crash(p) PROVE HalfMadeInv(s)'
    BY <1>1, <1>3, CreateHalfMade, ExistingHalfMade, AttachHalfMade, InsideHalfMade, EndHalfMade
       DEF Run, BufInit, BufDestroy
  <1>4. QED
    BY <1>2, <1>3 DEF Next

(* FaultsExplained: with one sender and any number of receivers, killed      *)
(* anywhere and started at any time, no receiver divides by a size that was  *)
(* not written; the sender does only if it overtook the receiver that makes  *)
(* the ring, or if that one was killed before it wrote the size.             *)
THEOREM HalfMadeRingsExplain ==
  ASSUME NEW s, Senders = {s}
  PROVE  Spec => []FaultsExplained
  <1>1. Init => TypeInv /\ HalfMadeInv(s)
    BY SessionTypesInit, HalfMadeStart
  <1>2. TypeInv /\ HalfMadeInv(s) /\ [Next]_vars => TypeInv' /\ HalfMadeInv(s)'
    BY SessionTypesStep, HalfMadeStep
  <1>3. sender = s
    BY DEF sender
  <1>4. HalfMadeInv(s) => FaultsExplained
    BY <1>3 DEF HalfMadeInv, FaultsExplained, Doomed, Filled
  <1>5. QED
    BY <1>1, <1>2, <1>4, PTL DEF Spec
================================================================================
