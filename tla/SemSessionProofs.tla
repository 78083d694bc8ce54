--------------------------- MODULE SemSessionProofs ----------------------------
(***************************************************************************)
(* Machine-checked theorems about SemSession, for every number of senders  *)
(* and receivers, every size of the ring, every alphabet and any number of *)
(* kills: the types, and, in orderly sessions, that nobody removes the     *)
(* semaphores from under a process that still uses them; and, for the pair *)
(* the code is made for, that nobody faults in a segment that is not       *)
(* filled in, and that what was typed arrives.                             *)
(***************************************************************************)
EXTENDS SemSession, FiniteSetTheorems, TLAPS

(* Where a program looks for the semaphore s that another one made (line    *)
(* 36), and the labels at which it does not have it yet.                    *)
Find(s) == CASE s = "free"  -> "find_free_sem"
             [] s = "full"  -> "find_full_sem"
             [] s = "mutex" -> "find_mutex"
Before(s) ==
  {"start", "shm_existing", "attach", "get_free_sem", "find_free_sem"}
    \cup (IF s \in {"full", "mutex"} THEN {"get_full_sem", "find_full_sem"} ELSE {})
    \cup (IF s = "mutex" THEN {"get_mutex", "find_mutex"} ELSE {})

(* The labels at which the segment is not mapped yet, and surely is. *)
Unmapped == {"start", "shm_existing", "attach"}
Mapped == (InInit \ Unmapped) \cup InPut \cup InGet \cup {"nproc_dec", "shm_rmid", "detach"}

(* Who made a segment, and who came past the semget of s. *)
Makers == {p \in Procs : fresh[p]}
Past(s) == {p \in Procs : pc[p] \notin Before(s)}

(* Every identifier is one that was given out ... *)
SegTypes ==
  /\ segs \in Seq(Segment) /\ segKey \in 0 .. Len(segs)
  /\ attached \in [Procs -> 0 .. Len(segs)] /\ shmid \in [Procs -> 0 .. Len(segs)]
SemTypes ==
  /\ sem \in [SemNames -> [id : Nat, val : Nat, there : BOOLEAN]]
  /\ semadj \in [Procs -> [SemNames -> Int]]
  /\ semid \in [Procs -> [SemNames -> Nat]]
  /\ \A p \in Procs, s \in SemNames : semid[p][s] <= sem[s].id
VarTypes ==
  /\ pc \in [Procs -> Labels] /\ fresh \in [Procs -> BOOLEAN]
  /\ reg \in [Procs -> Int] /\ c \in [Procs -> Chars \cup {Nul}]
  /\ typed \in [Senders -> Seq(Chars)] /\ got \in [Receivers -> Seq(Chars \cup {Nul})]
  /\ crashes \in 0 .. MaxCrashes
  /\ breaches \subseteq {"racing_launch", "early_quit", "flags"}

(* ... who dereferences a segment has one, and slots are in range ... *)
Place(p) ==
  /\ pc[p] = "start" => ~ fresh[p]
  /\ pc[p] = "attach" => shmid[p] # None
  /\ pc[p] \in Mapped => attached[p] # None
  /\ pc[p] \in {"put_lock", "put_store", "put_in"} => reg[p] \in 0 .. Size - 1

(* ... and what was given out is counted by who asked for it. *)
Numbers ==
  /\ Len(segs) = Cardinality(Makers)
  /\ \A s \in SemNames : sem[s].id <= Cardinality(Past(s))

TypeInv == SegTypes /\ SemTypes /\ VarTypes /\ Numbers /\ \A p \in Procs : Place(p)

(* A program is still to come, or on its way in; one is on its way out. *)
Launching == \E p \in Procs : pc[p] \in InInit \cup {"start"}
Leaving   == InDestroy \cup Ended

(* The labels at which the segment is not mapped (yet, or any more) in an   *)
(* orderly session; those of the loop; and those at which a program counts  *)
(* as a user: it put itself into nproc and did not take itself out yet.     *)
Released  == Unmapped \cup {"rmid_free", "rmid_full", "rmid_mutex", "exit", "done"}
Ring      == {"loop"} \cup InPut \cup InGet
Counted   == {"set_size", "set_out", "set_in", "set_nproc", "set_free", "set_full",
              "set_mutex", "loop", "nproc_read", "nproc_dec"} \cup InPut \cup InGet
Users     == {p \in Procs : pc[p] \in Counted}

(* One program at a time is inside buf_init, and the one that makes the     *)
(* segment and fills it in is the first of all.                             *)
OneStarts ==
  \A p \in Procs :
    /\ pc[p] \in InInit => \A q \in Procs \ {p} : pc[q] \notin InInit
    /\ pc[p] \in InInit /\ fresh[p] => \A q \in Procs \ {p} : pc[q] = "start"
    /\ pc[p] \in Counted \cap InInit => fresh[p]

(* There is one segment, and the key leads to it while programs come in. *)
OneSegment ==
  /\ Len(segs) <= 1
  /\ Len(segs) = 0 => \A p \in Procs : pc[p] = "start"
  /\ Launching => segKey = Len(segs) /\ \A g \in DOMAIN segs : ~ segs[g].removed

(* While programs come in no Quit is under way, in the ring or in a local   *)
(* variable, and so nobody leaves.                                          *)
NoQuitYet ==
  Launching =>
    /\ \A g \in DOMAIN segs, i \in 0 .. Size - 1 : segs[g].buf[i] # Quit
    /\ \A p \in Procs :
         /\ pc[p] \notin Leaving
         /\ p \in Senders \/ pc[p] \in {"get_out", "get_unlock", "get_free"} => c[p] # Quit

(* What each program has of the one segment and the semaphores. *)
Holding ==
  \A p \in Procs :
    /\ pc[p] # "killed"
    /\ pc[p] \notin {"start", "shm_existing"} => shmid[p] = 1
    /\ attached[p] = IF pc[p] \in Released THEN None ELSE 1
    /\ \A s \in SemNames : pc[p] \notin Before(s) => semid[p][s] = 1

(* Each semaphore is made once, and stays while it has users. *)
OneSemaphore ==
  \A s \in SemNames :
    \/ /\ sem[s].id = 0 /\ ~ sem[s].there
       /\ \A p \in Procs : pc[p] \in Before(s) \ {Find(s)}
    \/ /\ sem[s].id = 1
       /\ Launching \/ Users # {} => sem[s].there

(* nproc never falls below the number of users, nor does what a program has *)
(* read of it and is about to write back; who decides to remove the         *)
(* semaphores leaves nobody behind.                                         *)
NprocCounts ==
  /\ Len(segs) # 0 => segs[1].nproc >= Cardinality(Users)
  /\ \A p \in Procs :
       /\ pc[p] = "nproc_inc" => reg[p] >= Cardinality(Users)
       /\ pc[p] = "nproc_dec" => reg[p] >= Cardinality(Users) - 1
       /\ pc[p] \in {"shm_rmid", "detach"} => reg[p] >= Cardinality(Users)
       /\ pc[p] \in {"rmid_free", "rmid_full", "rmid_mutex"} => Users = {}

Parts == OneStarts /\ OneSegment /\ NoQuitYet /\ Holding /\ OneSemaphore /\ NprocCounts
OrderlyInv == Orderly => Parts

--------------------------------------------------------------------------------
(* Types. *)

(* There are finitely many programs. *)
LEMMA ProcsFinite == IsFiniteSet(Procs) /\ Cardinality(Procs) \in Nat
  BY ProgramAssumption, FS_Union, FS_CardinalityType DEF Procs

(* So is every set of them, and it has at most as many. *)
LEMMA PartOfProcs ==
  ASSUME NEW S \in SUBSET Procs
  PROVE  IsFiniteSet(S) /\ Cardinality(S) \in Nat /\ Cardinality(S) <= Cardinality(Procs)
  BY ProcsFinite, FS_Subset, FS_CardinalityType

(* A set that gained a program has one more at least. *)
LEMMA OneMore ==
  ASSUME NEW S \in SUBSET Procs, NEW S2 \in SUBSET Procs, S \subseteq S2, NEW p \in S2 \ S
  PROVE  Cardinality(S2) >= Cardinality(S) + 1
  <1>1. S \cup {p} \subseteq S2 /\ S \cup {p} \in SUBSET Procs
    OBVIOUS
  <1>2. Cardinality(S \cup {p}) = Cardinality(S) + 1
    BY PartOfProcs, FS_AddElement
  <1>3. Cardinality(S \cup {p}) <= Cardinality(S2)
    BY <1>1, PartOfProcs, FS_Subset
  <1>4. QED
    BY <1>1, <1>2, <1>3, PartOfProcs

(* The bounds of TypeOK: a segment costs a maker, a semaphore a program that *)
(* passed its semget.                                                        *)
LEMMA TypeInvTypeOK == ASSUME TypeInv PROVE TypeOK
  <1>1. Len(segs) <= Cardinality(Procs)
    <2>1. Makers \in SUBSET Procs
      BY DEF Makers
    <2>2. QED
      BY <2>1, PartOfProcs DEF TypeInv, Numbers
  <1>2. \A s \in SemNames : sem[s].id <= Cardinality(Procs)
    <2> SUFFICES ASSUME NEW s \in SemNames PROVE sem[s].id <= Cardinality(Procs)
      OBVIOUS
    <2>1. Past(s) \in SUBSET Procs
      BY DEF Past
    <2>2. Cardinality(Past(s)) <= Cardinality(Procs) /\ Cardinality(Past(s)) \in Nat
      BY <2>1, PartOfProcs
    <2>3. sem[s].id \in Nat /\ sem[s].id <= Cardinality(Past(s))
      BY DEF TypeInv, Numbers, SemTypes
    <2>4. QED
      BY <2>2, <2>3, ProcsFinite
  <1>3. segs \in Seq(Segment) /\ DOMAIN segs = 1 .. Len(segs) /\ Len(segs) \in Nat
    BY DEF TypeInv, SegTypes
  <1>4. 1 .. Len(segs) \subseteq SegIds
    BY <1>1, <1>3, ProcsFinite DEF SegIds
  <1>5. 0 .. Len(segs) = DOMAIN segs \cup {None}
    BY <1>3 DEF None
  <1>6. /\ segKey \in DOMAIN segs \cup {None}
        /\ attached \in [Procs -> SegIds \cup {None}] /\ shmid \in [Procs -> SegIds \cup {None}]
    BY <1>3, <1>4, <1>5 DEF TypeInv, SegTypes
  <1>7. sem \in [SemNames -> [id : 0 .. Cardinality(Procs), val : Nat, there : BOOLEAN]]
    BY <1>2, ProcsFinite DEF TypeInv, SemTypes
  <1>8. semid \in [Procs -> [SemNames -> 0 .. Cardinality(Procs)]]
    BY <1>2, ProcsFinite DEF TypeInv, SemTypes
  <1>9. \A g \in DOMAIN segs : segs[g] \in Segment
    BY <1>3
  <1>10. QED
    BY <1>1, <1>6, <1>7, <1>8, <1>9 DEF TypeOK, TypeInv, SemTypes, VarTypes

(* Who has a segment mapped reads and writes a segment that exists. *)
LEMMA OwnSegment ==
  ASSUME TypeInv, NEW p \in Procs, pc[p] \in Mapped
  PROVE  attached[p] \in 1 .. Len(segs) /\ Seg(p) \in Segment
  <1>1. attached[p] \in 1 .. Len(segs) /\ segs \in Seq(Segment)
    BY DEF TypeInv, SegTypes, Place, None
  <1>2. QED
    BY <1>1 DEF Seg

(* A write to a segment leaves the other segments alone. *)
LEMMA Replaced ==
  ASSUME TypeInv, NEW p \in Procs, pc[p] \in Mapped, NEW new \in Segment,
         segs' = [segs EXCEPT ![attached[p]] = new]
  PROVE  /\ segs' \in Seq(Segment) /\ Len(segs') = Len(segs)
         /\ segs'[attached[p]] = new
         /\ \A g \in 1 .. Len(segs) : g # attached[p] => segs'[g] = segs[g]
  BY OwnSegment DEF TypeInv, SegTypes

(* What the label of another program says stays true. *)
LEMMA PlacesKept ==
  ASSUME TypeInv, NEW p \in Procs, NEW to \in Labels, pc' = [pc EXCEPT ![p] = to],
         \A q \in Procs \ {p} : /\ attached'[q] = attached[q] /\ shmid'[q] = shmid[q]
                                /\ fresh'[q] = fresh[q] /\ reg'[q] = reg[q],
         Place(p)'
  PROVE  \A q \in Procs : Place(q)'
  <1> SUFFICES ASSUME NEW q \in Procs \ {p} PROVE Place(q)'
    OBVIOUS
  <1>1. pc'[q] = pc[q] /\ Place(q)
    BY DEF TypeInv, VarTypes
  <1>2. QED
    BY <1>1 DEF Place

(* A step that makes nothing keeps the counts. *)
LEMMA NumbersKept ==
  ASSUME TypeInv, NEW p \in Procs, NEW to \in Labels, pc' = [pc EXCEPT ![p] = to],
         Len(segs') = Len(segs), fresh' = fresh, \A s \in SemNames : sem'[s].id = sem[s].id,
         \A s \in SemNames : to \in Before(s) => pc[p] \in Before(s)
  PROVE  Numbers'
  <1>1. Makers' = Makers
    BY DEF Makers
  <1>2. ASSUME NEW s \in SemNames PROVE sem'[s].id <= Cardinality(Past(s)')
    <2>1. Past(s) \subseteq Past(s)' /\ Past(s)' \in SUBSET Procs /\ Past(s) \in SUBSET Procs
      BY DEF Past, TypeInv, VarTypes
    <2>2. Cardinality(Past(s)) <= Cardinality(Past(s)')
      BY <2>1, PartOfProcs, FS_Subset
    <2>3. /\ Cardinality(Past(s)) \in Nat /\ Cardinality(Past(s)') \in Nat
          /\ sem[s].id \in Nat /\ sem[s].id <= Cardinality(Past(s))
      BY <2>1, PartOfProcs DEF TypeInv, SemTypes, Numbers
    <2>4. QED
      BY <2>2, <2>3
  <1>3. QED
    BY <1>1, <1>2 DEF TypeInv, Numbers

(* The writes to the struct, field by field. *)
LEMMA WroteSize ==
  ASSUME TypeInv, NEW p \in Procs, pc[p] \in Mapped, NEW v \in {0, Size}, Write(p, "size", v)
  PROVE  /\ segs' \in Seq(Segment) /\ Len(segs') = Len(segs)
         /\ segs'[attached[p]] = [Seg(p) EXCEPT !.size = v]
         /\ \A g \in 1 .. Len(segs) : g # attached[p] => segs'[g] = segs[g]
  <1> DEFINE new == [Seg(p) EXCEPT !.size = v]
  <1>1. new \in Segment
    BY OwnSegment DEF Segment
  <1>2. segs' = [segs EXCEPT ![attached[p]] = new]
    BY DEF Write, Seg
  <1> HIDE DEF new
  <1>3. QED
    BY <1>1, <1>2, Replaced DEF new

LEMMA WroteIn ==
  ASSUME TypeInv, NEW p \in Procs, pc[p] \in Mapped, NEW v \in 0 .. Size - 1, Write(p, "in", v)
  PROVE  /\ segs' \in Seq(Segment) /\ Len(segs') = Len(segs)
         /\ segs'[attached[p]] = [Seg(p) EXCEPT !.in = v]
         /\ \A g \in 1 .. Len(segs) : g # attached[p] => segs'[g] = segs[g]
  <1> DEFINE new == [Seg(p) EXCEPT !.in = v]
  <1>1. new \in Segment
    BY OwnSegment DEF Segment
  <1>2. segs' = [segs EXCEPT ![attached[p]] = new]
    BY DEF Write, Seg
  <1> HIDE DEF new
  <1>3. QED
    BY <1>1, <1>2, Replaced DEF new

LEMMA WroteOut ==
  ASSUME TypeInv, NEW p \in Procs, pc[p] \in Mapped, NEW v \in 0 .. Size - 1, Write(p, "out", v)
  PROVE  /\ segs' \in Seq(Segment) /\ Len(segs') = Len(segs)
         /\ segs'[attached[p]] = [Seg(p) EXCEPT !.out = v]
         /\ \A g \in 1 .. Len(segs) : g # attached[p] => segs'[g] = segs[g]
  <1> DEFINE new == [Seg(p) EXCEPT !.out = v]
  <1>1. new \in Segment
    BY OwnSegment DEF Segment
  <1>2. segs' = [segs EXCEPT ![attached[p]] = new]
    BY DEF Write, Seg
  <1> HIDE DEF new
  <1>3. QED
    BY <1>1, <1>2, Replaced DEF new

LEMMA WroteNproc ==
  ASSUME TypeInv, NEW p \in Procs, pc[p] \in Mapped, NEW v \in Int, Write(p, "nproc", v)
  PROVE  /\ segs' \in Seq(Segment) /\ Len(segs') = Len(segs)
         /\ segs'[attached[p]] = [Seg(p) EXCEPT !.nproc = v]
         /\ \A g \in 1 .. Len(segs) : g # attached[p] => segs'[g] = segs[g]
  <1> DEFINE new == [Seg(p) EXCEPT !.nproc = v]
  <1>1. new \in Segment
    BY OwnSegment DEF Segment
  <1>2. segs' = [segs EXCEPT ![attached[p]] = new]
    BY DEF Write, Seg
  <1> HIDE DEF new
  <1>3. QED
    BY <1>1, <1>2, Replaced DEF new

LEMMA WroteRemoved ==
  ASSUME TypeInv, NEW p \in Procs, pc[p] \in Mapped, NEW v \in BOOLEAN, Write(p, "removed", v)
  PROVE  /\ segs' \in Seq(Segment) /\ Len(segs') = Len(segs)
         /\ segs'[attached[p]] = [Seg(p) EXCEPT !.removed = v]
         /\ \A g \in 1 .. Len(segs) : g # attached[p] => segs'[g] = segs[g]
  <1> DEFINE new == [Seg(p) EXCEPT !.removed = v]
  <1>1. new \in Segment
    BY OwnSegment DEF Segment
  <1>2. segs' = [segs EXCEPT ![attached[p]] = new]
    BY DEF Write, Seg
  <1> HIDE DEF new
  <1>3. QED
    BY <1>1, <1>2, Replaced DEF new

LEMMA WroteBuf ==
  ASSUME TypeInv, NEW p \in Procs, pc[p] \in Mapped, NEW v \in [0 .. Size - 1 -> Chars \cup {Nul}], Write(p, "buf", v)
  PROVE  /\ segs' \in Seq(Segment) /\ Len(segs') = Len(segs)
         /\ segs'[attached[p]] = [Seg(p) EXCEPT !.buf = v]
         /\ \A g \in 1 .. Len(segs) : g # attached[p] => segs'[g] = segs[g]
  <1> DEFINE new == [Seg(p) EXCEPT !.buf = v]
  <1>1. new \in Segment
    BY OwnSegment DEF Segment
  <1>2. segs' = [segs EXCEPT ![attached[p]] = new]
    BY DEF Write, Seg
  <1> HIDE DEF new
  <1>3. QED
    BY <1>1, <1>2, Replaced DEF new

(* A write to a segment keeps the types of the shared memory. *)
LEMMA SegTypesKept ==
  ASSUME TypeInv, segs' \in Seq(Segment), Len(segs') = Len(segs),
         UNCHANGED <<segKey, attached, shmid>>
  PROVE  SegTypes'
  BY DEF TypeInv, SegTypes

(* A step that writes to a segment and goes on, and does nothing else, keeps *)
(* TypeInv.                                                                  *)
LEMMA TypesWrite ==
  ASSUME TypeInv, NEW p \in Procs, NEW to \in Labels, pc' = [pc EXCEPT ![p] = to],
         segs' \in Seq(Segment), Len(segs') = Len(segs),
         UNCHANGED <<segKey, attached, sem, semadj, shmid, fresh, semid, reg, c, typed, got, crashes, breaches>>,
         Place(p)',
         \A s \in SemNames : to \in Before(s) => pc[p] \in Before(s)
  PROVE  TypeInv'
  <1>1. SegTypes'
    BY SegTypesKept
  <1>2. SemTypes'
    BY DEF TypeInv, SemTypes
  <1>3. VarTypes'
    BY DEF TypeInv, VarTypes
  <1>4. Numbers'
    BY NumbersKept
  <1>5. \A q \in Procs : Place(q)'
    BY PlacesKept
  <1>6. QED
    BY <1>1, <1>2, <1>3, <1>4, <1>5 DEF TypeInv

(* The struct is filled in (lines 81-84). *)
LEMMA StructTypes ==
  ASSUME TypeInv, NEW p \in Procs, InitStruct(p)
  PROVE  TypeInv'
  <1>1. UNCHANGED <<segKey, attached, sem, semadj, shmid, fresh, semid, reg, c, typed, got, crashes, breaches>>
    BY DEF InitStruct, locals, history
  <1>2. pc[p] \in {"set_size", "set_out", "set_in", "set_nproc"} /\ pc[p] \in Mapped /\ attached[p] # None
    BY DEF InitStruct, Mapped, InInit, Unmapped, TypeInv, Place
  <1>3. PICK to \in {"set_out", "set_in", "set_nproc", "set_free"} : pc' = [pc EXCEPT ![p] = to]
    BY DEF InitStruct, Goto
  <1>4. segs' \in Seq(Segment) /\ Len(segs') = Len(segs)
    <2>1. CASE pc[p] = "set_size"
      BY <2>1, <1>2, WroteSize DEF InitStruct
    <2>2. CASE pc[p] \in {"set_out", "set_in"}
      <3>1. 0 \in 0 .. Size - 1
        BY BoundAssumption
      <3>2. Write(p, "out", 0) \/ Write(p, "in", 0)
        BY <2>2 DEF InitStruct
      <3>3. QED
        BY <1>2, <3>1, <3>2, WroteOut, WroteIn
    <2>3. CASE pc[p] = "set_nproc"
      <3>1. Write(p, "nproc", 1) /\ 1 \in Int
        BY <2>3 DEF InitStruct
      <3>2. QED
        BY <3>1, <1>2, WroteNproc
    <2>4. QED
      BY <1>2, <2>1, <2>2, <2>3
  <1>5. to \in Labels /\ Place(p)'
    BY <1>1, <1>2, <1>3 DEF Labels, InInit, Place, TypeInv, VarTypes
  <1>6. \A s \in SemNames : to \notin Before(s)
    BY <1>3 DEF Before
  <1>7. QED
    BY <1>1, <1>3, <1>4, <1>5, <1>6, TypesWrite

(* The writes of nproc, of a slot and of the indices. *)
LEMMA RingWriteTypes ==
  ASSUME TypeInv, NEW p \in Procs,
         NprocInc(p) \/ PutStore(p) \/ PutIn(p) \/ GetOut(p) \/ NprocDec(p)
  PROVE  TypeInv'
  <1>1. UNCHANGED <<segKey, attached, sem, semadj, shmid, fresh, semid, reg, c, typed, got, crashes, breaches>>
    BY DEF NprocInc, PutStore, PutIn, GetOut, NprocDec, locals, history
  <1>2. /\ pc[p] \in {"nproc_inc", "put_store", "put_in", "get_out", "nproc_dec"}
        /\ pc[p] \in Mapped /\ attached[p] # None
    BY DEF NprocInc, PutStore, PutIn, GetOut, NprocDec, Mapped, InInit, InPut, InGet, Unmapped, TypeInv, Place
  <1>3. PICK to \in {"set_size", "loop", "put_in", "put_unlock", "get_unlock", "shm_rmid"} :
             pc' = [pc EXCEPT ![p] = to] /\ (to = "put_in" => pc[p] = "put_store")
    BY DEF NprocInc, PutStore, PutIn, GetOut, NprocDec, Goto
  <1>4. segs' \in Seq(Segment) /\ Len(segs') = Len(segs)
    <2>1. CASE NprocInc(p) \/ NprocDec(p)
      <3>1. reg[p] \in Int /\ reg[p] + 1 \in Int
        BY DEF TypeInv, VarTypes
      <3>2. QED
        BY <2>1, <3>1, <1>2, WroteNproc DEF NprocInc, NprocDec
    <2>2. CASE PutIn(p)
      BY <2>2, <1>2, WroteIn DEF PutIn, TypeInv, Place
    <2>3. CASE PutStore(p)
      <3>1. Seg(p).in \in 0 .. Size - 1 /\ c[p] \in Chars \cup {Nul}
            /\ Seg(p).buf \in [0 .. Size - 1 -> Chars \cup {Nul}]
        BY OwnSegment, <1>2 DEF Segment, TypeInv, VarTypes
      <3>2. [Seg(p).buf EXCEPT ![Seg(p).in] = c[p]] \in [0 .. Size - 1 -> Chars \cup {Nul}]
        BY <3>1
      <3>3. QED
        BY <2>3, <3>2, <1>2, WroteBuf DEF PutStore
    <2>4. CASE GetOut(p)
      <3>1. Seg(p).size = Size /\ Seg(p).out \in 0 .. Size - 1
        BY <2>4, OwnSegment, <1>2 DEF Segment, GetOut
      <3>2. (Seg(p).out + 1) % Seg(p).size \in 0 .. Size - 1
        BY <3>1, BoundAssumption
      <3>3. QED
        BY <2>4, <3>2, <1>2, WroteOut DEF GetOut
    <2>5. QED
      BY <2>1, <2>2, <2>3, <2>4
  <1>5. to \in Labels /\ Place(p)'
    BY <1>1, <1>2, <1>3 DEF Labels, InInit, InPut, InGet, InDestroy, Place, TypeInv, VarTypes
  <1>6. \A s \in SemNames : to \notin Before(s)
    BY <1>3 DEF Before
  <1>7. QED
    BY <1>1, <1>3, <1>4, <1>5, <1>6, TypesWrite

(* The steps that change neither the objects of the kernel nor what the *)
(* program has of them.                                                 *)
LEMMA LocalTypes ==
  ASSUME TypeInv, NEW p \in Procs,
         NprocLoad(p) \/ PutNext(p) \/ NprocRead(p) \/ (p \in Senders /\ Type(p))
           \/ (p \in Receivers /\ (CallGet(p) \/ GetFetch(p)))
  PROVE  TypeInv'
  <1>1. UNCHANGED <<segKey, segs, attached, sem, semadj, shmid, fresh, semid, crashes>>
    BY DEF NprocLoad, PutNext, NprocRead, Type, CallGet, GetFetch, kernel, locals, history
  <1>2. SegTypes'
    BY <1>1 DEF TypeInv, SegTypes
  <1>3. SemTypes'
    BY <1>1 DEF TypeInv, SemTypes
  <1>4. pc[p] \in {"nproc_load", "put_next", "nproc_read", "loop", "get_fetch"}
    BY DEF NprocLoad, PutNext, NprocRead, Type, CallGet, GetFetch
  <1>5. PICK to \in {"nproc_inc", "put_lock", "nproc_dec", "exit", "put_free", "get_full",
                     "get_out", "nproc_read", "loop"} :
          /\ pc' = [pc EXCEPT ![p] = to]
          /\ to \in Mapped => attached[p] # None
          /\ to = "put_lock" => PutNext(p)
    <2>1. pc[p] \in Mapped => attached[p] # None
      BY DEF TypeInv, Place
    <2>2. QED
      BY <2>1 DEF NprocLoad, PutNext, NprocRead, Type, CallGet, GetFetch, Goto, AfterCall, IS_MEM_OK,
          Mapped, InInit, InPut, InGet, Unmapped
  <1>6. to \in Labels /\ \A s \in SemNames : to \notin Before(s)
    BY DEF Labels, InInit, InPut, InGet, InDestroy, Before
  <1>7. Numbers'
    BY <1>1, <1>5, <1>6, NumbersKept
  <1>8. c' \in [Procs -> Chars \cup {Nul}] /\ typed' \in [Senders -> Seq(Chars)]
        /\ got' \in [Receivers -> Seq(Chars \cup {Nul})]
        /\ breaches' \subseteq {"racing_launch", "early_quit", "flags"}
    <2>1. CASE NprocLoad(p) \/ PutNext(p) \/ NprocRead(p) \/ CallGet(p)
      BY <2>1 DEF NprocLoad, PutNext, NprocRead, CallGet, locals, history, TypeInv, VarTypes
    <2>2. CASE p \in Senders /\ Type(p)
      BY <2>2 DEF Type, Note, TypeInv, VarTypes
    <2>3. CASE p \in Receivers /\ GetFetch(p)
      <3>1. Seg(p).buf[Seg(p).out] \in Chars \cup {Nul}
        BY <2>3, OwnSegment DEF GetFetch, Segment, Mapped, InGet
      <3>2. QED
        BY <2>3, <3>1 DEF GetFetch, TypeInv, VarTypes
    <2>4. QED
      BY <2>1, <2>2, <2>3
  <1>9. /\ reg' \in [Procs -> Int] /\ (PutNext(p) => reg'[p] \in 0 .. Size - 1)
        /\ \A q \in Procs \ {p} : reg'[q] = reg[q]
    <2>1. CASE NprocLoad(p) \/ NprocRead(p)
      <3>1. CASE pc[p] = "nproc_load"
        <4>1. Seg(p).nproc \in Int
          BY <3>1, OwnSegment DEF Segment, Mapped, InInit, Unmapped
        <4>2. QED
          BY <2>1, <3>1, <4>1 DEF NprocLoad, NprocRead, PutNext, TypeInv, VarTypes
      <3>2. CASE pc[p] = "nproc_read" /\ attached[p] = None
        BY <2>1, <3>2 DEF NprocLoad, NprocRead, PutNext, IS_MEM_OK, TypeInv, VarTypes
      <3>3. CASE pc[p] = "nproc_read" /\ attached[p] # None
        <4>1. Seg(p) \in Segment
          BY <3>3 DEF Seg, TypeInv, SegTypes, None
        <4>2. Seg(p).nproc - 1 \in Int
          BY <4>1 DEF Segment
        <4>3. QED
          BY <2>1, <3>3, <4>2 DEF NprocLoad, NprocRead, PutNext, IS_MEM_OK, TypeInv, VarTypes
      <3>4. QED
        BY <2>1, <3>1, <3>2, <3>3 DEF NprocLoad, NprocRead
    <2>2. CASE PutNext(p)
      <3>1. Seg(p).size = Size /\ Seg(p).in \in 0 .. Size - 1
        BY <2>2, OwnSegment DEF Segment, PutNext, Mapped, InPut
      <3>2. (Seg(p).in + 1) % Seg(p).size \in 0 .. Size - 1
        BY <3>1, BoundAssumption
      <3>3. QED
        BY <2>2, <3>2, BoundAssumption DEF PutNext, TypeInv, VarTypes
    <2>3. CASE Type(p) \/ CallGet(p) \/ GetFetch(p)
      BY <2>3 DEF Type, CallGet, GetFetch, PutNext, locals, TypeInv, VarTypes
    <2>4. QED
      BY <2>1, <2>2, <2>3
  <1>10. VarTypes'
    BY <1>1, <1>5, <1>6, <1>8, <1>9 DEF TypeInv, VarTypes
  <1>11. Place(p)'
    BY <1>1, <1>5, <1>9 DEF Place, TypeInv, VarTypes
  <1>12. \A q \in Procs : Place(q)'
    BY <1>1, <1>5, <1>6, <1>9, <1>11, PlacesKept
  <1>13. QED
    BY <1>2, <1>3, <1>7, <1>10, <1>12 DEF TypeInv

(* What a semop does: it is done, or it fails on a semaphore that is gone or *)
(* by a flag.                                                                *)
LEMMA SemopFacts ==
  ASSUME TypeInv, NEW p \in Procs, NEW s \in SemNames, NEW d \in {-1, 1}, NEW next \in Labels,
         _semop(p, s, d, next)
  PROVE  /\ UNCHANGED <<segKey, attached, shmid, fresh, semid, typed, got, crashes>>
         /\ sem' \in [SemNames -> [id : Nat, val : Nat, there : BOOLEAN]]
         /\ \A t \in SemNames : sem'[t].id = sem[t].id /\ sem'[t].there = sem[t].there
         /\ \A t \in SemNames \ {s} : sem'[t] = sem[t]
         /\ semadj' \in [Procs -> [SemNames -> Int]]
         /\ breaches \subseteq breaches' /\ breaches' \subseteq breaches \cup {"flags"}
         /\ \/ /\ Valid(p, s) /\ sem'[s].val = sem[s].val + d /\ pc' = [pc EXCEPT ![p] = next]
               /\ "flags" \notin breaches' => semadj' = semadj
            \/ /\ ~ Valid(p, s) \/ "flags" \in breaches'
               /\ sem' = sem /\ semadj' = semadj /\ pc' = [pc EXCEPT ![p] = AfterCall(c[p])]
  <1>1. UNCHANGED <<segKey, attached, shmid, fresh, semid, typed, got, crashes>>
    BY DEF _semop
  <1>2. breaches \subseteq breaches' /\ breaches' \subseteq breaches \cup {"flags"}
    BY DEF _semop, Note
  <1>3. /\ sem \in [SemNames -> [id : Nat, val : Nat, there : BOOLEAN]]
        /\ semadj \in [Procs -> [SemNames -> Int]]
    BY DEF TypeInv, SemTypes
  <1>4. CASE /\ Valid(p, s) /\ sem[s].val + d >= 0
             /\ sem' = [sem EXCEPT ![s].val = @ + d]
             /\ \E flg \in SemFlags :
                  /\ semadj' = IF "SEM_UNDO" \in flg
                                 THEN [semadj EXCEPT ![p][s] = @ - d] ELSE semadj
                  /\ Note("flags", "SEM_UNDO" \in flg)
             /\ Goto(p, next)
    <2> DEFINE new == [sem[s] EXCEPT !.val = @ + d]
    <2>1. /\ new \in [id : Nat, val : Nat, there : BOOLEAN]
          /\ new.id = sem[s].id /\ new.there = sem[s].there /\ new.val = sem[s].val + d
      BY <1>3, <1>4
    <2>2. sem' = [sem EXCEPT ![s] = new]
      BY <1>4
    <2> HIDE DEF new
    <2>3. /\ sem' \in [SemNames -> [id : Nat, val : Nat, there : BOOLEAN]]
          /\ \A t \in SemNames : sem'[t].id = sem[t].id /\ sem'[t].there = sem[t].there
          /\ \A t \in SemNames \ {s} : sem'[t] = sem[t]
          /\ sem'[s].val = sem[s].val + d
      BY <2>1, <2>2, <1>3
    <2>4. semadj[p][s] - d \in Int
      BY <1>3
    <2>5. /\ semadj' \in [Procs -> [SemNames -> Int]]
          /\ "flags" \notin breaches' => semadj' = semadj
      BY <1>4, <2>4, <1>3 DEF Note
    <2>6. QED
      BY <1>1, <1>2, <1>4, <2>3, <2>5 DEF Goto
  <1>5. CASE /\ \/ ~ Valid(p, s) /\ UNCHANGED breaches
                \/ /\ Valid(p, s) /\ sem[s].val + d < 0
                   /\ \E flg \in SemFlags : "IPC_NOWAIT" \in flg
                   /\ Note("flags", TRUE)
             /\ Goto(p, AfterCall(c[p]))
             /\ UNCHANGED <<sem, semadj>>
    BY <1>1, <1>2, <1>3, <1>5 DEF Goto, Note
  <1>6. QED
    BY <1>4, <1>5 DEF _semop

(* One of the eight calls of semop in buf_put and buf_get. *)
SemopAt(p, here, s, d, next) ==
  pc[p] = here /\ _semop(p, s, d, next) /\ UNCHANGED <<segs, reg, c>>

(* The eight calls, at their places in buf_put and buf_get. *)
LEMMA SemopSteps ==
  ASSUME TypeInv, NEW p \in Procs,
         PutFree(p) \/ PutLock(p) \/ PutUnlock(p) \/ PutFull(p)
           \/ GetFull(p) \/ GetLock(p) \/ GetUnlock(p) \/ GetFree(p)
  PROVE  \E here \in InPut \cup InGet, s \in SemNames, d \in {-1, 1},
            next \in {"put_next", "put_store", "put_full", "get_lock", "get_fetch",
                      "get_free", "loop", "nproc_read"} :
           /\ SemopAt(p, here, s, d, next)
           /\ next = "put_store" => here = "put_lock"
           /\ next = "get_free" => here = "get_unlock"
           /\ next \in {"loop", "nproc_read"} =>
                next = AfterCall(c[p]) /\ here \in {"put_full", "get_free"}
           /\ here \in InPut => PutFree(p) \/ PutLock(p) \/ PutUnlock(p) \/ PutFull(p)
  <1> USE DEF SemopAt, InPut, InGet, SemNames, AfterCall
  <1>1. CASE PutFree(p)
    BY <1>1 DEF PutFree
  <1>2. CASE PutLock(p)
    BY <1>2 DEF PutLock
  <1>3. CASE PutUnlock(p)
    BY <1>3 DEF PutUnlock
  <1>4. CASE PutFull(p)
    BY <1>4 DEF PutFull
  <1>5. CASE GetFull(p)
    BY <1>5 DEF GetFull
  <1>6. CASE GetLock(p)
    BY <1>6 DEF GetLock
  <1>7. CASE GetUnlock(p)
    BY <1>7 DEF GetUnlock
  <1>8. CASE GetFree(p)
    BY <1>8 DEF GetFree
  <1>9. QED
    BY <1>1, <1>2, <1>3, <1>4, <1>5, <1>6, <1>7, <1>8

(* A semop keeps TypeInv. *)
LEMMA SemopTypes ==
  ASSUME TypeInv, NEW p \in Procs, NEW here \in InPut \cup InGet, NEW s \in SemNames,
         NEW d \in {-1, 1},
         NEW next \in {"put_next", "put_store", "put_full", "get_lock", "get_fetch",
                       "get_free", "loop", "nproc_read"},
         SemopAt(p, here, s, d, next), next = "put_store" => here = "put_lock"
  PROVE  TypeInv'
  <1>1. pc[p] = here /\ _semop(p, s, d, next) /\ UNCHANGED <<segs, reg, c>>
    BY DEF SemopAt
  <1>2. next \in Labels
    BY DEF Labels, InPut, InGet, InDestroy
  <1>3. /\ UNCHANGED <<segKey, attached, shmid, fresh, semid, typed, got, crashes>>
        /\ sem' \in [SemNames -> [id : Nat, val : Nat, there : BOOLEAN]]
        /\ \A t \in SemNames : sem'[t].id = sem[t].id
        /\ semadj' \in [Procs -> [SemNames -> Int]]
        /\ breaches' \subseteq breaches \cup {"flags"}
        /\ pc' = [pc EXCEPT ![p] = next] \/ pc' = [pc EXCEPT ![p] = AfterCall(c[p])]
    BY <1>1, <1>2, SemopFacts
  <1>4. PICK to \in {next, "loop", "nproc_read"} : pc' = [pc EXCEPT ![p] = to]
    BY <1>3 DEF AfterCall
  <1>5. to \in Labels /\ \A t \in SemNames : to \notin Before(t)
    BY <1>2 DEF Before, Labels, InDestroy
  <1>6. SegTypes'
    BY <1>1, <1>3 DEF TypeInv, SegTypes
  <1>7. SemTypes'
    BY <1>3 DEF TypeInv, SemTypes
  <1>8. VarTypes'
    BY <1>1, <1>3, <1>4, <1>5 DEF TypeInv, VarTypes
  <1>9. Numbers'
    BY <1>1, <1>3, <1>4, <1>5, NumbersKept
  <1>10. Place(p)'
    <2>1. attached[p] # None /\ (to = "put_store" => reg[p] \in 0 .. Size - 1)
      BY <1>1 DEF TypeInv, Place, Mapped
    <2>2. pc'[p] = to /\ to \notin {"start", "attach", "put_lock", "put_in"}
      BY <1>4 DEF TypeInv, VarTypes
    <2>3. QED
      BY <1>1, <1>3, <2>1, <2>2 DEF Place
  <1>11. \A q \in Procs : Place(q)'
    BY <1>1, <1>3, <1>4, <1>5, <1>10, PlacesKept
  <1>12. QED
    BY <1>6, <1>7, <1>8, <1>9, <1>11 DEF TypeInv

(* What a successful semctl leaves, SETVAL or IPC_RMID. *)
LEMMA SetvalFacts ==
  ASSUME TypeInv, NEW p \in Procs, NEW s \in SemNames, NEW v \in Nat, NEW b \in BOOLEAN,
         sem' = [sem EXCEPT ![s] = [id |-> sem[s].id, val |-> v, there |-> b]],
         semadj' = [q \in Procs |-> [semadj[q] EXCEPT ![s] = 0]]
  PROVE  /\ sem' \in [SemNames -> [id : Nat, val : Nat, there : BOOLEAN]]
         /\ semadj' \in [Procs -> [SemNames -> Int]]
         /\ sem'[s].val = v /\ sem'[s].there = b
         /\ \A t \in SemNames : sem'[t].id = sem[t].id
         /\ \A t \in SemNames \ {s} : sem'[t] = sem[t]
         /\ \A q \in Procs, t \in SemNames : semadj'[q][t] = IF t = s THEN 0 ELSE semadj[q][t]
  BY DEF TypeInv, SemTypes

(* The SETVALs of init_semaphores: done on a semaphore that is there, in this *)
(* order.                                                                     *)
LEMMA InitSemaphoresFacts ==
  ASSUME TypeInv, NEW p \in Procs, InitSemaphores(p)
  PROVE  \E s \in SemNames, here \in {"set_free", "set_full", "set_mutex"}, v \in Nat,
            next \in {"set_full", "set_mutex", "loop"} :
           /\ pc[p] = here
           /\ \/ /\ Valid(p, s) /\ pc' = [pc EXCEPT ![p] = next]
                 /\ sem' = [sem EXCEPT ![s] = [id |-> sem[s].id, val |-> v, there |-> sem[s].there]]
                 /\ semadj' = [q \in Procs |-> [semadj[q] EXCEPT ![s] = 0]]
              \/ ~ Valid(p, s) /\ pc' = [pc EXCEPT ![p] = "loop"] /\ sem' = sem /\ semadj' = semadj
           /\ UNCHANGED <<segKey, segs, attached, shmid, fresh, semid, reg, c, typed, got, crashes, breaches>>
           /\ \/ here = "set_free" /\ s = "free" /\ v = Size /\ next = "set_full"
              \/ here = "set_full" /\ s = "full" /\ v = 0 /\ next = "set_mutex"
              \/ here = "set_mutex" /\ s = "mutex" /\ v = 1 /\ next = "loop"
  <1>1. UNCHANGED <<segKey, segs, attached, shmid, fresh, semid, reg, c, typed, got, crashes, breaches>>
    BY DEF InitSemaphores, locals, history
  <1>2. ASSUME NEW s \in SemNames, NEW v \in Nat
        PROVE  [sem EXCEPT ![s].val = v]
                 = [sem EXCEPT ![s] = [id |-> sem[s].id, val |-> v, there |-> sem[s].there]]
    <2> DEFINE new == [sem[s] EXCEPT !.val = v]
    <2>1. sem[s] \in [id : Nat, val : Nat, there : BOOLEAN]
      BY DEF TypeInv, SemTypes
    <2>2. new = [id |-> sem[s].id, val |-> v, there |-> sem[s].there]
      BY <2>1
    <2>3. [sem EXCEPT ![s].val = v] = [sem EXCEPT ![s] = new]
      OBVIOUS
    <2> HIDE DEF new
    <2>4. QED
      BY <2>2, <2>3
  <1>3. Size \in Nat /\ 0 \in Nat /\ 1 \in Nat
    BY BoundAssumption
  <1>4. CASE _setval(p, "free", Size, "set_free", "set_full")
    BY <1>1, <1>2, <1>3, <1>4 DEF _setval, SemNames, Goto
  <1>5. CASE _setval(p, "full", 0, "set_full", "set_mutex")
    BY <1>1, <1>2, <1>3, <1>5 DEF _setval, SemNames, Goto
  <1>6. CASE _setval(p, "mutex", 1, "set_mutex", "loop")
    BY <1>1, <1>2, <1>3, <1>6 DEF _setval, SemNames, Goto
  <1>7. QED
    BY <1>4, <1>5, <1>6 DEF InitSemaphores

(* The IPC_RMIDs of buf_destroy: the first one that fails ends them. *)
LEMMA RemoveSemaphoresFacts ==
  ASSUME TypeInv, NEW p \in Procs, RemoveSemaphores(p)
  PROVE  \E s \in SemNames, here \in {"rmid_free", "rmid_full", "rmid_mutex"},
            next \in {"rmid_full", "rmid_mutex", "exit"} :
           /\ pc[p] = here
           /\ \/ /\ Valid(p, s) /\ pc' = [pc EXCEPT ![p] = next]
                 /\ sem' = [sem EXCEPT ![s] = [id |-> sem[s].id, val |-> 0, there |-> FALSE]]
                 /\ semadj' = [q \in Procs |-> [semadj[q] EXCEPT ![s] = 0]]
              \/ ~ Valid(p, s) /\ pc' = [pc EXCEPT ![p] = "exit"] /\ sem' = sem /\ semadj' = semadj
           /\ UNCHANGED <<segKey, segs, attached, shmid, fresh, semid, reg, c, typed, got, crashes, breaches>>
           /\ \/ here = "rmid_free" /\ s = "free" /\ next = "rmid_full"
              \/ here = "rmid_full" /\ s = "full" /\ next = "rmid_mutex"
              \/ here = "rmid_mutex" /\ s = "mutex" /\ next = "exit"
  <1>1. UNCHANGED <<segKey, segs, attached, shmid, fresh, semid, reg, c, typed, got, crashes, breaches>>
    BY DEF RemoveSemaphores, locals, history
  <1>2. ASSUME NEW s \in SemNames
        PROVE  [sem EXCEPT ![s].there = FALSE, ![s].val = 0]
                 = [sem EXCEPT ![s] = [id |-> sem[s].id, val |-> 0, there |-> FALSE]]
    <2> DEFINE mid == [sem[s] EXCEPT !.there = FALSE]
               new == [sem[s] EXCEPT !.there = FALSE, !.val = 0]
    <2>1. sem[s] \in [id : Nat, val : Nat, there : BOOLEAN]
      BY DEF TypeInv, SemTypes
    <2>2. /\ mid \in [id : Nat, val : Nat, there : BOOLEAN]
          /\ mid.id = sem[s].id /\ mid.there = FALSE
      BY <2>1
    <2>3. new = [mid EXCEPT !.val = 0]
      OBVIOUS
    <2> HIDE DEF mid
    <2>a. /\ new \in [id : Nat, val : Nat, there : BOOLEAN]
          /\ new.id = sem[s].id /\ new.there = FALSE /\ new.val = 0
      <3> HIDE DEF new
      <3>1. QED
        BY <2>2, <2>3
    <2>4. new = [id |-> sem[s].id, val |-> 0, there |-> FALSE]
      <3> HIDE DEF new
      <3>1. QED
        BY <2>a
    <2>5. [sem EXCEPT ![s].there = FALSE, ![s].val = 0] = [sem EXCEPT ![s] = new]
      BY DEF TypeInv, SemTypes
    <2> HIDE DEF new
    <2>6. QED
      BY <2>4, <2>5
  <1>4. CASE _semrmid(p, "free", "rmid_free", "rmid_full")
    BY <1>1, <1>2, <1>4 DEF _semrmid, SemNames, Goto
  <1>5. CASE _semrmid(p, "full", "rmid_full", "rmid_mutex")
    BY <1>1, <1>2, <1>5 DEF _semrmid, SemNames, Goto
  <1>6. CASE _semrmid(p, "mutex", "rmid_mutex", "exit")
    BY <1>1, <1>2, <1>6 DEF _semrmid, SemNames, Goto
  <1>7. QED
    BY <1>4, <1>5, <1>6 DEF RemoveSemaphores

(* The calls of semctl keep TypeInv. *)
LEMMA SemctlTypes ==
  ASSUME TypeInv, NEW p \in Procs, InitSemaphores(p) \/ RemoveSemaphores(p)
  PROVE  TypeInv'
  <1> DEFINE Here == {"set_free", "set_full", "set_mutex", "rmid_free", "rmid_full", "rmid_mutex"}
  <1>1. PICK to \in {"set_full", "set_mutex", "loop", "rmid_full", "rmid_mutex", "exit"} :
          /\ pc' = [pc EXCEPT ![p] = to] /\ pc[p] \in Here
          /\ UNCHANGED <<segKey, segs, attached, shmid, fresh, semid, reg, c, typed, got, crashes, breaches>>
          /\ sem' \in [SemNames -> [id : Nat, val : Nat, there : BOOLEAN]]
          /\ semadj' \in [Procs -> [SemNames -> Int]]
          /\ \A t \in SemNames : sem'[t].id = sem[t].id
          /\ to \in Mapped => pc[p] \in Mapped
    <2>0. /\ sem \in [SemNames -> [id : Nat, val : Nat, there : BOOLEAN]]
          /\ semadj \in [Procs -> [SemNames -> Int]]
      BY DEF TypeInv, SemTypes
    <2>1. CASE InitSemaphores(p)
      <3>1. PICK s \in SemNames, here \in {"set_free", "set_full", "set_mutex"}, v \in Nat,
            next \in {"set_full", "set_mutex", "loop"} :
           /\ pc[p] = here
           /\ \/ /\ pc' = [pc EXCEPT ![p] = next]
                 /\ sem' = [sem EXCEPT ![s] = [id |-> sem[s].id, val |-> v, there |-> sem[s].there]]
                 /\ semadj' = [q \in Procs |-> [semadj[q] EXCEPT ![s] = 0]]
              \/ pc' = [pc EXCEPT ![p] = "loop"] /\ sem' = sem /\ semadj' = semadj
           /\ UNCHANGED <<segKey, segs, attached, shmid, fresh, semid, reg, c, typed, got, crashes, breaches>>
        BY <2>1, InitSemaphoresFacts
      <3>2. pc[p] \in Mapped
        BY <3>1 DEF Mapped, InInit, Unmapped
      <3>3. sem[s].there \in BOOLEAN
        BY <2>0
      <3>4. CASE pc' = [pc EXCEPT ![p] = "loop"] /\ sem' = sem /\ semadj' = semadj
        BY <3>1, <3>2, <3>4, <2>0
      <3>5. CASE /\ pc' = [pc EXCEPT ![p] = next]
                 /\ sem' = [sem EXCEPT ![s] = [id |-> sem[s].id, val |-> v, there |-> sem[s].there]]
                 /\ semadj' = [q \in Procs |-> [semadj[q] EXCEPT ![s] = 0]]
        <4>1. /\ sem' \in [SemNames -> [id : Nat, val : Nat, there : BOOLEAN]]
              /\ semadj' \in [Procs -> [SemNames -> Int]]
              /\ \A t \in SemNames : sem'[t].id = sem[t].id
          BY <3>3, <3>5, SetvalFacts
        <4>2. QED
          BY <3>1, <3>2, <3>5, <4>1
      <3>6. QED
        BY <3>1, <3>4, <3>5
    <2>2. CASE RemoveSemaphores(p)
      <3>1. PICK s \in SemNames, here \in {"rmid_free", "rmid_full", "rmid_mutex"},
            next \in {"rmid_full", "rmid_mutex", "exit"} :
           /\ pc[p] = here
           /\ \/ /\ pc' = [pc EXCEPT ![p] = next]
                 /\ sem' = [sem EXCEPT ![s] = [id |-> sem[s].id, val |-> 0, there |-> FALSE]]
                 /\ semadj' = [q \in Procs |-> [semadj[q] EXCEPT ![s] = 0]]
              \/ pc' = [pc EXCEPT ![p] = "exit"] /\ sem' = sem /\ semadj' = semadj
           /\ UNCHANGED <<segKey, segs, attached, shmid, fresh, semid, reg, c, typed, got, crashes, breaches>>
        BY <2>2, RemoveSemaphoresFacts
      <3>2. next \notin Mapped /\ "exit" \notin Mapped
        BY DEF Mapped, InInit, InPut, InGet
      <3>4. CASE pc' = [pc EXCEPT ![p] = "exit"] /\ sem' = sem /\ semadj' = semadj
        BY <3>1, <3>2, <3>4, <2>0
      <3>5. CASE /\ pc' = [pc EXCEPT ![p] = next]
                 /\ sem' = [sem EXCEPT ![s] = [id |-> sem[s].id, val |-> 0, there |-> FALSE]]
                 /\ semadj' = [q \in Procs |-> [semadj[q] EXCEPT ![s] = 0]]
        <4>1. /\ sem' \in [SemNames -> [id : Nat, val : Nat, there : BOOLEAN]]
              /\ semadj' \in [Procs -> [SemNames -> Int]]
              /\ \A t \in SemNames : sem'[t].id = sem[t].id
          BY <3>5, SetvalFacts
        <4>2. QED
          BY <3>1, <3>2, <3>5, <4>1
      <3>6. QED
        BY <3>1, <3>4, <3>5
    <2>3. QED
      BY <2>1, <2>2
  <1>2. to \in Labels /\ \A t \in SemNames : to \notin Before(t)
    BY DEF Before, Labels, InDestroy, InInit
  <1>3. SegTypes'
    BY <1>1 DEF TypeInv, SegTypes
  <1>4. SemTypes'
    BY <1>1 DEF TypeInv, SemTypes
  <1>5. VarTypes'
    BY <1>1, <1>2 DEF TypeInv, VarTypes
  <1>6. Numbers'
    BY <1>1, <1>2, NumbersKept
  <1>7. Place(p)'
    BY <1>1 DEF TypeInv, Place, VarTypes
  <1>8. \A q \in Procs : Place(q)'
    BY <1>1, <1>2, <1>7, PlacesKept
  <1>9. QED
    BY <1>3, <1>4, <1>5, <1>6, <1>8 DEF TypeInv

(* An exit or a kill keeps TypeInv: the kernel detaches and applies the *)
(* adjustments.                                                         *)
LEMMA EndTypes ==
  ASSUME TypeInv, NEW p \in Procs, Exit(p) \/ Crash(p)
  PROVE  TypeInv'
  <1>1. PICK to \in Ended : End(p, to)
    BY DEF Exit, Crash, Ended
  <1>2. /\ UNCHANGED <<segKey, segs, shmid, fresh, semid, reg, c, typed, got, breaches>>
        /\ pc' = [pc EXCEPT ![p] = to] /\ attached' = [attached EXCEPT ![p] = None]
        /\ semadj' = [semadj EXCEPT ![p] = [s \in SemNames |-> 0]]
    BY <1>1 DEF End, locals, Goto
  <1>3. crashes' \in 0 .. MaxCrashes
    BY BoundAssumption DEF Exit, Crash, TypeInv, VarTypes
  <1>4. ASSUME NEW s \in SemNames
        PROVE  /\ sem'[s] \in [id : Nat, val : Nat, there : BOOLEAN]
               /\ sem'[s].id = sem[s].id
    <2>1. sem[s] \in [id : Nat, val : Nat, there : BOOLEAN] /\ semadj[p][s] \in Int
      BY DEF TypeInv, SemTypes
    <2>2. PICK v \in Nat : v = IF sem[s].val + semadj[p][s] > 0
                                 THEN sem[s].val + semadj[p][s] ELSE 0
      BY <2>1
    <2>3. sem'[s] = [sem[s] EXCEPT !.val = v]
      BY <1>1, <2>2 DEF End
    <2>4. QED
      BY <2>1, <2>3
  <1>5. SemTypes'
    <2>1. sem' \in [SemNames -> [id : Nat, val : Nat, there : BOOLEAN]]
      BY <1>1, <1>4 DEF End
    <2>2. QED
      BY <1>2, <1>4, <2>1 DEF TypeInv, SemTypes
  <1>6. to \in Labels /\ \A s \in SemNames : to \notin Before(s)
    BY DEF Labels, Ended, Before
  <1>7. SegTypes'
    BY <1>2 DEF TypeInv, SegTypes, None
  <1>8. VarTypes'
    BY <1>2, <1>3, <1>6 DEF TypeInv, VarTypes
  <1>9. Numbers'
    BY <1>2, <1>4, <1>6, NumbersKept
  <1>10. Place(p)'
    BY <1>2 DEF Place, Ended, Mapped, InInit, InPut, InGet, TypeInv, VarTypes
  <1>11. \A q \in Procs : Place(q)'
    BY <1>2, <1>6, <1>10, PlacesKept DEF TypeInv, SegTypes
  <1>12. QED
    BY <1>5, <1>7, <1>8, <1>9, <1>11 DEF TypeInv

(* The other steps of buf_destroy keep TypeInv. *)
LEMMA LeaveTypes ==
  ASSUME TypeInv, NEW p \in Procs, ShmRmid(p) \/ Detach(p)
  PROVE  TypeInv'
  <1>1. /\ UNCHANGED <<sem, semadj, shmid, fresh, semid, reg, c, typed, got, crashes, breaches>>
        /\ pc[p] \in {"shm_rmid", "detach"}
    BY DEF ShmRmid, Detach, locals, history
  <1>2. PICK to \in {"detach", "rmid_free", "exit"} :
          pc' = [pc EXCEPT ![p] = to] /\ (to = "detach" => pc[p] = "shm_rmid" /\ attached' = attached)
    BY DEF ShmRmid, Detach, Goto
  <1>3. to \in Labels /\ \A s \in SemNames : to \notin Before(s)
    BY DEF Labels, InDestroy, Before
  <1>4. segs' \in Seq(Segment) /\ Len(segs') = Len(segs)
    <2>1. CASE ShmRmid(p)
      <3>1. Write(p, "removed", TRUE) /\ TRUE \in BOOLEAN /\ pc[p] \in Mapped
        BY <2>1 DEF ShmRmid, Mapped
      <3>2. QED
        BY <3>1, WroteRemoved
    <2>2. CASE Detach(p)
      BY <2>2 DEF Detach, TypeInv, SegTypes
    <2>3. QED
      BY <2>1, <2>2
  <1>5. segKey' \in {segKey, None} /\ attached' \in {attached, [attached EXCEPT ![p] = None]}
    BY DEF ShmRmid, Detach
  <1>6. SegTypes'
    <2>1. 0 \in 0 .. Len(segs)
      BY DEF TypeInv, SegTypes
    <2>2. segKey' \in 0 .. Len(segs) /\ attached' \in [Procs -> 0 .. Len(segs)]
      BY <1>5, <2>1 DEF TypeInv, SegTypes, None
    <2>3. QED
      BY <1>1, <1>4, <2>2 DEF TypeInv, SegTypes
  <1>7. SemTypes'
    BY <1>1 DEF TypeInv, SemTypes
  <1>8. VarTypes'
    BY <1>1, <1>2, <1>3 DEF TypeInv, VarTypes
  <1>9. Numbers'
    BY <1>1, <1>2, <1>3, <1>4, NumbersKept
  <1>10. Place(p)'
    BY <1>1, <1>2 DEF Place, Mapped, InInit, InPut, InGet, TypeInv, VarTypes
  <1>11. \A q \in Procs : Place(q)'
    BY <1>1, <1>2, <1>3, <1>5, <1>10, PlacesKept DEF TypeInv, SegTypes
  <1>12. QED
    BY <1>6, <1>7, <1>8, <1>9, <1>11 DEF TypeInv

(* A new segment is zero everywhere. *)
LEMMA ZeroedIsSegment == ZeroedSegment \in Segment
  <1>1. 0 \in 0 .. Size - 1
    BY BoundAssumption
  <1>2. QED
    BY <1>1 DEF ZeroedSegment, Segment

(* shmget and shmat keep TypeInv; the program that makes a segment is one *)
(* more maker.                                                            *)
LEMMA ShmTypes ==
  ASSUME TypeInv, NEW p \in Procs, ShmCreate(p) \/ ShmExisting(p) \/ Attach(p)
  PROVE  TypeInv'
  <1>1. /\ UNCHANGED <<sem, semadj, semid, reg, c, typed, got, crashes>>
        /\ pc[p] \in Unmapped
        /\ breaches' \subseteq breaches \cup {"racing_launch"}
    BY DEF ShmCreate, ShmExisting, Attach, kernel, locals, history, Note, Unmapped
  <1>2. PICK to \in {"attach", "shm_existing", "loop", "get_free_sem"} :
          /\ pc' = [pc EXCEPT ![p] = to]
          /\ to = "attach" => pc[p] \in {"start", "shm_existing"} /\ shmid' = [shmid EXCEPT ![p] = segKey'] /\ segKey' # None
          /\ to = "shm_existing" => pc[p] = "start"
          /\ to = "get_free_sem" => attached'[p] # None
    <2>1. ShmCreate(p) => Len(segs') # None
      BY ZeroedIsSegment DEF ShmCreate, TypeInv, SegTypes, None
    <2>2. Attach(p) /\ attached' = [attached EXCEPT ![p] = shmid[p]] => attached'[p] # None
      BY DEF Attach, TypeInv, SegTypes, Place
    <2>3. CASE ShmCreate(p)
      BY <2>1, <2>3 DEF ShmCreate, Goto
    <2>4. CASE ShmExisting(p)
      BY <2>4 DEF ShmExisting, Goto, kernel
    <2>5. CASE Attach(p)
      BY <2>2, <2>5 DEF Attach, Goto
    <2>6. QED
      BY <2>3, <2>4, <2>5
  <1>3. to \in Labels
    BY DEF Labels, InInit
  <1>4. SegTypes' /\ Len(segs') >= Len(segs)
    <2>1. CASE ShmCreate(p) /\ segs' = Append(segs, ZeroedSegment)
      <3>1. segs' \in Seq(Segment) /\ Len(segs') = Len(segs) + 1
        BY <2>1, ZeroedIsSegment DEF TypeInv, SegTypes
      <3>2. \/ /\ segKey' = Len(segs') /\ shmid' = [shmid EXCEPT ![p] = segKey']
               /\ attached' = attached
            \/ UNCHANGED <<segKey, segs, shmid, attached>>
        BY <2>1 DEF ShmCreate
      <3>3. Len(segs) \in Nat /\ 0 .. Len(segs) \subseteq 0 .. Len(segs')
        BY <3>1 DEF TypeInv, SegTypes
      <3>4. QED
        BY <3>1, <3>2, <3>3 DEF TypeInv, SegTypes
    <2>2. CASE UNCHANGED <<segs, segKey>> /\ attached' \in {attached, [attached EXCEPT ![p] = shmid[p]]}
               /\ shmid' \in {shmid, [shmid EXCEPT ![p] = segKey]}
      <3>1. attached' \in [Procs -> 0 .. Len(segs)]
        BY <2>2 DEF TypeInv, SegTypes
      <3>2. shmid' \in [Procs -> 0 .. Len(segs)]
        BY <2>2 DEF TypeInv, SegTypes
      <3>3. QED
        BY <2>2, <3>1, <3>2 DEF TypeInv, SegTypes
    <2>3. CASE ShmCreate(p)
      BY <2>1, <2>2, <2>3 DEF ShmCreate
    <2>4. CASE ShmExisting(p)
      BY <2>2, <2>4 DEF ShmExisting, kernel
    <2>5. CASE Attach(p)
      BY <2>2, <2>5 DEF Attach, locals
    <2>6. QED
      BY <2>3, <2>4, <2>5
  <1>5. SemTypes'
    BY <1>1 DEF TypeInv, SemTypes
  <1>6. fresh' \in {fresh, [fresh EXCEPT ![p] = TRUE]}
    BY DEF ShmCreate, ShmExisting, Attach, locals
  <1>7. VarTypes'
    BY <1>1, <1>2, <1>3, <1>6 DEF TypeInv, VarTypes
  <1>8. /\ Place(p)'
        /\ \A q \in Procs \ {p} : /\ attached'[q] = attached[q] /\ shmid'[q] = shmid[q]
                                  /\ fresh'[q] = fresh[q] /\ reg'[q] = reg[q]
    <2>1. \A q \in Procs \ {p} : /\ attached'[q] = attached[q] /\ shmid'[q] = shmid[q]
                                 /\ fresh'[q] = fresh[q] /\ reg'[q] = reg[q]
      BY <1>1, <1>6 DEF ShmCreate, ShmExisting, Attach, locals, kernel, TypeInv, SegTypes, VarTypes
    <2>2. pc'[p] = to
      BY <1>2 DEF TypeInv, VarTypes
    <2>3. to = "attach" => shmid'[p] # None
      BY <1>2 DEF TypeInv, SegTypes
    <2>4. QED
      BY <1>2, <2>1, <2>2, <2>3 DEF Place, Mapped, InInit, InPut, InGet, Unmapped
  <1>9. \A q \in Procs : Place(q)'
    BY <1>2, <1>3, <1>8, PlacesKept
  <1>10. Numbers'
    <2>1. ASSUME NEW s \in SemNames PROVE to \in Before(s) => pc[p] \in Before(s)
      BY <1>1 DEF Before, Unmapped
    <2>2. CASE segs' = segs /\ fresh' = fresh
      BY <2>1, <2>2, <1>1, <1>2, <1>3, NumbersKept
    <2>3. CASE ShmCreate(p) /\ segs' = Append(segs, ZeroedSegment) /\ fresh' = [fresh EXCEPT ![p] = TRUE]
      <3>1. Len(segs') = Len(segs) + 1
        BY <2>3, ZeroedIsSegment DEF TypeInv, SegTypes
      <3>2. p \notin Makers /\ Makers' = Makers \cup {p} /\ Makers \in SUBSET Procs
        BY <2>3 DEF ShmCreate, TypeInv, VarTypes, Place, Makers
      <3>3. Cardinality(Makers') = Cardinality(Makers) + 1
        BY <3>2, PartOfProcs, FS_AddElement
      <3>4. ASSUME NEW s \in SemNames PROVE sem'[s].id <= Cardinality(Past(s)')
        <4>1. Past(s) \subseteq Past(s)' /\ Past(s)' \in SUBSET Procs /\ Past(s) \in SUBSET Procs
          BY <1>2, <2>1 DEF Past, TypeInv, VarTypes
        <4>2. Cardinality(Past(s)) <= Cardinality(Past(s)')
          BY <4>1, PartOfProcs, FS_Subset
        <4>3. /\ Cardinality(Past(s)) \in Nat /\ Cardinality(Past(s)') \in Nat
              /\ sem[s].id \in Nat /\ sem[s].id <= Cardinality(Past(s))
          BY <4>1, PartOfProcs DEF TypeInv, SemTypes, Numbers
        <4>4. QED
          BY <4>2, <4>3, <1>1
      <3>5. QED
        BY <3>1, <3>3, <3>4 DEF Numbers, TypeInv
    <2>4. QED
      BY <2>2, <2>3 DEF ShmCreate, ShmExisting, Attach, kernel, locals
  <1>11. QED
    BY <1>4, <1>5, <1>7, <1>9, <1>10 DEF TypeInv

(* A call of _semget: the semaphore s is made, found or missed, and nothing *)
(* else happens.                                                            *)
SemgetAt(p, s, here, to) ==
  /\ pc[p] = here /\ pc' = [pc EXCEPT ![p] = to]
  /\ UNCHANGED <<segKey, segs, attached, semadj, shmid, fresh, reg, c, typed, got, crashes, breaches>>
Made(p, s, here, next) ==
  /\ SemgetAt(p, s, here, next) /\ ~ sem[s].there
  /\ sem' = [sem EXCEPT ![s] = [id |-> @.id + 1, val |-> 0, there |-> TRUE]]
  /\ semid' = [semid EXCEPT ![p][s] = sem[s].id + 1]
Found(p, s, find, next) ==
  /\ SemgetAt(p, s, find, next) /\ sem[s].there
  /\ semid' = [semid EXCEPT ![p][s] = sem[s].id] /\ sem' = sem
Missed(p, s, here, to) ==
  /\ SemgetAt(p, s, here, to) /\ UNCHANGED <<sem, semid>>

(* The label of the first semget of s, and the label after s. *)
Get(s) == CASE s = "free" -> "get_free_sem" [] s = "full" -> "get_full_sem" [] s = "mutex" -> "get_mutex"
After(s) == CASE s = "free" -> "get_full_sem" [] s = "full" -> "get_mutex" [] s = "mutex" -> "nproc_load"

(* _semget (lines 26-42): make it, or find the one that is there, or give up. *)
LEMMA GetSemaphoresFacts ==
  ASSUME TypeInv, NEW p \in Procs, GetSemaphores(p)
  PROVE  \E s \in SemNames :
           \/ Made(p, s, Get(s), After(s))
           \/ Missed(p, s, Get(s), Find(s)) /\ sem[s].there
           \/ Found(p, s, Find(s), After(s))
           \/ Missed(p, s, Find(s), "loop") /\ ~ sem[s].there
  <1> USE DEF Made, Missed, Found, SemgetAt, Get, Find, After, Goto, _semget, history
  <1>0. UNCHANGED <<segKey, segs, attached, semadj, shmid, fresh, reg, c, typed, got, crashes, breaches>>
    BY DEF GetSemaphores
  <1>1. ASSUME NEW s \in SemNames, ~ sem[s].there,
               sem' = [sem EXCEPT ![s] = [id |-> @.id + 1, val |-> 0, there |-> TRUE]]
        PROVE  sem'[s].id = sem[s].id + 1
    BY <1>1 DEF TypeInv, SemTypes
  <1>2. CASE _semget(p, "free", "get_free_sem", "find_free_sem", "get_full_sem")
    BY <1>0, <1>1, <1>2 DEF SemNames
  <1>3. CASE _semget(p, "full", "get_full_sem", "find_full_sem", "get_mutex")
    BY <1>0, <1>1, <1>3 DEF SemNames
  <1>4. CASE _semget(p, "mutex", "get_mutex", "find_mutex", "nproc_load")
    BY <1>0, <1>1, <1>4 DEF SemNames
  <1>5. QED
    BY <1>2, <1>3, <1>4 DEF GetSemaphores

(* It keeps TypeInv; who makes a semaphore is one more program past its *)
(* semget.                                                              *)
LEMMA GetSemaphoresTypes ==
  ASSUME TypeInv, NEW p \in Procs, GetSemaphores(p)
  PROVE  TypeInv'
  <1>1. PICK s \in SemNames :
           \/ Made(p, s, Get(s), After(s))
           \/ Missed(p, s, Get(s), Find(s))
           \/ Found(p, s, Find(s), After(s))
           \/ Missed(p, s, Find(s), "loop")
    BY GetSemaphoresFacts
  <1>2. PICK here \in {Get(s), Find(s)}, to \in {After(s), Find(s), "loop"} :
          SemgetAt(p, s, here, to) /\ (to = After(s) \/ UNCHANGED <<sem, semid>>)
          /\ (to = Find(s) => here = Get(s))
    <2>1. CASE Made(p, s, Get(s), After(s))
      <3>1. After(s) # Find(s)
        BY DEF After, Find, SemNames
      <3>2. QED
        BY <2>1, <3>1 DEF Made
    <2>2. CASE Missed(p, s, Get(s), Find(s))
      BY <2>2 DEF Missed
    <2>3. CASE Found(p, s, Find(s), After(s))
      <3>1. After(s) # Find(s)
        BY DEF After, Find, SemNames
      <3>2. QED
        BY <2>3, <3>1 DEF Found
    <2>4. CASE Missed(p, s, Find(s), "loop")
      <3>1. "loop" # Find(s)
        BY DEF Find, SemNames
      <3>2. QED
        BY <2>4, <3>1 DEF Missed
    <2>5. QED
      BY <1>1, <2>1, <2>2, <2>3, <2>4
  <1>3. to \in Labels /\ to \in Mapped \cup {"loop"} /\ to \notin {"start", "attach", "put_lock", "put_store", "put_in"}
        /\ here \in Mapped
    BY DEF Get, Find, After, SemNames, Labels, InInit, Mapped, Unmapped
  <1>4. SegTypes'
    BY <1>2 DEF SemgetAt, TypeInv, SegTypes
  <1>5. /\ sem \in [SemNames -> [id : Nat, val : Nat, there : BOOLEAN]]
        /\ semid \in [Procs -> [SemNames -> Nat]]
        /\ \A q \in Procs, t \in SemNames : semid[q][t] <= sem[t].id
    BY DEF TypeInv, SemTypes
  <1>6. /\ sem' \in [SemNames -> [id : Nat, val : Nat, there : BOOLEAN]]
        /\ semid' \in [Procs -> [SemNames -> Nat]]
        /\ \A t \in SemNames \ {s} : sem'[t] = sem[t]
        /\ sem'[s].id \in {sem[s].id, sem[s].id + 1}
        /\ sem'[s].id = sem[s].id \/ to = After(s)
        /\ \A q \in Procs, t \in SemNames : semid'[q][t] <= sem'[t].id
    <2>1. CASE Made(p, s, Get(s), After(s))
      <3>1. to = After(s)
        BY <1>2, <2>1 DEF Made, SemgetAt, TypeInv, VarTypes
      <3>2. QED
        BY <1>5, <2>1, <3>1 DEF Made
    <2>2. CASE Found(p, s, Find(s), After(s))
      BY <1>5, <2>2 DEF Found
    <2>3. CASE UNCHANGED <<sem, semid>>
      BY <1>5, <2>3
    <2>4. QED
      BY <1>1, <2>1, <2>2, <2>3 DEF Missed
  <1>7. SemTypes'
    BY <1>2, <1>6 DEF SemTypes, SemgetAt, TypeInv
  <1>8. VarTypes'
    BY <1>2, <1>3 DEF SemgetAt, TypeInv, VarTypes
  <1>9. Place(p)'
    BY <1>2, <1>3 DEF SemgetAt, TypeInv, VarTypes, Place
  <1>10. \A q \in Procs : Place(q)'
    BY <1>2, <1>3, <1>9, PlacesKept DEF SemgetAt
  <1>11. Numbers'
    <2>1. Makers' = Makers /\ segs' = segs
      BY <1>2 DEF Makers, SemgetAt
    <2>2. ASSUME NEW t \in SemNames PROVE sem'[t].id <= Cardinality(Past(t)')
      <3>1. to \in Before(t) => here \in Before(t)
        BY <1>2 DEF Before, Get, Find, After, SemNames
      <3>2. Past(t) \subseteq Past(t)' /\ Past(t)' \in SUBSET Procs /\ Past(t) \in SUBSET Procs
        BY <1>2, <3>1 DEF Past, TypeInv, VarTypes, SemgetAt
      <3>3. Cardinality(Past(t)) <= Cardinality(Past(t)')
        BY <3>2, PartOfProcs, FS_Subset
      <3>4. /\ Cardinality(Past(t)) \in Nat /\ Cardinality(Past(t)') \in Nat
            /\ sem[t].id \in Nat /\ sem[t].id <= Cardinality(Past(t))
        BY <3>2, PartOfProcs DEF TypeInv, SemTypes, Numbers
      <3>5. CASE sem'[t].id = sem[t].id
        BY <3>3, <3>4, <3>5
      <3>6. CASE t = s /\ to = After(s) /\ sem'[t].id = sem[t].id + 1
        <4>1. here \in Before(s) /\ to \notin Before(s)
          BY <3>6 DEF Before, Get, Find, After, SemNames
        <4>2. p \in Past(t)' \ Past(t)
          BY <1>2, <3>6, <4>1 DEF Past, TypeInv, VarTypes, SemgetAt
        <4>3. Cardinality(Past(t)') >= Cardinality(Past(t)) + 1
          BY <3>2, <4>2, OneMore
        <4>4. QED
          BY <3>4, <3>6, <4>3
      <3>7. QED
        BY <1>6, <3>5, <3>6
    <2>3. QED
      BY <2>1, <2>2 DEF Numbers, TypeInv
  <1>12. QED
    BY <1>4, <1>7, <1>8, <1>10, <1>11 DEF TypeInv

(* TypeInv holds at the start and is kept by every step. *)
LEMMA InitTypeInv == Init => TypeInv
  <1> SUFFICES ASSUME Init PROVE TypeInv
    OBVIOUS
  <1>1. SegTypes
    BY DEF Init, SegTypes, None
  <1>2. SemTypes
    BY DEF Init, SemTypes, None
  <1>3. VarTypes
    BY BoundAssumption DEF Init, VarTypes, Labels, Chars
  <1>4. \A p \in Procs : Place(p)
    BY DEF Init, Place, Mapped, InInit, InPut, InGet
  <1>5. Numbers
    <2>1. Makers = {}
      BY DEF Init, Makers
    <2>2. \A s \in SemNames : Past(s) = {}
      BY DEF Init, Past, Before
    <2>3. Cardinality({}) = 0
      BY FS_EmptySet
    <2>4. Len(segs) = 0 /\ \A s \in SemNames : sem[s].id = 0
      BY DEF Init
    <2>5. Len(segs) = Cardinality(Makers)
      BY <2>1, <2>3, <2>4
    <2>6. ASSUME NEW s \in SemNames PROVE sem[s].id <= Cardinality(Past(s))
      <3>1. Cardinality(Past(s)) = 0 /\ sem[s].id = 0
        BY <2>2, <2>3, <2>4
      <3>2. QED
        BY <3>1
    <2>7. QED
      BY <2>5, <2>6 DEF Numbers
  <1>6. QED
    BY <1>1, <1>2, <1>3, <1>4, <1>5 DEF TypeInv

LEMMA StepTypeInv == TypeInv /\ [Next]_vars => TypeInv'
  <1> SUFFICES ASSUME TypeInv, [Next]_vars PROVE TypeInv'
    OBVIOUS
  <1>1. CASE UNCHANGED vars
    BY <1>1 DEF vars, TypeInv, SegTypes, SemTypes, VarTypes, Numbers, Place, Makers, Past
  <1>2. ASSUME NEW p \in Procs, Run(p) \/ Crash(p) PROVE TypeInv'
    <2>1. CASE BufInit(p)
      BY <2>1, ShmTypes, GetSemaphoresTypes, LocalTypes, RingWriteTypes, StructTypes, SemctlTypes
      DEF BufInit
    <2>2. CASE BufDestroy(p)
      BY <2>2, LocalTypes, RingWriteTypes, LeaveTypes, SemctlTypes DEF BufDestroy
    <2>3. CASE (p \in Senders /\ Send(p)) \/ (p \in Receivers /\ Receive(p))
      <3>1. CASE PutFree(p) \/ PutLock(p) \/ PutUnlock(p) \/ PutFull(p)
                   \/ GetFull(p) \/ GetLock(p) \/ GetUnlock(p) \/ GetFree(p)
        BY <3>1, SemopSteps, SemopTypes
      <3>2. QED
        BY <2>3, <3>1, LocalTypes, RingWriteTypes DEF Send, Receive
    <2>4. CASE Exit(p) \/ Crash(p)
      BY <2>4, EndTypes
    <2>5. \/ BufInit(p) \/ BufDestroy(p) \/ Exit(p) \/ Crash(p)
          \/ p \in Senders /\ Send(p)
          \/ p \in Receivers /\ Receive(p)
      BY <1>2 DEF Run
    <2>6. QED
      BY <2>1, <2>2, <2>3, <2>4, <2>5
  <1>3. QED
    BY <1>1, <1>2 DEF Next

LEMMA TypeInvAlways == Spec => []TypeInv
  BY InitTypeInv, StepTypeInv, PTL DEF Spec

(* Every variable keeps its type, and the kernel's objects stay within     *)
(* their bounds: no more segments than programs that made one, no more     *)
(* generations of a semaphore than programs that came past its semget,     *)
(* whatever is killed, removed, or started at the wrong time.              *)
THEOREM TypeCorrect == Spec => []TypeOK
  BY TypeInvAlways, TypeInvTypeOK, PTL

--------------------------------------------------------------------------------
(* Orderly sessions. *)

(* There is a number of users. *)
LEMMA UsersNumber == Users \in SUBSET Procs /\ Cardinality(Users) \in Nat
  <1>1. Users \in SUBSET Procs
    BY DEF Users
  <1>2. QED
    BY <1>1, PartOfProcs

(* Who is past the semget of s in an orderly session has the semaphore that *)
(* is there.                                                                *)
LEMMA Validity ==
  ASSUME TypeInv, Parts, NEW p \in Procs, NEW s \in SemNames,
         pc[p] \in Counted \cup InInit, pc[p] \notin Before(s)
  PROVE  Valid(p, s)
  <1>1. semid[p][s] = 1
    BY DEF Parts, Holding
  <1>2. Launching \/ Users # {}
    BY DEF Launching, Users
  <1>3. sem[s].id = 1 /\ sem[s].there
    BY <1>2 DEF Parts, OneSemaphore
  <1>4. QED
    BY <1>1, <1>3 DEF Valid

(* A step inside the loop, buf_put or buf_get keeps the invariant if it puts *)
(* no Quit where one may not be.                                             *)
LEMMA RingStepKeeps ==
  ASSUME TypeInv, Parts, NEW p \in Procs, pc[p] \in Ring, NEW to \in Ring \cup {"nproc_read"},
         pc' = [pc EXCEPT ![p] = to],
         UNCHANGED <<segKey, attached, shmid, fresh, semid>>,
         segs' \in Seq(Segment), Len(segs') = Len(segs),
         \A g \in 1 .. Len(segs) : segs'[g].nproc = segs[g].nproc /\ segs'[g].removed = segs[g].removed,
         \A s \in SemNames : sem'[s].id = sem[s].id /\ sem'[s].there = sem[s].there,
         \A q \in Procs \ {p} : reg'[q] = reg[q],
         NoQuitYet'
  PROVE  Parts'
  <1>1. /\ pc'[p] = to /\ \A q \in Procs \ {p} : pc'[q] = pc[q]
        /\ segs \in Seq(Segment)
    BY DEF TypeInv, VarTypes, SegTypes
  <1>2. /\ pc[p] \in Counted /\ to \in Counted /\ pc[p] \notin InInit /\ to \notin InInit
        /\ {pc[p], to} \cap (Leaving \ {"nproc_read"}) = {} /\ {pc[p], to} \cap Released = {}
        /\ {pc[p], to} \cap {"start", "shm_existing", "nproc_inc", "nproc_dec", "shm_rmid", "detach"} = {}
    BY DEF Ring, Counted, InInit, Leaving, Released, Unmapped, InPut, InGet, InDestroy, Ended
  <1>3. \A s \in SemNames : pc[p] \notin Before(s) /\ to \notin Before(s)
    BY <1>2 DEF Before, InInit, Ring, InPut, InGet
  <1>4. Users' = Users /\ Launching' = Launching
    <2>1. Users' = Users
      BY <1>1, <1>2 DEF Users
    <2>2. \A q \in Procs : pc'[q] \in InInit \cup {"start"} <=> pc[q] \in InInit \cup {"start"}
      BY <1>1, <1>2
    <2>3. QED
      BY <2>1, <2>2 DEF Launching
  <1>5. OneStarts'
    <2>1. ASSUME NEW x \in Procs \ {p}, pc[x] \in InInit
          PROVE  ~ fresh[x] /\ \A q \in Procs \ {x} : pc'[q] \notin InInit
      <3>1. ~ fresh[x]
        BY <1>2, <2>1 DEF Parts, OneStarts
      <3>2. \A q \in Procs \ {x} : pc[q] \notin InInit
        BY <2>1 DEF Parts, OneStarts
      <3>3. QED
        BY <1>1, <1>2, <3>1, <3>2
    <2>2. QED
      BY <1>1, <1>2, <2>1 DEF Parts, OneStarts
  <1>6. OneSegment'
    <2>1. Len(segs') = 0 <=> Len(segs) = 0
      BY <1>1
    <2>2. Len(segs) # 0
      BY <1>2 DEF Parts, OneSegment
    <2>3. QED
      BY <1>1, <1>4, <2>1, <2>2 DEF Parts, OneSegment
  <1>7. Holding'
    <2> SUFFICES ASSUME NEW q \in Procs
                 PROVE /\ pc'[q] # "killed"
                       /\ pc'[q] \notin {"start", "shm_existing"} => shmid'[q] = 1
                       /\ attached'[q] = IF pc'[q] \in Released THEN None ELSE 1
                       /\ \A s \in SemNames : pc'[q] \notin Before(s) => semid'[q][s] = 1
      BY DEF Holding
    <2>1. CASE q = p
      BY <1>1, <1>2, <1>3, <2>1 DEF Parts, Holding, Leaving, Ended
    <2>2. CASE q # p
      BY <1>1, <2>2 DEF Parts, Holding
    <2>3. QED
      BY <2>1, <2>2
  <1>8. OneSemaphore'
    BY <1>1, <1>3, <1>4 DEF Parts, OneSemaphore
  <1>9. NprocCounts'
    <2>1. Len(segs') # 0 => Len(segs) # 0 /\ segs'[1].nproc = segs[1].nproc
      BY <1>1
    <2>2. to \notin {"nproc_inc", "nproc_dec", "shm_rmid", "detach", "rmid_free", "rmid_full",
                     "rmid_mutex"}
      BY DEF Ring, InPut, InGet
    <2>3. QED
      BY <1>1, <1>4, <2>1, <2>2 DEF Parts, NprocCounts
  <1>10. QED
    BY <1>5, <1>6, <1>7, <1>8, <1>9 DEF Parts

(* So do the semops: none of them fails. *)
LEMMA SemopKeeps ==
  ASSUME TypeInv, Parts, Orderly', NEW p \in Procs,
         \/ p \in Senders /\ (PutFree(p) \/ PutLock(p) \/ PutUnlock(p) \/ PutFull(p))
         \/ p \in Receivers /\ (GetFull(p) \/ GetLock(p) \/ GetUnlock(p) \/ GetFree(p))
  PROVE  Parts'
  <1>1. PICK here \in InPut \cup InGet, s \in SemNames, d \in {-1, 1},
             next \in {"put_next", "put_store", "put_full", "get_lock", "get_fetch",
                       "get_free", "loop", "nproc_read"} :
          /\ SemopAt(p, here, s, d, next)
          /\ next = "get_free" => here = "get_unlock"
          /\ next \in {"loop", "nproc_read"} =>
               next = AfterCall(c[p]) /\ here \in {"put_full", "get_free"}
          /\ here \in InPut => PutFree(p) \/ PutLock(p) \/ PutUnlock(p) \/ PutFull(p)
    BY SemopSteps
  <1>2. pc[p] = here /\ _semop(p, s, d, next) /\ UNCHANGED <<segs, reg, c>>
    BY <1>1 DEF SemopAt
  <1>3. next \in Labels /\ pc[p] \in Ring /\ next \in Ring \cup {"nproc_read"}
    BY <1>2 DEF Labels, InPut, InGet, InDestroy, Ring
  <1>4. Valid(p, s)
    <2>1. pc[p] \in Counted /\ pc[p] \notin Before(s)
      BY <1>2 DEF Counted, Before, InPut, InGet
    <2>2. QED
      BY <2>1, Validity
  <1>5. /\ UNCHANGED <<segKey, attached, shmid, fresh, semid>>
        /\ \A t \in SemNames : sem'[t].id = sem[t].id /\ sem'[t].there = sem[t].there
        /\ pc' = [pc EXCEPT ![p] = next]
    BY <1>2, <1>3, <1>4, SemopFacts DEF Orderly
  <1>6. segs' \in Seq(Segment) /\ Len(segs') = Len(segs) /\ segs' = segs
    BY <1>2 DEF TypeInv, SegTypes
  <1>7. NoQuitYet'
    <2> SUFFICES ASSUME Launching'
                 PROVE  /\ \A g \in DOMAIN segs', i \in 0 .. Size - 1 : segs'[g].buf[i] # Quit
                        /\ \A q \in Procs :
                            /\ pc'[q] \notin Leaving
                            /\ q \in Senders \/ pc'[q] \in {"get_out", "get_unlock", "get_free"}
                                 => c'[q] # Quit
      BY DEF NoQuitYet
    <2>1. pc'[p] = next /\ \A q \in Procs \ {p} : pc'[q] = pc[q]
      BY <1>5 DEF TypeInv, VarTypes
    <2>2. Launching
      BY <2>1 DEF Launching, InInit
    <2>3. here \in InPut => p \in Senders
      BY <1>1, <1>2 DEF GetFull, GetLock, GetUnlock, GetFree, InPut
    <2>4. next # "nproc_read"
      BY <1>1, <1>2, <2>2, <2>3 DEF Parts, NoQuitYet, AfterCall, InPut
    <2>5. next \notin Leaving
      BY <2>4 DEF Leaving, InDestroy, Ended
    <2>6. QED
      BY <1>1, <1>2, <2>1, <2>2, <2>5 DEF Parts, NoQuitYet
  <1>8. QED
    BY <1>2, <1>3, <1>5, <1>6, <1>7, RingStepKeeps

(* So do the other steps of the loop: a Quit is typed only when nobody is *)
(* still to come.                                                         *)
LEMMA LoopKeeps ==
  ASSUME TypeInv, TypeInv', Parts, Orderly', NEW p \in Procs,
         \/ p \in Senders /\ (Type(p) \/ PutNext(p) \/ PutStore(p) \/ PutIn(p))
         \/ p \in Receivers /\ (CallGet(p) \/ GetFetch(p) \/ GetOut(p))
  PROVE  Parts'
  <1>0. Senders \cap Receivers = {}
    BY ProgramAssumption
  <1>1. /\ UNCHANGED <<segKey, attached, sem, shmid, fresh, semid, crashes>>
        /\ pc[p] \in {"loop", "put_next", "put_store", "put_in", "get_fetch", "get_out"}
    BY DEF Type, PutNext, PutStore, PutIn, CallGet, GetFetch, GetOut, kernel, locals, history
  <1>2. pc[p] \in Ring /\ pc[p] \notin Released /\ attached[p] # None
    BY <1>1 DEF Ring, InPut, InGet, Released, Unmapped, Parts, Holding, None
  <1>3. PICK to \in {"put_free", "put_lock", "put_in", "put_unlock", "get_full", "get_out", "get_unlock"} :
          /\ pc' = [pc EXCEPT ![p] = to]
          /\ to = "get_out" => GetFetch(p)
          /\ to = "get_unlock" => pc[p] = "get_out" /\ c' = c
    BY <1>2 DEF Type, PutNext, PutStore, PutIn, CallGet, GetFetch, GetOut, IS_MEM_OK, Goto, locals
  <1>4. to \in Ring /\ \A q \in Procs \ {p} : reg'[q] = reg[q]
    <2>1. to \in Ring
      BY DEF Ring, InPut, InGet
    <2>2. UNCHANGED reg \/ \E v \in Int : reg' = [reg EXCEPT ![p] = v]
      <3>1. CASE PutNext(p)
        <4>1. reg' = [reg EXCEPT ![p] = (Seg(p).in + 1) % Seg(p).size]
          BY <3>1 DEF PutNext
        <4>2. reg'[p] \in Int /\ reg' = [reg EXCEPT ![p] = reg'[p]]
          BY <4>1 DEF TypeInv, VarTypes
        <4>3. QED
          BY <4>2
      <3>2. CASE ~ PutNext(p)
        BY <3>2 DEF Type, PutStore, PutIn, CallGet, GetFetch, GetOut, locals
      <3>3. QED
        BY <3>1, <3>2
    <2>3. QED
      BY <2>1, <2>2 DEF TypeInv, VarTypes
  <1>5. /\ segs' \in Seq(Segment) /\ Len(segs') = Len(segs)
        /\ \A g \in 1 .. Len(segs) : segs'[g].nproc = segs[g].nproc /\ segs'[g].removed = segs[g].removed
        /\ ~ PutStore(p) => \A g \in 1 .. Len(segs) : segs'[g].buf = segs[g].buf
        /\ PutStore(p) => \A g \in 1 .. Len(segs), i \in 0 .. Size - 1 :
                            segs'[g].buf[i] \in {segs[g].buf[i], c[p]}
    <2>0. segs \in Seq(Segment)
      BY DEF TypeInv, SegTypes
    <2>1. CASE pc[p] \in {"put_in", "get_out"}
      <3>1. pc[p] \in Mapped
        BY <2>1 DEF Mapped, InPut, InGet
      <3>2. attached[p] \in 1 .. Len(segs) /\ Seg(p) \in Segment /\ Seg(p) = segs[attached[p]]
        BY <3>1, OwnSegment DEF Seg
      <3>3. CASE PutIn(p)
        <4>1. reg[p] \in 0 .. Size - 1 /\ Write(p, "in", reg[p])
          BY <3>3 DEF PutIn, TypeInv, Place
        <4>2. /\ segs' \in Seq(Segment) /\ Len(segs') = Len(segs)
              /\ segs'[attached[p]] = [Seg(p) EXCEPT !.in = reg[p]]
              /\ \A g \in 1 .. Len(segs) : g # attached[p] => segs'[g] = segs[g]
          BY <3>1, <4>1, WroteIn
        <4>3. /\ segs'[attached[p]].nproc = Seg(p).nproc /\ segs'[attached[p]].removed = Seg(p).removed
              /\ segs'[attached[p]].buf = Seg(p).buf
          BY <4>2, <3>2 DEF Segment
        <4>4. QED
          BY <4>2, <4>3, <3>2, <2>1 DEF PutStore
      <3>4. CASE GetOut(p)
        <4>1. Seg(p).size = Size /\ Seg(p).out \in 0 .. Size - 1
          BY <3>4, <3>2 DEF Segment, GetOut
        <4>2. (Seg(p).out + 1) % Seg(p).size \in 0 .. Size - 1
          BY <4>1, BoundAssumption
        <4>3. PICK v \in 0 .. Size - 1 : Write(p, "out", v)
          BY <3>4, <4>2 DEF GetOut
        <4>4. /\ segs' \in Seq(Segment) /\ Len(segs') = Len(segs)
              /\ segs'[attached[p]] = [Seg(p) EXCEPT !.out = v]
              /\ \A g \in 1 .. Len(segs) : g # attached[p] => segs'[g] = segs[g]
          BY <3>1, <4>3, WroteOut
        <4>5. /\ segs'[attached[p]].nproc = Seg(p).nproc /\ segs'[attached[p]].removed = Seg(p).removed
              /\ segs'[attached[p]].buf = Seg(p).buf
          BY <4>4, <3>2 DEF Segment
        <4>6. QED
          BY <4>4, <4>5, <3>2, <2>1 DEF PutStore
      <3>5. QED
        BY <2>1, <3>3, <3>4 DEF Type, PutNext, PutStore, CallGet, GetFetch
    <2>2. CASE PutStore(p)
      <3>1. pc[p] \in Mapped
        BY <2>2 DEF Mapped, InPut, PutStore
      <3>2. attached[p] \in 1 .. Len(segs) /\ Seg(p) \in Segment /\ Seg(p) = segs[attached[p]]
        BY <3>1, OwnSegment DEF Seg
      <3>3. /\ Seg(p).in \in 0 .. Size - 1 /\ c[p] \in Chars \cup {Nul}
            /\ Seg(p).buf \in [0 .. Size - 1 -> Chars \cup {Nul}]
        BY <3>2 DEF Segment, TypeInv, VarTypes
      <3>4. PICK b \in [0 .. Size - 1 -> Chars \cup {Nul}] : b = [Seg(p).buf EXCEPT ![Seg(p).in] = c[p]]
        BY <3>3
      <3>5. Write(p, "buf", b)
        BY <2>2, <3>4 DEF PutStore
      <3>6. /\ segs' \in Seq(Segment) /\ Len(segs') = Len(segs)
            /\ segs'[attached[p]] = [Seg(p) EXCEPT !.buf = b]
            /\ \A g \in 1 .. Len(segs) : g # attached[p] => segs'[g] = segs[g]
        BY <3>1, <3>5, WroteBuf
      <3>7. /\ segs'[attached[p]].nproc = Seg(p).nproc /\ segs'[attached[p]].removed = Seg(p).removed
            /\ segs'[attached[p]].buf = b
        BY <3>6, <3>2 DEF Segment
      <3>8. \A i \in 0 .. Size - 1 : b[i] \in {Seg(p).buf[i], c[p]}
        BY <3>3, <3>4
      <3>9. QED
        BY <3>2, <3>6, <3>7, <3>8, <2>2
    <2>3. CASE UNCHANGED segs
      BY <2>0, <2>3
    <2>4. QED
      BY <1>1, <2>1, <2>2, <2>3 DEF Type, PutNext, PutStore, CallGet, GetFetch, PutIn, GetOut, kernel
  <1>6. pc'[p] = to /\ \A q \in Procs \ {p} : pc'[q] = pc[q] /\ c'[q] = c[q]
    BY <1>3 DEF Type, PutNext, PutStore, PutIn, CallGet, GetFetch, GetOut, locals, TypeInv, VarTypes
  <1>7. NoQuitYet'
    <2> SUFFICES ASSUME Launching'
                 PROVE  /\ \A g \in DOMAIN segs', i \in 0 .. Size - 1 : segs'[g].buf[i] # Quit
                        /\ \A q \in Procs :
                            /\ pc'[q] \notin Leaving
                            /\ q \in Senders \/ pc'[q] \in {"get_out", "get_unlock", "get_free"}
                                 => c'[q] # Quit
      BY DEF NoQuitYet
    <2>1. Launching
      BY <1>6 DEF Launching, InInit
    <2>2. /\ \A g \in 1 .. Len(segs), i \in 0 .. Size - 1 : segs[g].buf[i] # Quit
          /\ \A q \in Procs :
               /\ pc[q] \notin Leaving
               /\ q \in Senders \/ pc[q] \in {"get_out", "get_unlock", "get_free"} => c[q] # Quit
      BY <2>1 DEF Parts, NoQuitYet, TypeInv, SegTypes
    <2>3. \A g \in 1 .. Len(segs), i \in 0 .. Size - 1 : segs'[g].buf[i] # Quit
      <3>1. CASE PutStore(p)
        <4>1. p \in Senders
          BY <3>1 DEF PutStore, CallGet, GetFetch, GetOut
        <4>2. QED
          BY <3>1, <4>1, <2>2, <1>5
      <3>2. CASE ~ PutStore(p)
        BY <3>2, <2>2, <1>5
      <3>3. QED
        BY <3>1, <3>2
    <2>4. p \in Senders => c'[p] # Quit
      <3>1. CASE Type(p)
        <4>1. EarlyQuit
          BY <2>1 DEF EarlyQuit, Launching
        <4>2. QED
          BY <3>1, <4>1 DEF Type, Note, Orderly, TypeInv, VarTypes
      <3>2. CASE ~ Type(p)
        BY <3>2, <1>0, <2>2 DEF PutNext, PutStore, PutIn, locals
      <3>3. QED
        BY <3>1, <3>2
    <2>5. GetFetch(p) => c'[p] # Quit
      <3> SUFFICES ASSUME GetFetch(p) PROVE c'[p] # Quit
        OBVIOUS
      <3>1. pc[p] \in Mapped
        BY DEF Mapped, InGet, GetFetch
      <3>2. attached[p] \in 1 .. Len(segs) /\ Seg(p) \in Segment /\ Seg(p) = segs[attached[p]]
        BY <3>1, OwnSegment DEF Seg
      <3>3. Seg(p).out \in 0 .. Size - 1
        BY <3>2 DEF Segment
      <3>4. QED
        BY <3>2, <3>3, <2>2 DEF GetFetch, TypeInv, VarTypes
    <2>6. p \in Senders \/ to \in {"get_out", "get_unlock", "get_free"} => c'[p] # Quit
      BY <1>3, <2>2, <2>4, <2>5
    <2>7. to \notin Leaving
      BY DEF Leaving, InDestroy, Ended
    <2>8. DOMAIN segs' = 1 .. Len(segs)
      BY <1>5
    <2>9. QED
      BY <1>6, <2>2, <2>3, <2>6, <2>7, <2>8
  <1>8. QED
    BY <1>1, <1>2, <1>3, <1>4, <1>5, <1>7, RingStepKeeps

(* A step inside buf_init keeps it: no other program is there, and none *)
(* leaves.                                                              *)
LEMMA InitStepKeeps ==
  ASSUME TypeInv, Parts, NEW p \in Procs, pc[p] \in InInit, NEW to \in InInit \cup {"loop"},
         pc' = [pc EXCEPT ![p] = to],
         UNCHANGED <<segKey, fresh, c>>,
         segs' \in Seq(Segment), Len(segs') = Len(segs),
         \A g \in 1 .. Len(segs) : segs'[g].buf = segs[g].buf /\ segs'[g].removed = segs[g].removed,
         \A q \in Procs \ {p} : /\ attached'[q] = attached[q] /\ shmid'[q] = shmid[q]
                                /\ semid'[q] = semid[q] /\ reg'[q] = reg[q],
         to # "shm_existing", shmid'[p] = 1,
         attached'[p] = IF to \in Unmapped THEN None ELSE 1,
         \A s \in SemNames : to \notin Before(s) => semid'[p][s] = 1,
         to \in Counted \cap InInit => fresh[p],
         segs'[1].nproc >= Cardinality(Users'),
         to = "nproc_inc" => reg'[p] >= Cardinality(Users'),
         OneSemaphore'
  PROVE  Parts'
  <1>1. /\ pc'[p] = to /\ \A q \in Procs \ {p} : pc'[q] = pc[q]
        /\ segs \in Seq(Segment)
    BY DEF TypeInv, VarTypes, SegTypes
  <1>2. Launching
    BY DEF Launching
  <1>3. /\ to \notin Leaving /\ pc[p] # "start" /\ to \notin {"start", "get_out", "get_unlock", "get_free"}
        /\ (to \in Released <=> to \in Unmapped)
        /\ to \notin {"nproc_dec", "shm_rmid", "detach", "rmid_free", "rmid_full", "rmid_mutex", "killed"}
    BY DEF InInit, Leaving, InDestroy, Ended, Released, Unmapped
  <1>4. \A q \in Procs : pc[q] \notin Leaving /\ (q # p => pc[q] \notin InInit)
    BY <1>2 DEF Parts, NoQuitYet, OneStarts
  <1>5. OneStarts'
    BY <1>1, <1>3, <1>4 DEF Parts, OneStarts
  <1>6. OneSegment'
    <2>1. Len(segs) # 0 /\ Len(segs') # 0
      BY <1>1, <1>3 DEF Parts, OneSegment
    <2>2. QED
      BY <1>1, <1>2, <2>1 DEF Parts, OneSegment
  <1>7. NoQuitYet'
    <2>1. /\ \A g \in DOMAIN segs, i \in 0 .. Size - 1 : segs[g].buf[i] # Quit
          /\ \A q \in Procs : q \in Senders \/ pc[q] \in {"get_out", "get_unlock", "get_free"} => c[q] # Quit
      BY <1>2 DEF Parts, NoQuitYet
    <2>2. \A g \in DOMAIN segs', i \in 0 .. Size - 1 : segs'[g].buf[i] # Quit
      BY <1>1, <2>1
    <2>3. \A q \in Procs : /\ pc'[q] \notin Leaving
                           /\ q \in Senders \/ pc'[q] \in {"get_out", "get_unlock", "get_free"} => c'[q] # Quit
      BY <1>1, <1>3, <1>4, <2>1
    <2>4. QED
      BY <2>2, <2>3 DEF NoQuitYet
  <1>8. Holding'
    <2> SUFFICES ASSUME NEW q \in Procs
                 PROVE /\ pc'[q] # "killed"
                       /\ pc'[q] \notin {"start", "shm_existing"} => shmid'[q] = 1
                       /\ attached'[q] = IF pc'[q] \in Released THEN None ELSE 1
                       /\ \A s \in SemNames : pc'[q] \notin Before(s) => semid'[q][s] = 1
      BY DEF Holding
    <2>1. CASE q = p
      BY <1>1, <1>3, <2>1
    <2>2. CASE q # p
      BY <1>1, <2>2 DEF Parts, Holding
    <2>3. QED
      BY <2>1, <2>2
  <1>9. NprocCounts'
    <2> SUFFICES ASSUME NEW q \in Procs
                 PROVE /\ pc'[q] = "nproc_inc" => reg'[q] >= Cardinality(Users')
                       /\ pc'[q] = "nproc_dec" => reg'[q] >= Cardinality(Users') - 1
                       /\ pc'[q] \in {"shm_rmid", "detach"} => reg'[q] >= Cardinality(Users')
                       /\ pc'[q] \in {"rmid_free", "rmid_full", "rmid_mutex"} => Users' = {}
      BY DEF NprocCounts
    <2>1. CASE q = p
      BY <1>1, <1>3, <2>1
    <2>2. CASE q # p
      BY <1>1, <1>4, <2>2 DEF Leaving, InDestroy, InInit
    <2>3. QED
      BY <2>1, <2>2
  <1>10. QED
    BY <1>5, <1>6, <1>7, <1>8, <1>9 DEF Parts

(* A step inside buf_destroy, or the exit, keeps it: no program is still to *)
(* come.                                                                    *)
LEMMA LeaveStepKeeps ==
  ASSUME TypeInv, Parts, NEW p \in Procs, pc[p] \in Leaving, NEW to \in Leaving \ {"killed"},
         pc' = [pc EXCEPT ![p] = to],
         UNCHANGED <<shmid, semid>>,
         segs' \in Seq(Segment), Len(segs') = Len(segs),
         \A q \in Procs \ {p} : attached'[q] = attached[q] /\ reg'[q] = reg[q],
         attached'[p] = IF to \in Released THEN None ELSE 1,
         segs'[1].nproc >= Cardinality(Users'),
         to = "nproc_dec" => reg'[p] >= Cardinality(Users') - 1,
         to \in {"shm_rmid", "detach"} => reg'[p] >= Cardinality(Users'),
         to \in {"rmid_free", "rmid_full", "rmid_mutex"} => Users' = {},
         Users' \subseteq Users,
         \A s \in SemNames : /\ sem'[s].id = sem[s].id
                             /\ sem'[s].there = sem[s].there \/ Users' = {}
  PROVE  Parts'
  <1>1. /\ pc'[p] = to /\ \A q \in Procs \ {p} : pc'[q] = pc[q]
        /\ segs \in Seq(Segment)
    BY DEF TypeInv, VarTypes, SegTypes
  <1>2. ~ Launching
    BY DEF Parts, NoQuitYet
  <1>3. /\ to \notin InInit /\ to # "start" /\ pc[p] # "start"
        /\ \A s \in SemNames : to \notin Before(s) /\ pc[p] \notin Before(s)
    BY DEF InInit, Leaving, InDestroy, Ended, Before
  <1>4. ~ Launching' /\ \A q \in Procs : pc'[q] \notin InInit \cup {"start"}
    BY <1>1, <1>2, <1>3 DEF Launching
  <1>5. OneStarts' /\ NoQuitYet'
    BY <1>4 DEF OneStarts, NoQuitYet
  <1>6. OneSegment'
    <2>1. Len(segs) # 0 /\ Len(segs') # 0
      BY <1>1, <1>3 DEF Parts, OneSegment
    <2>2. QED
      BY <1>4, <2>1 DEF Parts, OneSegment
  <1>7. Holding'
    <2> SUFFICES ASSUME NEW q \in Procs
                 PROVE /\ pc'[q] # "killed"
                       /\ pc'[q] \notin {"start", "shm_existing"} => shmid'[q] = 1
                       /\ attached'[q] = IF pc'[q] \in Released THEN None ELSE 1
                       /\ \A s \in SemNames : pc'[q] \notin Before(s) => semid'[q][s] = 1
      BY DEF Holding
    <2>1. CASE q = p
      <3>1. shmid[p] = 1 /\ \A s \in SemNames : semid[p][s] = 1
        BY <1>3 DEF Parts, Holding, Leaving, InDestroy, Ended
      <3>2. QED
        BY <1>1, <2>1, <3>1
    <2>2. CASE q # p
      BY <1>1, <2>2 DEF Parts, Holding
    <2>3. QED
      BY <2>1, <2>2
  <1>8. OneSemaphore'
    BY <1>2, <1>3, <1>4 DEF Parts, OneSemaphore
  <1>9. NprocCounts'
    <2>1. Cardinality(Users') <= Cardinality(Users) /\ Cardinality(Users') \in Nat
      <3>1. Users \in SUBSET Procs /\ Users' \in SUBSET Procs
        BY DEF Users
      <3>2. QED
        BY <3>1, PartOfProcs, FS_Subset
    <2> SUFFICES ASSUME NEW q \in Procs
                 PROVE /\ pc'[q] = "nproc_inc" => reg'[q] >= Cardinality(Users')
                       /\ pc'[q] = "nproc_dec" => reg'[q] >= Cardinality(Users') - 1
                       /\ pc'[q] \in {"shm_rmid", "detach"} => reg'[q] >= Cardinality(Users')
                       /\ pc'[q] \in {"rmid_free", "rmid_full", "rmid_mutex"} => Users' = {}
      BY DEF NprocCounts
    <2>2. CASE q = p
      BY <1>1, <2>2 DEF Leaving, InDestroy, Ended
    <2>3. CASE q # p
      <3>1. reg[q] \in Int /\ Cardinality(Users) \in Nat
        BY UsersNumber DEF TypeInv, VarTypes
      <3>2. pc'[q] = pc[q] /\ reg'[q] = reg[q] /\ pc'[q] # "nproc_inc"
        BY <1>1, <1>4, <2>3 DEF InInit
      <3>3. QED
        BY <2>1, <3>1, <3>2 DEF Parts, NprocCounts
    <2>4. QED
      BY <2>2, <2>3
  <1>10. QED
    BY <1>5, <1>6, <1>7, <1>8, <1>9 DEF Parts

(* What a program inside buf_init can count on. *)
LEMMA InitBasics ==
  ASSUME TypeInv, Parts, NEW p \in Procs, pc[p] \in InInit
  PROVE  /\ Launching /\ Len(segs) = 1 /\ segKey = 1 /\ segs \in Seq(Segment) /\ segs[1] \in Segment
         /\ segs[1].nproc >= Cardinality(Users) /\ segs[1].nproc \in Int /\ ~ segs[1].removed
         /\ pc[p] # "shm_existing" => shmid[p] = 1
         /\ attached[p] = IF pc[p] \in Unmapped THEN None ELSE 1
         /\ \A s \in SemNames : pc[p] \notin Before(s) => semid[p][s] = 1 /\ sem[s].id = 1 /\ sem[s].there
         /\ \A s \in SemNames : sem[s].id = 1 => sem[s].there
         /\ \A s \in SemNames : sem[s].id \in {0, 1} /\ (sem[s].id = 0 => pc[p] # Find(s) /\ ~ sem[s].there)
         /\ pc[p] \in Counted => fresh[p]
  <1>1. Launching
    BY DEF Launching
  <1>2. Len(segs) = 1 /\ segKey = 1 /\ segs \in Seq(Segment) /\ Len(segs) # 0
    <2>1. segs \in Seq(Segment) /\ Len(segs) \in Nat
      BY DEF TypeInv, SegTypes
    <2>2. pc[p] # "start"
      BY DEF InInit
    <2>3. Len(segs) # 0 /\ Len(segs) <= 1 /\ segKey = Len(segs)
      BY <1>1, <2>2 DEF Parts, OneSegment
    <2>4. QED
      BY <2>1, <2>3
  <1>3. segs[1] \in Segment
    BY <1>2
  <1>4. segs[1].nproc \in Int
    BY <1>3 DEF Segment
  <1>5. segs[1].nproc >= Cardinality(Users) /\ ~ segs[1].removed
    BY <1>1, <1>2 DEF Parts, NprocCounts, OneSegment
  <1>6. /\ pc[p] # "shm_existing" => shmid[p] = 1
        /\ attached[p] = IF pc[p] \in Unmapped THEN None ELSE 1
    BY DEF Parts, Holding, InInit, Released, Unmapped
  <1>7. \A s \in SemNames : pc[p] \notin Before(s) => semid[p][s] = 1 /\ sem[s].id = 1 /\ sem[s].there
    BY <1>1 DEF Parts, Holding, OneSemaphore
  <1>8. \A s \in SemNames : sem[s].id \in {0, 1} /\ (sem[s].id = 0 => pc[p] # Find(s) /\ ~ sem[s].there)
    BY DEF Parts, OneSemaphore
  <1>9. pc[p] \in Counted => fresh[p]
    BY DEF Parts, OneStarts
  <1>10. \A s \in SemNames : sem[s].id = 1 => sem[s].there
    BY <1>1 DEF Parts, OneSemaphore
  <1>11. QED
    BY <1>1, <1>2, <1>3, <1>4, <1>5, <1>6, <1>7, <1>8, <1>9, <1>10

(* A step of buf_init that makes no semaphore keeps OneSemaphore. *)
LEMMA SemaphoreKept ==
  ASSUME TypeInv, Parts, NEW p \in Procs, pc[p] \in InInit, NEW to \in InInit \cup {"loop"},
         pc' = [pc EXCEPT ![p] = to],
         \A s \in SemNames : sem'[s].id = sem[s].id /\ sem'[s].there = sem[s].there,
         \A s \in SemNames : to \in Before(s) \ {Find(s)} \/ sem[s].id = 1
  PROVE  OneSemaphore'
  <1>1. Launching
    BY DEF Launching
  <1>2. pc'[p] = to /\ \A q \in Procs \ {p} : pc'[q] = pc[q]
    BY DEF TypeInv, VarTypes
  <1>3. QED
    BY <1>1, <1>2 DEF Parts, OneSemaphore

(* A step that neither joins nor leaves keeps the users. *)
LEMMA UsersKept ==
  ASSUME TypeInv, NEW p \in Procs, NEW to, pc' = [pc EXCEPT ![p] = to], pc[p] \in Counted <=> to \in Counted
  PROVE  Users' = Users
  BY DEF Users, TypeInv, VarTypes

(* The steps of buf_init, one lemma for each action. *)
LEMMA ShmExistingKeeps ==
  ASSUME TypeInv, Parts, NEW p \in Procs, ShmExisting(p)
  PROVE  Parts'
  <1>1. /\ pc[p] = "shm_existing" /\ pc[p] \in InInit
        /\ UNCHANGED <<segKey, segs, attached, sem, semadj, fresh, semid, reg, c>>
    BY DEF ShmExisting, kernel, history, InInit
  <1>2. segKey = 1 /\ attached[p] = None /\ segs \in Seq(Segment) /\ segs[1].nproc >= Cardinality(Users)
    BY <1>1, InitBasics DEF Unmapped
  <1>3. shmid' = [shmid EXCEPT ![p] = 1] /\ pc' = [pc EXCEPT ![p] = "attach"]
    BY <1>2 DEF ShmExisting, Goto, None
  <1>4. /\ "attach" \in InInit /\ "attach" \in Unmapped /\ "attach" \notin Counted /\ pc[p] \notin Counted
        /\ \A s \in SemNames : "attach" \in Before(s) \ {Find(s)}
    BY <1>1 DEF InInit, Unmapped, Counted, InPut, InGet, Before, Find, SemNames
  <1>5. Users' = Users
    BY <1>3, <1>4, UsersKept
  <1>6. OneSemaphore'
    BY <1>1, <1>3, <1>4, SemaphoreKept
  <1>7. shmid'[p] = 1 /\ \A q \in Procs \ {p} : shmid'[q] = shmid[q]
    BY <1>3 DEF TypeInv, SegTypes
  <1>8. segs'[1].nproc >= Cardinality(Users')
    BY <1>1, <1>2, <1>5
  <1>9. QED
    BY <1>1, <1>2, <1>3, <1>4, <1>6, <1>7, <1>8, InitStepKeeps

LEMMA AttachKeeps ==
  ASSUME TypeInv, Parts, NEW p \in Procs, Attach(p)
  PROVE  Parts'
  <1>1. /\ pc[p] = "attach" /\ pc[p] \in InInit
        /\ UNCHANGED <<segKey, segs, sem, semadj, shmid, fresh, semid, reg, c>>
    BY DEF Attach, locals, history, InInit
  <1>2. shmid[p] = 1 /\ ~ segs[1].removed /\ segs \in Seq(Segment) /\ segs[1].nproc >= Cardinality(Users)
    BY <1>1, InitBasics
  <1>3. Exists(shmid[p])
    BY <1>2 DEF Exists
  <1>4. attached' = [attached EXCEPT ![p] = 1] /\ pc' = [pc EXCEPT ![p] = "get_free_sem"]
    BY <1>2, <1>3 DEF Attach, Goto
  <1>5. /\ "get_free_sem" \in InInit /\ "get_free_sem" \notin Unmapped
        /\ "get_free_sem" \notin Counted /\ pc[p] \notin Counted
        /\ \A s \in SemNames : "get_free_sem" \in Before(s) \ {Find(s)}
    BY <1>1 DEF InInit, Unmapped, Counted, InPut, InGet, Before, Find, SemNames
  <1>6. Users' = Users
    BY <1>4, <1>5, UsersKept
  <1>7. OneSemaphore'
    BY <1>1, <1>4, <1>5, SemaphoreKept
  <1>8. attached'[p] = 1 /\ \A q \in Procs \ {p} : attached'[q] = attached[q]
    BY <1>4 DEF TypeInv, SegTypes
  <1>9. segs'[1].nproc >= Cardinality(Users')
    BY <1>1, <1>2, <1>6
  <1>10. QED
    BY <1>1, <1>2, <1>4, <1>5, <1>7, <1>8, <1>9, InitStepKeeps

LEMMA GetSemaphoresKeeps ==
  ASSUME TypeInv, Parts, NEW p \in Procs, GetSemaphores(p)
  PROVE  Parts'
  <1>1. PICK s \in SemNames :
           \/ Made(p, s, Get(s), After(s))
           \/ Missed(p, s, Get(s), Find(s)) /\ sem[s].there
           \/ Found(p, s, Find(s), After(s))
           \/ Missed(p, s, Find(s), "loop") /\ ~ sem[s].there
    BY GetSemaphoresFacts
  <1>2. /\ pc[p] \in {Get(s), Find(s)} /\ pc[p] \in InInit \ Unmapped /\ pc[p] \notin Counted
        /\ UNCHANGED <<segKey, segs, attached, shmid, fresh, reg, c>>
    BY <1>1 DEF Made, Missed, Found, SemgetAt, Get, Find, InInit, SemNames, Counted, Unmapped, InPut, InGet
  <1>3. /\ Launching /\ segs \in Seq(Segment) /\ segs[1].nproc >= Cardinality(Users)
        /\ shmid[p] = 1 /\ attached[p] = 1
        /\ \A t \in SemNames : pc[p] \notin Before(t) => semid[p][t] = 1 /\ sem[t].id = 1
        /\ \A t \in SemNames : sem[t].id = 1 => sem[t].there
        /\ \A t \in SemNames : sem[t].id \in {0, 1} /\ (sem[t].id = 0 => pc[p] # Find(t) /\ ~ sem[t].there)
    BY <1>2, InitBasics DEF Unmapped
  <1>4. ~ (Missed(p, s, Find(s), "loop") /\ ~ sem[s].there)
    BY <1>3 DEF Missed, SemgetAt
  <1>5. PICK to \in {After(s), Find(s)} : pc' = [pc EXCEPT ![p] = to]
    BY <1>1, <1>4 DEF Made, Missed, Found, SemgetAt
  <1>6. /\ to \in InInit \ Unmapped /\ to \notin Counted /\ to # "nproc_inc"
        /\ \A t \in SemNames \ {s} : to \in Before(t) => to # Find(t) /\ pc[p] \in Before(t)
        /\ \A t \in SemNames \ {s} : to \notin Before(t) => pc[p] \notin Before(t)
        /\ After(s) \notin Before(s) /\ Find(s) \in Before(s)
    BY <1>2 DEF After, Get, Find, SemNames, InInit, Unmapped, Counted, InPut, InGet, Before
  <1>7. /\ \A t \in SemNames \ {s} : sem'[t] = sem[t] /\ semid'[p][t] = semid[p][t]
        /\ \A q \in Procs \ {p} : semid'[q] = semid[q]
        /\ sem'[s].id = 1 /\ sem'[s].there
        /\ to = After(s) => semid'[p][s] = 1
    <2>1. /\ sem \in [SemNames -> [id : Nat, val : Nat, there : BOOLEAN]]
          /\ semid \in [Procs -> [SemNames -> Nat]]
      BY DEF TypeInv, SemTypes
    <2>2. CASE Made(p, s, Get(s), After(s))
      <3>1. sem[s].id = 0
        BY <1>3, <2>2 DEF Made
      <3>2. QED
        BY <2>1, <2>2, <3>1 DEF Made
    <2>3. CASE Found(p, s, Find(s), After(s))
      <3>1. sem[s].id = 1
        BY <1>3, <2>3 DEF Found
      <3>2. QED
        BY <2>1, <2>3, <3>1 DEF Found
    <2>4. CASE Missed(p, s, Get(s), Find(s)) /\ sem[s].there
      <3>1. sem[s].id = 1 /\ Find(s) # After(s)
        BY <1>3, <2>4 DEF Find, After, SemNames
      <3>2. to = Find(s)
        BY <1>5, <2>4 DEF Missed, SemgetAt, TypeInv, VarTypes
      <3>3. QED
        BY <2>1, <2>4, <3>1, <3>2 DEF Missed
    <2>5. QED
      BY <1>1, <1>4, <2>2, <2>3, <2>4
  <1>8. Users' = Users
    BY <1>2, <1>5, <1>6, UsersKept
  <1>9. pc'[p] = to /\ \A q \in Procs \ {p} : pc'[q] = pc[q]
    BY <1>5 DEF TypeInv, VarTypes
  <1>10. OneSemaphore'
    <2> SUFFICES ASSUME NEW t \in SemNames
                 PROVE  \/ /\ sem'[t].id = 0 /\ ~ sem'[t].there
                           /\ \A q \in Procs : pc'[q] \in Before(t) \ {Find(t)}
                        \/ /\ sem'[t].id = 1
                           /\ Launching' \/ Users' # {} => sem'[t].there
      BY DEF OneSemaphore
    <2>1. CASE t = s
      BY <1>7, <2>1
    <2>2. CASE t # s /\ sem[t].id = 1
      BY <1>3, <1>7, <2>2
    <2>3. CASE t # s /\ sem[t].id = 0
      <3>1. \A q \in Procs : pc[q] \in Before(t) \ {Find(t)}
        BY <2>3 DEF Parts, OneSemaphore
      <3>2. to \in Before(t) \ {Find(t)}
        BY <1>6, <2>3, <3>1
      <3>3. QED
        BY <1>3, <1>7, <1>9, <2>3, <3>1, <3>2
    <2>4. QED
      BY <1>3, <2>1, <2>2, <2>3
  <1>11. segs'[1].nproc >= Cardinality(Users')
    BY <1>2, <1>3, <1>8
  <1>12. \A t \in SemNames : to \notin Before(t) => semid'[p][t] = 1
    BY <1>3, <1>5, <1>6, <1>7
  <1>13. to \in InInit \cup {"loop"} /\ to # "shm_existing" /\ to \notin Unmapped
    BY <1>6 DEF Unmapped
  <1>14. /\ segs' \in Seq(Segment) /\ Len(segs') = Len(segs)
         /\ \A g \in 1 .. Len(segs) : segs'[g].buf = segs[g].buf /\ segs'[g].removed = segs[g].removed
         /\ UNCHANGED <<segKey, fresh, c>>
         /\ shmid'[p] = 1 /\ attached'[p] = IF to \in Unmapped THEN None ELSE 1
    BY <1>2, <1>3, <1>13
  <1>15. \A q \in Procs \ {p} : /\ attached'[q] = attached[q] /\ shmid'[q] = shmid[q]
                                /\ semid'[q] = semid[q] /\ reg'[q] = reg[q]
    BY <1>2, <1>7
  <1>16. to \notin Counted \cap InInit /\ to # "nproc_inc"
    BY <1>6
  <1>17. QED
    BY <1>2, <1>5, <1>10, <1>11, <1>12, <1>13, <1>14, <1>15, <1>16, InitStepKeeps

LEMMA ShmCreateKeeps ==
  ASSUME TypeInv, TypeInv', Parts, Orderly', NEW p \in Procs, ShmCreate(p)
  PROVE  Parts'
  <1>1. /\ pc[p] = "start" /\ UNCHANGED <<attached, sem, semid, reg, c>>
    BY DEF ShmCreate
  <1>2. Launching /\ \A q \in Procs : pc[q] \notin InInit
    BY <1>1 DEF Launching, ShmCreate, Note, RacingLaunch, Orderly
  <1>3. /\ \A q \in Procs : pc[q] \notin Leaving
        /\ \A q \in Procs : q \in Senders \/ pc[q] \in {"get_out", "get_unlock", "get_free"}
                              => c[q] # Quit
        /\ segKey = Len(segs) /\ segs \in Seq(Segment) /\ Len(segs) <= 1
    BY <1>2 DEF Parts, NoQuitYet, OneSegment, TypeInv, SegTypes
  <1>4. PICK to \in {"attach", "shm_existing"} : pc' = [pc EXCEPT ![p] = to]
    BY DEF ShmCreate, Goto
  <1>5. pc'[p] = to /\ \A q \in Procs \ {p} : pc'[q] = pc[q]
    BY <1>4 DEF TypeInv, VarTypes
  <1>6. /\ to \in InInit /\ to \in Unmapped /\ to \in Released /\ to \notin Counted /\ to \notin Leaving
        /\ pc[p] \notin Counted /\ pc[p] \in Released
        /\ \A s \in SemNames : to \in Before(s) \ {Find(s)} /\ pc[p] \in Before(s)
    BY <1>1 DEF InInit, Unmapped, Released, Counted, InPut, InGet, Before, Find, SemNames, Leaving,
       InDestroy, Ended
  <1>7. Users' = Users /\ Users = {q \in Procs : pc[q] \in Counted}
    BY <1>4, <1>6, UsersKept DEF Users
  <1>8. ~ fresh[p] /\ attached[p] = None
    BY <1>1, <1>6 DEF TypeInv, Place, Parts, Holding
  <1>9. OneSemaphore'
    BY <1>1, <1>2, <1>5, <1>6, <1>7 DEF Parts, OneSemaphore
  <1>10. ASSUME segs' \in Seq(Segment), Len(segs') = 1, segKey' = 1, ~ segs'[1].removed,
                segs'[1].nproc >= Cardinality(Users),
                \A i \in 0 .. Size - 1 : segs'[1].buf[i] # Quit,
                \A q \in Procs \ {p} : fresh'[q] = fresh[q] /\ shmid'[q] = shmid[q],
                fresh'[p] => \A q \in Procs \ {p} : pc[q] = "start",
                to = "attach" => shmid'[p] = 1
         PROVE  Parts'
    <2>1. OneStarts'
      BY <1>2, <1>5, <1>6, <1>10 DEF OneStarts
    <2>2. OneSegment'
      BY <1>10 DEF OneSegment
    <2>3. NoQuitYet'
      BY <1>1, <1>3, <1>5, <1>6, <1>10 DEF NoQuitYet
    <2>4. Holding'
      <3> SUFFICES ASSUME NEW q \in Procs
                   PROVE /\ pc'[q] # "killed"
                         /\ pc'[q] \notin {"start", "shm_existing"} => shmid'[q] = 1
                         /\ attached'[q] = IF pc'[q] \in Released THEN None ELSE 1
                         /\ \A s \in SemNames : pc'[q] \notin Before(s) => semid'[q][s] = 1
        BY DEF Holding
      <3>1. CASE q = p
        BY <1>1, <1>5, <1>6, <1>8, <1>10, <3>1
      <3>2. CASE q # p
        BY <1>1, <1>5, <1>10, <3>2 DEF Parts, Holding
      <3>3. QED
        BY <3>1, <3>2
    <2>5. NprocCounts'
      BY <1>1, <1>5, <1>6, <1>7, <1>10 DEF Parts, NprocCounts, InInit
    <2>6. QED
      BY <1>9, <2>1, <2>2, <2>3, <2>4, <2>5 DEF Parts
  <1>11. CASE segKey = None
    <2>0. Len(segs) = 0 /\ segs \in Seq(Segment)
      BY <1>3, <1>11 DEF None
    <2>1. segs = <<>>
      BY <2>0
    <2>2. \A q \in Procs : pc[q] = "start"
      BY <2>1 DEF Parts, OneSegment
    <2>3. segs' = <<ZeroedSegment>>
      BY <2>1, <1>11 DEF ShmCreate, None
    <2>4. /\ segKey' = 1 /\ shmid' = [shmid EXCEPT ![p] = 1] /\ fresh' = [fresh EXCEPT ![p] = TRUE]
      BY <2>3, <1>11 DEF ShmCreate, None
    <2>5. Users = {}
      BY <2>2 DEF Users, Counted, InPut, InGet
    <2>6. /\ ~ ZeroedSegment.removed /\ ZeroedSegment.nproc = 0
          /\ \A i \in 0 .. Size - 1 : ZeroedSegment.buf[i] # Quit
      BY LetterAssumption DEF ZeroedSegment
    <2>7. Cardinality(Users) = 0
      BY <2>5, FS_EmptySet
    <2>8. /\ shmid'[p] = 1
          /\ \A q \in Procs \ {p} : fresh'[q] = fresh[q] /\ shmid'[q] = shmid[q]
      BY <2>4 DEF TypeInv, SegTypes, VarTypes
    <2>9. segs' \in Seq(Segment) /\ Len(segs') = 1 /\ segs'[1] = ZeroedSegment
      BY <2>3, ZeroedIsSegment
    <2>10. QED
      BY <2>2, <2>4, <2>6, <2>7, <2>8, <2>9, <1>10
  <1>12. CASE segKey # None
    <2>1. UNCHANGED <<segs, segKey, shmid, fresh>> /\ pc' = [pc EXCEPT ![p] = "shm_existing"]
      BY <1>12 DEF ShmCreate, Goto
    <2>2. to = "shm_existing"
      BY <1>5, <2>1 DEF TypeInv, VarTypes
    <2>3. Len(segs) = 1 /\ Len(segs) # 0
      BY <1>3, <1>12 DEF None
    <2>4. ~ segs[1].removed /\ \A i \in 0 .. Size - 1 : segs[1].buf[i] # Quit
      BY <1>2, <2>3 DEF Parts, OneSegment, NoQuitYet
    <2>5. segs[1].nproc >= Cardinality(Users)
      BY <2>3 DEF Parts, NprocCounts
    <2>6. QED
      BY <1>3, <1>8, <2>1, <2>2, <2>3, <2>4, <2>5, <1>10
  <1>13. QED
    BY <1>11, <1>12

LEMMA NprocLoadKeeps ==
  ASSUME TypeInv, Parts, NEW p \in Procs, NprocLoad(p)
  PROVE  Parts'
  <1>1. /\ pc[p] = "nproc_load" /\ pc[p] \in InInit \ Unmapped /\ pc[p] \notin Counted
        /\ UNCHANGED <<segKey, segs, attached, sem, shmid, fresh, semid, c>>
        /\ pc' = [pc EXCEPT ![p] = "nproc_inc"] /\ reg' = [reg EXCEPT ![p] = Seg(p).nproc]
    BY DEF NprocLoad, kernel, history, InInit, Unmapped, Counted, InPut, InGet, Goto
  <1>2. /\ shmid[p] = 1 /\ attached[p] = 1 /\ segs \in Seq(Segment)
        /\ segs[1].nproc >= Cardinality(Users) /\ segs[1].nproc \in Int
        /\ \A s \in SemNames : pc[p] \notin Before(s) => semid[p][s] = 1 /\ sem[s].id = 1
    BY <1>1, InitBasics DEF Unmapped
  <1>3. /\ "nproc_inc" \in InInit /\ "nproc_inc" \notin Unmapped /\ "nproc_inc" \notin Counted
        /\ \A s \in SemNames : pc[p] \notin Before(s)
    BY <1>1 DEF InInit, Unmapped, Counted, InPut, InGet, Before
  <1>4. Users' = Users
    BY <1>1, <1>3, UsersKept
  <1>5. OneSemaphore'
    BY <1>1, <1>2, <1>3, SemaphoreKept
  <1>6. reg'[p] = segs[1].nproc /\ \A q \in Procs \ {p} : reg'[q] = reg[q]
    BY <1>1, <1>2 DEF Seg, TypeInv, VarTypes
  <1>7. segs'[1].nproc >= Cardinality(Users') /\ reg'[p] >= Cardinality(Users')
    BY <1>1, <1>2, <1>4, <1>6
  <1>8. QED
    BY <1>1, <1>2, <1>3, <1>5, <1>6, <1>7, InitStepKeeps

LEMMA NprocIncKeeps ==
  ASSUME TypeInv, Parts, NEW p \in Procs, NprocInc(p)
  PROVE  Parts'
  <1>1. /\ pc[p] = "nproc_inc" /\ pc[p] \in InInit \ Unmapped /\ pc[p] \notin Counted /\ pc[p] \in Mapped
        /\ UNCHANGED <<segKey, attached, sem, shmid, fresh, semid, reg, c>>
        /\ Write(p, "nproc", reg[p] + 1) /\ reg[p] + 1 \in Int
    BY DEF NprocInc, locals, history, InInit, Unmapped, Counted, InPut, InGet, Goto, Mapped, TypeInv, VarTypes
  <1>2. PICK to \in {"set_size", "loop"} : pc' = [pc EXCEPT ![p] = to] /\ (to = "set_size" => fresh[p])
    BY DEF NprocInc, Goto
  <1>3. /\ shmid[p] = 1 /\ attached[p] = 1 /\ segs \in Seq(Segment) /\ Len(segs) = 1 /\ segs[1] \in Segment
        /\ \A s \in SemNames : pc[p] \notin Before(s) => semid[p][s] = 1 /\ sem[s].id = 1
    BY <1>1, InitBasics DEF Unmapped
  <1>4. /\ to \in InInit \cup {"loop"} /\ to \notin Unmapped /\ to \in Counted /\ to # "nproc_inc"
        /\ to \in Counted \cap InInit => to = "set_size"
        /\ \A s \in SemNames : pc[p] \notin Before(s)
    BY <1>1 DEF InInit, Unmapped, Counted, InPut, InGet, Before
  <1>5. /\ segs' \in Seq(Segment) /\ Len(segs') = Len(segs)
        /\ segs'[1] = [Seg(p) EXCEPT !.nproc = reg[p] + 1] /\ Seg(p) = segs[1]
    BY <1>1, <1>3, WroteNproc DEF Seg
  <1>6. segs'[1].nproc = reg[p] + 1 /\ segs'[1].removed = segs[1].removed /\ segs'[1].buf = segs[1].buf
    BY <1>3, <1>5 DEF Segment
  <1>7. Cardinality(Users') = Cardinality(Users) + 1
    <2>1. Users' = Users \cup {p} /\ p \notin Users
      BY <1>1, <1>2, <1>4 DEF Users, TypeInv, VarTypes
    <2>2. QED
      BY <2>1, UsersNumber, PartOfProcs, FS_AddElement
  <1>8. reg[p] >= Cardinality(Users) /\ reg[p] \in Int
    BY <1>1 DEF Parts, NprocCounts, TypeInv, VarTypes
  <1>9. segs'[1].nproc >= Cardinality(Users')
    BY <1>6, <1>7, <1>8, UsersNumber
  <1>10. OneSemaphore'
    BY <1>1, <1>2, <1>3, <1>4, SemaphoreKept
  <1>11. \A g \in 1 .. Len(segs) : segs'[g].buf = segs[g].buf /\ segs'[g].removed = segs[g].removed
    BY <1>3, <1>6
  <1>12. QED
    BY <1>1, <1>2, <1>3, <1>4, <1>5, <1>9, <1>10, <1>11, InitStepKeeps DEF Unmapped

LEMMA InitStructKeeps ==
  ASSUME TypeInv, Parts, NEW p \in Procs, InitStruct(p)
  PROVE  Parts'
  <1>1. /\ pc[p] \in {"set_size", "set_out", "set_in", "set_nproc"}
        /\ UNCHANGED <<segKey, attached, sem, shmid, fresh, semid, reg, c>>
    BY DEF InitStruct, locals, history
  <1>2. pc[p] \in InInit \ Unmapped /\ pc[p] \in Counted /\ pc[p] \in Mapped
    BY <1>1 DEF InInit, Unmapped, Counted, Mapped
  <1>3. PICK to \in {"set_out", "set_in", "set_nproc", "set_free"} : pc' = [pc EXCEPT ![p] = to]
    BY DEF InitStruct, Goto
  <1>4. /\ shmid[p] = 1 /\ attached[p] = 1 /\ segs \in Seq(Segment) /\ Len(segs) = 1 /\ segs[1] \in Segment
        /\ segs[1].nproc >= Cardinality(Users) /\ fresh[p]
        /\ \A s \in SemNames : pc[p] \notin Before(s) => semid[p][s] = 1 /\ sem[s].id = 1
    BY <1>2, InitBasics DEF Unmapped
  <1>5. /\ to \in InInit \cup {"loop"} /\ to \notin Unmapped /\ to \in Counted /\ to # "nproc_inc"
        /\ to # "shm_existing" /\ \A s \in SemNames : pc[p] \notin Before(s)
    BY <1>1 DEF InInit, Unmapped, Counted, Before
  <1>6. Users' = Users
    BY <1>2, <1>3, <1>5, UsersKept
  <1>7. Cardinality(Users) <= 1
    <2>1. \A q \in Procs \ {p} : pc[q] = "start"
      BY <1>2, <1>4 DEF Parts, OneStarts
    <2>2. Users \subseteq {p}
      BY <2>1 DEF Users, Counted, InPut, InGet
    <2>3. IsFiniteSet({p}) /\ Cardinality({p}) = 1
      BY FS_Singleton
    <2>4. QED
      BY <2>2, <2>3, FS_Subset
  <1>8. /\ segs' \in Seq(Segment) /\ Len(segs') = Len(segs)
        /\ segs'[1].buf = segs[1].buf /\ segs'[1].removed = segs[1].removed
        /\ segs'[1].nproc \in {segs[1].nproc, 1}
    <2>0. Seg(p) = segs[1]
      BY <1>4 DEF Seg
    <2>1. CASE pc[p] = "set_size"
      <3>1. Write(p, "size", Size) /\ Size \in {0, Size}
        BY <2>1 DEF InitStruct
      <3>2. segs' \in Seq(Segment) /\ Len(segs') = Len(segs) /\ segs'[1] = [Seg(p) EXCEPT !.size = Size]
        BY <3>1, <1>2, <1>4, WroteSize
      <3>3. QED
        BY <3>2, <2>0, <1>4 DEF Segment
    <2>2. CASE pc[p] \in {"set_out", "set_in"}
      <3>1. 0 \in 0 .. Size - 1
        BY BoundAssumption
      <3>2. Write(p, "out", 0) \/ Write(p, "in", 0)
        BY <2>2 DEF InitStruct
      <3>3. CASE Write(p, "out", 0)
        <4>1. /\ segs' \in Seq(Segment) /\ Len(segs') = Len(segs)
              /\ segs'[attached[p]] = [Seg(p) EXCEPT !.out = 0]
          BY <1>2, <3>1, <3>3, WroteOut, Zenon
        <4>2. segs'[1] = [Seg(p) EXCEPT !.out = 0]
          BY <1>4, <4>1
        <4>3. QED
          BY <4>1, <4>2, <2>0, <1>4 DEF Segment
      <3>4. CASE Write(p, "in", 0)
        <4>1. /\ segs' \in Seq(Segment) /\ Len(segs') = Len(segs)
              /\ segs'[attached[p]] = [Seg(p) EXCEPT !.in = 0]
          BY <1>2, <3>1, <3>4, WroteIn, Zenon
        <4>2. segs'[1] = [Seg(p) EXCEPT !.in = 0]
          BY <1>4, <4>1
        <4>3. QED
          BY <4>1, <4>2, <2>0, <1>4 DEF Segment
      <3>5. QED
        BY <3>2, <3>3, <3>4
    <2>3. CASE pc[p] = "set_nproc"
      <3>1. PICK v \in Int : v = 1 /\ Write(p, "nproc", v)
        BY <2>3 DEF InitStruct
      <3>a. /\ segs' \in Seq(Segment) /\ Len(segs') = Len(segs)
            /\ segs'[attached[p]] = [Seg(p) EXCEPT !.nproc = v]
        BY <3>1, <1>2, WroteNproc, Zenon
      <3>2. segs' \in Seq(Segment) /\ Len(segs') = Len(segs) /\ segs'[1] = [Seg(p) EXCEPT !.nproc = v]
        BY <3>a, <1>4
      <3>3. QED
        BY <3>1, <3>2, <2>0, <1>4 DEF Segment
    <2>4. QED
      BY <1>1, <2>1, <2>2, <2>3
  <1>9. segs'[1].nproc >= Cardinality(Users')
    BY <1>4, <1>6, <1>7, <1>8, UsersNumber
  <1>10. OneSemaphore'
    BY <1>1, <1>2, <1>3, <1>4, <1>5, SemaphoreKept
  <1>11. \A g \in 1 .. Len(segs) : segs'[g].buf = segs[g].buf /\ segs'[g].removed = segs[g].removed
    BY <1>4, <1>8
  <1>12. QED
    BY <1>1, <1>2, <1>3, <1>4, <1>5, <1>8, <1>9, <1>10, <1>11, InitStepKeeps

LEMMA InitSemaphoresKeeps ==
  ASSUME TypeInv, Parts, NEW p \in Procs, InitSemaphores(p)
  PROVE  Parts'
  <1>1. PICK s \in SemNames, here \in {"set_free", "set_full", "set_mutex"}, v \in Nat,
            next \in {"set_full", "set_mutex", "loop"} :
           /\ pc[p] = here
           /\ \/ /\ Valid(p, s) /\ pc' = [pc EXCEPT ![p] = next]
                 /\ sem' = [sem EXCEPT ![s] = [id |-> sem[s].id, val |-> v, there |-> sem[s].there]]
                 /\ semadj' = [q \in Procs |-> [semadj[q] EXCEPT ![s] = 0]]
              \/ ~ Valid(p, s) /\ pc' = [pc EXCEPT ![p] = "loop"] /\ sem' = sem /\ semadj' = semadj
           /\ UNCHANGED <<segKey, segs, attached, shmid, fresh, semid, reg, c, typed, got, crashes, breaches>>
    BY InitSemaphoresFacts
  <1>2. pc[p] \in InInit \ Unmapped /\ pc[p] \in Counted /\ pc[p] \notin Before(s)
    BY <1>1 DEF InInit, Unmapped, Counted, Before
  <1>3. Valid(p, s)
    BY <1>2, Validity
  <1>4. /\ shmid[p] = 1 /\ attached[p] = 1 /\ segs \in Seq(Segment) /\ Len(segs) = 1
        /\ segs[1].nproc >= Cardinality(Users) /\ fresh[p]
        /\ \A t \in SemNames : pc[p] \notin Before(t) => semid[p][t] = 1 /\ sem[t].id = 1
    BY <1>2, InitBasics DEF Unmapped
  <1>5. /\ next \in InInit \cup {"loop"} /\ next \notin Unmapped /\ next \in Counted /\ next # "nproc_inc"
        /\ next # "shm_existing" /\ \A t \in SemNames : pc[p] \notin Before(t)
    BY <1>1 DEF InInit, Unmapped, Counted, Before
  <1>6. /\ pc' = [pc EXCEPT ![p] = next]
        /\ sem' = [sem EXCEPT ![s] = [id |-> sem[s].id, val |-> v, there |-> sem[s].there]]
    BY <1>1, <1>3
  <1>7. \A t \in SemNames : sem'[t].id = sem[t].id /\ sem'[t].there = sem[t].there
    BY <1>6 DEF TypeInv, SemTypes
  <1>8. Users' = Users
    BY <1>2, <1>5, <1>6, UsersKept
  <1>9. OneSemaphore'
    BY <1>2, <1>4, <1>5, <1>6, <1>7, SemaphoreKept
  <1>10. segs'[1].nproc >= Cardinality(Users')
    BY <1>1, <1>4, <1>8
  <1>11. QED
    BY <1>1, <1>2, <1>4, <1>5, <1>6, <1>9, <1>10, InitStepKeeps

LEMMA OneIsLeft ==
  ASSUME NEW n \in Nat, n # 0, n <= 1
  PROVE  n = 1
  OBVIOUS

(* What a program inside buf_destroy can count on. *)
LEMMA LeaveBasics ==
  ASSUME TypeInv, Parts, NEW p \in Procs, pc[p] \in Leaving
  PROVE  /\ Len(segs) = 1 /\ segs \in Seq(Segment) /\ segs[1] \in Segment
         /\ segs[1].nproc >= Cardinality(Users) /\ segs[1].nproc \in Int
         /\ attached[p] = IF pc[p] \in Released THEN None ELSE 1
         /\ reg[p] \in Int /\ Cardinality(Users) \in Nat
  <1>1. pc[p] # "start"
    BY DEF Leaving, InDestroy, Ended
  <1>2. segs \in Seq(Segment)
    BY DEF TypeInv, SegTypes
  <1>3. Len(segs) # 0 /\ Len(segs) <= 1
    BY <1>1 DEF Parts, OneSegment
  <1>4. Len(segs) = 1
    <2>1. Len(segs) \in Nat
      BY <1>2
    <2>2. QED
      BY <2>1, <1>3, OneIsLeft
  <1>5. segs[1] \in Segment
    BY <1>2, <1>4
  <1>6. segs[1].nproc \in Int
    BY <1>5 DEF Segment
  <1>7. segs[1].nproc >= Cardinality(Users)
    BY <1>3 DEF Parts, NprocCounts
  <1>8. reg[p] \in Int /\ attached[p] = IF pc[p] \in Released THEN None ELSE 1
    BY DEF TypeInv, VarTypes, Parts, Holding
  <1>9. QED
    BY <1>2, <1>4, <1>5, <1>6, <1>7, <1>8, UsersNumber

(* The steps of buf_destroy, one lemma for each action.  nproc_read and       *)
(* nproc_dec may interleave with those of another program: what is written is *)
(* never less than the users that are left.                                   *)
LEMMA NprocReadKeeps ==
  ASSUME TypeInv, Parts, NEW p \in Procs, NprocRead(p)
  PROVE  Parts'
  <1>1. /\ pc[p] = "nproc_read" /\ pc[p] \in Leaving /\ pc[p] \in Counted /\ pc[p] \notin Released
        /\ UNCHANGED <<segs, attached, sem, shmid, semid>>
    BY DEF NprocRead, kernel, history, Leaving, InDestroy, Counted, Released, Unmapped
  <1>2. /\ segs \in Seq(Segment) /\ segs[1].nproc >= Cardinality(Users) /\ segs[1].nproc \in Int
        /\ attached[p] = 1 /\ Cardinality(Users) \in Nat
    BY <1>1, LeaveBasics
  <1>3. pc' = [pc EXCEPT ![p] = "nproc_dec"] /\ reg' = [reg EXCEPT ![p] = segs[1].nproc - 1]
    BY <1>2 DEF NprocRead, IS_MEM_OK, Goto, Seg, None
  <1>4. /\ "nproc_dec" \in Leaving \ {"killed"} /\ "nproc_dec" \in Counted /\ "nproc_dec" \notin Released
    BY DEF Leaving, InDestroy, Counted, Released, Unmapped
  <1>5. Users' = Users
    BY <1>1, <1>3, <1>4, UsersKept
  <1>6. reg'[p] = segs[1].nproc - 1 /\ \A q \in Procs \ {p} : reg'[q] = reg[q]
    BY <1>3 DEF TypeInv, VarTypes
  <1>7. segs'[1].nproc >= Cardinality(Users') /\ reg'[p] >= Cardinality(Users') - 1
    BY <1>1, <1>2, <1>5, <1>6
  <1>8. QED
    BY <1>1, <1>2, <1>3, <1>4, <1>5, <1>6, <1>7, LeaveStepKeeps

LEMMA NprocDecKeeps ==
  ASSUME TypeInv, Parts, NEW p \in Procs, NprocDec(p)
  PROVE  Parts'
  <1>1. /\ pc[p] = "nproc_dec" /\ pc[p] \in Leaving /\ pc[p] \in Mapped /\ pc[p] \notin Released
        /\ UNCHANGED <<attached, sem, shmid, semid, reg>> /\ pc' = [pc EXCEPT ![p] = "shm_rmid"]
        /\ Write(p, "nproc", reg[p])
    BY DEF NprocDec, locals, history, Leaving, InDestroy, Mapped, Released, Unmapped, Goto
  <1>2. /\ segs \in Seq(Segment) /\ Len(segs) = 1 /\ segs[1] \in Segment
        /\ attached[p] = 1 /\ Cardinality(Users) \in Nat /\ reg[p] \in Int
    BY <1>1, LeaveBasics
  <1>3. /\ "shm_rmid" \in Leaving \ {"killed"} /\ "shm_rmid" \notin Counted /\ "shm_rmid" \notin Released
        /\ pc[p] \in Counted
    BY <1>1 DEF Leaving, InDestroy, Counted, Released, Unmapped, InPut, InGet
  <1>4. Users' = Users \ {p} /\ p \in Users
    BY <1>1, <1>3 DEF Users, TypeInv, VarTypes
  <1>5. Cardinality(Users') = Cardinality(Users) - 1
    BY <1>4, UsersNumber, PartOfProcs, FS_RemoveElement
  <1>6. segs' \in Seq(Segment) /\ Len(segs') = Len(segs) /\ segs'[1] = [Seg(p) EXCEPT !.nproc = reg[p]]
    BY <1>1, <1>2, WroteNproc
  <1>7. segs'[1].nproc = reg[p]
    BY <1>2, <1>6 DEF Seg, Segment
  <1>8. reg[p] >= Cardinality(Users) - 1
    BY <1>1 DEF Parts, NprocCounts
  <1>9. segs'[1].nproc >= Cardinality(Users') /\ reg'[p] >= Cardinality(Users')
    BY <1>1, <1>5, <1>7, <1>8
  <1>10. Users' \subseteq Users
    BY <1>4
  <1>11. QED
    BY <1>1, <1>2, <1>3, <1>6, <1>9, <1>10, LeaveStepKeeps

LEMMA ShmRmidKeeps ==
  ASSUME TypeInv, Parts, NEW p \in Procs, ShmRmid(p)
  PROVE  Parts'
  <1>1. /\ pc[p] = "shm_rmid" /\ pc[p] \in Leaving /\ pc[p] \in Mapped /\ pc[p] \notin Released
        /\ UNCHANGED <<attached, sem, shmid, semid, reg>> /\ pc' = [pc EXCEPT ![p] = "detach"]
        /\ Write(p, "removed", TRUE) /\ pc[p] \notin Counted
    BY DEF ShmRmid, locals, history, Leaving, InDestroy, Mapped, Released, Unmapped, Goto, Counted, InPut, InGet
  <1>2. /\ segs \in Seq(Segment) /\ Len(segs) = 1 /\ segs[1] \in Segment
        /\ segs[1].nproc >= Cardinality(Users) /\ attached[p] = 1
    BY <1>1, LeaveBasics
  <1>3. /\ "detach" \in Leaving \ {"killed"} /\ "detach" \notin Counted /\ "detach" \notin Released
    BY DEF Leaving, InDestroy, Counted, Released, Unmapped, InPut, InGet
  <1>4. Users' = Users
    BY <1>1, <1>3, UsersKept
  <1>5. segs' \in Seq(Segment) /\ Len(segs') = Len(segs) /\ segs'[1] = [Seg(p) EXCEPT !.removed = TRUE]
    <2>1. TRUE \in BOOLEAN
      OBVIOUS
    <2>2. /\ segs' \in Seq(Segment) /\ Len(segs') = Len(segs)
          /\ segs'[attached[p]] = [Seg(p) EXCEPT !.removed = TRUE]
      BY <2>1, <1>1, WroteRemoved, Zenon
    <2>3. QED
      BY <2>2, <1>2
  <1>6. segs'[1].nproc = segs[1].nproc
    BY <1>2, <1>5 DEF Seg, Segment
  <1>7. reg[p] >= Cardinality(Users)
    BY <1>1 DEF Parts, NprocCounts
  <1>8. segs'[1].nproc >= Cardinality(Users') /\ reg'[p] >= Cardinality(Users')
    BY <1>1, <1>2, <1>4, <1>6, <1>7
  <1>9. QED
    BY <1>1, <1>2, <1>3, <1>4, <1>5, <1>8, LeaveStepKeeps

LEMMA DetachKeeps ==
  ASSUME TypeInv, Parts, NEW p \in Procs, Detach(p)
  PROVE  Parts'
  <1>1. /\ pc[p] = "detach" /\ pc[p] \in Leaving /\ pc[p] \notin Counted
        /\ UNCHANGED <<segs, sem, shmid, semid, reg>> /\ attached' = [attached EXCEPT ![p] = None]
    BY DEF Detach, locals, history, Leaving, InDestroy, Counted, InPut, InGet
  <1>2. PICK to \in {"rmid_free", "exit"} : pc' = [pc EXCEPT ![p] = to] /\ (to = "rmid_free" => reg[p] = 0)
    BY DEF Detach, Goto
  <1>3. /\ segs \in Seq(Segment) /\ segs[1].nproc >= Cardinality(Users) /\ Cardinality(Users) \in Nat
    BY <1>1, LeaveBasics
  <1>4. /\ to \in Leaving \ {"killed"} /\ to \notin Counted /\ to \in Released
    BY DEF Leaving, InDestroy, Counted, Released, Unmapped, InPut, InGet
  <1>5. Users' = Users
    BY <1>1, <1>2, <1>4, UsersKept
  <1>6. to = "rmid_free" => Users = {}
    <2>1. reg[p] >= Cardinality(Users)
      BY <1>1 DEF Parts, NprocCounts
    <2>2. IsFiniteSet(Users)
      BY UsersNumber, PartOfProcs
    <2>3. to = "rmid_free" => Cardinality(Users) = 0
      BY <1>2, <1>3, <2>1
    <2>4. QED
      BY <2>2, <2>3, FS_EmptySet
  <1>7. attached'[p] = None /\ \A q \in Procs \ {p} : attached'[q] = attached[q]
    BY <1>1 DEF TypeInv, SegTypes
  <1>8. segs'[1].nproc >= Cardinality(Users')
    BY <1>1, <1>3, <1>5
  <1>9. QED
    BY <1>1, <1>2, <1>3, <1>4, <1>5, <1>6, <1>7, <1>8, LeaveStepKeeps

LEMMA RemoveSemaphoresKeeps ==
  ASSUME TypeInv, Parts, NEW p \in Procs, RemoveSemaphores(p)
  PROVE  Parts'
  <1>1. PICK s \in SemNames, here \in {"rmid_free", "rmid_full", "rmid_mutex"},
            next \in {"rmid_full", "rmid_mutex", "exit"} :
           /\ pc[p] = here
           /\ \/ /\ Valid(p, s) /\ pc' = [pc EXCEPT ![p] = next]
                 /\ sem' = [sem EXCEPT ![s] = [id |-> sem[s].id, val |-> 0, there |-> FALSE]]
                 /\ semadj' = [q \in Procs |-> [semadj[q] EXCEPT ![s] = 0]]
              \/ ~ Valid(p, s) /\ pc' = [pc EXCEPT ![p] = "exit"] /\ sem' = sem /\ semadj' = semadj
           /\ UNCHANGED <<segKey, segs, attached, shmid, fresh, semid, reg, c, typed, got, crashes, breaches>>
    BY RemoveSemaphoresFacts
  <1>2. PICK to \in {next, "exit"} : pc' = [pc EXCEPT ![p] = to]
    BY <1>1
  <1>3. /\ pc[p] \in Leaving /\ pc[p] \notin Counted /\ pc[p] \in Released
    BY <1>1 DEF Leaving, InDestroy, Counted, InPut, InGet, Released
  <1>4. /\ segs \in Seq(Segment) /\ segs[1].nproc >= Cardinality(Users) /\ attached[p] = None
    BY <1>3, LeaveBasics
  <1>5. /\ to \in Leaving \ {"killed"} /\ to \notin Counted /\ to \in Released
        /\ to \notin {"nproc_dec", "shm_rmid", "detach"}
    BY DEF Leaving, InDestroy, Counted, Released, Unmapped, InPut, InGet
  <1>6. Users' = Users /\ Users = {}
    BY <1>1, <1>2, <1>3, <1>5, UsersKept DEF Parts, NprocCounts
  <1>7. \A t \in SemNames : sem'[t].id = sem[t].id
    <2>1. sem \in [SemNames -> [id : Nat, val : Nat, there : BOOLEAN]]
      BY DEF TypeInv, SemTypes
    <2>2. CASE sem' = sem
      BY <2>2
    <2>3. CASE sem' = [sem EXCEPT ![s] = [id |-> sem[s].id, val |-> 0, there |-> FALSE]]
      BY <2>1, <2>3
    <2>4. QED
      BY <1>1, <2>2, <2>3
  <1>8. segs'[1].nproc >= Cardinality(Users')
    BY <1>1, <1>4, <1>6
  <1>9. QED
    BY <1>1, <1>2, <1>3, <1>4, <1>5, <1>6, <1>7, <1>8, LeaveStepKeeps

LEMMA ExitKeeps ==
  ASSUME TypeInv, Parts, NEW p \in Procs, Exit(p)
  PROVE  Parts'
  <1>1. /\ pc[p] = "exit" /\ pc[p] \in Leaving /\ pc[p] \notin Counted
        /\ UNCHANGED <<segs, shmid, semid, reg>> /\ attached' = [attached EXCEPT ![p] = None]
        /\ pc' = [pc EXCEPT ![p] = "done"]
    BY DEF Exit, End, Goto, locals, Leaving, InDestroy, Counted, InPut, InGet
  <1>2. /\ segs \in Seq(Segment) /\ segs[1].nproc >= Cardinality(Users)
    BY <1>1, LeaveBasics
  <1>3. /\ "done" \in Leaving \ {"killed"} /\ "done" \notin Counted /\ "done" \in Released
    BY DEF Leaving, Ended, Counted, Released, InPut, InGet
  <1>4. Users' = Users
    BY <1>1, <1>3, UsersKept
  <1>5. \A s \in SemNames : sem'[s].id = sem[s].id /\ sem'[s].there = sem[s].there
    <2> SUFFICES ASSUME NEW s \in SemNames
                 PROVE  sem'[s].id = sem[s].id /\ sem'[s].there = sem[s].there
      OBVIOUS
    <2>1. sem[s] \in [id : Nat, val : Nat, there : BOOLEAN]
      BY DEF TypeInv, SemTypes
    <2>2. sem'[s] = [sem[s] EXCEPT !.val = IF @ + semadj[p][s] > 0 THEN @ + semadj[p][s] ELSE 0]
      BY DEF Exit, End
    <2>3. QED
      BY <2>1, <2>2
  <1>6. attached'[p] = None /\ \A q \in Procs \ {p} : attached'[q] = attached[q]
    BY <1>1 DEF TypeInv, SegTypes
  <1>7. segs'[1].nproc >= Cardinality(Users')
    BY <1>1, <1>2, <1>4
  <1>8. QED
    BY <1>1, <1>2, <1>3, <1>4, <1>5, <1>6, <1>7, LeaveStepKeeps

(* An orderly session starts with the invariant. *)
LEMMA InitParts == Init => Parts
  <1> SUFFICES ASSUME Init PROVE Parts
    OBVIOUS
  <1>1. /\ \A p \in Procs : pc[p] = "start" /\ ~ fresh[p] /\ attached[p] = None
        /\ segs = <<>> /\ Len(segs) = 0 /\ segKey = None
        /\ \A p \in Senders : c[p] = Nul
        /\ \A s \in SemNames : sem[s].id = 0 /\ ~ sem[s].there
    BY DEF Init
  <1>2. OneStarts
    BY <1>1 DEF OneStarts, InInit
  <1>3. OneSegment
    BY <1>1 DEF OneSegment, None
  <1>4. NoQuitYet
    BY <1>1, LetterAssumption DEF NoQuitYet, Leaving, InDestroy, Ended
  <1>5. Holding
    BY <1>1 DEF Holding, Released, Unmapped, Before
  <1>6. OneSemaphore
    BY <1>1 DEF OneSemaphore, Before, Find, SemNames
  <1>7. NprocCounts
    BY <1>1 DEF NprocCounts
  <1>8. QED
    BY <1>2, <1>3, <1>4, <1>5, <1>6, <1>7 DEF Parts

(* A session that was disorderly stays so: its breaches and kills are not *)
(* forgotten.                                                             *)
LEMMA OrderlyBefore ==
  ASSUME TypeInv, NEW p \in Procs, Run(p) \/ Crash(p), Orderly'
  PROVE  Orderly /\ ~ Crash(p)
  <1>1. crashes \in Nat /\ (Crash(p) => crashes' = crashes + 1)
    BY BoundAssumption DEF TypeInv, VarTypes, Crash
  <1>2. ~ Crash(p)
    BY <1>1 DEF Orderly
  <1>3. ASSUME NEW s \in SemNames, NEW d \in Int, NEW next, _semop(p, s, d, next)
        PROVE  breaches \subseteq breaches' /\ crashes' = crashes
    BY <1>3 DEF _semop, Note
  <1>9. breaches \subseteq breaches' /\ crashes' = crashes => Orderly
    BY DEF Orderly
  <1>4. CASE p \in Senders /\ Send(p)
    <2>1. Type(p) => breaches \subseteq breaches' /\ crashes' = crashes
      BY DEF Type, Note
    <2>2. PutFree(p) \/ PutLock(p) \/ PutUnlock(p) \/ PutFull(p)
            => breaches \subseteq breaches' /\ crashes' = crashes
      BY <1>3 DEF PutFree, PutLock, PutUnlock, PutFull, SemNames
    <2>3. PutNext(p) \/ PutStore(p) \/ PutIn(p) => breaches' = breaches /\ crashes' = crashes
      BY DEF PutNext, PutStore, PutIn, history
    <2>4. breaches \subseteq breaches' /\ crashes' = crashes
      BY <1>4, <2>1, <2>2, <2>3 DEF Send
    <2>5. QED
      BY <2>4, <1>2, <1>9
  <1>5. CASE p \in Receivers /\ Receive(p)
    <2>1. GetFull(p) \/ GetLock(p) \/ GetUnlock(p) \/ GetFree(p)
            => breaches \subseteq breaches' /\ crashes' = crashes
      BY <1>3 DEF GetFull, GetLock, GetUnlock, GetFree, SemNames
    <2>2. CallGet(p) \/ GetFetch(p) \/ GetOut(p) => breaches' = breaches /\ crashes' = crashes
      BY DEF CallGet, GetFetch, GetOut, history
    <2>3. breaches \subseteq breaches' /\ crashes' = crashes
      BY <1>5, <2>1, <2>2 DEF Receive
    <2>4. QED
      BY <2>3, <1>2, <1>9
  <1>6. CASE BufInit(p)
    <2>1. ShmCreate(p) => breaches \subseteq breaches' /\ crashes' = crashes
      BY DEF ShmCreate, Note
    <2>2. ShmExisting(p) \/ Attach(p) \/ GetSemaphores(p) \/ NprocLoad(p) \/ NprocInc(p)
            \/ InitStruct(p) \/ InitSemaphores(p) => breaches' = breaches /\ crashes' = crashes
      BY DEF ShmExisting, Attach, GetSemaphores, NprocLoad, NprocInc, InitStruct, InitSemaphores, history
    <2>3. breaches \subseteq breaches' /\ crashes' = crashes
      BY <1>6, <2>1, <2>2 DEF BufInit
    <2>4. QED
      BY <2>3, <1>2, <1>9
  <1>7. CASE BufDestroy(p) \/ Exit(p)
    <2>1. breaches' = breaches /\ crashes' = crashes
      BY <1>7 DEF BufDestroy, NprocRead, NprocDec, ShmRmid, Detach, RemoveSemaphores, Exit, End, history
    <2>2. QED
      BY <1>2, <2>1 DEF Orderly
  <1>8. \/ BufInit(p) \/ BufDestroy(p) \/ Exit(p)
        \/ p \in Senders /\ Send(p)
        \/ p \in Receivers /\ Receive(p)
    BY <1>2 DEF Run
  <1>10. QED
    BY <1>2, <1>4, <1>5, <1>6, <1>7, <1>8

(* The invariant of orderly sessions is kept by every step of every program. *)
LEMMA StepOrderlyInv == TypeInv /\ OrderlyInv /\ [Next]_vars => OrderlyInv'
  <1> SUFFICES ASSUME TypeInv, OrderlyInv, [Next]_vars, Orderly' PROVE Parts'
    BY DEF OrderlyInv
  <1>1. TypeInv'
    BY StepTypeInv
  <1>2. CASE UNCHANGED vars
    BY <1>2 DEF vars, OrderlyInv, Orderly, Parts, OneStarts, OneSegment, NoQuitYet, Holding, OneSemaphore,
       NprocCounts, Launching, Users
  <1>3. ASSUME NEW p \in Procs, Run(p) \/ Crash(p) PROVE Parts'
    <2>1. Orderly
      BY <1>3, OrderlyBefore
    <2>2. ~ Crash(p)
      BY OrderlyBefore
    <2>3. Parts
      BY <2>1 DEF OrderlyInv
    <2>4. \/ BufInit(p) \/ BufDestroy(p) \/ Exit(p)
          \/ p \in Senders /\ Send(p)
          \/ p \in Receivers /\ Receive(p)
      BY <1>3, <2>2 DEF Run
    <2>5. CASE BufInit(p)
      BY <2>3, <2>5, <1>1, ShmCreateKeeps, ShmExistingKeeps, AttachKeeps, GetSemaphoresKeeps, NprocLoadKeeps,
         NprocIncKeeps, InitStructKeeps, InitSemaphoresKeeps DEF BufInit
    <2>6. CASE BufDestroy(p)
      BY <2>3, <2>6, NprocReadKeeps, NprocDecKeeps, ShmRmidKeeps, DetachKeeps, RemoveSemaphoresKeeps DEF BufDestroy
    <2>7. CASE p \in Senders /\ Send(p)
      BY <2>3, <2>7, <1>1, SemopKeeps, LoopKeeps DEF Send
    <2>8. CASE p \in Receivers /\ Receive(p)
      BY <2>3, <2>8, <1>1, SemopKeeps, LoopKeeps DEF Receive
    <2>9. CASE Exit(p)
      BY <2>3, <2>9, ExitKeeps
    <2>10. QED
      BY <2>4, <2>5, <2>6, <2>7, <2>8, <2>9
  <1>4. QED
    BY <1>2, <1>3 DEF Next

LEMMA OrderlyInvAlways == Spec => [](TypeInv /\ OrderlyInv)
  <1>1. Init => TypeInv /\ OrderlyInv
    BY InitTypeInv, InitParts DEF OrderlyInv
  <1>2. TypeInv /\ OrderlyInv /\ [Next]_vars => TypeInv' /\ OrderlyInv'
    BY StepTypeInv, StepOrderlyInv
  <1>3. QED
    BY <1>1, <1>2, PTL DEF Spec

(* In an orderly session of any number of senders and receivers no process *)
(* removes the semaphores (lines 125-135) while another still puts or      *)
(* gets: the unlocked decrements of nproc (line 105) may lose one another, *)
(* but a lost one leaves nproc too large, never zero too early.            *)
THEOREM SemaphoresStay == Spec => []SemaphoresOutliveUsers
  <1>1. TypeInv /\ OrderlyInv => SemaphoresOutliveUsers
    <2> SUFFICES ASSUME TypeInv, Parts, NEW p \in InUse, NEW s \in SemNames PROVE Valid(p, s)
      BY DEF OrderlyInv, SemaphoresOutliveUsers
    <2>1. p \in Procs /\ pc[p] \in Counted /\ pc[p] \notin Before(s)
      BY DEF InUse, Counted, Before, InPut, InGet
    <2>2. QED
      BY <2>1, Validity
  <1>2. QED
    BY <1>1, OrderlyInvAlways, PTL

--------------------------------------------------------------------------------
(* The pair of programs the code is made for: a sender and a receiver (or   *)
(* any two, or only one). With three the theorem below is false: the        *)
(* semaphores a first one leaves behind let a third one into the segment    *)
(* that a second one has made and not filled in.                            *)
TwoPrograms == \A p, q, r \in Procs : p = q \/ q = r \/ p = r

(* A semaphore nobody can get past, now or when a process ends.             *)
Zero(s) == sem[s].val = 0 /\ \A q \in Procs : semadj[q][s] = 0

(* The labels of a program that has nothing to do with the ring any more,   *)
(* those at which a semaphore was passed, those of init_struct and of       *)
(* init_semaphores, and a program whose segment is not filled in yet.       *)
Over    == {"detach", "rmid_free", "rmid_full", "rmid_mutex", "exit", "done", "killed"}
Passed  == (InPut \ {"put_free"}) \cup (InGet \ {"get_full"})
Setting == {"set_out", "set_in", "set_nproc", "set_free", "set_full", "set_mutex"}
Young(p) == pc[p] = "start" \/ (fresh[p] /\ segs[shmid[p]].size = 0)

(* A program maps the segment it was given, and who made one says so; of    *)
(* two programs that made one each, one is over (line 107 removed its       *)
(* key), and every segment has a maker.                                     *)
Keys ==
  /\ \A p \in Procs :
       /\ attached[p] # None => attached[p] = shmid[p]
       /\ fresh[p] => shmid[p] # None
       /\ pc[p] = "shm_existing" => ~ fresh[p]
       /\ pc[p] \in Unmapped => attached[p] = None
       /\ pc[p] \in Setting \cup {"set_size"} => fresh[p]
       /\ fresh[p] /\ pc[p] \notin Over =>
            segKey = shmid[p] \/ \E q \in Procs \ {p} : pc[q] # "start"
       /\ \A s \in SemNames : pc[p] \in Before(s) => semid[p][s] = None
  /\ \A p, q \in Procs : p # q /\ fresh[p] /\ fresh[q] =>
       shmid[p] # shmid[q] /\ (pc[p] \in Over \/ pc[q] \in Over)
  /\ \A g \in 1 .. Len(segs) : \E p \in Procs : fresh[p] /\ shmid[p] = g
  /\ \A s \in SemNames : sem[s].there => sem[s].id # 0

(* Who has passed a semaphore, or sets one, has a segment with a size.      *)
Filled == \A p \in Procs : pc[p] \in Passed \cup Setting => Seg(p).size # 0

(* As long as no segment is filled in, no semaphore was given a value.      *)
Unset == (\A g \in 1 .. Len(segs) : segs[g].size = 0) => \A s \in SemNames : Zero(s)

(* What an earlier pair left behind (lines 127-133 remove one semaphore     *)
(* after the other) is harmless to a young program: a semaphore it may      *)
(* yet find is at zero.                                                     *)
Old ==
  \A p \in Procs : Young(p) =>
    /\ \A q \in Procs \ {p} :
         /\ pc[q] = "rmid_full" => Zero("free")
         /\ pc[q] = "rmid_mutex" => Zero("free") /\ Zero("full")
    /\ pc[p] = "find_full_sem" /\ ~ sem["full"].there => Zero("free")
    /\ pc[p] = "find_mutex" /\ ~ sem["mutex"].there => Zero("free") /\ Zero("full")
    /\ pc[p] \in Ring => \A s \in {"free", "full"} : semid[p][s] = None \/ Zero(s)

(* The inductive invariant of NoFault.                                      *)
FaultInv == Keys /\ Filled /\ Unset /\ Old

(* Keys, for a step of p that makes no segment.                             *)
LEMMA KeysKept ==
  ASSUME TypeInv, Keys, NEW p \in Procs, NEW to \in Labels \ {"start", "shm_existing"}, pc[p] # "start",
         pc' = [pc EXCEPT ![p] = to], to = "attach" => attached'[p] = None,
         Len(segs') = Len(segs), fresh' = fresh,
         segKey' = segKey \/ to \in Over,
         pc[p] \in Over => to \in Over,
         to \in Setting \cup {"set_size"} => fresh[p],
         \A q \in Procs \ {p} : /\ attached'[q] = attached[q] /\ semid'[q] = semid[q]
                                /\ shmid'[q] = shmid[q],
         attached'[p] # None => attached'[p] = shmid'[p],
         fresh[p] => shmid'[p] = shmid[p],
         \A s \in SemNames : to \in Before(s) => semid'[p][s] = None,
         \A s \in SemNames : sem'[s].there => sem'[s].id # 0
  PROVE  Keys'
  <1>1. pc'[p] = to /\ \A q \in Procs \ {p} : pc'[q] = pc[q]
    BY DEF TypeInv, VarTypes
  <1>2. ASSUME NEW q \in Procs
        PROVE  /\ attached'[q] # None => attached'[q] = shmid'[q]
               /\ fresh'[q] => shmid'[q] # None
               /\ pc'[q] = "shm_existing" => ~ fresh'[q]
               /\ pc'[q] \in Unmapped => attached'[q] = None
               /\ pc'[q] \in Setting \cup {"set_size"} => fresh'[q]
               /\ fresh'[q] /\ pc'[q] \notin Over =>
                    segKey' = shmid'[q] \/ \E r \in Procs \ {q} : pc'[r] # "start"
               /\ \A s \in SemNames : pc'[q] \in Before(s) => semid'[q][s] = None
    <2>1. CASE q = p
      BY <1>1, <2>1 DEF Keys, Unmapped
    <2>2. CASE q # p
      BY <1>1, <2>2 DEF Keys
    <2>3. QED
      BY <2>1, <2>2
  <1>3. \A q \in Procs : fresh[q] => shmid'[q] = shmid[q]
    OBVIOUS
  <1>4. \A q \in Procs : pc[q] \in Over => pc'[q] \in Over
    BY <1>1
  <1>5. \A q, r \in Procs : q # r /\ fresh'[q] /\ fresh'[r] =>
          shmid'[q] # shmid'[r] /\ (pc'[q] \in Over \/ pc'[r] \in Over)
    BY <1>3, <1>4 DEF Keys
  <1>6. \A g \in 1 .. Len(segs') : \E q \in Procs : fresh'[q] /\ shmid'[q] = g
    BY <1>3 DEF Keys
  <1>7. QED
    BY <1>2, <1>5, <1>6 DEF Keys

(* A write never makes a size zero again.                                   *)
Grown == /\ segs' \in Seq(Segment) /\ Len(segs') = Len(segs)
         /\ \A g \in 1 .. Len(segs) : segs'[g].size = 0 => segs[g].size = 0

(* Filled, when p has a segment with a size at the labels that need one.    *)
LEMMA FilledKept ==
  ASSUME TypeInv, Filled, Grown, NEW p \in Procs, NEW to \in Labels,
         pc' = [pc EXCEPT ![p] = to],
         \A q \in Procs \ {p} : attached'[q] = attached[q],
         to \in Passed \cup Setting => Seg(p)'.size # 0
  PROVE  Filled'
  <1>1. pc'[p] = to /\ \A q \in Procs \ {p} : pc'[q] = pc[q]
    BY DEF TypeInv, VarTypes
  <1>2. Passed \cup Setting \subseteq Mapped
    BY DEF Passed, Setting, Mapped, InPut, InGet, InInit, Unmapped
  <1> SUFFICES ASSUME NEW q \in Procs, pc'[q] \in Passed \cup Setting PROVE Seg(q)'.size # 0
    BY DEF Filled
  <1>3. CASE q = p
    BY <1>1, <1>3
  <1>4. CASE q # p
    <2>1. pc[q] \in Mapped /\ attached'[q] = attached[q] /\ Seg(q).size # 0
      BY <1>1, <1>2, <1>4 DEF Filled
    <2>2. attached[q] \in 1 .. Len(segs)
      BY <2>1, OwnSegment
    <2>3. QED
      BY <2>1, <2>2 DEF Grown, Seg
  <1>5. QED
    BY <1>3, <1>4

(* Who has a segment that is filled in keeps one that is.                   *)
LEMMA StaysGrown ==
  ASSUME TypeInv, Grown, NEW p \in Procs, pc[p] \in Mapped, attached'[p] = attached[p], Seg(p).size # 0
  PROVE  Seg(p)'.size # 0
  BY OwnSegment DEF Grown, Seg

(* Unset, when no semaphore leaves zero.                                    *)
LEMMA UnsetKept ==
  ASSUME Unset, Grown, \A s \in SemNames : Zero(s) => Zero(s)'
  PROVE  Unset'
  BY DEF Unset, Grown

(* Old, when no semaphore leaves zero and p finds none that is gone.        *)
LEMMA OldKept ==
  ASSUME TypeInv, Keys, Old, Grown, NEW p \in Procs, NEW to \in Labels \ {"start"}, pc[p] # "start",
         pc' = [pc EXCEPT ![p] = to], fresh' = fresh,
         \A q \in Procs \ {p} : semid'[q] = semid[q] /\ shmid'[q] = shmid[q],
         fresh[p] => shmid'[p] = shmid[p],
         \A s \in SemNames : Zero(s) => Zero(s)',
         \A q \in Procs \ {p} : Young(q) =>
           /\ to = "rmid_full" => Zero("free")'
           /\ to = "rmid_mutex" => Zero("free")' /\ Zero("full")',
         to = "find_full_sem" => sem'["full"].there,
         to = "find_mutex" => sem'["mutex"].there,
         sem["full"].there /\ ~ sem'["full"].there => pc[p] = "rmid_full",
         sem["mutex"].there /\ ~ sem'["mutex"].there => pc[p] = "rmid_mutex",
         to \in Ring /\ Young(p) => \A s \in {"free", "full"} : semid'[p][s] = None \/ Zero(s)'
  PROVE  Old'
  <1>1. pc'[p] = to /\ \A q \in Procs \ {p} : pc'[q] = pc[q]
    BY DEF TypeInv, VarTypes
  <1>2. \A q \in Procs : Young(q)' => Young(q)
    <2> SUFFICES ASSUME NEW q \in Procs, Young(q)' PROVE Young(q)
      OBVIOUS
    <2>1. CASE pc'[q] = "start"
      BY <1>1, <2>1 DEF Young
    <2>2. CASE fresh'[q] /\ segs'[shmid'[q]].size = 0
      <3>1. fresh[q] /\ shmid'[q] = shmid[q]
        BY <2>2
      <3>2. shmid[q] \in 1 .. Len(segs)
        BY <3>1 DEF Keys, TypeInv, SegTypes, None
      <3>3. QED
        BY <2>2, <3>1, <3>2 DEF Grown, Young
    <2>3. QED
      BY <2>1, <2>2 DEF Young
  <1>3. Zero("free") => Zero("free")'
    BY DEF SemNames
  <1>4. Zero("full") => Zero("full")'
    BY DEF SemNames
  <1> SUFFICES ASSUME NEW q \in Procs, Young(q)
               PROVE  /\ \A r \in Procs \ {q} :
                          /\ pc'[r] = "rmid_full" => Zero("free")'
                          /\ pc'[r] = "rmid_mutex" => Zero("free")' /\ Zero("full")'
                      /\ pc'[q] = "find_full_sem" /\ ~ sem'["full"].there => Zero("free")'
                      /\ pc'[q] = "find_mutex" /\ ~ sem'["mutex"].there => Zero("free")' /\ Zero("full")'
                      /\ pc'[q] \in Ring => \A s \in {"free", "full"} : semid'[q][s] = None \/ Zero(s)'
    BY <1>2 DEF Old
  <1>5. ASSUME NEW r \in Procs \ {q}
        PROVE  /\ pc'[r] = "rmid_full" => Zero("free")'
               /\ pc'[r] = "rmid_mutex" => Zero("free")' /\ Zero("full")'
    <2>1. CASE r = p
      BY <1>1, <2>1
    <2>2. CASE r # p
      BY <1>1, <1>3, <1>4, <2>2 DEF Old
    <2>3. QED
      BY <2>1, <2>2
  <1>6. CASE q = p
    BY <1>1, <1>5, <1>6
  <1>7. CASE q # p
    <2>1. pc'[q] = pc[q] /\ semid'[q] = semid[q]
      BY <1>1, <1>7
    <2>2. ASSUME pc[q] = "find_full_sem", ~ sem'["full"].there PROVE Zero("free")'
      <3>1. ~ sem["full"].there \/ pc[p] = "rmid_full"
        BY <2>2
      <3>2. QED
        BY <1>3, <1>7, <2>2, <3>1 DEF Old
    <2>3. ASSUME pc[q] = "find_mutex", ~ sem'["mutex"].there PROVE Zero("free")' /\ Zero("full")'
      <3>1. ~ sem["mutex"].there \/ pc[p] = "rmid_mutex"
        BY <2>3
      <3>2. QED
        BY <1>3, <1>4, <1>7, <2>3, <3>1 DEF Old
    <2>4. pc[q] \in Ring => \A s \in {"free", "full"} : semid[q][s] = None \/ Zero(s)'
      BY <1>3, <1>4 DEF Old
    <2>5. QED
      BY <1>5, <2>1, <2>2, <2>3, <2>4
  <1>8. QED
    BY <1>6, <1>7

(* While p has a segment that is filled in, and is not over, no other       *)
(* program can be young.                                                    *)
LEMMA OthersGrown ==
  ASSUME TypeInv, TwoPrograms, Keys, NEW p \in Procs, pc[p] \in Mapped, pc[p] \notin Over, Seg(p).size # 0,
         NEW q \in Procs, Young(q)
  PROVE  q # p /\ (pc[q] = "start" \/ pc[q] \in Over)
  <1>1. attached[p] \in 1 .. Len(segs) /\ attached[p] = shmid[p] /\ segs[attached[p]].size # 0
    BY OwnSegment DEF Keys, Seg, None
  <1>2. pc[p] # "start"
    BY DEF Mapped, InInit, InPut, InGet
  <1>3. q # p
    BY <1>1, <1>2 DEF Young
  <1>4. ASSUME fresh[q], segs[shmid[q]].size = 0, pc[q] \notin Over PROVE FALSE
    <2>1. ~ fresh[p]
      BY <1>3, <1>4 DEF Keys
    <2>2. PICK r \in Procs : fresh[r] /\ shmid[r] = attached[p]
      BY <1>1 DEF Keys
    <2>3. r = q
      BY <1>3, <2>1, <2>2 DEF TwoPrograms
    <2>4. QED
      BY <1>1, <1>4, <2>2, <2>3
  <1>5. QED
    BY <1>3, <1>4 DEF Young

(* Old, when p is in a filled-in segment: the other one is over or has not  *)
(* started.                                                                 *)
LEMMA OldVacuous ==
  ASSUME TypeInv, TwoPrograms, Keys, Grown, NEW p \in Procs,
         pc[p] \in Mapped, pc[p] \notin Over, Seg(p).size # 0,
         NEW to \in Labels \ ({"start"} \cup Over), pc' = [pc EXCEPT ![p] = to],
         fresh' = fresh, shmid' = shmid
  PROVE  Old'
  <1>1. pc'[p] = to /\ \A q \in Procs \ {p} : pc'[q] = pc[q]
    BY DEF TypeInv, VarTypes
  <1>2. \A q \in Procs : Young(q)' => Young(q)
    <2> SUFFICES ASSUME NEW q \in Procs, Young(q)' PROVE Young(q)
      OBVIOUS
    <2>1. CASE pc'[q] = "start"
      BY <1>1, <2>1 DEF Young
    <2>2. CASE fresh'[q] /\ segs'[shmid'[q]].size = 0
      <3>1. fresh[q] /\ shmid'[q] = shmid[q]
        BY <2>2
      <3>2. shmid[q] \in 1 .. Len(segs)
        BY <3>1 DEF Keys, TypeInv, SegTypes, None
      <3>3. QED
        BY <2>2, <3>1, <3>2 DEF Grown, Young
    <2>3. QED
      BY <2>1, <2>2 DEF Young
  <1>3. ASSUME NEW q \in Procs, Young(q)' PROVE q # p /\ (pc'[q] = "start" \/ pc'[q] \in Over)
    BY <1>1, <1>2, <1>3, OthersGrown
  <1>4. "rmid_full" \in Over /\ "rmid_mutex" \in Over
    BY DEF Over
  <1>5. ASSUME NEW q \in Procs, Young(q)', NEW r \in Procs \ {q}
        PROVE  pc'[r] # "rmid_full" /\ pc'[r] # "rmid_mutex"
    BY <1>1, <1>3, <1>4, <1>5 DEF TwoPrograms
  <1>6. ASSUME NEW q \in Procs, Young(q)'
        PROVE  pc'[q] \notin {"find_full_sem", "find_mutex"} \cup Ring
    BY <1>3, <1>6 DEF Over, Ring, InPut, InGet
  <1>7. QED
    BY <1>5, <1>6 DEF Old

(* A step that touches neither the keys nor the semaphores.                 *)
LEMMA QuietFault ==
  ASSUME TypeInv, FaultInv, Grown, NEW p \in Procs, pc[p] # "start",
         NEW to \in Labels \ {"start", "shm_existing", "attach", "rmid_full", "rmid_mutex", "find_full_sem", "find_mutex"},
         pc' = [pc EXCEPT ![p] = to],
         UNCHANGED <<segKey, attached, shmid, fresh, sem, semadj, semid>>,
         pc[p] \in Over => to \in Over,
         to \in Setting \cup {"set_size"} => fresh[p],
         to \in Passed \cup Setting => Seg(p)'.size # 0,
         \A s \in SemNames : to \notin Before(s),
         to \in Ring /\ Young(p) => pc[p] \in Ring
  PROVE  FaultInv'
  <1>0. /\ to \in Labels \ {"start", "shm_existing"} /\ to # "attach"
        /\ attached'[p] # None => attached'[p] = shmid'[p]
        /\ \A s \in SemNames : sem'[s].there => sem'[s].id # 0
    BY DEF FaultInv, Keys
  <1>1. Keys'
    BY <1>0, KeysKept DEF FaultInv, Grown
  <1>2. Filled'
    BY FilledKept DEF FaultInv
  <1>3. \A s \in SemNames : Zero(s)' <=> Zero(s)
    BY DEF Zero
  <1>4. Unset'
    BY <1>3, UnsetKept DEF FaultInv
  <1>5. Old'
    <2>1. to \in Ring /\ Young(p) => \A s \in {"free", "full"} : semid[p][s] = None \/ Zero(s)
      BY DEF FaultInv, Old
    <2>2. to \in Ring /\ Young(p) => \A s \in {"free", "full"} : semid'[p][s] = None \/ Zero(s)'
      BY <1>3, <2>1 DEF SemNames
    <2>3. QED
      BY <1>3, <2>2, OldKept DEF FaultInv
  <1>6. QED
    BY <1>1, <1>2, <1>4, <1>5 DEF FaultInv

(* A semop by p (buf_put and buf_get, lines 144-234): passing a semaphore   *)
(* that is at zero is impossible, so p has a segment with a size.           *)
LEMMA SemopFault ==
  ASSUME TypeInv, TypeInv', TwoPrograms, FaultInv, NEW p \in Procs, 
         NEW here \in InPut \cup InGet, NEW s \in SemNames, NEW d \in {-1, 1},
         NEW next \in {"put_next", "put_store", "put_full", "get_lock", "get_fetch",
                       "get_free", "loop", "nproc_read"},
         SemopAt(p, here, s, d, next),
         here = "put_free" => s = "free" /\ d = -1,
         here = "get_full" => s = "full" /\ d = -1
  PROVE  FaultInv'
  <1>1. pc[p] = here /\ _semop(p, s, d, next) /\ segs' = segs /\ next \in Labels
    BY DEF SemopAt, Labels, InPut, InGet, InDestroy
  <1>2. /\ UNCHANGED <<segKey, attached, shmid, fresh, semid>>
        /\ \A t \in SemNames : sem'[t].id = sem[t].id /\ sem'[t].there = sem[t].there
        /\ \/ /\ Valid(p, s) /\ sem'[s].val = sem[s].val + d /\ pc' = [pc EXCEPT ![p] = next]
           \/ sem' = sem /\ semadj' = semadj /\ pc' = [pc EXCEPT ![p] = AfterCall(c[p])]
        /\ sem' \in [SemNames -> [id : Nat, val : Nat, there : BOOLEAN]]
    BY <1>1, SemopFacts
  <1>3. Grown
    BY <1>1 DEF Grown, TypeInv, SegTypes
  <1>4. /\ pc[p] \in Mapped /\ pc[p] \notin Over /\ pc[p] # "start" /\ pc[p] \in Ring
    BY <1>1 DEF Mapped, Over, InPut, InGet, Ring
  <1>5. \A t \in SemNames : next \notin Before(t) /\ AfterCall(c[p]) \notin Before(t)
    BY DEF Before, AfterCall
  <1>6. CASE sem' = sem /\ semadj' = semadj /\ pc' = [pc EXCEPT ![p] = AfterCall(c[p])]
    <2>1. AfterCall(c[p]) \in {"loop", "nproc_read"}
      BY DEF AfterCall
    <2>2. /\ AfterCall(c[p]) \in Labels \ {"start", "shm_existing", "attach", "rmid_full", "rmid_mutex", "find_full_sem", "find_mutex"}
          /\ AfterCall(c[p]) \notin Setting \cup {"set_size"} \cup Passed
      BY <2>1 DEF Labels, InDestroy, Setting, Passed, InPut, InGet
    <2>3. QED
      BY <1>2, <1>3, <1>4, <1>5, <1>6, <2>2, QuietFault
  <1>7. CASE Valid(p, s) /\ sem'[s].val = sem[s].val + d /\ pc' = [pc EXCEPT ![p] = next]
    <2>1. next \in Labels \ ({"start", "shm_existing", "attach"} \cup Over)
      BY <1>1 DEF Over
    <2>2. next \notin Setting \cup {"set_size"}
      BY DEF Setting
    <2>3. attached[p] \in 1 .. Len(segs) /\ attached[p] = shmid[p]
      BY <1>4, OwnSegment DEF FaultInv, Keys, None
    <2>4. Seg(p).size # 0
      <3>1. CASE here \notin {"put_free", "get_full"}
        BY <1>1, <3>1 DEF FaultInv, Filled, Passed
      <3>2. CASE here \in {"put_free", "get_full"}
        <4>1. s \in {"free", "full"} /\ d = -1
          BY <3>2
        <4>2. sem'[s].val \in Nat /\ sem[s].val \in Nat
          BY <1>2 DEF TypeInv, SemTypes
        <4>3. ~ Zero(s)
          BY <1>7, <4>1, <4>2 DEF Zero
        <4>4. semid[p][s] # None
          BY <1>7 DEF Valid, FaultInv, Keys, None
        <4>5. ~ Young(p)
          BY <1>4, <4>1, <4>3, <4>4 DEF FaultInv, Old
        <4>6. ASSUME ~ fresh[p], Seg(p).size = 0 PROVE FALSE
          <5>1. \A g \in 1 .. Len(segs) : g = attached[p]
            BY <2>3, <4>6 DEF FaultInv, Keys, TwoPrograms
          <5>2. \A g \in 1 .. Len(segs) : segs[g].size = 0
            BY <4>6, <5>1 DEF Seg
          <5>3. QED
            BY <4>3, <5>2 DEF FaultInv, Unset
        <4>7. QED
          BY <2>3, <4>5, <4>6 DEF Young, Seg
      <3>3. QED
        BY <3>1, <3>2
    <2>5. Keys'
      <3>1. /\ next \in Labels \ {"start", "shm_existing"} /\ next # "attach"
            /\ attached'[p] # None => attached'[p] = shmid'[p]
            /\ \A t \in SemNames : sem'[t].there => sem'[t].id # 0
        BY <1>2, <2>1 DEF FaultInv, Keys
      <3>2. QED
        BY <1>2, <1>1, <1>4, <1>5, <1>7, <2>2, <3>1, KeysKept DEF FaultInv
    <2>6. Filled'
      BY <1>2, <1>3, <1>4, <1>7, <2>1, <2>4, FilledKept, StaysGrown DEF FaultInv
    <2>7. Unset'
      BY <1>1, <2>3, <2>4 DEF Unset, Seg
    <2>8. Old'
      BY <1>2, <1>3, <1>4, <1>7, <2>1, <2>4, OldVacuous DEF FaultInv
    <2>9. QED
      BY <2>5, <2>6, <2>7, <2>8 DEF FaultInv
  <1>8. QED
    BY <1>2, <1>6, <1>7

(* The six semops of the ring.                                              *)
LEMMA SemopsFault ==
  ASSUME TypeInv, TypeInv', TwoPrograms, FaultInv, NEW p \in Procs,
         PutFree(p) \/ PutLock(p) \/ PutUnlock(p) \/ PutFull(p)
           \/ GetFull(p) \/ GetLock(p) \/ GetUnlock(p) \/ GetFree(p)
  PROVE  FaultInv'
  <1> DEFINE Nexts == {"put_next", "put_store", "put_full", "get_lock", "get_fetch",
                       "get_free", "loop", "nproc_read"}
  <1>1. AfterCall(c[p]) \in Nexts
    BY DEF AfterCall
  <1> USE DEF SemopAt
  <1>2. CASE PutFree(p)
    <2>1. SemopAt(p, "put_free", "free", -1, "put_next")
      BY <1>2 DEF PutFree
    <2>2. QED
      BY <2>1, SemopFault DEF InPut, SemNames
  <1>3. CASE PutLock(p)
    <2>1. SemopAt(p, "put_lock", "mutex", -1, "put_store")
      BY <1>3 DEF PutLock
    <2>2. QED
      BY <2>1, SemopFault DEF InPut, SemNames
  <1>4. CASE PutUnlock(p)
    <2>1. SemopAt(p, "put_unlock", "mutex", 1, "put_full")
      BY <1>4 DEF PutUnlock
    <2>2. QED
      BY <2>1, SemopFault DEF InPut, SemNames
  <1>5. CASE PutFull(p)
    <2>1. SemopAt(p, "put_full", "full", 1, AfterCall(c[p]))
      BY <1>5 DEF PutFull
    <2>2. QED
      BY <1>1, <2>1, SemopFault DEF InPut, SemNames
  <1>6. CASE GetFull(p)
    <2>1. SemopAt(p, "get_full", "full", -1, "get_lock")
      BY <1>6 DEF GetFull
    <2>2. QED
      BY <2>1, SemopFault DEF InGet, SemNames
  <1>7. CASE GetLock(p)
    <2>1. SemopAt(p, "get_lock", "mutex", -1, "get_fetch")
      BY <1>7 DEF GetLock
    <2>2. QED
      BY <2>1, SemopFault DEF InGet, SemNames
  <1>8. CASE GetUnlock(p)
    <2>1. SemopAt(p, "get_unlock", "mutex", 1, "get_free")
      BY <1>8 DEF GetUnlock
    <2>2. QED
      BY <2>1, SemopFault DEF InGet, SemNames
  <1>9. CASE GetFree(p)
    <2>1. SemopAt(p, "get_free", "free", 1, AfterCall(c[p]))
      BY <1>9 DEF GetFree
    <2>2. QED
      BY <1>1, <2>1, SemopFault DEF InGet, SemNames
  <1>10. QED
    BY <1>2, <1>3, <1>4, <1>5, <1>6, <1>7, <1>8, <1>9

(* What the writes to a segment do to its size.                             *)
LEMMA WriteGrows ==
  ASSUME TypeInv, NEW p \in Procs,
         NprocInc(p) \/ InitStruct(p) \/ PutStore(p) \/ PutIn(p) \/ GetOut(p) \/ NprocDec(p)
  PROVE  /\ Grown /\ pc[p] \in Mapped /\ attached' = attached
         /\ pc[p] = "set_size" => Seg(p)'.size # 0
  <1>1. /\ pc[p] \in {"nproc_inc", "set_size", "set_out", "set_in", "set_nproc", "put_store", "put_in",
                     "get_out", "nproc_dec"}
        /\ pc[p] \in Mapped /\ attached' = attached
    BY DEF NprocInc, InitStruct, PutStore, PutIn, GetOut, NprocDec, Mapped, InInit, InPut, InGet, Unmapped, locals
  <1>2. /\ segs \in Seq(Segment) /\ attached[p] \in 1 .. Len(segs) /\ segs[attached[p]] = Seg(p)
        /\ Seg(p) \in Segment
    BY <1>1, OwnSegment DEF Seg, TypeInv, SegTypes
  <1>3. /\ segs' \in Seq(Segment) /\ Len(segs') = Len(segs)
        /\ segs'[attached[p]].size = IF pc[p] = "set_size" THEN Size ELSE Seg(p).size
        /\ \A g \in 1 .. Len(segs) : g # attached[p] => segs'[g] = segs[g]
    <2>1. CASE InitStruct(p) /\ pc[p] = "set_size"
      BY <1>1, <1>2, <2>1, WroteSize DEF InitStruct, Segment
    <2>2. CASE InitStruct(p) /\ pc[p] \in {"set_out", "set_in"}
      <3>1. 0 \in 0 .. Size - 1
        BY BoundAssumption
      <3>2. Write(p, "out", 0) \/ Write(p, "in", 0)
        BY <2>2 DEF InitStruct
      <3>3. CASE Write(p, "out", 0)
        BY <1>1, <1>2, <2>2, <3>1, <3>3, WroteOut DEF Segment
      <3>4. CASE Write(p, "in", 0)
        BY <1>1, <1>2, <2>2, <3>1, <3>4, WroteIn DEF Segment
      <3>5. QED
        BY <3>2, <3>3, <3>4
    <2>3. CASE InitStruct(p) /\ pc[p] = "set_nproc"
      <3>1. Write(p, "nproc", 1) /\ 1 \in Int
        BY <2>3 DEF InitStruct
      <3>2. QED
        BY <1>1, <1>2, <2>3, <3>1, WroteNproc DEF Segment
    <2>4. CASE NprocInc(p) \/ NprocDec(p)
      <3>1. pc[p] # "set_size" /\ reg[p] \in Int /\ reg[p] + 1 \in Int
        BY <2>4 DEF TypeInv, VarTypes, NprocInc, NprocDec
      <3>2. PICK v \in Int : Write(p, "nproc", v)
        BY <2>4, <3>1 DEF NprocInc, NprocDec
      <3>3. QED
        BY <1>1, <1>2, <3>1, <3>2, WroteNproc DEF Segment
    <2>5. CASE PutStore(p)
      <3>1. Seg(p).in \in 0 .. Size - 1 /\ c[p] \in Chars \cup {Nul}
            /\ Seg(p).buf \in [0 .. Size - 1 -> Chars \cup {Nul}]
        BY <1>2 DEF Segment, TypeInv, VarTypes
      <3>2. [Seg(p).buf EXCEPT ![Seg(p).in] = c[p]] \in [0 .. Size - 1 -> Chars \cup {Nul}]
        BY <3>1
      <3>3. PICK v \in [0 .. Size - 1 -> Chars \cup {Nul}] : Write(p, "buf", v)
        BY <2>5, <3>2 DEF PutStore
      <3>4. pc[p] # "set_size"
        BY <2>5 DEF PutStore
      <3>5. QED
        BY <1>1, <1>2, <3>3, <3>4, WroteBuf DEF Segment
    <2>6. CASE PutIn(p)
      <3>1. pc[p] = "put_in" /\ reg[p] \in 0 .. Size - 1 /\ Write(p, "in", reg[p])
        BY <2>6 DEF PutIn, TypeInv, Place
      <3>2. QED
        BY <1>1, <1>2, <3>1, WroteIn DEF Segment
    <2>7. CASE GetOut(p)
      <3>1. Seg(p).size = Size /\ Seg(p).out \in 0 .. Size - 1
        BY <1>2, <2>7 DEF Segment, GetOut
      <3>2. (Seg(p).out + 1) % Seg(p).size \in 0 .. Size - 1
        BY <3>1, BoundAssumption
      <3>3. PICK v \in 0 .. Size - 1 : Write(p, "out", v)
        BY <2>7, <3>2 DEF GetOut
      <3>4. pc[p] # "set_size"
        BY <2>7 DEF GetOut
      <3>5. QED
        BY <1>1, <1>2, <3>3, <3>4, WroteOut DEF Segment
    <2>8. QED
      BY <2>1, <2>2, <2>3, <2>4, <2>5, <2>6, <2>7 DEF InitStruct
  <1>4. segs'[attached[p]].size = 0 => pc[p] # "set_size" /\ segs[attached[p]].size = 0
    BY <1>2, <1>3, BoundAssumption
  <1>5. Grown
    BY <1>3, <1>4 DEF Grown
  <1>6. pc[p] = "set_size" => Seg(p)'.size # 0
    BY <1>1, <1>3, BoundAssumption DEF Seg
  <1>7. QED
    BY <1>1, <1>5, <1>6

(* The writes to the segment: the fields of init_struct, the slots, nproc.  *)
LEMMA WriteFault ==
  ASSUME TypeInv, FaultInv, NEW p \in Procs,
         NprocInc(p) \/ InitStruct(p) \/ PutStore(p) \/ PutIn(p) \/ GetOut(p) \/ NprocDec(p)
  PROVE  FaultInv'
  <1>1. /\ Grown /\ pc[p] \in Mapped
        /\ pc[p] = "set_size" => Seg(p)'.size # 0
    BY WriteGrows
  <1>2. UNCHANGED <<segKey, attached, shmid, fresh, sem, semadj, semid>>
    BY DEF NprocInc, InitStruct, PutStore, PutIn, GetOut, NprocDec, locals
  <1>3. PICK to \in {"set_size", "loop", "set_out", "set_in", "set_nproc", "set_free",
                     "put_in", "put_unlock", "get_unlock", "shm_rmid"} :
           /\ pc' = [pc EXCEPT ![p] = to]
           /\ to \in {"set_size", "loop"} => pc[p] = "nproc_inc" /\ fresh[p] = (to = "set_size")
           /\ to \in {"put_in", "put_unlock", "get_unlock"} => pc[p] \in {"put_store", "put_in", "get_out"}
           /\ to = "set_out" => pc[p] = "set_size"
           /\ to = "set_in" => pc[p] = "set_out"
           /\ to = "set_nproc" => pc[p] = "set_in"
           /\ to = "set_free" => pc[p] = "set_nproc"
    <2>1. CASE NprocInc(p)
      BY <2>1 DEF NprocInc, Goto, TypeInv, VarTypes
    <2>2. CASE InitStruct(p)
      BY <2>2 DEF InitStruct, Goto
    <2>3. CASE PutStore(p) \/ PutIn(p) \/ GetOut(p) \/ NprocDec(p)
      BY <2>3 DEF PutStore, PutIn, GetOut, NprocDec, Goto
    <2>4. QED
      BY <2>1, <2>2, <2>3
  <1>4. pc[p] \in {"nproc_inc", "set_size", "set_out", "set_in", "set_nproc", "put_store", "put_in",
                  "get_out", "nproc_dec"}
    BY DEF NprocInc, InitStruct, PutStore, PutIn, GetOut, NprocDec
  <1>5. /\ to \in Labels \ {"start", "shm_existing", "attach", "rmid_full", "rmid_mutex", "find_full_sem", "find_mutex"}
        /\ pc[p] # "start" /\ pc[p] \notin Over
        /\ \A s \in SemNames : to \notin Before(s)
    BY <1>4 DEF Labels, InInit, InPut, InGet, InDestroy, Over, Before
  <1>6. to \in Setting \cup {"set_size"} => fresh[p]
    BY <1>3 DEF FaultInv, Keys, Setting
  <1>7. to \in Passed \cup Setting => Seg(p)'.size # 0
    <2>1. CASE to = "set_out"
      BY <1>1, <1>3, <2>1
    <2>2. CASE to \in (Passed \cup Setting) \ {"set_out"}
      <3>1. pc[p] \in {"set_out", "set_in", "set_nproc", "put_store", "put_in", "get_out"}
        BY <1>3, <2>2 DEF Passed, Setting, InPut, InGet
      <3>2. Seg(p).size # 0
        BY <3>1 DEF FaultInv, Filled, Passed, Setting, InPut, InGet
      <3>3. QED
        BY <1>1, <1>2, <3>2, StaysGrown
    <2>3. QED
      BY <2>1, <2>2
  <1>8. to \in Ring /\ Young(p) => pc[p] \in Ring
    <2>1. to = "loop" => ~ Young(p)
      BY <1>3 DEF Young
    <2>2. to \in Ring \ {"loop"} => pc[p] \in Ring
      BY <1>3 DEF Ring, InPut, InGet
    <2>3. QED
      BY <2>1, <2>2
  <1>9. QED
    BY <1>1, <1>2, <1>3, <1>5, <1>6, <1>7, <1>8, QuietFault

(* The steps that read, type or print.                                      *)
LEMMA LocalFault ==
  ASSUME TypeInv, FaultInv, NEW p \in Procs,
         NprocLoad(p) \/ PutNext(p) \/ NprocRead(p) \/ (p \in Senders /\ Type(p))
           \/ (p \in Receivers /\ (CallGet(p) \/ GetFetch(p)))
  PROVE  FaultInv'
  <1>1. UNCHANGED <<segKey, segs, attached, sem, semadj, shmid, fresh, semid>>
    BY DEF NprocLoad, PutNext, NprocRead, Type, CallGet, GetFetch, kernel, locals
  <1>2. Grown
    BY <1>1 DEF Grown, TypeInv, SegTypes
  <1>3. pc[p] \in {"nproc_load", "put_next", "nproc_read", "loop", "get_fetch"}
    BY DEF NprocLoad, PutNext, NprocRead, Type, CallGet, GetFetch
  <1>4. PICK to \in {"nproc_inc", "put_lock", "nproc_dec", "exit", "put_free", "get_full",
                     "get_out", "nproc_read", "loop"} :
          /\ pc' = [pc EXCEPT ![p] = to]
          /\ to \in {"put_lock", "get_out"} => pc[p] \in {"put_next", "get_fetch"}
          /\ to \in {"put_free", "get_full", "loop"} => pc[p] = "loop"
    BY DEF NprocLoad, PutNext, NprocRead, Type, CallGet, GetFetch, Goto, AfterCall
  <1>5. /\ to \in Labels \ {"start", "shm_existing", "attach", "rmid_full", "rmid_mutex", "find_full_sem", "find_mutex"}
        /\ to \notin Setting \cup {"set_size"}
        /\ pc[p] # "start" /\ pc[p] \notin Over
        /\ \A s \in SemNames : to \notin Before(s)
    BY <1>3 DEF Labels, InInit, InPut, InGet, InDestroy, Over, Before, Setting
  <1>6. to \in Passed \cup Setting => Seg(p)'.size # 0
    <2>1. to \in Passed => pc[p] \in Passed
      BY <1>4 DEF Passed, InPut, InGet
    <2>2. Seg(p)' = Seg(p)
      BY <1>1 DEF Seg
    <2>3. QED
      BY <1>5, <2>1, <2>2 DEF FaultInv, Filled
  <1>7. to \in Ring => pc[p] \in Ring
    BY <1>4 DEF Ring, InPut, InGet
  <1>8. QED
    BY <1>1, <1>2, <1>4, <1>5, <1>6, <1>7, QuietFault

(* _semctl(SETVAL) (lines 87-92): who sets a semaphore has filled in its    *)
(* segment.                                                                 *)
LEMMA SetvalFault ==
  ASSUME TypeInv, TypeInv', TwoPrograms, FaultInv, NEW p \in Procs, InitSemaphores(p)
  PROVE  FaultInv'
  <1>1. PICK s \in SemNames, here \in {"set_free", "set_full", "set_mutex"}, v \in Nat,
            next \in {"set_full", "set_mutex", "loop"} :
           /\ pc[p] = here
           /\ \/ /\ Valid(p, s) /\ pc' = [pc EXCEPT ![p] = next]
                 /\ sem' = [sem EXCEPT ![s] = [id |-> sem[s].id, val |-> v, there |-> sem[s].there]]
                 /\ semadj' = [q \in Procs |-> [semadj[q] EXCEPT ![s] = 0]]
              \/ ~ Valid(p, s) /\ pc' = [pc EXCEPT ![p] = "loop"] /\ sem' = sem /\ semadj' = semadj
           /\ UNCHANGED <<segKey, segs, attached, shmid, fresh, semid, reg, c, typed, got, crashes, breaches>>
    BY InitSemaphoresFacts
  <1>2. Grown
    BY <1>1 DEF Grown, TypeInv, SegTypes
  <1>3. /\ pc[p] \in Mapped /\ pc[p] \notin Over /\ pc[p] # "start"
        /\ fresh[p] /\ Seg(p).size # 0
    BY <1>1 DEF Mapped, Over, InInit, Unmapped, FaultInv, Keys, Filled, Setting
  <1>4. attached[p] = shmid[p] /\ attached[p] \in 1 .. Len(segs)
    BY <1>3, OwnSegment DEF FaultInv, Keys, None
  <1>5. ~ Young(p)
    BY <1>3, <1>4 DEF Young, Seg
  <1>6. CASE ~ Valid(p, s) /\ pc' = [pc EXCEPT ![p] = "loop"] /\ sem' = sem /\ semadj' = semadj
    <2>1. /\ "loop" \in Labels \ {"start", "shm_existing", "attach", "rmid_full", "rmid_mutex", "find_full_sem", "find_mutex"}
          /\ "loop" \notin Setting \cup {"set_size"} \cup Passed
          /\ \A t \in SemNames : "loop" \notin Before(t)
      BY DEF Labels, Setting, Passed, InPut, InGet, Before
    <2>2. QED
      BY <1>1, <1>2, <1>3, <1>5, <1>6, <2>1, QuietFault
  <1>7. CASE /\ Valid(p, s) /\ pc' = [pc EXCEPT ![p] = next]
             /\ sem' = [sem EXCEPT ![s] = [id |-> sem[s].id, val |-> v, there |-> sem[s].there]]
             /\ semadj' = [q \in Procs |-> [semadj[q] EXCEPT ![s] = 0]]
    <2>1. \A t \in SemNames : sem'[t].id = sem[t].id /\ sem'[t].there = sem[t].there
      <3>1. sem[s].there \in BOOLEAN
        BY DEF TypeInv, SemTypes
      <3>2. /\ sem'[s].there = sem[s].there /\ \A t \in SemNames : sem'[t].id = sem[t].id
            /\ \A t \in SemNames \ {s} : sem'[t] = sem[t]
        BY <1>7, <3>1, SetvalFacts
      <3>3. QED
        BY <3>2
    <2>2. next \in Labels \ ({"start", "shm_existing", "attach"} \cup Over) /\ \A t \in SemNames : next \notin Before(t)
      BY DEF Labels, InInit, Over, Before
    <2>3. Keys'
      <3>1. /\ next \in Labels \ {"start", "shm_existing"} /\ next # "attach"
            /\ attached'[p] # None => attached'[p] = shmid'[p]
            /\ \A t \in SemNames : sem'[t].there => sem'[t].id # 0
        BY <1>1, <2>1, <2>2 DEF FaultInv, Keys
      <3>2. next \notin Setting \cup {"set_size"} \/ fresh[p]
        BY <1>3
      <3>3. QED
        BY <1>1, <1>3, <1>7, <2>2, <3>1, <3>2, KeysKept DEF FaultInv
    <2>4. Filled'
      BY <1>1, <1>2, <1>3, <1>7, <2>2, FilledKept, StaysGrown DEF FaultInv
    <2>5. Unset'
      BY <1>1, <1>3, <1>4 DEF Unset, Seg
    <2>6. Old'
      BY <1>1, <1>2, <1>3, <1>7, <2>2, OldVacuous DEF FaultInv
    <2>7. QED
      BY <2>3, <2>4, <2>5, <2>6 DEF FaultInv
  <1>8. QED
    BY <1>1, <1>6, <1>7

(* A step that leaves a semaphore that was zero at zero, and the ring       *)
(* alone.                                                                   *)
LEMMA ZeroFault ==
  ASSUME TypeInv, FaultInv, Grown, NEW p \in Procs, pc[p] # "start",
         NEW to \in Labels \ {"start", "shm_existing"}, pc' = [pc EXCEPT ![p] = to],
         to = "attach" => attached'[p] = None, fresh' = fresh, segKey' = segKey \/ to \in Over, pc[p] \in Over => to \in Over,
         to \notin Setting \cup {"set_size"} \cup Passed,
         \A q \in Procs \ {p} : /\ attached'[q] = attached[q] /\ semid'[q] = semid[q]
                                /\ shmid'[q] = shmid[q],
         attached'[p] # None => attached'[p] = shmid'[p], fresh[p] => shmid'[p] = shmid[p],
         \A s \in SemNames : to \in Before(s) => semid'[p][s] = None,
         \A s \in SemNames : sem'[s].there => sem'[s].id # 0,
         \A s \in SemNames : Zero(s) => Zero(s)',
         \A q \in Procs \ {p} : Young(q) =>
           /\ to = "rmid_full" => Zero("free")'
           /\ to = "rmid_mutex" => Zero("free")' /\ Zero("full")',
         to = "find_full_sem" => sem'["full"].there,
         to = "find_mutex" => sem'["mutex"].there,
         sem["full"].there /\ ~ sem'["full"].there => pc[p] = "rmid_full",
         sem["mutex"].there /\ ~ sem'["mutex"].there => pc[p] = "rmid_mutex",
         to \in Ring /\ Young(p) => \A s \in {"free", "full"} : semid'[p][s] = None \/ Zero(s)'
  PROVE  FaultInv'
  <1>1. Keys'
    BY KeysKept DEF FaultInv, Grown
  <1>2. Filled'
    BY FilledKept DEF FaultInv
  <1>3. Unset'
    BY UnsetKept DEF FaultInv
  <1>4. Old'
    BY OldKept DEF FaultInv
  <1>5. QED
    BY <1>1, <1>2, <1>3, <1>4 DEF FaultInv

(* _semctl(IPC_RMID) (lines 127-133).                                       *)
LEMMA RemoveFault ==
  ASSUME TypeInv, FaultInv, NEW p \in Procs, RemoveSemaphores(p)
  PROVE  FaultInv'
  <1>1. PICK s \in SemNames, here \in {"rmid_free", "rmid_full", "rmid_mutex"},
            next \in {"rmid_full", "rmid_mutex", "exit"} :
           /\ pc[p] = here
           /\ \/ /\ Valid(p, s) /\ pc' = [pc EXCEPT ![p] = next]
                 /\ sem' = [sem EXCEPT ![s] = [id |-> sem[s].id, val |-> 0, there |-> FALSE]]
                 /\ semadj' = [q \in Procs |-> [semadj[q] EXCEPT ![s] = 0]]
              \/ ~ Valid(p, s) /\ pc' = [pc EXCEPT ![p] = "exit"] /\ sem' = sem /\ semadj' = semadj
           /\ UNCHANGED <<segKey, segs, attached, shmid, fresh, semid, reg, c, typed, got, crashes, breaches>>
           /\ \/ here = "rmid_free" /\ s = "free" /\ next = "rmid_full"
              \/ here = "rmid_full" /\ s = "full" /\ next = "rmid_mutex"
              \/ here = "rmid_mutex" /\ s = "mutex" /\ next = "exit"
    BY RemoveSemaphoresFacts
  <1>2. Grown
    BY <1>1 DEF Grown, TypeInv, SegTypes
  <1>3. PICK to \in {next, "exit"} : pc' = [pc EXCEPT ![p] = to]
    BY <1>1
  <1>4. /\ pc[p] \in Over /\ to \in Over /\ to \in Labels \ {"start", "shm_existing", "attach"} /\ pc[p] # "start"
        /\ to \notin Setting \cup {"set_size"} \cup Passed \cup Ring \cup {"find_full_sem", "find_mutex"}
        /\ \A t \in SemNames : to \notin Before(t)
    BY <1>1 DEF Over, Labels, InDestroy, Setting, Passed, Ring, InPut, InGet, Before
  <1>5. /\ \A t \in SemNames : Zero(t) => Zero(t)'
        /\ to = "rmid_full" => Zero("free")'
        /\ to = "rmid_mutex" => Zero("full")'
        /\ sem["full"].there /\ ~ sem'["full"].there => pc[p] = "rmid_full"
        /\ sem["mutex"].there /\ ~ sem'["mutex"].there => pc[p] = "rmid_mutex"
        /\ \A t \in SemNames : sem'[t].there => sem'[t].id # 0
    <2>1. CASE ~ Valid(p, s) /\ pc' = [pc EXCEPT ![p] = "exit"] /\ sem' = sem /\ semadj' = semadj
      <3>1. to = "exit"
        BY <1>3, <2>1 DEF TypeInv, VarTypes
      <3>2. QED
        BY <2>1, <3>1 DEF Zero, FaultInv, Keys
    <2>2. CASE /\ Valid(p, s) /\ pc' = [pc EXCEPT ![p] = next]
               /\ sem' = [sem EXCEPT ![s] = [id |-> sem[s].id, val |-> 0, there |-> FALSE]]
               /\ semadj' = [q \in Procs |-> [semadj[q] EXCEPT ![s] = 0]]
      <3>1. 0 \in Nat /\ FALSE \in BOOLEAN
        OBVIOUS
      <3>2. /\ sem'[s].val = 0 /\ sem'[s].there = FALSE
            /\ \A t \in SemNames : sem'[t].id = sem[t].id
            /\ \A t \in SemNames \ {s} : sem'[t] = sem[t]
            /\ \A q \in Procs, t \in SemNames : semadj'[q][t] = IF t = s THEN 0 ELSE semadj[q][t]
        BY <2>2, <3>1, SetvalFacts, Zenon
      <3>3. Zero(s)' /\ \A t \in SemNames : Zero(t) => Zero(t)'
        BY <3>2 DEF Zero
      <3>4. to = next
        BY <1>3, <2>2 DEF TypeInv, VarTypes
      <3>5. /\ s = "free" => to = "rmid_full"
            /\ s = "full" => to = "rmid_mutex" /\ pc[p] = "rmid_full"
            /\ s = "mutex" => to = "exit" /\ pc[p] = "rmid_mutex"
            /\ s \in {"free", "full", "mutex"}
        BY <1>1, <3>4 DEF SemNames
      <3>6. \A t \in SemNames : sem'[t].there => sem'[t].id # 0
        BY <3>2 DEF FaultInv, Keys
      <3>7. /\ to = "rmid_full" => Zero("free")'
            /\ to = "rmid_mutex" => Zero("full")'
        BY <3>3, <3>5
      <3>8. /\ s # "full" => sem'["full"] = sem["full"]
            /\ s # "mutex" => sem'["mutex"] = sem["mutex"]
        BY <3>2 DEF SemNames
      <3>9. QED
        BY <3>3, <3>5, <3>6, <3>7, <3>8
    <2>3. QED
      BY <1>1, <2>1, <2>2
  <1>6. to = "rmid_mutex" => pc[p] = "rmid_full"
    BY <1>1, <1>3 DEF TypeInv, VarTypes
  <1>7. \A q \in Procs \ {p} : Young(q) =>
           /\ to = "rmid_full" => Zero("free")'
           /\ to = "rmid_mutex" => Zero("free")' /\ Zero("full")'
    BY <1>5, <1>6 DEF FaultInv, Old, SemNames
  <1>8. QED
    BY <1>1, <1>2, <1>3, <1>4, <1>5, <1>7, ZeroFault DEF FaultInv, Keys

(* The end of a process applies what it noted: nothing, where nothing was.  *)
LEMMA EndZero ==
  ASSUME TypeInv, NEW p \in Procs, NEW to, End(p, to)
  PROVE  /\ \A s \in SemNames : sem'[s].id = sem[s].id /\ sem'[s].there = sem[s].there
         /\ \A s \in SemNames : Zero(s) => Zero(s)'
  <1>1. sem' = [s \in SemNames |-> [sem[s] EXCEPT !.val =
                  IF @ + semadj[p][s] > 0 THEN @ + semadj[p][s] ELSE 0]]
        /\ semadj' = [semadj EXCEPT ![p] = [s \in SemNames |-> 0]]
    BY DEF End
  <1>2. ASSUME NEW s \in SemNames
        PROVE  sem'[s].id = sem[s].id /\ sem'[s].there = sem[s].there /\ (Zero(s) => Zero(s)')
    <2>1. sem[s] \in [id : Nat, val : Nat, there : BOOLEAN]
      BY DEF TypeInv, SemTypes
    <2>2. sem'[s] = [sem[s] EXCEPT !.val = IF @ + semadj[p][s] > 0 THEN @ + semadj[p][s] ELSE 0]
      BY <1>1
    <2>3. /\ sem'[s].id = sem[s].id /\ sem'[s].there = sem[s].there
          /\ sem'[s].val = IF sem[s].val + semadj[p][s] > 0 THEN sem[s].val + semadj[p][s] ELSE 0
      BY <2>1, <2>2
    <2>4. semadj \in [Procs -> [SemNames -> Int]]
      BY DEF TypeInv, SemTypes
    <2>5. \A q \in Procs : semadj[q][s] = 0 => semadj'[q][s] = 0
      BY <1>1, <2>4
    <2>6. Zero(s) => sem'[s].val = 0
      BY <2>3 DEF Zero
    <2>7. QED
      BY <2>3, <2>5, <2>6 DEF Zero
  <1>3. QED
    BY <1>2

(* exit(), and a kill: what was noted for SEM_UNDO is applied.              *)
LEMMA EndFault ==
  ASSUME TypeInv, FaultInv, NEW p \in Procs, Exit(p) \/ Crash(p)
  PROVE  FaultInv'
  <1>1. PICK to \in {"done", "killed"} : End(p, to)
    BY DEF Exit, Crash
  <1>2. /\ pc[p] # "start" /\ pc' = [pc EXCEPT ![p] = to]
        /\ UNCHANGED <<segKey, segs, shmid, fresh, semid>> /\ attached' = [attached EXCEPT ![p] = None]
    BY <1>1 DEF Exit, Crash, End, Goto, locals, Ended
  <1>3. Grown
    BY <1>2 DEF Grown, TypeInv, SegTypes
  <1>4. /\ to \in Over /\ to \in Labels \ {"start", "shm_existing", "attach"}
        /\ to \notin Setting \cup {"set_size"} \cup Passed \cup Ring
                     \cup {"find_full_sem", "find_mutex", "rmid_full", "rmid_mutex"}
        /\ \A s \in SemNames : to \notin Before(s)
    BY DEF Over, Labels, Ended, Setting, Passed, Ring, InPut, InGet, Before
  <1>5. attached'[p] = None /\ \A q \in Procs \ {p} : attached'[q] = attached[q]
    BY <1>2 DEF TypeInv, SegTypes
  <1>6. /\ \A s \in SemNames : sem'[s].id = sem[s].id /\ sem'[s].there = sem[s].there
        /\ \A s \in SemNames : Zero(s) => Zero(s)'
    BY <1>1, EndZero
  <1>7. \A s \in SemNames : sem'[s].there => sem'[s].id # 0
    BY <1>6 DEF FaultInv, Keys
  <1>8. sem'["full"].there = sem["full"].there /\ sem'["mutex"].there = sem["mutex"].there
    BY <1>6 DEF SemNames
  <1>9. QED
    BY <1>2, <1>3, <1>4, <1>5, <1>6, <1>7, <1>8, ZeroFault

(* shmctl(IPC_RMID) and shmdt (lines 107-119).                              *)
LEMMA LeaveFault ==
  ASSUME TypeInv, FaultInv, NEW p \in Procs, ShmRmid(p) \/ Detach(p)
  PROVE  FaultInv'
  <1>1. /\ pc[p] \in {"shm_rmid", "detach"} /\ UNCHANGED <<sem, semadj, semid, shmid, fresh>>
    BY DEF ShmRmid, Detach, locals
  <1>2. PICK to \in {"detach", "rmid_free", "exit"} : pc' = [pc EXCEPT ![p] = to]
    BY DEF ShmRmid, Detach, Goto
  <1>3. /\ to \in Over /\ to \in Labels \ {"start", "shm_existing", "attach"} /\ pc[p] # "start"
        /\ to \notin Setting \cup {"set_size"} \cup Passed \cup Ring
                     \cup {"find_full_sem", "find_mutex", "rmid_full", "rmid_mutex"}
        /\ \A s \in SemNames : to \notin Before(s)
    BY <1>1 DEF Over, Labels, InDestroy, Setting, Passed, Ring, InPut, InGet, Before
  <1>4. /\ attached'[p] \in {attached[p], None} /\ \A q \in Procs \ {p} : attached'[q] = attached[q]
    BY DEF ShmRmid, Detach, TypeInv, SegTypes
  <1>5. Grown
    <2>1. CASE Detach(p)
      BY <2>1 DEF Detach, Grown, TypeInv, SegTypes
    <2>2. CASE ShmRmid(p)
      <3>1. pc[p] \in Mapped /\ Write(p, "removed", TRUE) /\ TRUE \in BOOLEAN
        BY <2>2 DEF ShmRmid, Mapped
      <3>2. /\ segs' \in Seq(Segment) /\ Len(segs') = Len(segs)
            /\ segs'[attached[p]] = [Seg(p) EXCEPT !.removed = TRUE]
            /\ \A g \in 1 .. Len(segs) : g # attached[p] => segs'[g] = segs[g]
        BY <3>1, WroteRemoved, Zenon
      <3>3. Seg(p) \in Segment
        BY <3>1, OwnSegment
      <3>4. segs'[attached[p]].size = segs[attached[p]].size
        BY <3>2, <3>3 DEF Segment, Seg
      <3>5. QED
        BY <3>2, <3>4 DEF Grown
    <2>3. QED
      BY <2>1, <2>2
  <1>6. \A s \in SemNames : Zero(s)' <=> Zero(s)
    BY <1>1 DEF Zero
  <1>7. attached'[p] # None => attached'[p] = shmid'[p]
    BY <1>1, <1>4 DEF FaultInv, Keys
  <1>8. \A s \in SemNames : sem'[s].there => sem'[s].id # 0
    BY <1>1 DEF FaultInv, Keys
  <1>9. QED
    BY <1>1, <1>2, <1>3, <1>4, <1>5, <1>6, <1>7, <1>8, ZeroFault

(* shmget of a segment another program made, and shmat (lines 34-52).       *)
LEMMA JoinFault ==
  ASSUME TypeInv, FaultInv, NEW p \in Procs, ShmExisting(p) \/ Attach(p)
  PROVE  FaultInv'
  <1>1. /\ pc[p] \in {"shm_existing", "attach"} /\ UNCHANGED <<segKey, segs, sem, semadj, semid, fresh>>
        /\ \A q \in Procs \ {p} : attached'[q] = attached[q] /\ shmid'[q] = shmid[q]
    BY DEF ShmExisting, Attach, locals, kernel, TypeInv, SegTypes
  <1>2. PICK to \in {"attach", "loop", "get_free_sem"} :
          pc' = [pc EXCEPT ![p] = to] /\ (to = "get_free_sem" => pc[p] = "attach")
    BY DEF ShmExisting, Attach, Goto
  <1>3. Grown
    BY <1>1 DEF Grown, TypeInv, SegTypes
  <1>4. /\ to \in Labels \ {"start", "shm_existing"} /\ pc[p] # "start" /\ pc[p] \notin Over
        /\ to \notin Setting \cup {"set_size"} \cup Passed \cup {"find_full_sem", "find_mutex", "rmid_full", "rmid_mutex"}
    BY <1>1 DEF Over, Labels, InInit, Setting, Passed, InPut, InGet
  <1>5. \A s \in SemNames : semid'[p][s] = None
    BY <1>1 DEF FaultInv, Keys, Before
  <1>6. \A s \in SemNames : Zero(s)' <=> Zero(s)
    BY <1>1 DEF Zero
  <1>7. /\ fresh[p] => shmid'[p] = shmid[p]
        /\ attached'[p] # None => attached'[p] = shmid'[p]
        /\ to = "attach" => attached'[p] = None
    <2>1. CASE ShmExisting(p)
      <3>1. ~ fresh[p] /\ attached[p] = None /\ attached' = attached
        BY <2>1 DEF ShmExisting, FaultInv, Keys, Unmapped, kernel
      <3>2. QED
        BY <3>1
    <2>2. CASE Attach(p)
      <3>1. to # "attach" /\ shmid' = shmid
        BY <1>2, <2>2 DEF Attach, Goto, TypeInv, VarTypes, locals
      <3>2. attached'[p] \in {shmid[p], None}
        BY <2>2 DEF Attach, TypeInv, SegTypes, FaultInv, Keys, Unmapped
      <3>3. QED
        BY <3>1, <3>2
    <2>3. QED
      BY <2>1, <2>2
  <1>8. \A s \in SemNames : sem'[s].there => sem'[s].id # 0
    BY <1>1 DEF FaultInv, Keys
  <1>9. \A s \in {"free", "full"} : semid'[p][s] = None
    BY <1>5 DEF SemNames
  <1>10. QED
    BY <1>1, <1>2, <1>3, <1>4, <1>5, <1>6, <1>7, <1>8, <1>9, ZeroFault

(* shmget(IPC_CREAT | IPC_EXCL) (line 27): the new segment is all zeroes.   *)
LEMMA CreateFault ==
  ASSUME TypeInv, TwoPrograms, FaultInv, NEW p \in Procs, ShmCreate(p)
  PROVE  FaultInv'
  <1>1. /\ pc[p] = "start" /\ UNCHANGED <<attached, sem, semadj, semid>>
        /\ ~ fresh[p] /\ attached[p] = None /\ \A s \in SemNames : semid[p][s] = None
    BY DEF ShmCreate, TypeInv, Place, FaultInv, Keys, Unmapped, Before
  <1>2. /\ segs \in Seq(Segment) /\ Len(segs) \in Nat
        /\ \A q \in Procs : attached[q] \in 0 .. Len(segs) /\ shmid[q] \in 0 .. Len(segs)
    BY DEF TypeInv, SegTypes
  <1>3. PICK to \in {"attach", "shm_existing"} : pc' = [pc EXCEPT ![p] = to]
    BY DEF ShmCreate, Goto
  <1>4. pc'[p] = to /\ \A q \in Procs \ {p} : pc'[q] = pc[q]
    BY <1>3 DEF TypeInv, VarTypes
  <1>5. /\ \A q \in Procs \ {p} : fresh'[q] = fresh[q] /\ shmid'[q] = shmid[q]
        /\ \A g \in 1 .. Len(segs) : segs'[g] = segs[g]
        /\ \/ /\ to = "shm_existing" /\ ~ fresh'[p] /\ segs' = segs /\ segKey' = segKey
           \/ /\ to = "attach" /\ fresh'[p] /\ segKey = None /\ shmid'[p] = Len(segs) + 1
              /\ segKey' = Len(segs) + 1 /\ Len(segs') = Len(segs) + 1 /\ segs'[Len(segs) + 1].size = 0
    <2>1. CASE segKey = None /\ to = "attach"
      <3>1. /\ segs' = Append(segs, ZeroedSegment) /\ segKey' = Len(segs')
            /\ shmid' = [shmid EXCEPT ![p] = segKey'] /\ fresh' = [fresh EXCEPT ![p] = TRUE]
        BY <1>3, <2>1 DEF ShmCreate, Goto, TypeInv, VarTypes
      <3>2. ZeroedSegment.size = 0
        BY DEF ZeroedSegment
      <3>3. /\ Len(segs') = Len(segs) + 1 /\ segs'[Len(segs) + 1] = ZeroedSegment
            /\ \A g \in 1 .. Len(segs) : segs'[g] = segs[g]
        BY <1>2, <3>1, ZeroedIsSegment
      <3>4. QED
        BY <2>1, <3>1, <3>2, <3>3 DEF TypeInv, SegTypes, VarTypes
    <2>2. CASE segKey # None /\ to = "shm_existing"
      BY <1>1, <2>2 DEF ShmCreate
    <2>3. QED
      BY <1>3, <2>1, <2>2 DEF ShmCreate, Goto, TypeInv, VarTypes
  <1>6. Keys'
    <2>1. ASSUME NEW q \in Procs
          PROVE  /\ attached'[q] # None => attached'[q] = shmid'[q]
                 /\ fresh'[q] => shmid'[q] # None
                 /\ pc'[q] = "shm_existing" => ~ fresh'[q]
                 /\ pc'[q] \in Unmapped => attached'[q] = None
                 /\ pc'[q] \in Setting \cup {"set_size"} => fresh'[q]
                 /\ fresh'[q] /\ pc'[q] \notin Over =>
                      segKey' = shmid'[q] \/ \E r \in Procs \ {q} : pc'[r] # "start"
                 /\ \A s \in SemNames : pc'[q] \in Before(s) => semid'[q][s] = None
      <3>1. CASE q = p
        BY <1>1, <1>2, <1>4, <1>5, <3>1 DEF Setting, None
      <3>2. CASE q # p
        BY <1>1, <1>4, <1>5, <3>2 DEF FaultInv, Keys
      <3>3. QED
        BY <3>1, <3>2
    <2>2. ASSUME NEW q \in Procs, NEW r \in Procs, q # r, fresh'[q], fresh'[r]
          PROVE  shmid'[q] # shmid'[r] /\ (pc'[q] \in Over \/ pc'[r] \in Over)
      <3>1. ASSUME NEW x \in Procs \ {p}, fresh[x], segKey = None PROVE pc[x] \in Over
        BY <1>1, <3>1 DEF FaultInv, Keys, TwoPrograms
      <3>2. CASE q # p /\ r # p
        BY <1>4, <1>5, <2>2, <3>2 DEF FaultInv, Keys
      <3>3. CASE q = p \/ r = p
        BY <1>2, <1>4, <1>5, <2>2, <3>1, <3>3
      <3>4. QED
        BY <3>2, <3>3
    <2>3. \A g \in 1 .. Len(segs') : \E q \in Procs : fresh'[q] /\ shmid'[q] = g
      <3>1. \A g \in 1 .. Len(segs) : \E q \in Procs \ {p} : fresh[q] /\ shmid[q] = g
        BY <1>1 DEF FaultInv, Keys
      <3>2. \A g \in 1 .. Len(segs) : \E q \in Procs : fresh'[q] /\ shmid'[q] = g
        BY <1>5, <3>1
      <3>3. QED
        BY <1>2, <1>5, <3>2
    <2>4. \A s \in SemNames : sem'[s].there => sem'[s].id # 0
      BY <1>1 DEF FaultInv, Keys
    <2>5. QED
      BY <2>1, <2>2, <2>3, <2>4 DEF Keys
  <1>7. Filled'
    <2> SUFFICES ASSUME NEW q \in Procs, pc'[q] \in Passed \cup Setting PROVE Seg(q)'.size # 0
      BY DEF Filled
    <2>1. q # p
      BY <1>4 DEF Passed, Setting, InPut, InGet
    <2>2. pc[q] \in Mapped /\ Seg(q).size # 0
      BY <1>4, <2>1 DEF FaultInv, Filled, Passed, Setting, Mapped, InPut, InGet, InInit, Unmapped
    <2>3. attached[q] \in 1 .. Len(segs)
      BY <2>2, OwnSegment
    <2>4. QED
      BY <1>1, <1>5, <2>2, <2>3 DEF Seg
  <1>8. \A s \in SemNames : Zero(s)' <=> Zero(s)
    BY <1>1 DEF Zero
  <1>9. Unset'
    BY <1>2, <1>5, <1>8 DEF FaultInv, Unset
  <1>10. Old'
    <2> SUFFICES ASSUME NEW q \in Procs, Young(q)'
                 PROVE  /\ \A r \in Procs \ {q} :
                            /\ pc'[r] = "rmid_full" => Zero("free")
                            /\ pc'[r] = "rmid_mutex" => Zero("free") /\ Zero("full")
                        /\ pc'[q] = "find_full_sem" /\ ~ sem'["full"].there => Zero("free")
                        /\ pc'[q] = "find_mutex" /\ ~ sem'["mutex"].there => Zero("free") /\ Zero("full")
                        /\ pc'[q] \in Ring => \A s \in {"free", "full"} : semid'[q][s] = None \/ Zero(s)
      BY <1>8 DEF Old, SemNames
    <2>1. Young(p)
      BY <1>1 DEF Young
    <2>2. CASE q = p
      BY <1>4, <2>1, <2>2 DEF FaultInv, Old, Ring, InPut, InGet
    <2>3. CASE q # p
      <3>1. Young(q)
        <4>1. fresh[q] => shmid[q] \in 1 .. Len(segs)
          BY <1>2 DEF FaultInv, Keys, None
        <4>2. QED
          BY <1>4, <1>5, <2>3, <4>1 DEF Young
      <3>2. QED
        BY <1>1, <1>4, <2>3, <3>1 DEF FaultInv, Old
    <2>4. QED
      BY <2>2, <2>3
  <1>11. QED
    BY <1>6, <1>7, <1>9, <1>10 DEF FaultInv

(* The three semgets (lines 60-72).                                         *)
LEMMA SemgetFault ==
  ASSUME TypeInv, FaultInv, NEW p \in Procs, GetSemaphores(p)
  PROVE  FaultInv'
  <1>1. PICK s \in SemNames :
           \/ Made(p, s, Get(s), After(s))
           \/ Missed(p, s, Get(s), Find(s)) /\ sem[s].there
           \/ Found(p, s, Find(s), After(s))
           \/ Missed(p, s, Find(s), "loop") /\ ~ sem[s].there
    BY GetSemaphoresFacts
  <1>2. /\ UNCHANGED <<segKey, segs, attached, semadj, shmid, fresh>> /\ pc[p] \in {Get(s), Find(s)}
    BY <1>1 DEF Made, Missed, Found, SemgetAt
  <1>3. Grown
    BY <1>2 DEF Grown, TypeInv, SegTypes
  <1>4. PICK to \in {After(s), Find(s), "loop"} :
           /\ pc' = [pc EXCEPT ![p] = to]
           /\ to = Find(s) => sem[s].there /\ sem' = sem
           /\ to = "loop" => pc[p] = Find(s) /\ ~ sem[s].there /\ semid' = semid
           /\ to # After(s) => semid' = semid
    BY <1>1 DEF Made, Missed, Found, SemgetAt, After, Find, SemNames
  <1>5. /\ to \in Labels \ {"start", "shm_existing", "attach"} /\ pc[p] # "start" /\ pc[p] \notin Over
        /\ to \notin Setting \cup {"set_size"} \cup Passed \cup {"rmid_full", "rmid_mutex"}
        /\ \A t \in SemNames : to \in Before(t) => pc[p] \in Before(t) /\ (t = s => to # After(s))
        /\ to = "find_full_sem" => s = "full" /\ to = Find(s)
        /\ to = "find_mutex" => s = "mutex" /\ to = Find(s)
        /\ to \in Ring => to = "loop"
    BY <1>2 DEF Labels, InInit, Over, Setting, Passed, InPut, InGet, Ring, Before, After, Find, Get, SemNames
  <1>6. /\ sem \in [SemNames -> [id : Nat, val : Nat, there : BOOLEAN]]
        /\ semid \in [Procs -> [SemNames -> Nat]]
    BY DEF TypeInv, SemTypes
  <1>7. /\ \A q \in Procs \ {p} : semid'[q] = semid[q]
        /\ \A t \in SemNames \ {s} : semid'[p][t] = semid[p][t]
        /\ sem' = sem \/ (sem' = [sem EXCEPT ![s] = [id |-> sem[s].id + 1, val |-> 0, there |-> TRUE]])
    BY <1>1, <1>6 DEF Made, Missed, Found, SemgetAt
  <1>8. /\ \A t \in SemNames : Zero(t) => Zero(t)'
        /\ \A t \in SemNames : sem'[t].there => sem'[t].id # 0
        /\ \A t \in SemNames : sem[t].there => sem'[t].there
    <2>1. CASE sem' = sem
      BY <1>2, <2>1 DEF Zero, FaultInv, Keys
    <2>2. CASE sem' = [sem EXCEPT ![s] = [id |-> sem[s].id + 1, val |-> 0, there |-> TRUE]]
      <3>1. /\ sem'[s].id = sem[s].id + 1 /\ sem'[s].val = 0 /\ sem'[s].there
            /\ \A t \in SemNames \ {s} : sem'[t] = sem[t]
        BY <1>6, <2>2
      <3>2. sem[s].id + 1 # 0
        BY <1>6
      <3>3. QED
        BY <1>2, <3>1, <3>2 DEF Zero, FaultInv, Keys
    <2>3. QED
      BY <1>7, <2>1, <2>2
  <1>9. \A t \in SemNames : to \in Before(t) => semid'[p][t] = None
    <2>1. \A t \in SemNames : pc[p] \in Before(t) => semid[p][t] = None
      BY DEF FaultInv, Keys
    <2>2. ASSUME NEW t \in SemNames, to \in Before(t) PROVE semid'[p][t] = semid[p][t]
      BY <1>4, <1>5, <1>7, <2>2
    <2>3. QED
      BY <1>5, <2>1, <2>2
  <1>10. to \in Ring /\ Young(p) => \A t \in {"free", "full"} : semid'[p][t] = None \/ Zero(t)'
    <2> SUFFICES ASSUME to = "loop", Young(p), NEW t \in {"free", "full"} PROVE semid[p][t] = None \/ Zero(t)'
      BY <1>4, <1>5
    <2>1. pc[p] = Find(s) /\ ~ sem[s].there
      BY <1>4
    <2>2. \A u \in SemNames : pc[p] \in Before(u) => semid[p][u] = None
      BY DEF FaultInv, Keys
    <2>3. CASE s = "free"
      BY <2>1, <2>2, <2>3 DEF Find, Before, SemNames
    <2>4. CASE s = "full"
      <3>1. pc[p] = "find_full_sem" /\ ~ sem["full"].there
        BY <2>1, <2>4 DEF Find
      <3>2. Zero("free")
        BY <3>1 DEF FaultInv, Old
      <3>3. semid[p]["full"] = None
        BY <2>2, <3>1 DEF Before, SemNames
      <3>4. QED
        BY <1>8, <3>2, <3>3 DEF SemNames
    <2>5. CASE s = "mutex"
      <3>1. Zero("free") /\ Zero("full")
        BY <2>1, <2>5 DEF Find, FaultInv, Old
      <3>2. QED
        BY <1>8, <3>1 DEF SemNames
    <2>6. QED
      BY <2>3, <2>4, <2>5 DEF SemNames
  <1>11. /\ to = "find_full_sem" => sem'["full"].there
         /\ to = "find_mutex" => sem'["mutex"].there
         /\ sem["full"].there => sem'["full"].there
         /\ sem["mutex"].there => sem'["mutex"].there
    BY <1>4, <1>5, <1>8 DEF SemNames
  <1>12. attached'[p] # None => attached'[p] = shmid'[p]
    BY <1>2 DEF FaultInv, Keys
  <1>13. /\ to \in Labels \ {"start", "shm_existing"} /\ pc[p] # "start" /\ to # "attach"
         /\ pc[p] \notin Over /\ to \notin Setting \cup {"set_size"} \cup Passed
         /\ to # "rmid_full" /\ to # "rmid_mutex"
    BY <1>5
  <1>14. \A q \in Procs \ {p} : /\ attached'[q] = attached[q] /\ semid'[q] = semid[q]
                                 /\ shmid'[q] = shmid[q]
    BY <1>2, <1>7
  <1>15. fresh' = fresh /\ segKey' = segKey /\ shmid'[p] = shmid[p]
    BY <1>2
  <1>16. (\A s1 \in SemNames : Zero(s1) => Zero(s1)') /\ \A s1 \in SemNames : sem'[s1].there => sem'[s1].id # 0
    BY <1>8
  <1>17. Grown /\ pc' = [pc EXCEPT ![p] = to]
    BY <1>3, <1>4
  <1>18. QED
    BY <1>9, <1>10, <1>11, <1>12, <1>13, <1>14, <1>15, <1>16, <1>17, ZeroFault

(* At the beginning there is nothing.                                       *)
LEMMA InitFault == Init => FaultInv
  <1> SUFFICES ASSUME Init PROVE FaultInv
    OBVIOUS
  <1>1. /\ \A p \in Procs : pc[p] = "start" /\ ~ fresh[p] /\ attached[p] = None
        /\ segs = <<>> /\ Len(segs) = 0
        /\ \A p \in Procs, s \in SemNames : semid[p][s] = None /\ semadj[p][s] = 0
        /\ \A s \in SemNames : sem[s].val = 0 /\ ~ sem[s].there
    BY DEF Init
  <1>2. Keys
    BY <1>1 DEF Keys, Setting
  <1>3. Filled
    BY <1>1 DEF Filled, Passed, Setting, InPut, InGet
  <1>4. \A s \in SemNames : Zero(s)
    BY <1>1 DEF Zero
  <1>5. Unset /\ Old
    BY <1>1, <1>4 DEF Unset, Old, Ring, InPut, InGet, SemNames
  <1>6. QED
    BY <1>2, <1>3, <1>5 DEF FaultInv

(* FaultInv is inductive, one case for each action.                         *)
LEMMA StepFault ==
  ASSUME TwoPrograms
  PROVE  TypeInv /\ FaultInv /\ [Next]_vars => FaultInv'
  <1> SUFFICES ASSUME TypeInv, FaultInv, [Next]_vars PROVE FaultInv'
    OBVIOUS
  <1>1. TypeInv'
    BY StepTypeInv
  <1>2. CASE UNCHANGED vars
    BY <1>2 DEF vars, FaultInv, Keys, Filled, Unset, Old, Zero, Young, Seg
  <1>3. ASSUME NEW p \in Procs, Run(p) \/ Crash(p) PROVE FaultInv'
    <2>1. CASE BufInit(p)
      BY <1>1, <2>1, CreateFault, JoinFault, SemgetFault, LocalFault, WriteFault, SetvalFault DEF BufInit
    <2>2. CASE BufDestroy(p)
      BY <2>2, LocalFault, WriteFault, LeaveFault, RemoveFault DEF BufDestroy
    <2>3. CASE Exit(p) \/ Crash(p)
      BY <2>3, EndFault
    <2>4. CASE p \in Senders /\ Send(p)
      BY <1>1, <2>4, SemopsFault, LocalFault, WriteFault DEF Send
    <2>5. CASE p \in Receivers /\ Receive(p)
      BY <1>1, <2>5, SemopsFault, LocalFault, WriteFault DEF Receive
    <2>6. QED
      BY <1>3, <2>1, <2>2, <2>3, <2>4, <2>5 DEF Run
  <1>4. QED
    BY <1>2, <1>3 DEF Next

(* A sender and a receiver, or any two programs, started in any order,      *)
(* killed anywhere and started together, with any semaphore flags: buf_put  *)
(* (line 155) and buf_get (line 216) never divide by the size of a segment  *)
(* init_struct has not filled in. Without the hypothesis it is false.       *)
THEOREM NoFaultOfTwo ==
  ASSUME TwoPrograms
  PROVE  Spec => []NoFault
  <1>1. TypeInv /\ FaultInv => NoFault
    <2>1. {"put_next", "get_out"} \subseteq Passed
      BY DEF Passed, InPut, InGet
    <2>2. QED
      BY <2>1 DEF FaultInv, Filled, NoFault
  <1>2. Init => TypeInv /\ FaultInv
    BY InitTypeInv, InitFault
  <1>3. TypeInv /\ FaultInv /\ [Next]_vars => TypeInv' /\ FaultInv'
    BY StepTypeInv, StepFault
  <1>4. QED
    BY <1>1, <1>2, <1>3, PTL DEF Spec

--------------------------------------------------------------------------------
(* The sender and the receiver the code is made for.                        *)
Pair(s, r) == Senders = {s} /\ Receivers = {r}

(* Nobody types a Quit before the other is there, and no call has a flag.   *)
Calm == breaches \subseteq {"racing_launch"}

(* The labels of a program that is leaving by itself, not killed.           *)
Gone == Leaving \ {"killed"}

(* While the session is calm there is one segment and one generation of     *)
(* each semaphore: nothing is removed as long as somebody launches, no      *)
(* semaphore as long as the sender runs (nproc lets only the last one to    *)
(* leave remove them), and nobody has anything to undo.                     *)
Life ==
  /\ Len(segs) <= 1
  /\ Launching => /\ segKey = Len(segs)
                  /\ \A g \in 1 .. Len(segs) : ~ segs[g].removed
                  /\ \A p \in Procs : pc[p] \notin Gone
  /\ \A x \in SemNames :
       /\ sem[x].id <= 1
       /\ sem[x].id = 1 /\ (Launching \/ \E p \in Senders : pc[p] \notin Leaving) => sem[x].there
  /\ \A p \in Procs :
       /\ pc[p] # "start" => Len(segs) = 1
       /\ pc[p] \in Ring \cup {"nproc_read"} => attached[p] # None
       /\ \A x \in SemNames :
            /\ pc[p] \notin (Before(x) \ {Find(x)}) \cup {"killed"} => sem[x].id = 1
            /\ pc[p] \notin Before(x) \cup {"killed"} => semid[p][x] = 1
            /\ semadj[p][x] = 0
  /\ \A p \in Senders, q \in Receivers : pc[q] \in Gone => pc[p] \in Leaving

(* Where a Quit is: typed last, when nobody launches any more, by a sender  *)
(* that is still putting it or has left its loop; and what is being put is  *)
(* what was typed last.                                                     *)
Quits ==
  \A p \in Senders :
    /\ \A i \in 1 .. Len(typed[p]) : typed[p][i] = Quit =>
         i = Len(typed[p]) /\ ~ Launching /\ pc[p] \in InPut \cup Leaving
    /\ pc[p] \in InPut => Len(typed[p]) > 0 /\ c[p] = typed[p][Len(typed[p])]

(* What a program contributes to a count when it is at a label of L.        *)
One(label, L) == IF label \in L THEN 1 ELSE 0

(* The sender before its character is in the ring, with a unit of free, and *)
(* with one of full owed; the receiver with a unit of full; who is between  *)
(* wait and signal on mutex; the receiver with a character.                 *)
Filling  == {"put_free", "put_next", "put_lock", "put_store", "put_in"}
FreeHeld == {"put_next", "put_lock", "put_store", "put_in"}
FullOwed == {"put_unlock", "put_full"}
FullHeld == {"get_lock", "get_fetch"}
PutInside == {"put_store", "put_in", "put_unlock"}
GetInside == {"get_fetch", "get_out", "get_unlock"}
Fetched  == {"get_out", "get_unlock", "get_free"}

(* m characters were stored. The units of free are no more than the slots   *)
(* left, those of full no more than the characters to fetch, and one unit   *)
(* of mutex is all there is. They are no more, not as many: a program that  *)
(* is killed, or whose call fails, keeps its units for ever, and a          *)
(* semaphore has none before lines 87-92 set it.                            *)
Counts(m, s, r) ==
  /\ m <= Len(typed[s]) /\ (pc[s] # "killed" => m = Len(typed[s]) - One(pc[s], Filling))
  /\ Len(segs) = 0 => m = 0
  /\ sem["free"].val + One(pc[s], FreeHeld) + One(pc[r], Fetched) + m <= Size + Len(got[r])
  /\ sem["full"].val + One(pc[r], FullHeld) + One(pc[s], FullOwed) + Len(got[r]) <= m
  /\ sem["mutex"].val + One(pc[s], PutInside) + One(pc[r], GetInside) <= 1

(* in is where the next character goes, out where the next one is, and      *)
(* between them the slots hold what was typed, in order.                    *)
Slots(m, s, r) ==
  /\ Len(segs) # 0 =>
       /\ pc[s] # "killed" => segs[1].in = m % Size
       /\ pc[r] # "killed" => segs[1].out = (Len(got[r]) - One(pc[r], {"get_out"})) % Size
       /\ \A i \in Len(got[r]) .. m - 1 : segs[1].buf[i % Size] = typed[s][i + 1]
       /\ pc[s] = "put_in" => segs[1].buf[m % Size] = c[s]
  /\ pc[s] \in {"put_lock", "put_store", "put_in"} => reg[s] = (m + 1) % Size
  /\ pc[r] \in Fetched => Len(got[r]) > 0 /\ c[r] = got[r][Len(got[r])]
  /\ IsPrefixOf(got[r], typed[s])

(* Until its maker is out of buf_init nothing was put: free, the first      *)
(* semaphore to get units (line 87), lets a sender come as far as the       *)
(* mutex, which is the last.                                                *)
Opening(m, s, r) ==
  \A p \in Procs : fresh[p] /\ pc[p] \in InInit =>
    /\ m = 0 /\ sem["full"].val = 0 /\ sem["mutex"].val = 0
    /\ pc[s] \notin {"put_store", "put_in", "put_unlock", "put_full"}
    /\ pc[r] \notin InGet \ {"get_full"}
    /\ pc[p] \notin {"set_full", "set_mutex"} =>
         sem["free"].val = 0 /\ pc[s] \notin {"put_next", "put_lock"}

(* The ring after m characters. Who knows m is the sender, and a killed one *)
(* no longer tells; hence the quantifier in CalmParts.                      *)
RingAt(m, s, r) == Counts(m, s, r) /\ Slots(m, s, r) /\ Opening(m, s, r)

(* The invariant of a calm session ...                                      *)
CalmParts(s, r) == Life /\ Quits /\ \E m \in Nat : RingAt(m, s, r)

(* ... which holds as long as the session is calm.                          *)
CalmInv(s, r) == Calm => CalmParts(s, r)

(* In an orderly session a receiver leaves its loop after a Quit (line 15   *)
(* of receiver.c), never because a call failed.                             *)
StoppedAfterQuit(s, r) ==
  Orderly /\ pc[r] \in Leaving => Len(got[r]) > 0 /\ got[r][Len(got[r])] = Quit

(* The facts about products that division needs.                            *)
LEMMA Product ==
  ASSUME NEW b \in Nat \ {0}, NEW q \in Int, NEW t \in Int
  PROVE  /\ b * q \in Int /\ b * t \in Int
         /\ q < t => b * q + b <= b * t
         /\ b * (q + 1) = b * q + b
  OBVIOUS

(* Quotient and remainder.                                                  *)
LEMMA Division ==
  ASSUME NEW n \in Nat, NEW b \in Nat \ {0}
  PROVE  /\ n \div b \in Nat /\ n % b \in 0 .. b - 1
         /\ n = b * (n \div b) + (n % b)
  <1>1. n \div b \in Int
    OBVIOUS
  <1>2. n % b \in 0 .. b - 1
    OBVIOUS
  <1>3. n = b * (n \div b) + (n % b)
    OBVIOUS
  <1>4. n \div b >= 0
    BY <1>1, <1>2, <1>3, Product
  <1>5. QED
    BY <1>1, <1>2, <1>3, <1>4

(* The remainder is the only number with that property.                     *)
LEMMA ModOf ==
  ASSUME NEW b \in Nat \ {0}, NEW q \in Nat, NEW r \in 0 .. b - 1
  PROVE  (b * q + r) % b = r
  <1> DEFINE n == b * q + r
  <1>1. n \in Nat
    OBVIOUS
  <1>2. PICK t \in Nat, u \in 0 .. b - 1 : n = b * t + u /\ u = n % b
    BY <1>1, Division
  <1>3. ~ q < t
    BY <1>2, Product
  <1>4. ~ t < q
    BY <1>2, Product
  <1>5. QED
    BY <1>2, <1>3, <1>4

(* The index after the one of n.                                            *)
LEMMA ModNext ==
  ASSUME NEW b \in Nat \ {0}, NEW n \in Nat
  PROVE  ((n % b) + 1) % b = (n + 1) % b
  <1>1. PICK q \in Nat, r \in 0 .. b - 1 : n = b * q + r /\ r = n % b
    BY Division
  <1>2. CASE r + 1 < b
    <2>1. r + 1 \in 0 .. b - 1 /\ n + 1 = b * q + (r + 1)
      BY <1>1, <1>2, Product
    <2>2. (n + 1) % b = r + 1
      BY <2>1, ModOf
    <2>3. r + 1 = b * 0 + (r + 1)
      BY Product
    <2>4. (r + 1) % b = r + 1
      BY <2>1, <2>3, ModOf
    <2>5. QED
      BY <1>1, <2>2, <2>4
  <1>3. CASE r + 1 = b
    <2>1. n + 1 = b * (q + 1) + 0 /\ b = b * 1 + 0 /\ q + 1 \in Nat /\ 1 \in Nat /\ 0 \in 0 .. b - 1
      BY <1>1, <1>3, Product
    <2>2. (n + 1) % b = 0 /\ b % b = 0
      BY <2>1, ModOf
    <2>3. QED
      BY <1>1, <1>3, <2>2
  <1>4. QED
    BY <1>1, <1>2, <1>3

(* Fewer than b indices in a row are different ones.                        *)
LEMMA ModApart ==
  ASSUME NEW b \in Nat \ {0}, NEW i \in Nat, NEW n \in Nat, i < n, n - i < b
  PROVE  i % b # n % b
  <1>1. PICK q \in Nat, r \in 0 .. b - 1 : i = b * q + r /\ r = i % b
    BY Division
  <1>2. PICK t \in Nat, u \in 0 .. b - 1 : n = b * t + u /\ u = n % b
    BY Division
  <1> SUFFICES ASSUME r = u PROVE FALSE
    BY <1>1, <1>2
  <1> DEFINE x == b * q
             y == b * t
  <1>3. x \in Int /\ y \in Int
    BY Product
  <1>4. i = x + r /\ n = y + r /\ i < n /\ n - i < b
    BY <1>1, <1>2
  <1> HIDE DEF x, y
  <1>5. x < y /\ y < x + b
    BY <1>3, <1>4
  <1>6. ~ q < t /\ ~ t < q /\ q # t
    BY <1>3, <1>5, Product DEF x, y
  <1>7. QED
    BY <1>6

(* The index of the first slot.                                             *)
LEMMA ModZero ==
  ASSUME NEW b \in Nat \ {0}
  PROVE  0 % b = 0
  BY ModOf

(* The labels of buf_put and buf_get.                                       *)
Calls == InPut \cup InGet

(* The types of what belongs to the pair.                                   *)
LEMMA PairTypes ==
  ASSUME TypeInv, NEW s, NEW r, Pair(s, r)
  PROVE  /\ s \in Senders /\ r \in Receivers /\ s # r /\ Procs = {s, r} /\ s \in Procs
            /\ r \in Procs
         /\ typed \in [Senders -> Seq(Chars)] /\ typed[s] \in Seq(Chars) /\ Len(typed[s]) \in Nat
         /\ got[r] \in Seq(Chars \cup {Nul}) /\ Len(got[r]) \in Nat
         /\ sem \in [SemNames -> [id : Nat, val : Nat, there : BOOLEAN]]
         /\ \A x \in SemNames : sem[x].val \in Nat
         /\ segs \in Seq(Segment) /\ Len(segs) \in Nat
         /\ Len(segs) # 0 => segs[1] \in Segment
         /\ Size \in Nat \ {0}
  <1>1. /\ s \in Senders /\ r \in Receivers /\ s # r /\ Procs = {s, r} /\ s \in Procs /\ r \in Procs
    BY ProgramAssumption DEF Pair, Procs
  <1>2. /\ typed \in [Senders -> Seq(Chars)] /\ typed[s] \in Seq(Chars) /\ Len(typed[s]) \in Nat
        /\ got[r] \in Seq(Chars \cup {Nul}) /\ Len(got[r]) \in Nat
    BY <1>1 DEF TypeInv, VarTypes
  <1>3. /\ sem \in [SemNames -> [id : Nat, val : Nat, there : BOOLEAN]]
        /\ \A x \in SemNames : sem[x].val \in Nat
    BY DEF TypeInv, SemTypes
  <1>4. segs \in Seq(Segment) /\ Len(segs) \in Nat /\ (Len(segs) # 0 => segs[1] \in Segment)
    BY DEF TypeInv, SegTypes
  <1>5. QED
    BY <1>1, <1>2, <1>3, <1>4, BoundAssumption

(* The ring, for a step of p that neither puts nor gets: a semaphore may    *)
(* lose units, and a program that is killed leaves its call.                *)
LEMMA QuietRing ==
  ASSUME TypeInv, TypeInv', NEW s, NEW r, Pair(s, r), NEW m \in Nat, RingAt(m, s, r),
         NEW p \in Procs, NEW to \in Labels \ (Calls \ {"get_full"}), pc' = [pc EXCEPT ![p] = to],
         pc[p] # "killed",
         pc[p] \notin Calls \/ to = "killed" \/ (p = r /\ pc[p] # "get_out"),
         \A x \in SemNames : sem'[x].val <= sem[x].val,
         Len(segs') = Len(segs),
         Len(segs) # 0 => segs'[1].in = segs[1].in /\ segs'[1].out = segs[1].out
           /\ segs'[1].buf = segs[1].buf,
         UNCHANGED <<typed, got, c, fresh>>,
         \A q \in Procs \ {p} : reg'[q] = reg[q],
         to \in InInit /\ fresh[p] => pc[p] \in InInit,
         to \in InInit \ {"set_full", "set_mutex"} => pc[p] \notin {"set_full", "set_mutex"}
  PROVE  RingAt(m, s, r)'
  <1>1. pc'[p] = to /\ \A q \in Procs \ {p} : pc'[q] = pc[q]
    BY DEF TypeInv, VarTypes
  <1> DEFINE f == sem["free"].val
             u == sem["full"].val
             x == sem["mutex"].val
             k == Len(got[r])
  <1>2. /\ f \in Nat /\ u \in Nat /\ x \in Nat /\ f' \in Nat /\ u' \in Nat /\ x' \in Nat
        /\ f' <= f /\ u' <= u /\ x' <= x /\ k \in Nat /\ k' = k /\ Len(typed[s]) \in Nat
    BY PairTypes DEF SemNames, TypeInv, SemTypes
  <1>3. /\ s # r /\ s \in Procs /\ r \in Procs /\ Procs = {s, r}
    BY PairTypes
  <1>4. to \notin InPut /\ to \notin InGet \ {"get_full"}
    BY DEF Calls, InPut, InGet
  <1> HIDE DEF f, u, x, k
  <1>5. /\ One(pc'[s], FreeHeld) <= One(pc[s], FreeHeld)
        /\ One(pc'[s], FullOwed) <= One(pc[s], FullOwed)
        /\ One(pc'[s], PutInside) <= One(pc[s], PutInside)
        /\ pc'[s] \in InPut => pc'[s] = pc[s]
        /\ pc'[s] # "killed" => pc[s] # "killed" /\ One(pc'[s], Filling) = One(pc[s], Filling)
    BY <1>1, <1>3, <1>4 DEF One, Filling, FreeHeld, FullOwed, PutInside, InPut, Calls
  <1>6. /\ One(pc'[r], Fetched) <= One(pc[r], Fetched)
        /\ One(pc'[r], FullHeld) <= One(pc[r], FullHeld)
        /\ One(pc'[r], GetInside) <= One(pc[r], GetInside)
        /\ pc'[r] \in InGet \ {"get_full"} => pc'[r] = pc[r]
        /\ pc'[r] # "killed" => pc[r] # "killed"
           /\ One(pc'[r], {"get_out"}) = One(pc[r], {"get_out"})
    BY <1>1, <1>3, <1>4 DEF One, Fetched, FullHeld, GetInside, InGet, Calls
  <1>7. Counts(m, s, r)'
    <2>1. /\ One(pc[s], FreeHeld) \in {0, 1} /\ One(pc[s], FullOwed) \in {0, 1}
             /\ One(pc[s], PutInside) \in {0, 1}
          /\ One(pc'[s], FreeHeld) \in {0, 1} /\ One(pc'[s], FullOwed) \in {0, 1}
             /\ One(pc'[s], PutInside) \in {0, 1}
          /\ One(pc[r], Fetched) \in {0, 1} /\ One(pc[r], FullHeld) \in {0, 1}
             /\ One(pc[r], GetInside) \in {0, 1}
          /\ One(pc'[r], Fetched) \in {0, 1} /\ One(pc'[r], FullHeld) \in {0, 1}
             /\ One(pc'[r], GetInside) \in {0, 1}
      BY DEF One
    <2>2. /\ m <= Len(typed[s]) /\ (pc[s] # "killed" => m = Len(typed[s]) - One(pc[s], Filling))
          /\ Len(segs) = 0 => m = 0
          /\ f + One(pc[s], FreeHeld) + One(pc[r], Fetched) + m <= Size + k
          /\ u + One(pc[r], FullHeld) + One(pc[s], FullOwed) + k <= m
          /\ x + One(pc[s], PutInside)
               + One(pc[r], GetInside) <= 1
      BY DEF RingAt, Counts, f, u, x, k
    <2>3. f' + One(pc'[s], FreeHeld) + One(pc'[r], Fetched) + m <= Size + k'
      <3>1. /\ One(pc'[s], FreeHeld) <= One(pc[s], FreeHeld)
               /\ One(pc'[r], Fetched) <= One(pc[r], Fetched)
            /\ f + One(pc[s], FreeHeld) + One(pc[r], Fetched) + m <= Size + k
        BY <1>5, <1>6, <2>2
      <3>2. f \in Int /\ f' \in Int /\ k \in Int /\ k' = k /\ f' <= f /\ Size \in Int /\ m \in Int
        BY <1>2, BoundAssumption
      <3>3. QED
        BY <2>1, <3>1, <3>2
    <2>4. u' + One(pc'[r], FullHeld) + One(pc'[s], FullOwed) + k' <= m
      <3>1. /\ One(pc'[r], FullHeld) <= One(pc[r], FullHeld)
               /\ One(pc'[s], FullOwed) <= One(pc[s], FullOwed)
            /\ u + One(pc[r], FullHeld) + One(pc[s], FullOwed) + k <= m
        BY <1>5, <1>6, <2>2
      <3>2. u \in Int /\ u' \in Int /\ k \in Int /\ k' = k /\ u' <= u /\ m \in Int
        BY <1>2
      <3>3. QED
        BY <2>1, <3>1, <3>2
    <2>5. x' + One(pc'[s], PutInside) + One(pc'[r], GetInside) <= 1
      <3>1. /\ One(pc'[s], PutInside) <= One(pc[s], PutInside)
               /\ One(pc'[r], GetInside) <= One(pc[r], GetInside)
            /\ x + One(pc[s], PutInside) + One(pc[r], GetInside) <= 1
        BY <1>5, <1>6, <2>2
      <3>2. x \in Int /\ x' \in Int /\ x' <= x
        BY <1>2
      <3>3. QED
        BY <2>1, <3>1, <3>2
    <2>6. QED
      BY <1>5, <2>2, <2>3, <2>4, <2>5 DEF Counts, f, u, x, k
  <1>8. Slots(m, s, r)'
    <2>1. ASSUME Len(segs) # 0
          PROVE  /\ pc'[s] # "killed" => segs'[1].in = m % Size
                 /\ pc'[r] # "killed" => segs'[1].out
                    = (Len(got[r]) - One(pc'[r], {"get_out"})) % Size
                 /\ \A i \in Len(got[r]) .. m - 1 : segs'[1].buf[i % Size] = typed[s][i + 1]
                 /\ pc'[s] = "put_in" => segs'[1].buf[m % Size] = c[s]
      BY <1>5, <1>6, <2>1 DEF RingAt, Slots, InPut
    <2>2. pc'[s] \in {"put_lock", "put_store", "put_in"} => reg'[s] = (m + 1) % Size
      BY <1>1, <1>3, <1>4, <1>5 DEF RingAt, Slots, InPut
    <2>3. pc'[r] \in Fetched => Len(got[r]) > 0 /\ c[r] = got[r][Len(got[r])]
      BY <1>6 DEF RingAt, Slots, InGet, Fetched
    <2>4. IsPrefixOf(got[r], typed[s])
      BY DEF RingAt, Slots
    <2>5. QED
      BY <2>1, <2>2, <2>3, <2>4 DEF Slots
  <1>9. Opening(m, s, r)'
    BY <1>1, <1>2, <1>3, <1>5, <1>6 DEF RingAt, Opening, u, f, x, InPut, InGet
  <1>10. QED
    BY <1>7, <1>8, <1>9 DEF RingAt

(* The eight semops, when they succeed.                                     *)
Passing(p, s, r, here, x, d, to) ==
  \/ p = s /\ here = "put_free" /\ x = "free" /\ d = -1 /\ to = "put_next"
  \/ p = s /\ here = "put_lock" /\ x = "mutex" /\ d = -1 /\ to = "put_store"
  \/ p = s /\ here = "put_unlock" /\ x = "mutex" /\ d = 1 /\ to = "put_full"
  \/ p = s /\ here = "put_full" /\ x = "full" /\ d = 1 /\ to \in {"loop", "nproc_read"}
  \/ p = r /\ here = "get_full" /\ x = "full" /\ d = -1 /\ to = "get_lock"
  \/ p = r /\ here = "get_lock" /\ x = "mutex" /\ d = -1 /\ to = "get_fetch"
  \/ p = r /\ here = "get_unlock" /\ x = "mutex" /\ d = 1 /\ to = "get_free"
  \/ p = r /\ here = "get_free" /\ x = "free" /\ d = 1 /\ to \in {"loop", "nproc_read"}

(* A program is at a label or it is not.                                    *)
LEMMA OneNumbers ==
  ASSUME NEW l, NEW L
  PROVE  One(l, L) \in {0, 1} /\ (l \in L <=> One(l, L) = 1)
  BY DEF One

(* A semop moves a unit between a semaphore and the label of the program.   *)
LEMMA SemopRing ==
  ASSUME TypeInv, TypeInv', NEW s, NEW r, Pair(s, r), NEW m \in Nat, RingAt(m, s, r),
         NEW p \in Procs, NEW here, NEW x \in SemNames, NEW d \in {-1, 1}, NEW to \in Labels,
         Passing(p, s, r, here, x, d, to),
         pc[p] = here, pc' = [pc EXCEPT ![p] = to], UNCHANGED <<segs, reg, c, fresh, typed, got>>,
         sem'[x].val = sem[x].val + d, \A t \in SemNames \ {x} : sem'[t] = sem[t]
  PROVE  RingAt(m, s, r)'
  <1>1. pc'[p] = to /\ \A q \in Procs \ {p} : pc'[q] = pc[q]
    BY DEF TypeInv, VarTypes
  <1> DEFINE f == sem["free"].val
             u == sem["full"].val
             e == sem["mutex"].val
  <1>2. /\ f \in Nat /\ u \in Nat /\ e \in Nat /\ f' \in Nat /\ u' \in Nat /\ e' \in Nat
        /\ f' = IF x = "free" THEN f + d ELSE f
        /\ u' = IF x = "full" THEN u + d ELSE u
        /\ e' = IF x = "mutex" THEN e + d ELSE e
    BY PairTypes DEF SemNames, TypeInv, SemTypes
  <1>3. /\ s # r /\ s \in Procs /\ r \in Procs /\ Procs = {s, r}
    BY PairTypes
  <1> HIDE DEF f, u, e
  <1>4. /\ p = s => pc[s] = here /\ pc'[s] = to /\ pc'[r] = pc[r]
        /\ p = r => pc[r] = here /\ pc'[r] = to /\ pc'[s] = pc[s]
    BY <1>1, <1>3
  <1>5. /\ f' + One(pc'[s], FreeHeld) + One(pc'[r], Fetched)
           = f + One(pc[s], FreeHeld) + One(pc[r], Fetched)
        /\ u' + One(pc'[r], FullHeld) + One(pc'[s], FullOwed)
           = u + One(pc[r], FullHeld) + One(pc[s], FullOwed)
        /\ e' + One(pc'[s], PutInside) + One(pc'[r], GetInside)
           = e + One(pc[s], PutInside) + One(pc[r], GetInside)
        /\ One(pc'[s], Filling) = One(pc[s], Filling)
        /\ (pc'[s] = "killed" <=> pc[s] = "killed") /\ (pc'[r] = "killed" <=> pc[r] = "killed")
    <2>1. /\ One(pc[s], FreeHeld) \in {0, 1} /\ One(pc[s], FullOwed) \in {0, 1}
             /\ One(pc[s], PutInside) \in {0, 1}
          /\ One(pc[r], Fetched) \in {0, 1} /\ One(pc[r], FullHeld) \in {0, 1}
             /\ One(pc[r], GetInside) \in {0, 1}
      BY OneNumbers
    <2>2. CASE p = s
      <3>1. One(pc'[r], Fetched) = One(pc[r], Fetched)
            /\ One(pc'[r], FullHeld) = One(pc[r], FullHeld)
            /\ One(pc'[r], GetInside) = One(pc[r], GetInside)
        BY <1>4, <2>2
      <3>2. One(to, FreeHeld) = (IF here = "put_free" THEN 1 ELSE One(here, FreeHeld))
            /\ One(to, FullOwed) = (IF here = "put_unlock" THEN 1 ELSE 0)
            /\ One(to, PutInside) = (IF here = "put_lock" THEN 1 ELSE 0)
            /\ One(to, Filling) = One(here, Filling)
            /\ to # "killed" /\ here # "killed"
            /\ One(here, FreeHeld) = (IF here = "put_lock" THEN 1 ELSE 0)
            /\ One(here, FullOwed) = (IF here \in {"put_unlock", "put_full"} THEN 1 ELSE 0)
            /\ One(here, PutInside) = (IF here = "put_unlock" THEN 1 ELSE 0)
        BY <1>3, <2>2 DEF Passing, One, FreeHeld, FullOwed, PutInside, Filling
      <3>3. \/ here = "put_free" /\ x = "free" /\ d = -1
            \/ here = "put_lock" /\ x = "mutex" /\ d = -1
            \/ here = "put_unlock" /\ x = "mutex" /\ d = 1
            \/ here = "put_full" /\ x = "full" /\ d = 1
        BY <1>3, <2>2 DEF Passing
      <3>4. QED
        BY <1>2, <1>4, <2>1, <2>2, <3>1, <3>2, <3>3
    <2>3. CASE p = r
      <3>1. /\ One(pc'[s], FreeHeld) = One(pc[s], FreeHeld)
               /\ One(pc'[s], FullOwed) = One(pc[s], FullOwed)
            /\ One(pc'[s], PutInside) = One(pc[s], PutInside)
               /\ One(pc'[s], Filling) = One(pc[s], Filling)
        BY <1>4, <2>3
      <3>2. One(to, Fetched) = (IF here = "get_unlock" THEN 1 ELSE 0)
            /\ One(to, FullHeld) = (IF here \in {"get_full", "get_lock"} THEN 1 ELSE 0)
            /\ One(to, GetInside) = (IF here = "get_lock" THEN 1 ELSE 0)
            /\ to # "killed" /\ here # "killed"
            /\ One(here, Fetched) = (IF here \in {"get_unlock", "get_free"} THEN 1 ELSE 0)
            /\ One(here, FullHeld) = (IF here = "get_lock" THEN 1 ELSE 0)
            /\ One(here, GetInside) = (IF here = "get_unlock" THEN 1 ELSE 0)
        BY <1>3, <2>3 DEF Passing, One, Fetched, FullHeld, GetInside
      <3>3. \/ here = "get_full" /\ x = "full" /\ d = -1
            \/ here = "get_lock" /\ x = "mutex" /\ d = -1
            \/ here = "get_unlock" /\ x = "mutex" /\ d = 1
            \/ here = "get_free" /\ x = "free" /\ d = 1
        BY <1>3, <2>3 DEF Passing
      <3>4. QED
        BY <1>2, <1>4, <2>1, <2>3, <3>1, <3>2, <3>3
    <2>4. QED
      BY <2>2, <2>3 DEF Passing
  <1>6. Counts(m, s, r)'
    <2>1. /\ m <= Len(typed[s]) /\ (pc[s] # "killed" => m = Len(typed[s]) - One(pc[s], Filling))
          /\ Len(segs) = 0 => m = 0
          /\ f + One(pc[s], FreeHeld) + One(pc[r], Fetched) + m <= Size + Len(got[r])
          /\ u + One(pc[r], FullHeld) + One(pc[s], FullOwed) + Len(got[r]) <= m
          /\ e + One(pc[s], PutInside) + One(pc[r], GetInside) <= 1
      BY DEF RingAt, Counts, f, u, e
    <2>2. /\ One(pc[s], FreeHeld) \in {0, 1} /\ One(pc'[s], FreeHeld) \in {0, 1}
          /\ One(pc[r], Fetched) \in {0, 1} /\ One(pc'[r], Fetched) \in {0, 1}
          /\ One(pc[s], FullOwed) \in {0, 1} /\ One(pc'[s], FullOwed) \in {0, 1}
          /\ One(pc[r], FullHeld) \in {0, 1} /\ One(pc'[r], FullHeld) \in {0, 1}
          /\ Len(got[r]) \in Nat /\ Size \in Nat
      BY OneNumbers, PairTypes
    <2>3. f' + One(pc'[s], FreeHeld) + One(pc'[r], Fetched) + m <= Size + Len(got[r])
      <3>1. f' + One(pc'[s], FreeHeld) + One(pc'[r], Fetched)
            = f + One(pc[s], FreeHeld) + One(pc[r], Fetched)
        BY <1>5
      <3>2. f + One(pc[s], FreeHeld) + One(pc[r], Fetched) + m <= Size + Len(got[r])
        BY <2>1
      <3>3. f \in Nat /\ f' \in Nat
        BY <1>2
      <3>4. QED
        BY <2>2, <3>1, <3>2, <3>3
    <2>4. u' + One(pc'[r], FullHeld) + One(pc'[s], FullOwed) + Len(got[r]) <= m
      <3>1. u' + One(pc'[r], FullHeld) + One(pc'[s], FullOwed)
            = u + One(pc[r], FullHeld) + One(pc[s], FullOwed)
        BY <1>5
      <3>2. u + One(pc[r], FullHeld) + One(pc[s], FullOwed) + Len(got[r]) <= m
        BY <2>1
      <3>3. QED
        BY <3>1, <3>2
    <2>5. e' + One(pc'[s], PutInside) + One(pc'[r], GetInside) <= 1
      BY <1>5, <2>1
    <2>6. QED
      BY <1>5, <2>1, <2>3, <2>4, <2>5 DEF Counts, f, u, e
  <1>7. Slots(m, s, r)'
    <2>1. /\ \/ /\ pc'[s] # "put_in"
                /\ pc'[s] \in {"put_lock", "put_store"} => pc[s] \in {"put_lock", "put_store"}
             \/ pc'[s] = pc[s]
          /\ pc'[r] \in Fetched => pc[r] \in Fetched
          /\ One(pc'[r], {"get_out"}) = One(pc[r], {"get_out"})
      BY <1>3, <1>4 DEF Passing, Fetched, One
    <2>2. ASSUME Len(segs) # 0
          PROVE  /\ pc'[s] # "killed" => segs[1].in = m % Size
                 /\ pc'[r] # "killed" => segs[1].out
                    = (Len(got[r]) - One(pc'[r], {"get_out"})) % Size
                 /\ \A i \in Len(got[r]) .. m - 1 : segs[1].buf[i % Size] = typed[s][i + 1]
                 /\ pc'[s] = "put_in" => segs[1].buf[m % Size] = c[s]
      BY <1>5, <2>1, <2>2 DEF RingAt, Slots
    <2>3. pc'[s] \in {"put_lock", "put_store", "put_in"} => reg[s] = (m + 1) % Size
      BY <2>1 DEF RingAt, Slots
    <2>4. QED
      BY <2>1, <2>2, <2>3 DEF RingAt, Slots
  <1>8. Opening(m, s, r)'
    <2> SUFFICES ASSUME NEW q \in Procs, fresh[q], pc'[q] \in InInit
                 PROVE  /\ m = 0 /\ u' = 0 /\ e' = 0
                        /\ pc'[s] \notin {"put_store", "put_in", "put_unlock", "put_full"}
                        /\ pc'[r] \notin InGet \ {"get_full"}
                        /\ pc'[q] \notin {"set_full", "set_mutex"} =>
                             f' = 0 /\ pc'[s] \notin {"put_next", "put_lock"}
      BY DEF Opening, f, u, e
    <2>1. q # p /\ pc'[q] = pc[q]
      BY <1>1 DEF Passing, InInit
    <2>2. /\ m = 0 /\ u = 0 /\ e = 0
          /\ pc[s] \notin {"put_store", "put_in", "put_unlock", "put_full"}
          /\ pc[r] \notin InGet \ {"get_full"}
          /\ pc[q] \notin {"set_full", "set_mutex"} => f = 0
             /\ pc[s] \notin {"put_next", "put_lock"}
      BY <2>1 DEF RingAt, Opening, f, u, e
    <2>3. here = "put_free" /\ p = s /\ x = "free" /\ d = -1 /\ to = "put_next"
      BY <1>2, <1>4, <2>2 DEF Passing, InGet
    <2>4. QED
      BY <1>2, <1>4, <2>1, <2>2, <2>3
  <1>9. QED
    BY <1>6, <1>7, <1>8 DEF RingAt

(* sender.c: a character is typed that is not in the ring yet.              *)
LEMMA TypeRing ==
  ASSUME TypeInv, TypeInv', NEW s, NEW r, Pair(s, r), NEW m \in Nat, RingAt(m, s, r), Type(s),
    attached[s] # None
  PROVE  RingAt(m, s, r)'
  <1>1. PICK d \in Chars : /\ c' = [c EXCEPT ![s] = d] /\ typed'
                              = [typed EXCEPT ![s] = Append(@, d)]
                           /\ pc' = [pc EXCEPT ![s] = "put_free"]
    BY DEF Type, IS_MEM_OK, Goto
  <1>2. pc[s] = "loop" /\ UNCHANGED <<segs, sem, fresh, reg, got>>
    BY DEF Type, kernel
  <1>3. s \in Procs /\ r \in Procs /\ s # r /\ s \in Senders /\ typed[s] \in Seq(Chars)
        /\ Len(got[r]) \in Nat
        /\ typed \in [Senders -> Seq(Chars)]
    BY PairTypes
  <1>4. /\ pc'[s] = "put_free" /\ pc'[r] = pc[r] /\ c'[s] = d /\ c'[r] = c[r]
        /\ typed'[s] = Append(typed[s], d) /\ \A q \in Procs \ {s} : pc'[q] = pc[q]
    BY <1>1, <1>3 DEF TypeInv, VarTypes
  <1>5. /\ Len(typed'[s]) = Len(typed[s]) + 1 /\ Len(typed[s]) \in Nat
           /\ typed'[s][Len(typed[s]) + 1] = d
        /\ \A i \in 1 .. Len(typed[s]) : typed'[s][i] = typed[s][i]
    BY <1>3, <1>4
  <1>6. /\ One(pc'[s], FreeHeld) = One(pc[s], FreeHeld)
           /\ One(pc'[s], FullOwed) = One(pc[s], FullOwed)
        /\ One(pc'[s], PutInside) = One(pc[s], PutInside) /\ One(pc[s], Filling) = 0
           /\ One(pc'[s], Filling) = 1
    BY <1>2, <1>4 DEF One, FreeHeld, FullOwed, PutInside, Filling
  <1>7. m = Len(typed[s])
    BY <1>2, <1>5, <1>6 DEF RingAt, Counts
  <1>8. Counts(m, s, r)'
    BY <1>2, <1>4, <1>5, <1>6, <1>7 DEF RingAt, Counts
  <1>9. Slots(m, s, r)'
    <2>1. ASSUME Len(segs) # 0
          PROVE  \A i \in Len(got[r]) .. m - 1 : segs[1].buf[i % Size] = typed'[s][i + 1]
      <3> SUFFICES ASSUME NEW i \in Len(got[r]) .. m - 1
                          PROVE segs[1].buf[i % Size] = typed'[s][i + 1]
        OBVIOUS
      <3>1. i + 1 \in 1 .. Len(typed[s])
        BY <1>3, <1>5, <1>7
      <3>2. QED
        BY <1>5, <2>1, <3>1 DEF RingAt, Slots
    <2>2. IsPrefixOf(got[r], typed'[s])
      <3>1. IsPrefixOf(got[r], typed[s])
        BY DEF RingAt, Slots
      <3>2. QED
        BY <1>3, <1>5, <3>1 DEF IsPrefixOf
    <2>3. QED
      BY <1>2, <1>4, <2>1, <2>2 DEF RingAt, Slots
  <1>10. Opening(m, s, r)'
    <2>1. "put_free" \notin InInit
      BY DEF InInit
    <2>2. QED
      BY <1>2, <1>4, <2>1 DEF RingAt, Opening
  <1>11. QED
    BY <1>8, <1>9, <1>10 DEF RingAt

(* Who puts or gets has a filled-in segment, the only one.                  *)
LEMMA OnlySegment ==
  ASSUME TypeInv, FaultInv, Len(segs) <= 1, NEW p \in Procs, pc[p] \in Passed \cup Setting
  PROVE  /\ attached[p] = 1 /\ Len(segs) = 1 /\ Seg(p) = segs[1] /\ segs[1] \in Segment
            /\ segs[1].size = Size
         /\ segs[1].in \in 0 .. Size - 1 /\ segs[1].out \in 0 .. Size - 1
  <1>1. pc[p] \in Mapped
    BY DEF Passed, Setting, Mapped, InPut, InGet, InInit, Unmapped
  <1>2. attached[p] \in 1 .. Len(segs) /\ Seg(p) \in Segment /\ Len(segs) \in Nat
    BY <1>1, OwnSegment DEF TypeInv, SegTypes
  <1>3. attached[p] = 1 /\ Len(segs) = 1 /\ Seg(p) = segs[1]
    <2>1. attached[p] \in 1 .. Len(segs) /\ Len(segs) \in Nat
      BY <1>2
    <2>2. Len(segs) # 0 /\ Len(segs) \in Nat /\ Len(segs) <= 1
      BY <2>1
    <2>3. Len(segs) = 1
      BY <2>2, OneIsLeft
    <2>4. attached[p] = 1
      BY <2>1, <2>3
    <2>5. QED
      BY <2>3, <2>4 DEF Seg
  <1>4. Seg(p).size # 0
    BY DEF FaultInv, Filled
  <1>5. segs[1].size = Size /\ segs[1].in \in 0 .. Size - 1 /\ segs[1].out \in 0 .. Size - 1
    BY <1>2, <1>3, <1>4 DEF Segment
  <1>6. QED
    BY <1>2, <1>3, <1>5

(* buf_put, line 155: the slot after the next is computed.                  *)
LEMMA PutNextRing ==
  ASSUME TypeInv, TypeInv', FaultInv, Len(segs) <= 1, NEW s, NEW r, Pair(s, r), NEW m \in Nat,
    RingAt(m, s, r), PutNext(s)
  PROVE  RingAt(m, s, r)'
  <1>1. /\ pc[s] = "put_next" /\ UNCHANGED <<segs, sem, fresh, c, typed, got>>
        /\ reg' = [reg EXCEPT ![s] = (Seg(s).in + 1) % Seg(s).size]
        /\ pc' = [pc EXCEPT ![s] = "put_lock"]
    BY DEF PutNext, kernel, history, Goto
  <1>2. s \in Procs /\ r \in Procs /\ s # r
    BY PairTypes
  <1>3. /\ pc'[s] = "put_lock" /\ pc'[r] = pc[r] /\ \A q \in Procs \ {s} : pc'[q] = pc[q]
        /\ reg'[s] = (Seg(s).in + 1) % Seg(s).size
    BY <1>1, <1>2 DEF TypeInv, VarTypes
  <1>4. Seg(s) = segs[1] /\ segs[1].size = Size /\ Len(segs) # 0
    BY <1>1, <1>2, OnlySegment DEF Passed, InPut
  <1>5. segs[1].in = m % Size
    BY <1>1, <1>4 DEF RingAt, Slots
  <1>6. reg'[s] = (m + 1) % Size
    BY <1>3, <1>4, <1>5, ModNext, BoundAssumption
  <1>7. /\ One(pc'[s], FreeHeld) = One(pc[s], FreeHeld)
           /\ One(pc'[s], FullOwed) = One(pc[s], FullOwed)
        /\ One(pc'[s], PutInside) = One(pc[s], PutInside)
           /\ One(pc'[s], Filling) = One(pc[s], Filling)
    BY <1>1, <1>3 DEF One, FreeHeld, FullOwed, PutInside, Filling
  <1>8. Counts(m, s, r)'
    BY <1>1, <1>3, <1>7 DEF RingAt, Counts
  <1>9. Slots(m, s, r)'
    BY <1>1, <1>3, <1>6 DEF RingAt, Slots
  <1>10. Opening(m, s, r)'
    <2>1. "put_lock" \notin InInit
      BY DEF InInit
    <2>2. QED
      BY <1>1, <1>3, <2>1 DEF RingAt, Opening
  <1>11. QED
    BY <1>8, <1>9, <1>10 DEF RingAt

(* buf_put, line 167: the slot at in is free, since the unit of free that   *)
(* was taken counts it, so no character that is still to be fetched is      *)
(* lost.                                                                    *)
LEMMA PutStoreRing ==
  ASSUME TypeInv, TypeInv', FaultInv, Len(segs) <= 1, NEW s, NEW r, Pair(s, r), NEW m \in Nat,
    RingAt(m, s, r), PutStore(s)
  PROVE  RingAt(m, s, r)'
  <1>1. /\ pc[s] = "put_store" /\ UNCHANGED <<sem, fresh, c, reg, typed, got>>
        /\ Write(s, "buf", [Seg(s).buf EXCEPT ![Seg(s).in] = c[s]])
        /\ pc' = [pc EXCEPT ![s] = "put_in"]
    BY DEF PutStore, locals, history, Goto
  <1>2. s \in Procs /\ r \in Procs /\ s # r /\ Size \in Nat \ {0} /\ Len(got[r]) \in Nat
        /\ s \in Senders
    BY PairTypes
  <1>3. /\ pc'[s] = "put_in" /\ pc'[r] = pc[r] /\ \A q \in Procs \ {s} : pc'[q] = pc[q]
    BY <1>1, <1>2 DEF TypeInv, VarTypes
  <1>4. /\ Seg(s) = segs[1] /\ segs[1].size = Size /\ Len(segs) = 1 /\ segs[1] \in Segment
           /\ attached[s] = 1
        /\ segs[1].in \in 0 .. Size - 1
    BY <1>1, <1>2, OnlySegment DEF Passed, InPut
  <1>5. segs[1].in = m % Size
    BY <1>1, <1>4 DEF RingAt, Slots
  <1>6. c[s] \in Chars \cup {Nul} /\ segs[1].buf \in [0 .. Size - 1 -> Chars \cup {Nul}]
    BY <1>2, <1>4 DEF TypeInv, VarTypes, Segment
  <1> DEFINE b == [segs[1].buf EXCEPT ![m % Size] = c[s]]
  <1>7. b \in [0 .. Size - 1 -> Chars \cup {Nul}] /\ m % Size \in 0 .. Size - 1
    BY <1>4, <1>5, <1>6
  <1>8. Write(s, "buf", b)
    BY <1>1, <1>4, <1>5
  <1>9. b[m % Size] = c[s] /\ \A j \in 0 .. Size - 1 : j # m % Size => b[j] = segs[1].buf[j]
    BY <1>6, <1>7
  <1> HIDE DEF b
  <1>10. segs' \in Seq(Segment) /\ Len(segs') = Len(segs) /\ segs'[1] = [segs[1] EXCEPT !.buf = b]
    <2>1. pc[s] \in Mapped
      BY <1>1 DEF Mapped, InPut
    <2>2. QED
      BY <1>2, <1>4, <1>7, <1>8, <2>1, WroteBuf
  <1>11. segs'[1].in = segs[1].in /\ segs'[1].out = segs[1].out /\ segs'[1].buf = b
    BY <1>4, <1>10 DEF Segment
  <1>12. m - Len(got[r]) < Size
    <2>1. One(pc[s], FreeHeld) = 1 /\ One(pc[r], Fetched) \in {0, 1} /\ sem["free"].val \in Nat
      BY <1>1, PairTypes DEF One, FreeHeld, SemNames
    <2>2. sem["free"].val + One(pc[s], FreeHeld) + One(pc[r], Fetched) + m <= Size + Len(got[r])
      BY DEF RingAt, Counts
    <2> DEFINE f == sem["free"].val
               x == One(pc[r], Fetched)
               n == Len(got[r])
    <2>3. f + 1 + x + m <= Size + n
      BY <2>1, <2>2
    <2>4. x \in {0, 1} /\ f \in Nat /\ Size \in Nat /\ n \in Nat
      BY <1>2, <2>1
    <2> HIDE DEF f, x, n
    <2>5. m - n < Size
      BY <2>3, <2>4
    <2>6. QED
      BY <2>5 DEF n
  <1>13. /\ One(pc'[s], FreeHeld) = One(pc[s], FreeHeld)
            /\ One(pc'[s], FullOwed) = One(pc[s], FullOwed)
         /\ One(pc'[s], PutInside) = One(pc[s], PutInside)
            /\ One(pc'[s], Filling) = One(pc[s], Filling)
    BY <1>1, <1>3 DEF One, FreeHeld, FullOwed, PutInside, Filling
  <1>14. Counts(m, s, r)'
    BY <1>1, <1>3, <1>10, <1>13 DEF RingAt, Counts
  <1>15. Slots(m, s, r)'
    <2>1. ASSUME NEW i \in Len(got[r]) .. m - 1 PROVE segs'[1].buf[i % Size] = typed[s][i + 1]
      <3>1. i \in Nat /\ i < m /\ m - i < Size
        BY <1>2, <1>12
      <3>2. i % Size # m % Size
        BY <1>2, <3>1, ModApart
      <3>3. i % Size \in 0 .. Size - 1
        BY <1>2, <3>1, Division
      <3>4. segs[1].buf[i % Size] = typed[s][i + 1]
        BY <1>4 DEF RingAt, Slots
      <3>5. QED
        BY <1>9, <1>11, <3>2, <3>3, <3>4
    <2>2. segs'[1].buf[m % Size] = c[s]
      BY <1>9, <1>11
    <2>3. reg[s] = (m + 1) % Size
      BY <1>1 DEF RingAt, Slots
    <2>4. QED
      BY <1>1, <1>3, <1>4, <1>10, <1>11, <2>1, <2>2, <2>3 DEF RingAt, Slots
  <1>16. Opening(m, s, r)'
    <2>1. "put_in" \notin InInit
      BY DEF InInit
    <2>2. QED
      BY <1>1, <1>3, <2>1 DEF RingAt, Opening
  <1>17. QED
    BY <1>14, <1>15, <1>16 DEF RingAt

(* buf_put, line 171: the character is in the ring.                         *)
LEMMA PutInRing ==
  ASSUME TypeInv, TypeInv', FaultInv, Len(segs) <= 1, Quits, NEW s, NEW r, Pair(s, r),
         NEW m \in Nat, RingAt(m, s, r), PutIn(s)
  PROVE  RingAt(m + 1, s, r)'
  <1>1. /\ pc[s] = "put_in" /\ UNCHANGED <<sem, fresh, c, reg, typed, got>>
        /\ Write(s, "in", reg[s]) /\ pc' = [pc EXCEPT ![s] = "put_unlock"]
    BY DEF PutIn, locals, history, Goto
  <1>2. /\ s \in Procs /\ r \in Procs /\ s # r /\ Size \in Nat \ {0} /\ Len(got[r]) \in Nat
           /\ s \in Senders
        /\ Len(typed[s]) \in Nat
    BY PairTypes
  <1>3. /\ pc'[s] = "put_unlock" /\ pc'[r] = pc[r] /\ \A q \in Procs \ {s} : pc'[q] = pc[q]
    BY <1>1, <1>2 DEF TypeInv, VarTypes
  <1>4. /\ Seg(s) = segs[1] /\ Len(segs) = 1 /\ segs[1] \in Segment /\ attached[s] = 1
    BY <1>1, <1>2, OnlySegment DEF Passed, InPut
  <1>5. reg[s] = (m + 1) % Size /\ reg[s] \in 0 .. Size - 1
    BY <1>1, <1>2 DEF RingAt, Slots, TypeInv, Place
  <1>6. segs' \in Seq(Segment) /\ Len(segs') = Len(segs)
        /\ segs'[1] = [segs[1] EXCEPT !.in = reg[s]]
    <2>1. pc[s] \in Mapped
      BY <1>1 DEF Mapped, InPut
    <2>2. QED
      BY <1>1, <1>2, <1>4, <1>5, <2>1, WroteIn
  <1>7. segs'[1].in = (m + 1) % Size /\ segs'[1].out = segs[1].out /\ segs'[1].buf = segs[1].buf
    BY <1>4, <1>5, <1>6 DEF Segment
  <1>8. /\ One(pc[s], FreeHeld) = 1 /\ One(pc'[s], FreeHeld) = 0
        /\ One(pc[s], FullOwed) = 0 /\ One(pc'[s], FullOwed) = 1
        /\ One(pc[s], PutInside) = 1 /\ One(pc'[s], PutInside) = 1
        /\ One(pc[s], Filling) = 1 /\ One(pc'[s], Filling) = 0
    BY <1>1, <1>3 DEF One, FreeHeld, FullOwed, PutInside, Filling
  <1>9. m + 1 = Len(typed[s])
    BY <1>1, <1>2, <1>8 DEF RingAt, Counts
  <1>10. Counts(m + 1, s, r)'
    <2>1. /\ sem["free"].val \in Nat /\ sem["full"].val \in Nat
          /\ One(pc[r], Fetched) \in {0, 1} /\ One(pc[r], FullHeld) \in {0, 1}
      BY OneNumbers, PairTypes DEF SemNames
    <2>2. sem["free"].val + 0 + One(pc[r], Fetched) + (m + 1) <= Size + Len(got[r])
      <3> DEFINE f == sem["free"].val
                 x == One(pc[r], Fetched)
                 n == Len(got[r])
      <3>1. f + 1 + x + m <= Size + n
        BY <1>8 DEF RingAt, Counts
      <3>2. x \in {0, 1} /\ f \in Nat /\ Size \in Nat /\ n \in Nat
        BY <1>2, <2>1
      <3> HIDE DEF f, x, n
      <3>3. f + 0 + x + (m + 1) <= Size + n
        BY <3>1, <3>2
      <3>4. QED
        BY <3>3 DEF f, x, n
    <2>3. sem["full"].val + One(pc[r], FullHeld) + 1 + Len(got[r]) <= m + 1
      <3>1. sem["full"].val + One(pc[r], FullHeld) + 0 + Len(got[r]) <= m
        BY <1>8 DEF RingAt, Counts
      <3>2. QED
        BY <1>2, <2>1, <3>1
    <2>4. sem["mutex"].val + One(pc'[s], PutInside) + One(pc'[r], GetInside) <= 1
      BY <1>3, <1>8 DEF RingAt, Counts
    <2>5. QED
      BY <1>1, <1>3, <1>4, <1>6, <1>8, <1>9, <2>2, <2>3, <2>4 DEF Counts
  <1>11. Slots(m + 1, s, r)'
    <2>1. c[s] = typed[s][m + 1]
      BY <1>1, <1>2, <1>9 DEF Quits, InPut
    <2>2. ASSUME NEW i \in Len(got[r]) .. (m + 1) - 1 PROVE segs'[1].buf[i % Size] = typed[s][i + 1]
      <3>1. CASE i = m
        BY <1>1, <1>4, <1>7, <2>1, <3>1 DEF RingAt, Slots
      <3>2. CASE i # m
        <4>1. i \in Len(got[r]) .. m - 1
          BY <1>2, <3>2
        <4>2. QED
          BY <1>4, <1>7, <4>1 DEF RingAt, Slots
      <3>3. QED
        BY <3>1, <3>2
    <2>3. QED
      BY <1>1, <1>3, <1>4, <1>6, <1>7, <2>2 DEF RingAt, Slots
  <1>12. Opening(m + 1, s, r)'
    <2>1. "put_unlock" \notin InInit
      BY DEF InInit
    <2>2. QED
      BY <1>1, <1>3, <2>1 DEF RingAt, Opening
  <1>13. QED
    BY <1>10, <1>11, <1>12 DEF RingAt

(* buf_get, line 213: the unit of full that was taken is a character that   *)
(* nobody has fetched, and the slot at out has it.                          *)
LEMMA GetFetchRing ==
  ASSUME TypeInv, TypeInv', FaultInv, Len(segs) <= 1, NEW s, NEW r, Pair(s, r),
         NEW m \in Nat, RingAt(m, s, r), GetFetch(r)
  PROVE  RingAt(m, s, r)' /\ got'[r] = Append(got[r], typed[s][Len(got[r]) + 1])
  <1>1. /\ pc[r] = "get_fetch" /\ UNCHANGED <<sem, segs, fresh, reg, typed>>
        /\ c' = [c EXCEPT ![r] = Seg(r).buf[Seg(r).out]]
           /\ got' = [got EXCEPT ![r] = Append(@, c'[r])]
        /\ pc' = [pc EXCEPT ![r] = "get_out"]
    BY DEF GetFetch, kernel, Goto
  <1>2. /\ s \in Procs /\ r \in Procs /\ s # r /\ Size \in Nat \ {0} /\ Len(got[r]) \in Nat
           /\ r \in Receivers
        /\ Len(typed[s]) \in Nat /\ got[r] \in Seq(Chars \cup {Nul})
    BY PairTypes
  <1>3. /\ pc'[r] = "get_out" /\ pc'[s] = pc[s] /\ \A q \in Procs \ {r} : pc'[q] = pc[q]
        /\ c'[r] = Seg(r).buf[Seg(r).out] /\ c'[s] = c[s] /\ got'[r] = Append(got[r], c'[r])
    BY <1>1, <1>2 DEF TypeInv, VarTypes
  <1>4. /\ Seg(r) = segs[1] /\ Len(segs) = 1
    BY <1>1, <1>2, OnlySegment DEF Passed, InGet
  <1> DEFINE k == Len(got[r])
  <1>5. /\ One(pc[r], FullHeld) = 1 /\ One(pc'[r], FullHeld) = 0
        /\ One(pc[r], Fetched) = 0 /\ One(pc'[r], Fetched) = 1
        /\ One(pc[r], GetInside) = 1 /\ One(pc'[r], GetInside) = 1
        /\ One(pc[r], {"get_out"}) = 0 /\ One(pc'[r], {"get_out"}) = 1
    BY <1>1, <1>3 DEF One, FullHeld, Fetched, GetInside
  <1>6. /\ sem["free"].val \in Nat /\ sem["full"].val \in Nat
        /\ One(pc[s], FreeHeld) \in {0, 1} /\ One(pc[s], FullOwed) \in {0, 1}
    BY OneNumbers, PairTypes DEF SemNames
  <1>7. sem["full"].val + 1 + One(pc[s], FullOwed) + k <= m /\ m <= Len(typed[s])
    BY <1>5 DEF RingAt, Counts
  <1>8. k < m /\ k + 1 <= Len(typed[s])
    <2> DEFINE u == sem["full"].val
               x == One(pc[s], FullOwed)
               n == Len(typed[s])
    <2>1. u \in Nat /\ x \in {0, 1} /\ k \in Nat /\ n \in Nat
      BY <1>2, <1>6
    <2>2. u + 1 + x + k <= m /\ m <= n
      BY <1>7
    <2> HIDE DEF u, x, n, k
    <2>3. k < m /\ k + 1 <= n
      BY <2>1, <2>2
    <2>4. QED
      BY <2>3 DEF n
  <1>9. c'[r] = typed[s][k + 1]
    <2>1. segs[1].out = (k - 0) % Size /\ k - 0 = k
      <3>1. Len(segs) # 0 /\ pc[r] # "killed"
        BY <1>1, <1>4
      <3>2. segs[1].out = (k - One(pc[r], {"get_out"})) % Size
        BY <3>1 DEF RingAt, Slots
      <3>3. k - 0 = k
        BY <1>2
      <3>4. QED
        BY <1>5, <3>2, <3>3
    <2>2. k \in k .. m - 1
      BY <1>2, <1>8
    <2>3. segs[1].buf[k % Size] = typed[s][k + 1]
      BY <1>4, <2>2 DEF RingAt, Slots
    <2>4. QED
      BY <1>3, <1>4, <2>1, <2>3
  <1>10. /\ Len(got'[r]) = k + 1 /\ got'[r][k + 1] = c'[r]
            /\ \A i \in 1 .. k : got'[r][i] = got[r][i]
    <2>1. c'[r] \in Chars \cup {Nul}
      BY <1>2 DEF TypeInv, VarTypes
    <2>2. QED
      BY <1>2, <1>3, <2>1
  <1> HIDE DEF k
  <1>11. Counts(m, s, r)'
    <2>1. sem["free"].val + One(pc[s], FreeHeld) + 1 + m <= Size + (k + 1)
      <3>1. sem["free"].val + One(pc[s], FreeHeld) + 0 + m <= Size + k
        BY <1>5 DEF RingAt, Counts, k
      <3>2. k \in Nat /\ Size \in Nat
        BY <1>2 DEF k
      <3>3. QED
        BY <1>6, <3>1, <3>2
    <2>2. sem["full"].val + 0 + One(pc[s], FullOwed) + (k + 1) <= m
      <3> DEFINE u == sem["full"].val
                 x == One(pc[s], FullOwed)
      <3>1. k \in Nat /\ u \in Nat /\ x \in {0, 1} /\ m \in Nat
        BY <1>2, <1>6 DEF k
      <3>2. u + 1 + x + k <= m
        BY <1>7
      <3> HIDE DEF u, x
      <3>3. u + 0 + x + (k + 1) <= m
        BY <3>1, <3>2
      <3>4. QED
        BY <3>3 DEF u, x
    <2>3. sem["mutex"].val + One(pc'[s], PutInside) + One(pc'[r], GetInside) <= 1
      BY <1>3, <1>5 DEF RingAt, Counts
    <2>4. QED
      BY <1>1, <1>3, <1>5, <1>10, <2>1, <2>2, <2>3 DEF RingAt, Counts
  <1>12. Slots(m, s, r)'
    <2>1. k \in Nat /\ (k + 1) - 1 = k /\ k + 1 > 0
      BY <1>2 DEF k
    <2>2. segs[1].out = (Len(got'[r]) - One(pc'[r], {"get_out"})) % Size
      <3>1. segs[1].out = (k - 0) % Size /\ k - 0 = k
        BY <1>1, <1>4, <1>5, <2>1 DEF RingAt, Slots, k
      <3>2. QED
        BY <1>5, <1>10, <2>1, <3>1
    <2>3. ASSUME NEW i \in Len(got'[r]) .. m - 1 PROVE segs[1].buf[i % Size] = typed[s][i + 1]
      <3>1. i \in Len(got[r]) .. m - 1
        BY <1>10, <2>1 DEF k
      <3>2. QED
        BY <1>4, <3>1 DEF RingAt, Slots
    <2>4. IsPrefixOf(got'[r], typed[s])
      <3>1. ASSUME NEW i \in 1 .. Len(got'[r]) PROVE got'[r][i] = typed[s][i]
        <4>1. CASE i = k + 1
          BY <1>9, <1>10, <4>1
        <4>2. CASE i # k + 1
          <5>1. i \in 1 .. k
            BY <1>10, <2>1, <4>2
          <5>2. QED
            BY <1>10, <5>1 DEF RingAt, Slots, IsPrefixOf, k
        <4>3. QED
          BY <4>1, <4>2
      <3>2. QED
        BY <1>8, <1>10, <3>1 DEF IsPrefixOf
    <2>5. pc[s] = "put_in" => segs[1].buf[m % Size] = c[s]
      BY <1>4 DEF RingAt, Slots
    <2>6. pc[s] # "killed" => segs[1].in = m % Size
      BY <1>4 DEF RingAt, Slots
    <2>7. pc'[s] \in {"put_lock", "put_store", "put_in"} => reg'[s] = (m + 1) % Size
      BY <1>1, <1>3 DEF RingAt, Slots
    <2>8. QED
      BY <1>1, <1>3, <1>10, <2>1, <2>2, <2>3, <2>4, <2>5, <2>6, <2>7 DEF Slots
  <1>13. Opening(m, s, r)'
    <2>1. "get_out" \notin InInit /\ "get_fetch" \in InGet \ {"get_full"}
      BY DEF InInit, InGet
    <2>2. QED
      BY <1>1, <1>3, <2>1 DEF RingAt, Opening
  <1>14. QED
    BY <1>3, <1>9, <1>11, <1>12, <1>13 DEF RingAt, k

(* buf_get, line 216: out goes on to the next slot.                         *)
LEMMA GetOutRing ==
  ASSUME TypeInv, TypeInv', FaultInv, Len(segs) <= 1, NEW s, NEW r, Pair(s, r),
         NEW m \in Nat, RingAt(m, s, r), GetOut(r)
  PROVE  RingAt(m, s, r)'
  <1>1. /\ pc[r] = "get_out" /\ UNCHANGED <<sem, fresh, c, reg, typed, got>>
        /\ Write(r, "out", (Seg(r).out + 1) % Seg(r).size) /\ pc' = [pc EXCEPT ![r] = "get_unlock"]
    BY DEF GetOut, locals, history, Goto
  <1>2. /\ s \in Procs /\ r \in Procs /\ s # r /\ Size \in Nat \ {0} /\ Len(got[r]) \in Nat
           /\ r \in Receivers
    BY PairTypes
  <1>3. /\ pc'[r] = "get_unlock" /\ pc'[s] = pc[s] /\ \A q \in Procs \ {r} : pc'[q] = pc[q]
    BY <1>1, <1>2 DEF TypeInv, VarTypes
  <1>4. /\ Seg(r) = segs[1] /\ Len(segs) = 1 /\ segs[1] \in Segment /\ attached[r] = 1
           /\ segs[1].size = Size
    BY <1>1, <1>2, OnlySegment DEF Passed, InGet
  <1> DEFINE k == Len(got[r])
  <1>5. k \in Nat /\ k > 0 /\ k - 1 \in Nat /\ (k - 1) + 1 = k
    <2>1. Len(got[r]) > 0
      BY <1>1 DEF RingAt, Slots, Fetched
    <2>2. QED
      BY <1>2, <2>1
  <1>6. /\ One(pc'[r], FullHeld) = One(pc[r], FullHeld)
           /\ One(pc'[r], Fetched) = One(pc[r], Fetched)
        /\ One(pc'[r], GetInside) = One(pc[r], GetInside)
        /\ One(pc[r], {"get_out"}) = 1 /\ One(pc'[r], {"get_out"}) = 0
    BY <1>1, <1>3 DEF One, FullHeld, Fetched, GetInside
  <1>7. (segs[1].out + 1) % Size = k % Size
    <2>1. segs[1].out = (k - One(pc[r], {"get_out"})) % Size
      BY <1>1, <1>4 DEF RingAt, Slots
    <2>2. segs[1].out = (k - 1) % Size
      BY <1>6, <2>1
    <2> HIDE DEF k
    <2>3. QED
      BY <1>2, <1>5, <2>2, ModNext
  <1>8. k % Size \in 0 .. Size - 1
    BY <1>2, <1>5, Division
  <1>9. segs' \in Seq(Segment) /\ Len(segs') = Len(segs)
        /\ segs'[1] = [segs[1] EXCEPT !.out = k % Size]
    <2>1. pc[r] \in Mapped
      BY <1>1 DEF Mapped, InGet
    <2>2. Write(r, "out", k % Size)
      BY <1>1, <1>4, <1>7
    <2>3. QED
      BY <1>2, <1>4, <1>8, <2>1, <2>2, WroteOut
  <1>10. segs'[1].out = k % Size /\ segs'[1].in = segs[1].in /\ segs'[1].buf = segs[1].buf
    BY <1>4, <1>9 DEF Segment
  <1>11. Counts(m, s, r)'
    BY <1>1, <1>3, <1>6, <1>9 DEF RingAt, Counts
  <1>12. Slots(m, s, r)'
    <2>1. segs'[1].out = (Len(got[r]) - One(pc'[r], {"get_out"})) % Size
      <3>1. k - 0 = k
        BY <1>5
      <3>2. QED
        BY <1>6, <1>10, <3>1
    <2>2. /\ pc[s] # "killed" => segs'[1].in = m % Size
          /\ \A i \in Len(got[r]) .. m - 1 : segs'[1].buf[i % Size] = typed[s][i + 1]
          /\ pc[s] = "put_in" => segs'[1].buf[m % Size] = c[s]
      BY <1>4, <1>10 DEF RingAt, Slots
    <2>3. Len(got[r]) > 0 /\ c[r] = got[r][Len(got[r])]
      BY <1>1 DEF RingAt, Slots, Fetched
    <2>4. (pc[s] \in {"put_lock", "put_store", "put_in"} => reg[s] = (m + 1) % Size)
          /\ IsPrefixOf(got[r], typed[s])
      BY DEF RingAt, Slots
    <2>5. QED
      BY <1>1, <1>3, <2>1, <2>2, <2>3, <2>4 DEF Slots
  <1>13. Opening(m, s, r)'
    <2>1. "get_unlock" \notin InInit /\ "get_out" \in InGet \ {"get_full"}
      BY DEF InInit, InGet
    <2>2. QED
      BY <1>1, <1>3, <2>1 DEF RingAt, Opening
  <1>14. QED
    BY <1>11, <1>12, <1>13 DEF RingAt

(* There is one maker.                                                      *)
LEMMA OneMaker ==
  ASSUME TypeInv, FaultInv, Len(segs) <= 1, NEW p \in Procs, NEW q \in Procs, fresh[p], fresh[q]
  PROVE  p = q /\ Len(segs) = 1
  <1>1. shmid[p] \in 1 .. Len(segs) /\ shmid[q] \in 1 .. Len(segs) /\ Len(segs) \in Nat
    BY DEF FaultInv, Keys, TypeInv, SegTypes, None
  <1>2. Len(segs) # 0
    BY <1>1
  <1>3. Len(segs) = 1
    BY <1>1, <1>2, OneIsLeft
  <1>4. shmid[p] = 1 /\ shmid[q] = 1
    BY <1>1, <1>3
  <1>5. QED
    BY <1>3, <1>4 DEF FaultInv, Keys

(* _semctl(SETVAL) of free and of mutex by the maker of the segment.        *)
LEMMA SetvalRing ==
  ASSUME TypeInv, TypeInv', FaultInv, Len(segs) <= 1, NEW s, NEW r, Pair(s, r), NEW m \in Nat,
    RingAt(m, s, r),
         NEW p \in Procs, NEW x \in {"free", "mutex"}, NEW here, NEW v \in Nat, NEW to \in Labels,
         \/ x = "free" /\ here = "set_free" /\ v = Size /\ to = "set_full"
         \/ x = "mutex" /\ here = "set_mutex" /\ v = 1 /\ to = "loop",
         pc[p] = here, pc' = [pc EXCEPT ![p] = to], UNCHANGED <<segs, reg, c, fresh, typed, got>>,
         sem'[x].val = v, \A t \in SemNames \ {x} : sem'[t] = sem[t]
  PROVE  RingAt(m, s, r)'
  <1>1. pc'[p] = to /\ \A q \in Procs \ {p} : pc'[q] = pc[q]
    BY DEF TypeInv, VarTypes
  <1>2. /\ s \in Procs /\ r \in Procs /\ s # r /\ Size \in Nat \ {0} /\ Len(got[r]) \in Nat
           /\ Procs = {s, r}
    BY PairTypes
  <1>3. here \in InInit /\ here \in Setting
    BY DEF InInit, Setting
  <1>4. fresh[p] /\ \A q \in Procs : fresh[q] => q = p
    <2>1. fresh[p]
      BY <1>3 DEF FaultInv, Keys
    <2>2. QED
      BY <2>1, OneMaker
  <1>5. /\ m = 0 /\ sem["full"].val = 0 /\ sem["mutex"].val = 0
        /\ pc[s] \notin {"put_store", "put_in", "put_unlock", "put_full"}
        /\ pc[r] \notin InGet \ {"get_full"}
        /\ x = "free" => pc[s] \notin {"put_next", "put_lock"}
    BY <1>3, <1>4 DEF RingAt, Opening
  <1>6. /\ One(pc'[s], FreeHeld) = One(pc[s], FreeHeld) /\ One(pc'[s], FullOwed) = 0
        /\ One(pc'[s], PutInside) = 0 /\ One(pc'[s], Filling) = One(pc[s], Filling)
        /\ x = "free" => One(pc'[s], FreeHeld) = 0
        /\ (pc'[s] = "killed" <=> pc[s] = "killed") /\ (pc'[s] \in InPut => pc'[s] = pc[s])
    BY <1>1, <1>2, <1>5 DEF One, FreeHeld, FullOwed, PutInside, Filling, InPut
  <1>7. /\ One(pc'[r], Fetched) = 0 /\ One(pc'[r], FullHeld) = 0 /\ One(pc'[r], GetInside) = 0
        /\ One(pc[r], Fetched) = 0
        /\ One(pc'[r], {"get_out"}) = One(pc[r], {"get_out"})
           /\ (pc'[r] = "killed" <=> pc[r] = "killed")
        /\ pc'[r] \notin InGet \ {"get_full"}
    BY <1>1, <1>2, <1>5 DEF One, Fetched, FullHeld, GetInside, InGet
  <1>8. Counts(m, s, r)'
    <2>1. sem'["free"].val + One(pc'[s], FreeHeld) + One(pc'[r], Fetched) + m <= Size + Len(got[r])
      <3>1. CASE x = "free"
        BY <1>2, <1>5, <1>6, <1>7, <3>1
      <3>2. CASE x = "mutex"
        <4>1. sem["free"].val + One(pc[s], FreeHeld) + One(pc[r], Fetched) + m <= Size + Len(got[r])
          BY DEF RingAt, Counts
        <4>2. sem'["free"] = sem["free"]
          BY <3>2 DEF SemNames
        <4>3. QED
          BY <1>6, <1>7, <4>1, <4>2
      <3>3. QED
        BY <3>1, <3>2
    <2>2. sem'["full"].val + 0 + 0 + Len(got[r]) <= m
      <3>1. sem["full"].val + One(pc[r], FullHeld) + One(pc[s], FullOwed) + Len(got[r]) <= m
        BY DEF RingAt, Counts
      <3>2. One(pc[r], FullHeld) \in {0, 1} /\ One(pc[s], FullOwed) \in {0, 1}
        BY OneNumbers
      <3>3. sem'["full"] = sem["full"]
        BY DEF SemNames
      <3>4. QED
        BY <1>2, <1>5, <3>1, <3>2, <3>3
    <2>3. sem'["mutex"].val + 0 + 0 <= 1
      <3>1. CASE x = "mutex"
        BY <3>1
      <3>2. CASE x = "free"
        <4>1. sem'["mutex"] = sem["mutex"]
          BY <3>2 DEF SemNames
        <4>2. QED
          BY <1>5, <4>1
      <3>3. QED
        BY <3>1, <3>2
    <2>4. /\ m <= Len(typed[s]) /\ (pc[s] # "killed" => m = Len(typed[s]) - One(pc[s], Filling))
          /\ Len(segs) = 0 => m = 0
      BY DEF RingAt, Counts
    <2>5. QED
      BY <1>6, <1>7, <2>1, <2>2, <2>3, <2>4 DEF Counts
  <1>9. Slots(m, s, r)'
    <2>1. pc'[r] \notin Fetched
      BY <1>7 DEF Fetched, InGet
    <2>2. pc'[s] \in {"put_lock", "put_store", "put_in"} => pc'[s] = pc[s]
      BY <1>6 DEF InPut
    <2>3. QED
      BY <1>6, <1>7, <2>1, <2>2 DEF RingAt, Slots
  <1>10. Opening(m, s, r)'
    <2> SUFFICES ASSUME NEW q \in Procs, fresh[q], pc'[q] \in InInit
                 PROVE  /\ m = 0 /\ sem'["full"].val = 0 /\ sem'["mutex"].val = 0
                        /\ pc'[s] \notin {"put_store", "put_in", "put_unlock", "put_full"}
                        /\ pc'[r] \notin InGet \ {"get_full"}
                        /\ pc'[q] \notin {"set_full", "set_mutex"} =>
                             sem'["free"].val = 0 /\ pc'[s] \notin {"put_next", "put_lock"}
      BY DEF Opening
    <2>1. q = p /\ to = "set_full" /\ x = "free"
      BY <1>1, <1>4 DEF InInit
    <2>2. sem'["full"] = sem["full"] /\ sem'["mutex"] = sem["mutex"]
      BY <2>1 DEF SemNames
    <2>3. QED
      BY <1>1, <1>5, <1>6, <1>7, <2>1, <2>2 DEF InPut
  <1>11. QED
    BY <1>8, <1>9, <1>10 DEF RingAt

(* init_struct writes the indices over the zeroes that are there.           *)
LEMMA IndicesRing ==
  ASSUME TypeInv, TypeInv', FaultInv, Len(segs) <= 1, NEW s, NEW r, Pair(s, r), NEW m \in Nat,
    RingAt(m, s, r),
         NEW p \in Procs, NEW to \in {"set_in", "set_nproc"}, pc' = [pc EXCEPT ![p] = to],
         pc[p] \in {"set_out", "set_in"}, Write(p, "out", 0) \/ Write(p, "in", 0),
         UNCHANGED <<sem, reg, c, fresh, typed, got>>
  PROVE  RingAt(m, s, r)'
  <1>1. pc'[p] = to /\ \A q \in Procs \ {p} : pc'[q] = pc[q]
    BY DEF TypeInv, VarTypes
  <1>2. /\ s \in Procs /\ r \in Procs /\ s # r /\ Size \in Nat \ {0} /\ Len(got[r]) \in Nat
           /\ Procs = {s, r}
    BY PairTypes
  <1>3. pc[p] \in InInit /\ pc[p] \in Setting /\ pc[p] \in Mapped
    BY DEF InInit, Setting, Mapped, Unmapped
  <1>4. fresh[p]
    BY <1>3 DEF FaultInv, Keys
  <1>5. /\ m = 0 /\ pc[s] \notin {"put_store", "put_in", "put_unlock", "put_full", "put_next",
           "put_lock"}
        /\ pc[r] \notin InGet \ {"get_full"}
    BY <1>3, <1>4 DEF RingAt, Opening
  <1>6. attached[p] = 1 /\ Len(segs) = 1 /\ Seg(p) = segs[1] /\ segs[1] \in Segment
    BY <1>3, OnlySegment
  <1>7. /\ segs' \in Seq(Segment) /\ Len(segs') = Len(segs)
        /\ segs'[1] = [segs[1] EXCEPT !.out = 0] \/ segs'[1] = [segs[1] EXCEPT !.in = 0]
    <2>1. 0 \in 0 .. Size - 1
      BY BoundAssumption
    <2>2. CASE Write(p, "out", 0)
      <3>1. /\ segs' \in Seq(Segment) /\ Len(segs') = Len(segs)
            /\ segs'[attached[p]] = [Seg(p) EXCEPT !.out = 0]
        BY <1>3, <2>1, <2>2, WroteOut, Zenon
      <3>2. QED
        BY <1>6, <3>1
    <2>3. CASE Write(p, "in", 0)
      <3>1. /\ segs' \in Seq(Segment) /\ Len(segs') = Len(segs)
            /\ segs'[attached[p]] = [Seg(p) EXCEPT !.in = 0]
        BY <1>3, <2>1, <2>3, WroteIn, Zenon
      <3>2. QED
        BY <1>6, <3>1
    <2>4. QED
      BY <2>2, <2>3
  <1>8. /\ segs'[1].in \in {0, segs[1].in} /\ segs'[1].out \in {0, segs[1].out}
        /\ segs'[1].buf = segs[1].buf
    BY <1>6, <1>7 DEF Segment
  <1>9. Len(got[r]) = 0 /\ 0 % Size = 0 /\ 0 - 0 = 0
    <2>1. sem["full"].val + One(pc[r], FullHeld) + One(pc[s], FullOwed) + Len(got[r]) <= m
      BY DEF RingAt, Counts
    <2>2. One(pc[r], FullHeld) \in {0, 1} /\ One(pc[s], FullOwed) \in {0, 1}
          /\ sem["full"].val \in Nat
      BY OneNumbers, PairTypes DEF SemNames
    <2>3. m = 0 /\ Len(got[r]) \in Nat /\ Size \in Nat \ {0}
      BY <1>2, <1>5, PairTypes
    <2>4. Len(got[r]) = 0
      BY <2>1, <2>2, <2>3
    <2>5. QED
      BY <2>3, <2>4, ModZero
  <1>10. /\ One(pc'[s], FreeHeld) = One(pc[s], FreeHeld)
            /\ One(pc'[s], FullOwed) = One(pc[s], FullOwed)
         /\ One(pc'[s], PutInside) = One(pc[s], PutInside)
            /\ One(pc'[s], Filling) = One(pc[s], Filling)
         /\ One(pc'[r], Fetched) = One(pc[r], Fetched)
            /\ One(pc'[r], FullHeld) = One(pc[r], FullHeld)
         /\ One(pc'[r], GetInside) = One(pc[r], GetInside) /\ One(pc'[r], {"get_out"}) = 0
         /\ (pc'[s] = "killed" <=> pc[s] = "killed")
         /\ pc'[s] \notin {"put_store", "put_in", "put_unlock", "put_full", "put_next", "put_lock"}
         /\ pc'[r] \notin InGet \ {"get_full"}
    BY <1>1, <1>2, <1>5 DEF One, FreeHeld, FullOwed, PutInside, Filling, Fetched, FullHeld,
       GetInside, InGet
  <1>11. Counts(m, s, r)'
    <2>1. Len(segs') = Len(segs)
      BY <1>7
    <2>2. Counts(m, s, r)
      BY DEF RingAt
    <2>3. sem' = sem /\ typed' = typed /\ got' = got
      OBVIOUS
    <2>4. QED
      BY <1>10, <2>1, <2>2, <2>3 DEF Counts
  <1>12. Slots(m, s, r)'
    <2>1. pc'[r] \notin Fetched
      BY <1>10 DEF Fetched, InGet
    <2>2. Len(got[r]) .. m - 1 = {}
      BY <1>5, <1>9
    <2>3. /\ pc[s] # "killed" => segs[1].in = 0
          /\ pc[r] # "killed" => segs[1].out = (Len(got[r]) - One(pc[r], {"get_out"})) % Size
      BY <1>5, <1>6, <1>9 DEF RingAt, Slots
    <2>4. One(pc[r], {"get_out"}) = 0
      BY <1>5 DEF One, InGet
    <2>5. pc[r] # "killed" => segs[1].out = 0
      BY <1>9, <2>3, <2>4
    <2>6. (Len(got[r]) - One(pc'[r], {"get_out"})) % Size = 0
      BY <1>9, <1>10
    <2>7. pc'[r] = "killed" <=> pc[r] = "killed"
      BY <1>1
    <2>8. /\ pc'[s] # "killed" => segs'[1].in = m % Size
          /\ pc'[r] # "killed" => segs'[1].out = (Len(got[r]) - One(pc'[r], {"get_out"})) % Size
      BY <1>5, <1>8, <1>9, <1>10, <2>3, <2>5, <2>6, <2>7
    <2>9. QED
      BY <1>5, <1>8, <1>9, <1>10, <2>1, <2>2, <2>8 DEF RingAt, Slots
  <1>13. Opening(m, s, r)'
    <2> SUFFICES ASSUME NEW q \in Procs, fresh[q], pc'[q] \in InInit
                 PROVE  /\ sem["full"].val = 0 /\ sem["mutex"].val = 0 /\ sem["free"].val = 0
      BY <1>5, <1>10 DEF Opening
    <2>1. QED
      BY <1>3, <1>4 DEF RingAt, Opening
  <1>14. QED
    BY <1>11, <1>12, <1>13 DEF RingAt

(* A semaphore its user got stays while the sender has not left.            *)
LEMMA StillValid ==
  ASSUME Life, NEW p \in Procs, NEW x \in SemNames, pc[p] \notin Before(x) \cup {"killed"},
         Launching \/ \E q \in Senders : pc[q] \notin Leaving
  PROVE  Valid(p, x)
  <1>1. semid[p][x] = 1 /\ sem[x].id = 1
    BY DEF Life
  <1>2. sem[x].there
    BY <1>1 DEF Life
  <1>3. QED
    BY <1>1, <1>2 DEF Valid

(* Who goes on launching did so before.                                     *)
LEMMA LaunchedBefore ==
  ASSUME TypeInv, NEW p \in Procs, NEW to \in Labels, pc' = [pc EXCEPT ![p] = to],
         to # "start", to \in InInit => pc[p] \in InInit \cup {"start"}, Launching'
  PROVE  Launching
  <1>1. pc'[p] = to /\ \A q \in Procs \ {p} : pc'[q] = pc[q]
    BY DEF TypeInv, VarTypes
  <1>2. PICK q \in Procs : pc'[q] \in InInit \cup {"start"}
    BY DEF Launching
  <1>3. QED
    BY <1>1, <1>2 DEF Launching

(* Life, for a step of p that makes and removes no semaphore.               *)
LEMMA LifeKept ==
  ASSUME TypeInv, Life, NEW p \in Procs, NEW to \in Labels \ {"start"}, pc' = [pc EXCEPT ![p] = to],
         Len(segs') = 1,
         Launching' => segKey' = 1 /\ ~ segs'[1].removed,
         to \in InInit => pc[p] \in InInit \cup {"start"},
         to \in Gone => pc[p] \in Gone \/ ~ Launching,
         pc[p] \in Leaving => to \in Leaving,
         p \in Receivers /\ to \in Gone => \A q \in Senders : pc[q] \in Leaving,
         to \in Ring \cup {"nproc_read"} => attached'[p] # None,
         \A q \in Procs \ {p} : attached'[q] = attached[q] /\ semid'[q] = semid[q],
         \A x \in SemNames :
           /\ sem[x].id <= sem'[x].id /\ sem'[x].id <= 1 /\ sem'[x].id \in Nat
           /\ sem'[x].id = 1 =>
                \/ sem'[x].there
                \/ sem[x].id = 1 /\ sem'[x].there = sem[x].there
                \/ ~ Launching /\ \A q \in Senders : pc[q] \in Leaving
           /\ to \notin (Before(x) \ {Find(x)}) \cup {"killed"} => sem'[x].id = 1
           /\ to \notin Before(x) \cup {"killed"} => semid'[p][x] = 1
           /\ \A q \in Procs : semadj'[q][x] = 0
  PROVE  Life'
  <1>1. pc'[p] = to /\ \A q \in Procs \ {p} : pc'[q] = pc[q]
    BY DEF TypeInv, VarTypes
  <1>2. Launching' => Launching
    BY LaunchedBefore
  <1>3. ASSUME Launching'
        PROVE  /\ segKey' = Len(segs')
               /\ \A g \in 1 .. Len(segs') : ~ segs'[g].removed
               /\ \A q \in Procs : pc'[q] \notin Gone
    <2>1. \A q \in Procs : pc[q] \notin Gone
      BY <1>2, <1>3 DEF Life
    <2>2. QED
      BY <1>1, <1>2, <1>3, <2>1
  <1>4. ASSUME NEW q \in Senders, pc'[q] \notin Leaving PROVE pc[q] \notin Leaving
    BY <1>1, <1>4
  <1>5. ASSUME NEW x \in SemNames
        PROVE  /\ sem'[x].id <= 1
               /\ sem'[x].id = 1 /\ (Launching' \/ \E q \in Senders : pc'[q] \notin Leaving)
                  => sem'[x].there
    <2> SUFFICES ASSUME sem'[x].id = 1, Launching' \/ \E q \in Senders : pc'[q] \notin Leaving
                 PROVE  sem'[x].there
      OBVIOUS
    <2>1. Launching \/ \E q \in Senders : pc[q] \notin Leaving
      BY <1>2, <1>4
    <2>2. QED
      BY <2>1 DEF Life
  <1>6. ASSUME NEW q \in Procs, NEW x \in SemNames
        PROVE  /\ pc'[q] # "start" => Len(segs') = 1
               /\ pc'[q] \in Ring \cup {"nproc_read"} => attached'[q] # None
               /\ pc'[q] \notin (Before(x) \ {Find(x)}) \cup {"killed"} => sem'[x].id = 1
               /\ pc'[q] \notin Before(x) \cup {"killed"} => semid'[q][x] = 1
               /\ semadj'[q][x] = 0
    <2>1. CASE q = p
      BY <1>1, <2>1
    <2>2. CASE q # p
      <3>1. /\ pc[q] \in Ring \cup {"nproc_read"} => attached[q] # None
            /\ pc[q] \notin (Before(x) \ {Find(x)}) \cup {"killed"} => sem[x].id = 1
            /\ pc[q] \notin Before(x) \cup {"killed"} => semid[q][x] = 1
        BY DEF Life
      <3>2. sem[x].id \in Nat /\ sem'[x].id \in Nat
        BY DEF TypeInv, SemTypes
      <3>3. sem[x].id = 1 => sem'[x].id = 1
        BY <3>2
      <3>4. QED
        BY <1>1, <2>2, <3>1, <3>3
    <2>3. QED
      BY <2>1, <2>2
  <1>7. ASSUME NEW a \in Senders, NEW q \in Receivers, pc'[q] \in Gone PROVE pc'[a] \in Leaving
    <2>1. a \in Procs /\ q \in Procs /\ a # q
      BY ProgramAssumption DEF Procs
    <2>2. pc[q] \in Gone => pc[a] \in Leaving
      BY DEF Life
    <2>3. pc[a] \in Leaving => pc'[a] \in Leaving
      BY <1>1, <2>1
    <2>4. CASE q = p
      BY <1>1, <1>7, <2>3, <2>4
    <2>5. CASE q # p
      BY <1>1, <1>7, <2>1, <2>2, <2>3, <2>5
    <2>6. QED
      BY <2>4, <2>5
  <1>8. SemNames # {}
    BY DEF SemNames
  <1>9. QED
    BY <1>3, <1>5, <1>6, <1>7, <1>8 DEF Life

(* Life, for a step of p past buf_init's semgets.                           *)
LEMMA LifeQuiet ==
  ASSUME TypeInv, Life, NEW p \in Procs, NEW to \in Labels, pc' = [pc EXCEPT ![p] = to],
         pc[p] \notin Before("mutex") \cup {"killed"}, to \notin Before("mutex"),
         UNCHANGED <<segKey, attached, semid, semadj>>,
         Len(segs') = Len(segs), Len(segs) # 0 => segs'[1].removed = segs[1].removed,
         \A x \in SemNames : sem'[x].id = sem[x].id /\ sem'[x].there = sem[x].there,
         to \in InInit => pc[p] \in InInit,
         to \in Gone => pc[p] \in Gone \/ ~ Launching,
         pc[p] \in Leaving => to \in Leaving,
         p \in Receivers /\ to \in Gone => \A q \in Senders : pc[q] \in Leaving,
         to \in Ring \cup {"nproc_read"} => attached[p] # None
  PROVE  Life'
  <1>1. \A x \in SemNames : Before(x) \subseteq Before("mutex")
    BY DEF Before, SemNames
  <1>2. to # "start" /\ pc[p] # "start"
    BY DEF Before
  <1>3. Len(segs) = 1 /\ Len(segs') = 1
    BY <1>2 DEF Life
  <1>4. Launching' => Launching
    BY <1>2, LaunchedBefore
  <1>5. Launching' => segKey' = 1 /\ ~ segs'[1].removed
    BY <1>3, <1>4 DEF Life
  <1>6. ASSUME NEW x \in SemNames
        PROVE  /\ sem[x].id <= sem'[x].id /\ sem'[x].id <= 1 /\ sem'[x].id \in Nat
               /\ sem[x].id = 1 /\ sem'[x].id = 1 /\ semid'[p][x] = 1
               /\ \A q \in Procs : semadj'[q][x] = 0
    <2>1. sem[x].id = 1 /\ semid[p][x] = 1 /\ \A q \in Procs : semadj[q][x] = 0
      BY <1>1 DEF Life
    <2>2. QED
      BY <2>1
  <1>7. \A x \in SemNames :
          /\ sem[x].id <= sem'[x].id /\ sem'[x].id <= 1 /\ sem'[x].id \in Nat
          /\ sem'[x].id = 1 =>
               \/ sem'[x].there
               \/ sem[x].id = 1 /\ sem'[x].there = sem[x].there
               \/ ~ Launching /\ \A q \in Senders : pc[q] \in Leaving
          /\ to \notin (Before(x) \ {Find(x)}) \cup {"killed"} => sem'[x].id = 1
          /\ to \notin Before(x) \cup {"killed"} => semid'[p][x] = 1
          /\ \A q \in Procs : semadj'[q][x] = 0
    BY <1>6
  <1>8. QED
    BY <1>2, <1>3, <1>5, <1>7, LifeKept

(* Nothing but line 107 marks a segment, and only these writes move the     *)
(* ring.                                                                    *)
LEMMA WriteLeaves ==
  ASSUME TypeInv, NEW p \in Procs,
         NprocInc(p) \/ InitStruct(p) \/ PutStore(p) \/ PutIn(p) \/ GetOut(p) \/ NprocDec(p)
  PROVE  /\ Len(segs') = Len(segs)
         /\ \A g \in 1 .. Len(segs) :
              /\ segs'[g].removed = segs[g].removed
              /\ pc[p] \in {"nproc_inc", "nproc_dec", "set_size", "set_nproc"} =>
                   segs'[g].in = segs[g].in /\ segs'[g].out = segs[g].out
                     /\ segs'[g].buf = segs[g].buf
  <1>1. /\ pc[p] \in {"nproc_inc", "set_size", "set_out", "set_in", "set_nproc", "put_store",
           "put_in", "get_out", "nproc_dec"}
        /\ pc[p] \in Mapped
    BY DEF NprocInc, InitStruct, PutStore, PutIn, GetOut, NprocDec, Mapped, InInit, InPut, InGet,
       Unmapped
  <1>2. /\ attached[p] \in 1 .. Len(segs) /\ segs[attached[p]] = Seg(p) /\ Seg(p) \in Segment
    BY <1>1, OwnSegment DEF Seg
  <1> SUFFICES ASSUME TRUE
               PROVE /\ Len(segs') = Len(segs)
                     /\ \A g \in 1 .. Len(segs) : g # attached[p] => segs'[g] = segs[g]
                     /\ segs'[attached[p]].removed = Seg(p).removed
                     /\ pc[p] \in {"nproc_inc", "nproc_dec", "set_size", "set_nproc"} =>
                          /\ segs'[attached[p]].in = Seg(p).in
                             /\ segs'[attached[p]].out = Seg(p).out
                          /\ segs'[attached[p]].buf = Seg(p).buf
    BY <1>2
  <1>3. CASE InitStruct(p) /\ pc[p] = "set_size"
    <2>1. Write(p, "size", Size) /\ Size \in {0, Size}
      BY <1>3 DEF InitStruct
    <2>2. /\ Len(segs') = Len(segs) /\ segs'[attached[p]] = [Seg(p) EXCEPT !.size = Size]
          /\ \A g \in 1 .. Len(segs) : g # attached[p] => segs'[g] = segs[g]
      BY <1>1, <2>1, WroteSize
    <2>3. QED
      BY <1>2, <2>2 DEF Segment
  <1>4. CASE InitStruct(p) /\ pc[p] \in {"set_out", "set_in"}
    <2>1. Write(p, "out", 0) \/ Write(p, "in", 0)
      BY <1>4 DEF InitStruct
    <2>2. 0 \in 0 .. Size - 1
      BY BoundAssumption
    <2>3. /\ Len(segs') = Len(segs)
          /\ segs'[attached[p]] \in {[Seg(p) EXCEPT !.out = 0], [Seg(p) EXCEPT !.in = 0]}
          /\ \A g \in 1 .. Len(segs) : g # attached[p] => segs'[g] = segs[g]
      BY <1>1, <2>1, <2>2, WroteOut, WroteIn
    <2>4. segs'[attached[p]].removed = Seg(p).removed
      BY <2>3, <1>2 DEF Segment
    <2>5. QED
      BY <1>4, <2>3, <2>4
  <1>5. CASE InitStruct(p) /\ pc[p] = "set_nproc"
    <2>1. PICK v \in Int : v = 1 /\ Write(p, "nproc", v)
      BY <1>5 DEF InitStruct
    <2>2. /\ Len(segs') = Len(segs) /\ segs'[attached[p]] = [Seg(p) EXCEPT !.nproc = v]
          /\ \A g \in 1 .. Len(segs) : g # attached[p] => segs'[g] = segs[g]
      BY <1>1, <2>1, WroteNproc, Zenon
    <2>3. QED
      BY <1>2, <2>2 DEF Segment
  <1>6. CASE NprocInc(p) \/ NprocDec(p)
    <2>1. reg[p] \in Int /\ reg[p] + 1 \in Int
      BY DEF TypeInv, VarTypes
    <2>2. PICK v \in Int : Write(p, "nproc", v)
      BY <1>6, <2>1 DEF NprocInc, NprocDec
    <2>3. QED
      BY <1>1, <1>2, <2>2, WroteNproc DEF Segment
  <1>7. CASE PutStore(p)
    <2>1. Seg(p).in \in 0 .. Size - 1 /\ c[p] \in Chars \cup {Nul}
          /\ Seg(p).buf \in [0 .. Size - 1 -> Chars \cup {Nul}]
      BY <1>2 DEF Segment, TypeInv, VarTypes
    <2>2. [Seg(p).buf EXCEPT ![Seg(p).in] = c[p]] \in [0 .. Size - 1 -> Chars \cup {Nul}]
      BY <2>1
    <2>3. PICK v \in [0 .. Size - 1 -> Chars \cup {Nul}] : Write(p, "buf", v)
      BY <1>7, <2>2 DEF PutStore
    <2>4. pc[p] = "put_store"
      BY <1>7 DEF PutStore
    <2>5. QED
      BY <1>1, <1>2, <2>3, <2>4, WroteBuf DEF Segment
  <1>8. CASE PutIn(p)
    <2>1. pc[p] = "put_in" /\ reg[p] \in 0 .. Size - 1 /\ Write(p, "in", reg[p])
      BY <1>8 DEF PutIn, TypeInv, Place
    <2>2. QED
      BY <1>1, <1>2, <2>1, WroteIn DEF Segment
  <1>9. CASE GetOut(p)
    <2>1. Seg(p).size = Size /\ Seg(p).out \in 0 .. Size - 1
      BY <1>2, <1>9 DEF Segment, GetOut
    <2>2. (Seg(p).out + 1) % Seg(p).size \in 0 .. Size - 1
      BY <2>1, BoundAssumption
    <2>3. PICK v \in 0 .. Size - 1 : Write(p, "out", v)
      BY <1>9, <2>2 DEF GetOut
    <2>4. pc[p] = "get_out"
      BY <1>9 DEF GetOut
    <2>5. QED
      BY <1>1, <1>2, <2>3, <2>4, WroteOut DEF Segment
  <1>10. QED
    BY <1>3, <1>4, <1>5, <1>6, <1>7, <1>8, <1>9 DEF InitStruct

(* The first two calls of buf_init.                                         *)
LEMMA ShmLife ==
  ASSUME TypeInv, Life, NEW p \in Procs, ShmCreate(p) \/ ShmExisting(p)
  PROVE  Life'
  <1>1. UNCHANGED <<attached, sem, semadj, semid>>
    BY DEF ShmCreate, ShmExisting, kernel
  <1>2. pc[p] \in {"start", "shm_existing"}
    BY DEF ShmCreate, ShmExisting
  <1>3. /\ Launching /\ segKey = Len(segs) /\ Len(segs) \in Nat /\ Len(segs) <= 1
           /\ segs \in Seq(Segment)
        /\ \A g \in 1 .. Len(segs) : ~ segs[g].removed
    BY <1>2 DEF Launching, InInit, Life, TypeInv, SegTypes
  <1>4. PICK to \in {"attach", "shm_existing"} : pc' = [pc EXCEPT ![p] = to]
    <2>1. CASE ShmCreate(p)
      BY <2>1 DEF ShmCreate, Goto
    <2>2. CASE ShmExisting(p)
      <3>1. Len(segs) = 1
        BY <2>2 DEF Life, ShmExisting
      <3>2. segKey # None
        BY <1>3, <3>1 DEF None
      <3>3. QED
        BY <2>2, <3>2 DEF ShmExisting, Goto
    <2>3. QED
      BY <2>1, <2>2
  <1>5. Len(segs') = 1 /\ segKey' = 1 /\ ~ segs'[1].removed
    <2>1. CASE ShmCreate(p) /\ segKey = None
      <3>1. segs' = Append(segs, ZeroedSegment) /\ segKey' = Len(segs') /\ Len(segs) = 0
        BY <1>3, <2>1 DEF ShmCreate, None
      <3>2. segs = <<>> /\ Len(segs') = 1 /\ segs'[1] = ZeroedSegment
        BY <1>3, <3>1, ZeroedIsSegment
      <3>3. QED
        BY <3>1, <3>2 DEF ZeroedSegment
    <2>2. CASE ~ (ShmCreate(p) /\ segKey = None)
      <3>1. segs' = segs /\ segKey' = segKey
        BY <2>2 DEF ShmCreate, ShmExisting, kernel
      <3>2. Len(segs) # 0
        <4>1. CASE ShmCreate(p)
          BY <1>3, <2>2, <4>1 DEF None
        <4>2. CASE ShmExisting(p)
          BY <4>2 DEF Life, ShmExisting
        <4>3. QED
          BY <4>1, <4>2
      <3>3. Len(segs) = 1
        BY <1>3, <3>2, OneIsLeft
      <3>4. QED
        BY <1>3, <3>1, <3>3
    <2>3. QED
      BY <2>1, <2>2
  <1>6. /\ to \in Labels \ {"start"} /\ to \notin Gone /\ to \notin Ring \cup {"nproc_read"}
           /\ pc[p] \notin Leaving
        /\ to \in InInit => pc[p] \in InInit \cup {"start"}
        /\ \A x \in SemNames : to \in Before(x) \ {Find(x)}
    BY <1>2 DEF Labels, InInit, InPut, InGet, Ring, Gone, Leaving, InDestroy, Ended, Before, Find,
       SemNames
  <1>7. ASSUME NEW x \in SemNames
        PROVE  /\ sem[x].id <= sem'[x].id /\ sem'[x].id <= 1 /\ sem'[x].id \in Nat
               /\ sem'[x] = sem[x] /\ \A q \in Procs : semadj'[q][x] = 0
    BY <1>1 DEF Life, TypeInv, SemTypes
  <1>8. QED
    BY <1>1, <1>4, <1>5, <1>6, <1>7, LifeKept

(* shmat (line 43) succeeds: the segment that was found is still there.     *)
LEMMA AttachLife ==
  ASSUME TypeInv, Life, NEW p \in Procs, Attach(p)
  PROVE  Life' /\ pc' = [pc EXCEPT ![p] = "get_free_sem"]
  <1>1. UNCHANGED <<segKey, segs, sem, semadj, semid>> /\ pc[p] = "attach"
    BY DEF Attach, locals
  <1>2. /\ Len(segs) = 1 /\ Launching
    BY <1>1 DEF Launching, InInit, Life
  <1>3. segKey = 1 /\ ~ segs[1].removed
    BY <1>2 DEF Life
  <1>4. shmid[p] = 1
    BY <1>1, <1>2 DEF TypeInv, SegTypes, Place, None
  <1>5. Exists(shmid[p])
    BY <1>3, <1>4 DEF Exists
  <1>6. attached' = [attached EXCEPT ![p] = shmid[p]] /\ pc' = [pc EXCEPT ![p] = "get_free_sem"]
    BY <1>5 DEF Attach, Goto
  <1> DEFINE to == "get_free_sem"
  <1>7. /\ to \in Labels \ {"start"} /\ to \notin Gone /\ to \notin Ring \cup {"nproc_read"}
           /\ pc[p] \notin Leaving
        /\ to \in InInit => pc[p] \in InInit \cup {"start"}
        /\ \A x \in SemNames : to \in Before(x) \ {Find(x)}
    BY <1>1 DEF Labels, InInit, InPut, InGet, Ring, Gone, Leaving, InDestroy, Ended, Before, Find,
       SemNames
  <1>8. ASSUME NEW x \in SemNames
        PROVE  /\ sem[x].id <= sem'[x].id /\ sem'[x].id <= 1 /\ sem'[x].id \in Nat
               /\ sem'[x] = sem[x] /\ \A q \in Procs : semadj'[q][x] = 0
    BY <1>1 DEF Life, TypeInv, SemTypes
  <1>9. \A q \in Procs \ {p} : attached'[q] = attached[q] /\ semid'[q] = semid[q]
    BY <1>1, <1>6 DEF TypeInv, SegTypes
  <1>10. Life'
    <2>1. \A x \in SemNames :
            /\ sem[x].id <= sem'[x].id /\ sem'[x].id <= 1 /\ sem'[x].id \in Nat
            /\ sem'[x].id = 1 =>
                 \/ sem'[x].there
                 \/ sem[x].id = 1 /\ sem'[x].there = sem[x].there
                 \/ ~ Launching /\ \A q \in Senders : pc[q] \in Leaving
            /\ to \notin (Before(x) \ {Find(x)}) \cup {"killed"} => sem'[x].id = 1
            /\ to \notin Before(x) \cup {"killed"} => semid'[p][x] = 1
            /\ \A q \in Procs : semadj'[q][x] = 0
      BY <1>7, <1>8
    <2>2. Len(segs') = 1 /\ segKey' = 1 /\ ~ segs'[1].removed
      BY <1>1, <1>2, <1>3
    <2>3. QED
      BY <1>1, <1>6, <1>7, <1>9, <2>1, <2>2, LifeKept
  <1>11. QED
    BY <1>6, <1>10

(* _semget: while a program launches, a semaphore that was made is there.   *)
LEMMA SemgetLife ==
  ASSUME TypeInv, FaultInv, Life, NEW p \in Procs, GetSemaphores(p)
  PROVE  Life'
  <1>1. PICK x \in SemNames :
           \/ Made(p, x, Get(x), After(x))
           \/ Missed(p, x, Get(x), Find(x)) /\ sem[x].there
           \/ Found(p, x, Find(x), After(x))
           \/ Missed(p, x, Find(x), "loop") /\ ~ sem[x].there
    BY GetSemaphoresFacts
  <1>2. UNCHANGED <<segKey, segs, attached, semadj>>
    BY <1>1 DEF Made, Missed, Found, SemgetAt
  <1>3. pc[p] \in {Get(x), Find(x)}
    BY <1>1 DEF Made, Missed, Found, SemgetAt
  <1>4. Launching /\ pc[p] # "start" /\ pc[p] \notin Leaving
    BY <1>3 DEF Launching, InInit, Get, Find, SemNames, Leaving, InDestroy, Ended
  <1>5. Len(segs) = 1 /\ segKey = 1 /\ ~ segs[1].removed
    BY <1>4 DEF Life
  <1>6. /\ sem[x].id \in Nat /\ sem[x].id <= 1 /\ (sem[x].id = 1 => sem[x].there)
        /\ (sem[x].there => sem[x].id # 0)
    BY <1>4 DEF Life, TypeInv, SemTypes, FaultInv, Keys
  <1>7. sem[x].there => sem[x].id = 1
    BY <1>6, OneIsLeft
  <1>8. ~ (Missed(p, x, Find(x), "loop") /\ ~ sem[x].there)
    <2> SUFFICES ASSUME Missed(p, x, Find(x), "loop"), ~ sem[x].there PROVE FALSE
      OBVIOUS
    <2>1. pc[p] = Find(x)
      BY DEF Missed, SemgetAt
    <2>2. pc[p] \notin (Before(x) \ {Find(x)}) \cup {"killed"}
      BY <2>1 DEF Find, SemNames
    <2>3. QED
      BY <1>6, <2>2 DEF Life
  <1>9. PICK to \in {Find(x), After(x)} :
          /\ pc' = [pc EXCEPT ![p] = to] /\ UNCHANGED <<segKey, segs, attached, semadj>>
          /\ \/ /\ to = After(x) /\ ~ sem[x].there
                /\ sem' = [sem EXCEPT ![x] = [id |-> @.id + 1, val |-> 0, there |-> TRUE]]
                /\ semid' = [semid EXCEPT ![p][x] = sem[x].id + 1]
             \/ to = Find(x) /\ sem[x].there /\ UNCHANGED <<sem, semid>>
             \/ to = After(x) /\ sem[x].there /\ sem' = sem
                /\ semid' = [semid EXCEPT ![p][x] = sem[x].id]
    BY <1>1, <1>8 DEF Made, Missed, Found, SemgetAt
  <1>10. /\ to \in Labels \ {"start"} /\ to \notin Gone /\ to \notin Ring \cup {"nproc_read"}
         /\ to \in InInit /\ pc[p] \in InInit
         /\ to = Find(x) => to \in Before(x)
         /\ \A y \in SemNames \ {x} :
              /\ to \notin (Before(y) \ {Find(y)}) \cup {"killed"}
                 => pc[p] \notin (Before(y) \ {Find(y)}) \cup {"killed"}
              /\ to \notin Before(y) \cup {"killed"} => pc[p] \notin Before(y) \cup {"killed"}
    BY <1>3 DEF Labels, InInit, InPut, InGet, Ring, Gone, Leaving, InDestroy, Ended, Before, Find,
       Get, After, SemNames
  <1>11. /\ sem'[x].id = 1 /\ sem'[x].there
         /\ to = After(x) => semid'[p][x] = 1
         /\ \A y \in SemNames \ {x} : sem'[y] = sem[y] /\ semid'[p][y] = semid[p][y]
         /\ \A q \in Procs \ {p} : semid'[q] = semid[q]
    <2>1. sem \in [SemNames -> [id : Nat, val : Nat, there : BOOLEAN]]
          /\ semid \in [Procs -> [SemNames -> Nat]]
      BY DEF TypeInv, SemTypes
    <2>2. CASE /\ to = After(x) /\ ~ sem[x].there
               /\ sem' = [sem EXCEPT ![x] = [id |-> @.id + 1, val |-> 0, there |-> TRUE]]
               /\ semid' = [semid EXCEPT ![p][x] = sem[x].id + 1]
      <3>1. sem[x].id = 0
        BY <1>6, <2>2, OneIsLeft
      <3>2. sem' = [sem EXCEPT ![x] = [id |-> 1, val |-> 0, there |-> TRUE]]
            /\ semid' = [semid EXCEPT ![p][x] = 1]
        BY <2>2, <3>1
      <3>3. QED
        BY <2>1, <3>2
    <2>3. CASE to = Find(x) /\ sem[x].there /\ UNCHANGED <<sem, semid>>
      <3>1. to # After(x)
        BY <2>3 DEF Find, After, SemNames
      <3>2. QED
        BY <1>7, <2>3, <3>1
    <2>4. CASE to = After(x) /\ sem[x].there /\ sem' = sem
               /\ semid' = [semid EXCEPT ![p][x] = sem[x].id]
      BY <1>7, <2>1, <2>4
    <2>5. QED
      BY <1>9, <2>2, <2>3, <2>4
  <1>12. ASSUME NEW y \in SemNames
         PROVE  /\ sem[y].id <= sem'[y].id /\ sem'[y].id <= 1 /\ sem'[y].id \in Nat
                /\ sem'[y].id = 1 => sem'[y].there
                   \/ (sem[y].id = 1 /\ sem'[y].there = sem[y].there)
                /\ to \notin (Before(y) \ {Find(y)}) \cup {"killed"} => sem'[y].id = 1
                /\ to \notin Before(y) \cup {"killed"} => semid'[p][y] = 1
                /\ \A q \in Procs : semadj'[q][y] = 0
    <2>1. \A q \in Procs : semadj'[q][y] = 0
      BY <1>9 DEF Life
    <2>2. CASE y = x
      BY <1>6, <1>9, <1>10, <1>11, <2>1, <2>2
    <2>3. CASE y # x
      <3>1. sem'[y] = sem[y] /\ semid'[p][y] = semid[p][y]
        BY <1>11, <2>3
      <3>2. /\ pc[p] \notin (Before(y) \ {Find(y)}) \cup {"killed"} => sem[y].id = 1
            /\ pc[p] \notin Before(y) \cup {"killed"} => semid[p][y] = 1
            /\ sem[y].id <= 1
        BY DEF Life
      <3>3. sem[y].id \in Nat
        BY DEF TypeInv, SemTypes
      <3>4. QED
        BY <1>10, <2>1, <2>3, <3>1, <3>2, <3>3
    <2>4. QED
      BY <2>2, <2>3
  <1>13. to # "nproc_read" /\ pc[p] \notin Leaving
    BY <1>4, <1>10
  <1>14. /\ Len(segs') = 1 /\ segKey' = 1 /\ ~ segs'[1].removed /\ pc' = [pc EXCEPT ![p] = to]
         /\ \A q \in Procs \ {p} : attached'[q] = attached[q] /\ semid'[q] = semid[q]
    BY <1>5, <1>9, <1>11
  <1>15. /\ to \in Labels \ {"start"} /\ to \notin Gone /\ to \notin Ring \cup {"nproc_read"}
         /\ to \in InInit => pc[p] \in InInit \cup {"start"}
    BY <1>10
  <1>16. \A y \in SemNames :
           /\ sem[y].id <= sem'[y].id /\ sem'[y].id <= 1 /\ sem'[y].id \in Nat
           /\ sem'[y].id = 1 =>
                \/ sem'[y].there
                \/ sem[y].id = 1 /\ sem'[y].there = sem[y].there
                \/ ~ Launching /\ \A q \in Senders : pc[q] \in Leaving
           /\ to \notin (Before(y) \ {Find(y)}) \cup {"killed"} => sem'[y].id = 1
           /\ to \notin Before(y) \cup {"killed"} => semid'[p][y] = 1
           /\ \A q \in Procs : semadj'[q][y] = 0
    BY <1>12
  <1>17. QED
    BY <1>13, <1>14, <1>15, <1>16, LifeKept

(* The rest of buf_init.                                                    *)
LEMMA InitLife ==
  ASSUME TypeInv, Life, NEW p \in Procs,
         NprocLoad(p) \/ NprocInc(p) \/ InitStruct(p) \/ InitSemaphores(p)
  PROVE  Life'
  <1>1. pc[p] \in {"nproc_load", "nproc_inc", "set_size", "set_out", "set_in", "set_nproc", "set_free",
        "set_full", "set_mutex"}
    BY DEF NprocLoad, NprocInc, InitStruct, InitSemaphores, _setval
  <1>2. /\ pc[p] \in InInit /\ pc[p] \in Mapped /\ pc[p] \notin Before("mutex") \cup {"killed"}
           /\ pc[p] \notin Leaving
        /\ \A x \in SemNames : pc[p] \notin Before(x) \cup {"killed"}
    BY <1>1 DEF InInit, Mapped, Unmapped, Before, Leaving, InDestroy, Ended, SemNames
  <1>3. Launching /\ attached[p] # None
    BY <1>2 DEF Launching, TypeInv, Place
  <1>4. \A x \in SemNames : Valid(p, x)
    BY <1>2, <1>3, StillValid
  <1>5. UNCHANGED <<segKey, attached, semid>>
    BY DEF NprocLoad, NprocInc, InitStruct, InitSemaphores, kernel, locals
  <1>6. PICK to \in {"nproc_inc", "set_size", "set_out", "set_in", "set_nproc", "set_free", "set_full",
        "set_mutex", "loop"} :
           pc' = [pc EXCEPT ![p] = to]
    <2>1. CASE NprocLoad(p) \/ NprocInc(p)
      BY <2>1 DEF NprocLoad, NprocInc, Goto
    <2>2. CASE InitStruct(p)
      BY <2>2 DEF InitStruct, Goto
    <2>3. CASE InitSemaphores(p)
      BY <2>3 DEF InitSemaphores, _setval, Goto
    <2>4. QED
      BY <2>1, <2>2, <2>3
  <1>7. Len(segs') = Len(segs) /\ (Len(segs) # 0 => segs'[1].removed = segs[1].removed)
    <2>1. CASE NprocLoad(p) \/ InitSemaphores(p)
      BY <2>1 DEF NprocLoad, InitSemaphores, kernel
    <2>2. CASE NprocInc(p) \/ InitStruct(p)
      <3>1. Len(segs) \in Nat
        BY DEF TypeInv, SegTypes
      <3>2. QED
        BY <2>2, <3>1, WriteLeaves
    <2>3. QED
      BY <2>1, <2>2
  <1>8. semadj' = semadj /\ \A x \in SemNames : sem'[x].id = sem[x].id
        /\ sem'[x].there = sem[x].there
    <2>1. CASE NprocLoad(p) \/ NprocInc(p) \/ InitStruct(p)
      BY <2>1 DEF NprocLoad, NprocInc, InitStruct, kernel
    <2>2. CASE InitSemaphores(p)
      <3>1. PICK x \in SemNames, v \in Nat :
              /\ sem' = [sem EXCEPT ![x] = [id |-> sem[x].id, val |-> v, there |-> sem[x].there]]
              /\ semadj' = [q \in Procs |-> [semadj[q] EXCEPT ![x] = 0]]
        BY <1>4, <2>2, InitSemaphoresFacts
      <3>2. sem[x].there \in BOOLEAN
        BY DEF TypeInv, SemTypes
      <3>3. /\ semadj' \in [Procs -> [SemNames -> Int]]
            /\ sem'[x].there = sem[x].there
            /\ \A t \in SemNames : sem'[t].id = sem[t].id
            /\ \A t \in SemNames \ {x} : sem'[t] = sem[t]
            /\ \A q \in Procs, t \in SemNames : semadj'[q][t] = IF t = x THEN 0 ELSE semadj[q][t]
        BY <3>1, <3>2, SetvalFacts
      <3>4. \A q \in Procs, t \in SemNames : semadj'[q][t] = semadj[q][t]
        BY <3>3 DEF Life
      <3>5. semadj \in [Procs -> [SemNames -> Int]]
        BY DEF TypeInv, SemTypes
      <3>6. semadj' = semadj
        BY <3>3, <3>4, <3>5
      <3>7. QED
        BY <3>3, <3>6
    <2>3. QED
      BY <2>1, <2>2
  <1>9. /\ to \in Labels /\ to \notin Before("mutex") /\ to \notin Gone /\ to # "nproc_read"
    BY DEF Labels, InInit, Before, Gone, Leaving, InDestroy, Ended
  <1>10. QED
    BY <1>2, <1>3, <1>5, <1>6, <1>7, <1>8, <1>9, LifeQuiet

(* The steps of buf_destroy before the semaphores: nobody launches any      *)
(* more.                                                                    *)
LEMMA LeaveLife ==
  ASSUME TypeInv, Life, NEW p \in Procs,
         NprocRead(p) \/ NprocDec(p) \/ ShmRmid(p) \/ Detach(p)
  PROVE  Life'
  <1>1. pc[p] \in {"nproc_read", "nproc_dec", "shm_rmid", "detach"}
    BY DEF NprocRead, NprocDec, ShmRmid, Detach
  <1>2. /\ pc[p] \in Gone /\ pc[p] \in Leaving /\ pc[p] # "start" /\ pc[p] \notin InInit
        /\ \A x \in SemNames : pc[p] \notin Before(x) \cup {"killed"}
    BY <1>1 DEF InInit, Before, Gone, Leaving, InDestroy, Ended, SemNames
  <1>3. ~ Launching /\ Len(segs) = 1 /\ (p \in Receivers => \A q \in Senders : pc[q] \in Leaving)
    BY <1>2 DEF Life
  <1>4. UNCHANGED <<sem, semadj, semid>>
    BY DEF NprocRead, NprocDec, ShmRmid, Detach, kernel, locals
  <1>5. PICK to \in {"nproc_dec", "exit", "shm_rmid", "detach", "rmid_free"} : pc'
        = [pc EXCEPT ![p] = to]
    BY DEF NprocRead, NprocDec, ShmRmid, Detach, Goto
  <1>6. /\ to \in Labels \ {"start"} /\ to \in Leaving /\ to \notin InInit
           /\ to \notin Ring \cup {"nproc_read"}
    BY DEF Labels, InInit, Leaving, InDestroy, Ended, Ring, InPut, InGet
  <1>7. ~ Launching'
    BY <1>3, <1>5, <1>6, LaunchedBefore
  <1>8. Len(segs') = 1
    <2>1. CASE NprocRead(p) \/ Detach(p)
      BY <1>3, <2>1 DEF NprocRead, Detach, kernel
    <2>2. CASE NprocDec(p)
      BY <1>3, <2>2, WriteLeaves
    <2>3. CASE ShmRmid(p)
      <3>1. Write(p, "removed", TRUE) /\ TRUE \in BOOLEAN /\ pc[p] \in Mapped
        BY <2>3 DEF ShmRmid, Mapped
      <3>2. QED
        BY <1>3, <3>1, WroteRemoved
    <2>4. QED
      BY <2>1, <2>2, <2>3
  <1>9. \A q \in Procs \ {p} : attached'[q] = attached[q] /\ semid'[q] = semid[q]
    BY <1>4 DEF NprocRead, NprocDec, ShmRmid, Detach, kernel, TypeInv, SegTypes
  <1>10. \A x \in SemNames :
           /\ sem[x].id <= sem'[x].id /\ sem'[x].id <= 1 /\ sem'[x].id \in Nat
           /\ sem'[x] = sem[x] /\ sem[x].id = 1 /\ semid'[p][x] = 1
           /\ \A q \in Procs : semadj'[q][x] = 0
    BY <1>2, <1>4 DEF Life
  <1>11. \A x \in SemNames :
           /\ sem[x].id <= sem'[x].id /\ sem'[x].id <= 1 /\ sem'[x].id \in Nat
           /\ sem'[x].id = 1 =>
                \/ sem'[x].there
                \/ sem[x].id = 1 /\ sem'[x].there = sem[x].there
                \/ ~ Launching /\ \A q \in Senders : pc[q] \in Leaving
           /\ to \notin (Before(x) \ {Find(x)}) \cup {"killed"} => sem'[x].id = 1
           /\ to \notin Before(x) \cup {"killed"} => semid'[p][x] = 1
           /\ \A q \in Procs : semadj'[q][x] = 0
    BY <1>10
  <1>12. /\ to \in InInit => pc[p] \in InInit \cup {"start"}
         /\ to \in Gone => pc[p] \in Gone \/ ~ Launching
         /\ pc[p] \in Leaving => to \in Leaving
         /\ p \in Receivers /\ to \in Gone => \A q \in Senders : pc[q] \in Leaving
    BY <1>2, <1>3, <1>6
  <1>13. QED
    BY <1>5, <1>6, <1>7, <1>8, <1>9, <1>11, <1>12, LifeKept

(* Who removes the semaphores has seen the sender leave.                    *)
LEMMA RemoveLife ==
  ASSUME TypeInv, Life, NEW s, NEW r, Pair(s, r), NEW p \in Procs, RemoveSemaphores(p)
  PROVE  Life'
  <1>1. PICK x \in SemNames, to \in {"rmid_full", "rmid_mutex", "exit"} :
           /\ pc[p] \in {"rmid_free", "rmid_full", "rmid_mutex"}
           /\ \/ /\ Valid(p, x) /\ pc' = [pc EXCEPT ![p] = to]
                 /\ sem' = [sem EXCEPT ![x] = [id |-> sem[x].id, val |-> 0, there |-> FALSE]]
                 /\ semadj' = [q \in Procs |-> [semadj[q] EXCEPT ![x] = 0]]
              \/ pc' = [pc EXCEPT ![p] = to] /\ sem' = sem /\ semadj' = semadj
           /\ UNCHANGED <<segKey, segs, attached, semid>>
    BY RemoveSemaphoresFacts
  <1>2. /\ pc[p] \in Gone /\ pc[p] \in Leaving /\ pc[p] # "start" /\ pc[p] \notin InInit
        /\ \A y \in SemNames : pc[p] \notin Before(y) \cup {"killed"}
    BY <1>1 DEF InInit, Before, Gone, Leaving, InDestroy, Ended, SemNames
  <1>3. ~ Launching /\ Len(segs) = 1 /\ \A q \in Senders : pc[q] \in Leaving
    <2>1. CASE p \in Receivers
      BY <1>2, <2>1 DEF Life
    <2>2. CASE p \in Senders
      BY <1>2, <2>2 DEF Life, Pair
    <2>3. QED
      BY <2>1, <2>2 DEF Procs
  <1>4. to \in Labels \ {"start"} /\ to \in Leaving /\ to \notin InInit
        /\ to \notin Ring \cup {"nproc_read"}
    BY DEF Labels, InInit, Leaving, InDestroy, Ended, Ring, InPut, InGet
  <1>5. ~ Launching'
    BY <1>1, <1>3, <1>4, LaunchedBefore
  <1>6. \A y \in SemNames : sem'[y].id = sem[y].id /\ \A q \in Procs : semadj'[q][y] = 0
    <2>1. \A y \in SemNames, q \in Procs : semadj[q][y] = 0
      BY DEF Life
    <2>2. CASE /\ sem' = [sem EXCEPT ![x] = [id |-> sem[x].id, val |-> 0, there |-> FALSE]]
               /\ semadj' = [q \in Procs |-> [semadj[q] EXCEPT ![x] = 0]]
      <3>1. 0 \in Nat /\ FALSE \in BOOLEAN
        OBVIOUS
      <3>2. /\ \A t \in SemNames : sem'[t].id = sem[t].id
            /\ \A q \in Procs, t \in SemNames : semadj'[q][t] = IF t = x THEN 0 ELSE semadj[q][t]
        BY <2>2, <3>1, SetvalFacts
      <3>3. QED
        BY <2>1, <3>2
    <2>3. QED
      BY <1>1, <2>1, <2>2
  <1>7. \A y \in SemNames :
           /\ sem[y].id <= sem'[y].id /\ sem'[y].id <= 1 /\ sem'[y].id \in Nat
           /\ sem'[y].id = 1 /\ semid'[p][y] = 1
           /\ \A q \in Procs : semadj'[q][y] = 0
    BY <1>1, <1>2, <1>6 DEF Life
  <1>8. Len(segs') = 1 /\ \A q \in Procs \ {p} : attached'[q] = attached[q] /\ semid'[q] = semid[q]
    BY <1>1, <1>3
  <1>9. QED
    BY <1>1, <1>2, <1>3, <1>4, <1>5, <1>7, <1>8, LifeKept

(* The end of a program: there is nothing to undo.                          *)
LEMMA EndLife ==
  ASSUME TypeInv, Life, NEW p \in Procs, Exit(p) \/ Crash(p)
  PROVE  Life' /\ \A x \in SemNames : sem'[x].val = sem[x].val
  <1>1. PICK to \in {"done", "killed"} : End(p, to) /\ (to = "done" => pc[p] = "exit")
    BY DEF Exit, Crash
  <1>2. /\ UNCHANGED <<segKey, segs, semid>>
        /\ pc' = [pc EXCEPT ![p] = to] /\ attached' = [attached EXCEPT ![p] = None]
        /\ semadj' = [semadj EXCEPT ![p] = [x \in SemNames |-> 0]]
    BY <1>1 DEF End, locals, Goto
  <1>3. pc[p] # "start" /\ to \in Leaving /\ to \in Labels \ {"start"}
        /\ to \notin Ring \cup {"nproc_read"} /\ to \notin InInit
    BY DEF Exit, Crash, Labels, InInit, Leaving, InDestroy, Ended, Ring, InPut, InGet
  <1>4. to = "done" => pc[p] \in Gone /\ \A x \in SemNames : pc[p] \notin Before(x) \cup {"killed"}
    BY <1>1 DEF Gone, Leaving, InDestroy, Ended, Before, SemNames
  <1>5. to = "killed" => to \notin Gone
    BY DEF Gone
  <1>6. Launching' => Launching
    BY <1>2, <1>3, LaunchedBefore
  <1>7. Len(segs) = 1 /\ (Launching => segKey = 1 /\ ~ segs[1].removed)
    BY <1>3 DEF Life
  <1>8. \A x \in SemNames : \A q \in Procs : semadj'[q][x] = 0 /\ semadj[q][x] = 0
    <2>1. semadj \in [Procs -> [SemNames -> Int]]
      BY DEF TypeInv, SemTypes
    <2>2. \A x \in SemNames, q \in Procs : semadj[q][x] = 0
      BY DEF Life
    <2>3. QED
      BY <1>2, <2>1, <2>2
  <1>9. ASSUME NEW x \in SemNames
        PROVE  /\ sem'[x].id = sem[x].id /\ sem'[x].there = sem[x].there /\ sem'[x].val = sem[x].val
    <2>1. sem[x] \in [id : Nat, val : Nat, there : BOOLEAN] /\ semadj[p][x] = 0
      BY <1>8 DEF TypeInv, SemTypes
    <2>2. sem'[x] = [sem[x] EXCEPT !.val = IF sem[x].val + 0 > 0 THEN sem[x].val + 0 ELSE 0]
      BY <1>1, <2>1 DEF End
    <2>3. (IF sem[x].val + 0 > 0 THEN sem[x].val + 0 ELSE 0) = sem[x].val
      BY <2>1
    <2>4. sem'[x] = [sem[x] EXCEPT !.val = sem[x].val]
      BY <2>2, <2>3
    <2>5. QED
      BY <2>1, <2>4
  <1>10. \A x \in SemNames :
           /\ sem[x].id <= sem'[x].id /\ sem'[x].id <= 1 /\ sem'[x].id \in Nat
           /\ sem'[x].id = sem[x].id /\ sem'[x].there = sem[x].there
           /\ to # "killed" => sem'[x].id = 1 /\ semid'[p][x] = 1
    <2>1. \A x \in SemNames : sem[x].id \in Nat /\ sem[x].id <= 1
      BY DEF Life, TypeInv, SemTypes
    <2>2. \A x \in SemNames : to # "killed" => sem[x].id = 1 /\ semid[p][x] = 1
      BY <1>4 DEF Life
    <2>3. QED
      BY <1>2, <1>9, <2>1, <2>2
  <1>11. \A q \in Procs \ {p} : attached'[q] = attached[q] /\ semid'[q] = semid[q]
    BY <1>2 DEF TypeInv, SegTypes
  <1>12. p \in Receivers /\ to \in Gone => \A q \in Senders : pc[q] \in Leaving
    BY <1>4, <1>5 DEF Life
  <1>13. /\ to \in Gone => pc[p] \in Gone \/ ~ Launching
         /\ Len(segs') = 1 /\ (Launching' => segKey' = 1 /\ ~ segs'[1].removed)
    BY <1>2, <1>4, <1>5, <1>6, <1>7
  <1>14. \A x \in SemNames :
           /\ sem[x].id <= sem'[x].id /\ sem'[x].id <= 1 /\ sem'[x].id \in Nat
           /\ sem'[x].id = 1 =>
                \/ sem'[x].there
                \/ sem[x].id = 1 /\ sem'[x].there = sem[x].there
                \/ ~ Launching /\ \A q \in Senders : pc[q] \in Leaving
           /\ to \notin (Before(x) \ {Find(x)}) \cup {"killed"} => sem'[x].id = 1
           /\ to \notin Before(x) \cup {"killed"} => semid'[p][x] = 1
           /\ \A q \in Procs : semadj'[q][x] = 0
    BY <1>8, <1>10
  <1>15. /\ pc' = [pc EXCEPT ![p] = to] /\ (to \in InInit => pc[p] \in InInit \cup {"start"})
         /\ pc[p] \in Leaving => to \in Leaving
    BY <1>2, <1>3
  <1>16. Life'
    BY <1>3, <1>11, <1>12, <1>13, <1>14, <1>15, LifeKept
  <1>17. QED
    BY <1>9, <1>16

(* What a semop of p did: here, x and d are the label, the semaphore and    *)
(* the sign of the call, and to is the label after it.                      *)
SemopCase(p, s, r, here, x, d, to) ==
  /\ pc[p] = here /\ here # "get_out" /\ pc' = [pc EXCEPT ![p] = to]
  /\ UNCHANGED <<segKey, segs, attached, semid, semadj, fresh, reg, c, typed, got>>
  /\ \A t \in SemNames : sem'[t].id = sem[t].id /\ sem'[t].there = sem[t].there
  /\ to \in {"loop", "nproc_read"} => to = AfterCall(c[p])
  /\ \/ /\ Passing(p, s, r, here, x, d, to) /\ sem'[x].val = sem[x].val + d
        /\ \A t \in SemNames \ {x} : sem'[t] = sem[t]
     \/ /\ p = r /\ ~ Launching /\ pc[s] \in Leaving /\ to \in {"loop", "nproc_read"}
        /\ ~ Valid(r, x) /\ sem' = sem

(* What a semop of the pair does in a calm session: it passes, or it is the *)
(* receiver's and the sender has left.                                      *)
LEMMA SemopCases ==
  ASSUME TypeInv, Life, Calm', NEW s, NEW r, Pair(s, r), NEW p \in Procs,
         \/ p = s /\ (PutFree(p) \/ PutLock(p) \/ PutUnlock(p) \/ PutFull(p))
         \/ p = r /\ (GetFull(p) \/ GetLock(p) \/ GetUnlock(p) \/ GetFree(p))
  PROVE  \E here \in Calls, x \in SemNames, d \in {-1, 1},
            to \in {"put_next", "put_store", "put_full", "get_lock", "get_fetch", "get_free",
              "loop", "nproc_read"} :
           SemopCase(p, s, r, here, x, d, to)
  <1>1. s \in Procs /\ r \in Procs /\ s # r /\ s \in Senders /\ Senders = {s}
    BY PairTypes DEF Pair
  <1>2. PICK here \in Calls, x \in SemNames, d \in {-1, 1},
            next \in {"put_next", "put_store", "put_full", "get_lock", "get_fetch", "get_free",
              "loop", "nproc_read"} :
           /\ SemopAt(p, here, x, d, next) /\ Passing(p, s, r, here, x, d, next) /\ here # "get_out"
           /\ next \in {"loop", "nproc_read"} => next = AfterCall(c[p])
    <2> USE DEF SemopAt, Calls, InPut, InGet, SemNames, AfterCall, Passing
    <2>1. CASE p = s /\ PutFree(p)
      BY <2>1 DEF PutFree
    <2>2. CASE p = s /\ PutLock(p)
      BY <2>2 DEF PutLock
    <2>3. CASE p = s /\ PutUnlock(p)
      BY <2>3 DEF PutUnlock
    <2>4. CASE p = s /\ PutFull(p)
      BY <2>4 DEF PutFull
    <2>5. CASE p = r /\ GetFull(p)
      BY <2>5 DEF GetFull
    <2>6. CASE p = r /\ GetLock(p)
      BY <2>6 DEF GetLock
    <2>7. CASE p = r /\ GetUnlock(p)
      BY <2>7 DEF GetUnlock
    <2>8. CASE p = r /\ GetFree(p)
      BY <2>8 DEF GetFree
    <2>9. QED
      BY <2>1, <2>2, <2>3, <2>4, <2>5, <2>6, <2>7, <2>8
  <1>3. next \in Labels
    BY DEF Labels, InPut, InGet, InDestroy
  <1>4. pc[p] = here /\ _semop(p, x, d, next) /\ UNCHANGED <<segs, reg, c>>
    BY <1>2 DEF SemopAt
  <1>5. "flags" \notin breaches'
    BY DEF Calm
  <1>6. /\ UNCHANGED <<segKey, attached, shmid, fresh, semid, typed, got, crashes>>
        /\ \A t \in SemNames : sem'[t].id = sem[t].id /\ sem'[t].there = sem[t].there
        /\ \A t \in SemNames \ {x} : sem'[t] = sem[t]
        /\ semadj' = semadj
        /\ \/ Valid(p, x) /\ sem'[x].val = sem[x].val + d /\ pc' = [pc EXCEPT ![p] = next]
           \/ ~ Valid(p, x) /\ sem' = sem /\ pc' = [pc EXCEPT ![p] = AfterCall(c[p])]
    BY <1>3, <1>4, <1>5, SemopFacts
  <1>7. CASE Valid(p, x) /\ sem'[x].val = sem[x].val + d /\ pc' = [pc EXCEPT ![p] = next]
    <2>1. /\ pc[p] = here /\ pc' = [pc EXCEPT ![p] = next]
          /\ UNCHANGED <<segKey, segs, attached, semid, semadj, fresh, reg, c, typed, got>>
          /\ \A t \in SemNames : sem'[t].id = sem[t].id /\ sem'[t].there = sem[t].there
          /\ next \in {"loop", "nproc_read"} => next = AfterCall(c[p])
          /\ Passing(p, s, r, here, x, d, next) /\ sem'[x].val = sem[x].val + d
          /\ \A t \in SemNames \ {x} : sem'[t] = sem[t]
      BY <1>2, <1>4, <1>6, <1>7
    <2>2. SemopCase(p, s, r, here, x, d, next)
      BY <1>2, <2>1 DEF SemopCase
    <2>3. QED
      BY <2>2
  <1>8. CASE ~ Valid(p, x) /\ sem' = sem /\ pc' = [pc EXCEPT ![p] = AfterCall(c[p])]
    <2>1. /\ pc[p] \notin Before(x) \cup {"killed"} /\ pc[p] \notin Leaving
      BY <1>4 DEF Calls, InPut, InGet, Before, SemNames, Leaving, InDestroy, Ended
    <2>2. ~ Launching /\ pc[s] \in Leaving
      BY <1>1, <1>8, <2>1, StillValid
    <2>3. p = r
      BY <1>2, <2>1, <2>2 DEF Passing
    <2>4. AfterCall(c[p]) \in {"loop", "nproc_read"}
      BY DEF AfterCall
    <2>5. SemopCase(p, s, r, here, x, d, AfterCall(c[p]))
      BY <1>2, <1>4, <1>6, <1>8, <2>2, <2>3, <2>4 DEF SemopCase
    <2>6. QED
      BY <2>4, <2>5
  <1>9. QED
    BY <1>6, <1>7, <1>8

(* Who has fetched the Quit has fetched everything, and the sender left its *)
(* loop.                                                                    *)
LEMMA LastCharacter ==
  ASSUME TypeInv, Quits, NEW s, NEW r, Pair(s, r), NEW m \in Nat, RingAt(m, s, r),
         Len(got[r]) > 0, got[r][Len(got[r])] = Quit
  PROVE  ~ Launching /\ pc[s] \in Leaving /\ got[r] = typed[s]
  <1> DEFINE k == Len(got[r])
             n == Len(typed[s])
  <1>1. /\ k \in Nat /\ n \in Nat /\ s \in Senders /\ sem["full"].val \in Nat
        /\ got[r] \in Seq(Chars \cup {Nul}) /\ typed[s] \in Seq(Chars)
    BY PairTypes DEF SemNames
  <1>2. k <= n /\ \A i \in 1 .. k : got[r][i] = typed[s][i]
    BY DEF RingAt, Slots, IsPrefixOf
  <1>3. k \in 1 .. n /\ typed[s][k] = Quit
    BY <1>1, <1>2
  <1>4. k = n /\ ~ Launching /\ pc[s] \in InPut \cup Leaving
    BY <1>1, <1>3 DEF Quits
  <1>5. got[r] = typed[s]
    <2>1. /\ got[r] \in Seq(Chars \cup {Nul}) /\ typed[s] \in Seq(Chars \cup {Nul})
          /\ Len(got[r]) = Len(typed[s]) /\ \A i \in 1 .. Len(got[r]) : got[r][i] = typed[s][i]
      BY <1>1, <1>2, <1>4
    <2>2. QED
      BY <2>1
  <1>6. ASSUME pc[s] \in InPut PROVE FALSE
    <2>1. pc[s] # "killed" /\ (pc[s] \in Filling \/ pc[s] \in FullOwed)
      BY <1>6 DEF InPut, Filling, FullOwed
    <2>2. /\ m = n - One(pc[s], Filling)
          /\ sem["full"].val + One(pc[r], FullHeld) + One(pc[s], FullOwed) + k <= m
      BY <2>1 DEF RingAt, Counts
    <2>3. One(pc[r], FullHeld) \in {0, 1} /\ One(pc[s], FullOwed) \in {0, 1}
          /\ One(pc[s], Filling) \in {0, 1}
      BY OneNumbers
    <2>4. One(pc[s], Filling) = 1 \/ One(pc[s], FullOwed) = 1
      BY <2>1, OneNumbers
    <2> HIDE DEF k, n
    <2>5. QED
      BY <1>1, <1>4, <2>2, <2>3, <2>4
  <1>7. QED
    BY <1>4, <1>5, <1>6

(* Quits, for a step of p that types nothing.                               *)
LEMMA QuitsKept ==
  ASSUME TypeInv, Quits, NEW p \in Procs, NEW to \in Labels \ {"start"},
    pc' = [pc EXCEPT ![p] = to],
         typed' = typed, \A q \in Senders : c'[q] = c[q],
         to \in InInit => pc[p] \in InInit \cup {"start"},
         to \in InPut => pc[p] \in InPut,
         p \in Senders /\ pc[p] \in InPut \cup Leaving =>
           to \in InPut \cup Leaving \/ typed[p][Len(typed[p])] # Quit
  PROVE  Quits'
  <1>1. pc'[p] = to /\ \A q \in Procs \ {p} : pc'[q] = pc[q]
    BY DEF TypeInv, VarTypes
  <1>2. Launching' => Launching
    BY LaunchedBefore
  <1> SUFFICES ASSUME NEW a \in Senders
               PROVE /\ \A i \in 1 .. Len(typed[a]) : typed[a][i] = Quit =>
                          i = Len(typed[a]) /\ ~ Launching' /\ pc'[a] \in InPut \cup Leaving
                     /\ pc'[a] \in InPut => Len(typed[a]) > 0 /\ c[a] = typed[a][Len(typed[a])]
    BY DEF Quits
  <1>3. /\ \A i \in 1 .. Len(typed[a]) : typed[a][i] = Quit =>
             i = Len(typed[a]) /\ ~ Launching /\ pc[a] \in InPut \cup Leaving
        /\ pc[a] \in InPut => Len(typed[a]) > 0 /\ c[a] = typed[a][Len(typed[a])]
    BY DEF Quits
  <1>4. CASE a = p
    BY <1>1, <1>2, <1>3, <1>4
  <1>5. CASE a # p
    <2>1. pc'[a] = pc[a]
      BY <1>1, <1>5 DEF Procs
    <2>2. QED
      BY <1>2, <1>3, <2>1
  <1>6. QED
    BY <1>4, <1>5

(* sender.c: a Quit is typed when everybody is up.                          *)
LEMMA TypeQuits ==
  ASSUME TypeInv, Life, Quits, Calm', NEW s, NEW r, Pair(s, r), Type(s)
  PROVE  Quits' /\ pc' = [pc EXCEPT ![s] = "put_free"] /\ attached[s] # None
  <1>1. s \in Procs /\ s \in Senders /\ Senders = {s} /\ typed[s] \in Seq(Chars)
        /\ typed \in [Senders -> Seq(Chars)]
    BY PairTypes DEF Pair
  <1>2. pc[s] = "loop" /\ attached[s] # None
    BY <1>1 DEF Type, Life, Ring
  <1>3. PICK d \in Chars : /\ Note("early_quit", d = Quit /\ EarlyQuit)
                           /\ c' = [c EXCEPT ![s] = d]
                           /\ typed' = [typed EXCEPT ![s] = Append(@, d)]
                           /\ pc' = [pc EXCEPT ![s] = "put_free"]
    BY <1>2 DEF Type, IS_MEM_OK, Goto
  <1>4. d = Quit => ~ Launching
    BY <1>3 DEF Note, Calm, EarlyQuit, Launching
  <1>5. Launching' => Launching
    <2>1. "put_free" \in Labels /\ "put_free" \notin InInit
      BY DEF Labels, InInit, InPut
    <2>2. QED
      BY <1>1, <1>3, <2>1, LaunchedBefore
  <1>6. \A i \in 1 .. Len(typed[s]) : typed[s][i] # Quit
    <2>1. pc[s] \notin InPut \cup Leaving
      BY <1>2 DEF InPut, Leaving, InDestroy, Ended
    <2>2. QED
      BY <1>1, <2>1 DEF Quits
  <1>7. /\ typed'[s] = Append(typed[s], d) /\ Len(typed'[s]) = Len(typed[s]) + 1
           /\ typed'[s][Len(typed[s]) + 1] = d
        /\ \A i \in 1 .. Len(typed[s]) : typed'[s][i] = typed[s][i]
        /\ c'[s] = d /\ pc'[s] = "put_free" /\ Len(typed[s]) \in Nat
    BY <1>1, <1>3 DEF TypeInv, VarTypes
  <1>8. "put_free" \in InPut
    BY DEF InPut
  <1>9. ASSUME NEW i \in 1 .. Len(typed'[s]), typed'[s][i] = Quit
        PROVE  i = Len(typed'[s]) /\ ~ Launching' /\ pc'[s] \in InPut \cup Leaving
    <2>1. i \notin 1 .. Len(typed[s])
      BY <1>6, <1>7, <1>9
    <2>2. i = Len(typed[s]) + 1
      BY <1>7, <2>1
    <2>3. QED
      BY <1>4, <1>5, <1>7, <1>8, <1>9, <2>2
  <1>10. Quits'
    BY <1>1, <1>7, <1>8, <1>9 DEF Quits
  <1>11. QED
    BY <1>2, <1>3, <1>10

(* The eight semops.                                                        *)
LEMMA SemopCalm ==
  ASSUME TypeInv, TypeInv', Life, Quits, Calm', NEW s, NEW r, Pair(s, r), NEW m \in Nat,
    RingAt(m, s, r),
         NEW p \in Procs,
         \/ p = s /\ (PutFree(p) \/ PutLock(p) \/ PutUnlock(p) \/ PutFull(p))
         \/ p = r /\ (GetFull(p) \/ GetLock(p) \/ GetUnlock(p) \/ GetFree(p))
  PROVE  Life' /\ Quits' /\ RingAt(m, s, r)'
  <1>1. PICK here \in Calls, x \in SemNames, d \in {-1, 1},
            to \in {"put_next", "put_store", "put_full", "get_lock", "get_fetch", "get_free",
              "loop", "nproc_read"} :
           SemopCase(p, s, r, here, x, d, to)
    BY SemopCases
  <1>2. /\ s \in Procs /\ r \in Procs /\ s # r /\ s \in Senders /\ Senders = {s} /\ p \in {s, r}
           /\ Receivers = {r}
        /\ r \notin Senders
    BY PairTypes DEF Pair
  <1>3. /\ pc[p] = here /\ here # "get_out" /\ pc' = [pc EXCEPT ![p] = to]
        /\ UNCHANGED <<segKey, segs, attached, semid, semadj, fresh, reg, c, typed, got>>
        /\ \A t \in SemNames : sem'[t].id = sem[t].id /\ sem'[t].there = sem[t].there
        /\ to \in {"loop", "nproc_read"} => to = AfterCall(c[p])
    BY <1>1 DEF SemopCase
  <1>4. \/ /\ Passing(p, s, r, here, x, d, to) /\ sem'[x].val = sem[x].val + d
           /\ \A t \in SemNames \ {x} : sem'[t] = sem[t]
        \/ /\ p = r /\ ~ Launching /\ pc[s] \in Leaving /\ to \in {"loop", "nproc_read"}
           /\ sem' = sem
    BY <1>1 DEF SemopCase
  <1>5. /\ to \in Labels \ {"start"} /\ to \notin Before("mutex") /\ to \notin InInit
        /\ to \in Gone \cup Leaving => to = "nproc_read"
        /\ pc[p] \notin Before("mutex") \cup {"killed"} /\ pc[p] \notin Leaving /\ pc[p] # "killed"
           /\ pc[p] \in Ring
    BY <1>3 DEF Labels, InInit, Calls, InPut, InGet, Before, Gone, Leaving, InDestroy, Ended, Ring
  <1>6. to = "nproc_read" => c[p] = Quit
    BY <1>3 DEF AfterCall
  <1>7. p = s => Len(typed[s]) > 0 /\ c[s] = typed[s][Len(typed[s])]
        /\ Passing(p, s, r, here, x, d, to) /\ pc[s] \in InPut
    <2>1. p = s => pc[s] \in InPut /\ Passing(p, s, r, here, x, d, to)
      BY <1>2, <1>3, <1>4 DEF Passing, InPut
    <2>2. QED
      BY <1>2, <2>1 DEF Quits
  <1>8. ASSUME to = "nproc_read" PROVE ~ Launching /\ (p = r => pc[s] \in Leaving)
    <2>1. CASE p = s
      <3>1. Len(typed[s]) \in Nat
        BY PairTypes
      <3>2. Len(typed[s]) \in 1 .. Len(typed[s]) /\ typed[s][Len(typed[s])] = Quit
        BY <1>6, <1>7, <1>8, <2>1, <3>1
      <3>3. QED
        BY <1>2, <2>1, <3>2 DEF Quits
    <2>2. CASE p = r /\ Passing(p, s, r, here, x, d, to)
      <3>1. pc[r] \in Fetched
        BY <1>2, <1>3, <1>8, <2>2 DEF Passing, Fetched
      <3>2. Len(got[r]) > 0 /\ c[r] = got[r][Len(got[r])]
        BY <3>1 DEF RingAt, Slots
      <3>3. QED
        BY <1>6, <1>8, <2>2, <3>2, LastCharacter
    <2>3. QED
      BY <1>2, <1>4, <2>1, <2>2
  <1>9. Life'
    <2>1. attached[p] # None
      BY <1>5 DEF Life
    <2>2. p \in Receivers /\ to \in Gone => \A q \in Senders : pc[q] \in Leaving
      BY <1>2, <1>5, <1>8
    <2>3. /\ UNCHANGED <<segKey, attached, semid, semadj>> /\ Len(segs') = Len(segs)
          /\ Len(segs) # 0 => segs'[1].removed = segs[1].removed
      BY <1>3
    <2>4. to \in Gone => pc[p] \in Gone \/ ~ Launching
      BY <1>5, <1>8
    <2>5. QED
      BY <1>3, <1>5, <2>1, <2>2, <2>3, <2>4, LifeQuiet
  <1>10. Quits'
    <2>1. to \in InPut => pc[p] \in InPut
      BY <1>2, <1>4, <1>3 DEF Passing, InPut
    <2>2. p \in Senders => to \in InPut \/ to = AfterCall(c[s])
      BY <1>2, <1>3, <1>7 DEF Passing, InPut
    <2>3. p \in Senders => to \in InPut \cup Leaving \/ typed[p][Len(typed[p])] # Quit
      BY <1>2, <1>7, <2>2 DEF AfterCall, Leaving, InDestroy
    <2>4. typed' = typed /\ \A q \in Senders : c'[q] = c[q]
      BY <1>3
    <2>5. QED
      BY <1>3, <1>5, <2>1, <2>3, <2>4, QuitsKept
  <1>11. RingAt(m, s, r)'
    <2>1. to \in Labels
      BY <1>5
    <2>2. CASE /\ Passing(p, s, r, here, x, d, to) /\ sem'[x].val = sem[x].val + d
               /\ \A t \in SemNames \ {x} : sem'[t] = sem[t]
      BY <1>3, <2>1, <2>2, SemopRing
    <2>3. CASE p = r /\ to \in {"loop", "nproc_read"} /\ sem' = sem
      <3>1. to \in Labels \ (Calls \ {"get_full"})
        BY <2>1, <2>3 DEF Calls, InPut, InGet
      <3>2. \A t \in SemNames : sem'[t].val <= sem[t].val
        BY <2>3 DEF TypeInv, SemTypes
      <3>3. /\ Len(segs') = Len(segs)
            /\ Len(segs) # 0 => segs'[1].in = segs[1].in /\ segs'[1].out = segs[1].out
               /\ segs'[1].buf = segs[1].buf
            /\ UNCHANGED <<typed, got, c, fresh>> /\ \A q \in Procs \ {p} : reg'[q] = reg[q]
        BY <1>3
      <3>4. p = r /\ pc[p] # "get_out" /\ pc[p] # "killed" /\ to \notin InInit
            /\ pc' = [pc EXCEPT ![p] = to]
        BY <1>3, <1>5, <2>3
      <3>5. QED
        BY <3>1, <3>2, <3>3, <3>4, QuietRing
    <2>4. QED
      BY <1>4, <2>2, <2>3
  <1>12. QED
    BY <1>9, <1>10, <1>11

(* The other steps of the two loops.                                        *)
LEMMA LoopCalm ==
  ASSUME TypeInv, TypeInv', FaultInv, Life, Quits, Calm', NEW s, NEW r, Pair(s, r), NEW m \in Nat,
    RingAt(m, s, r),
         NEW p \in Procs,
         \/ p = s /\ (Type(p) \/ PutNext(p) \/ PutStore(p) \/ PutIn(p))
         \/ p = r /\ (CallGet(p) \/ GetFetch(p) \/ GetOut(p))
  PROVE  Life' /\ Quits' /\ \E n \in Nat : RingAt(n, s, r)'
  <1>1. /\ s \in Procs /\ r \in Procs /\ s # r /\ s \in Senders /\ r \notin Senders
    BY PairTypes, ProgramAssumption DEF Pair
  <1>2. pc[p] \in {"loop", "put_next", "put_store", "put_in", "get_fetch", "get_out"}
    BY DEF Type, PutNext, PutStore, PutIn, CallGet, GetFetch, GetOut
  <1>3. /\ pc[p] \notin Before("mutex") \cup {"killed"} /\ pc[p] \notin Leaving /\ pc[p] # "killed"
           /\ pc[p] \in Ring
    BY <1>2 DEF InPut, InGet, Before, Leaving, InDestroy, Ended, Ring
  <1>4. attached[p] # None
    BY <1>3 DEF Life
  <1>5. UNCHANGED <<segKey, attached, semid, sem, semadj, fresh>>
    BY DEF Type, PutNext, PutStore, PutIn, CallGet, GetFetch, GetOut, kernel, locals
  <1>6. PICK to \in {"put_free", "put_lock", "put_in", "put_unlock", "get_full", "get_out",
        "get_unlock"} :
          /\ pc' = [pc EXCEPT ![p] = to]
          /\ to \in {"put_lock", "put_in", "put_unlock"} => p = s /\ pc[p] \in InPut
          /\ to = "put_free" => Type(s)
          /\ ~ Type(s) => typed' = typed /\ c'[s] = c[s]
          /\ p = s => to \in InPut
    <2>1. CASE p = s /\ Type(p)
      BY <1>4, <2>1 DEF Type, Goto, IS_MEM_OK, InPut
    <2>2. CASE p = s /\ (PutNext(p) \/ PutStore(p) \/ PutIn(p))
      BY <2>2 DEF PutNext, PutStore, PutIn, Goto, InPut, locals, history
    <2>3. CASE p = r /\ (CallGet(p) \/ GetOut(p))
      BY <1>1, <1>4, <2>3 DEF CallGet, GetOut, Goto, IS_MEM_OK, locals, history
    <2>4. CASE p = r /\ GetFetch(p)
      BY <1>1, <2>4 DEF GetFetch, Goto, TypeInv, VarTypes
    <2>5. QED
      BY <2>1, <2>2, <2>3, <2>4
  <1>7. /\ to \in Labels \ {"start"} /\ to \notin Before("mutex") /\ to \notin InInit
           /\ to \notin Gone
    BY DEF Labels, InInit, InPut, InGet, Before, Gone, Leaving, InDestroy, Ended
  <1>8. Life'
    <2>1. Len(segs') = Len(segs) /\ (Len(segs) # 0 => segs'[1].removed = segs[1].removed)
      <3>1. CASE PutStore(p) \/ PutIn(p) \/ GetOut(p)
        <4>1. Len(segs) \in Nat
          BY DEF TypeInv, SegTypes
        <4>2. QED
          BY <3>1, <4>1, WriteLeaves
      <3>2. CASE Type(p) \/ PutNext(p) \/ CallGet(p) \/ GetFetch(p)
        BY <3>2 DEF Type, PutNext, CallGet, GetFetch, kernel
      <3>3. QED
        BY <3>1, <3>2
    <2>2. \A x \in SemNames : sem'[x].id = sem[x].id /\ sem'[x].there = sem[x].there
      BY <1>5
    <2>3. UNCHANGED <<segKey, attached, semid, semadj>>
      BY <1>5
    <2>4. QED
      BY <1>3, <1>4, <1>6, <1>7, <2>1, <2>2, <2>3, LifeQuiet
  <1>9. Quits'
    <2>1. CASE Type(s)
      BY <2>1, TypeQuits
    <2>2. CASE ~ Type(s)
      <3>1. to \in InPut => pc[p] \in InPut
        BY <1>6, <2>2 DEF InPut
      <3>2. typed' = typed /\ \A q \in Senders : c'[q] = c[q]
        BY <1>6, <2>2 DEF Pair
      <3>3. p \in Senders => to \in InPut
        BY <1>1, <1>6
      <3>4. QED
        BY <1>6, <1>7, <3>1, <3>2, <3>3, QuitsKept
    <2>3. QED
      BY <2>1, <2>2
  <1>10. Len(segs) <= 1
    BY DEF Life
  <1>11. m + 1 \in Nat
    OBVIOUS
  <1>12. CASE p = s
    <2>1. Type(s) => RingAt(m, s, r)'
      BY <1>4, <1>12, TypeRing
    <2>2. PutNext(s) => RingAt(m, s, r)'
      BY <1>10, PutNextRing
    <2>3. PutStore(s) => RingAt(m, s, r)'
      BY <1>10, PutStoreRing
    <2>4. PutIn(s) => RingAt(m + 1, s, r)'
      BY <1>10, PutInRing
    <2>5. QED
      BY <1>1, <1>8, <1>9, <1>11, <1>12, <2>1, <2>2, <2>3, <2>4
  <1>13. CASE p = r
    <2>1. GetFetch(r) => RingAt(m, s, r)'
      BY <1>10, GetFetchRing
    <2>2. GetOut(r) => RingAt(m, s, r)'
      BY <1>10, GetOutRing
    <2>3. ASSUME CallGet(r) PROVE RingAt(m, s, r)'
      <3>1. pc' = [pc EXCEPT ![r] = "get_full"] /\ UNCHANGED <<kernel, locals, history>>
            /\ pc[r] = "loop"
        BY <1>4, <1>13, <2>3 DEF CallGet, Goto, IS_MEM_OK
      <3>2. "get_full" \in Labels \ (Calls \ {"get_full"}) /\ "get_full" \notin InInit
            /\ pc[r] \notin Calls /\ pc[r] # "killed"
        BY <3>1 DEF Labels, Calls, InInit, InPut, InGet
      <3>3. /\ Len(segs') = Len(segs)
            /\ Len(segs) # 0 => segs'[1].in = segs[1].in /\ segs'[1].out = segs[1].out
               /\ segs'[1].buf = segs[1].buf
            /\ UNCHANGED <<typed, got, c, fresh>> /\ \A q \in Procs \ {r} : reg'[q] = reg[q]
            /\ sem' = sem
        BY <3>1 DEF kernel, locals, history
      <3>4. \A t \in SemNames : sem'[t].val <= sem[t].val
        BY <3>3 DEF TypeInv, SemTypes
      <3>5. QED
        BY <1>1, <3>1, <3>2, <3>3, <3>4, QuietRing
    <2>4. QED
      BY <1>1, <1>8, <1>9, <1>13, <2>1, <2>2, <2>3
  <1>14. QED
    BY <1>12, <1>13

(* The first program makes a zeroed segment: nothing was typed yet.         *)
LEMMA CreateRing ==
  ASSUME TypeInv, TypeInv', FaultInv, Life, NEW s, NEW r, Pair(s, r), NEW m \in Nat,
    RingAt(m, s, r),
         NEW p \in Procs, ShmCreate(p), segKey = None
  PROVE  RingAt(m, s, r)'
  <1>1. /\ pc[p] = "start" /\ UNCHANGED <<sem, reg, c, typed, got>>
        /\ segs' = Append(segs, ZeroedSegment) /\ pc' = [pc EXCEPT ![p] = "attach"]
    BY DEF ShmCreate, Goto, InInit
  <1>2. Len(segs) = 0
    BY <1>1 DEF Launching, Life, None
  <1>3. /\ s \in Procs /\ r \in Procs /\ s # r /\ Procs = {s, r} /\ Size \in Nat \ {0}
           /\ Len(got[r]) \in Nat
        /\ segs \in Seq(Segment) /\ sem["full"].val \in Nat
    BY PairTypes DEF SemNames
  <1>4. Len(segs') = 1 /\ segs'[1] = ZeroedSegment
    BY <1>1, <1>2, <1>3, ZeroedIsSegment
  <1>5. segs'[1].in = 0 /\ segs'[1].out = 0
    BY <1>4 DEF ZeroedSegment
  <1>6. \A q \in Procs : pc[q] = "start" /\ pc'[q] \in {"start", "attach"}
    BY <1>1, <1>2 DEF Life, TypeInv, VarTypes
  <1>7. \A L \in {Filling, FreeHeld, FullOwed, PutInside, Fetched, FullHeld, GetInside,
        {"get_out"}} :
          /\ One(pc[s], L) = 0 /\ One(pc[r], L) = 0 /\ One(pc'[s], L) = 0 /\ One(pc'[r], L) = 0
    BY <1>3, <1>6 DEF One, Filling, FreeHeld, FullOwed, PutInside, Fetched, FullHeld, GetInside
  <1>8. /\ m = 0 /\ m <= Len(typed[s])
           /\ (pc[s] # "killed" => m = Len(typed[s]) - One(pc[s], Filling))
        /\ sem["free"].val + One(pc[s], FreeHeld) + One(pc[r], Fetched) + m <= Size + Len(got[r])
        /\ sem["full"].val + One(pc[r], FullHeld) + One(pc[s], FullOwed) + Len(got[r]) <= m
        /\ sem["mutex"].val + One(pc[s], PutInside) + One(pc[r], GetInside) <= 1
    BY <1>2 DEF RingAt, Counts
  <1>9. Len(got[r]) = 0
    <2>1. sem["full"].val + 0 + 0 + Len(got[r]) <= 0
      BY <1>7, <1>8
    <2>2. QED
      BY <1>3, <2>1
  <1>10. Counts(m, s, r)'
    <2>1. pc[s] # "killed" /\ One(pc'[s], Filling) = One(pc[s], Filling)
      BY <1>3, <1>6, <1>7
    <2>2. /\ One(pc'[s], FreeHeld) = One(pc[s], FreeHeld)
             /\ One(pc'[r], Fetched) = One(pc[r], Fetched)
          /\ One(pc'[r], FullHeld) = One(pc[r], FullHeld)
             /\ One(pc'[s], FullOwed) = One(pc[s], FullOwed)
          /\ One(pc'[s], PutInside) = One(pc[s], PutInside)
             /\ One(pc'[r], GetInside) = One(pc[r], GetInside)
      BY <1>7
    <2>3. QED
      BY <1>1, <1>8, <2>1, <2>2 DEF Counts
  <1>11. Slots(m, s, r)'
    <2>1. segs'[1].in = m % Size /\ segs'[1].out = (Len(got[r]) - One(pc'[r], {"get_out"})) % Size
      <3>1. 0 % Size = 0 /\ 0 - 0 = 0
        BY <1>3, ModZero
      <3>2. QED
        BY <1>5, <1>7, <1>8, <1>9, <3>1
    <2>2. Len(got[r]) .. m - 1 = {}
      BY <1>8, <1>9
    <2>3. /\ pc'[s] \notin {"put_lock", "put_store", "put_in"} /\ pc'[r] \notin Fetched
      BY <1>3, <1>6 DEF Fetched
    <2>4. IsPrefixOf(got[r], typed[s])
      BY DEF RingAt, Slots
    <2>5. QED
      BY <1>1, <2>1, <2>2, <2>3, <2>4 DEF Slots
  <1>12. Opening(m, s, r)'
    <2>1. \A x \in SemNames : sem[x].val = 0
      <3>1. \A g \in 1 .. Len(segs) : segs[g].size = 0
        BY <1>2
      <3>2. QED
        BY <3>1 DEF FaultInv, Unset, Zero
    <2>2. sem["free"].val = 0 /\ sem["full"].val = 0 /\ sem["mutex"].val = 0
      BY <2>1 DEF SemNames
    <2>3. /\ pc'[s] \notin {"put_store", "put_in", "put_unlock", "put_full", "put_next", "put_lock"}
          /\ pc'[r] \notin InGet \ {"get_full"}
      BY <1>3, <1>6 DEF InGet
    <2>4. QED
      BY <1>1, <1>8, <2>2, <2>3 DEF Opening
  <1>13. QED
    BY <1>10, <1>11, <1>12 DEF RingAt

(* buf_init changes the ring where it makes it and fills it in.             *)
LEMMA BufInitRing ==
  ASSUME TypeInv, TypeInv', FaultInv, Life, NEW s, NEW r, Pair(s, r), NEW m \in Nat,
    RingAt(m, s, r),
         NEW p \in Procs, BufInit(p)
  PROVE  RingAt(m, s, r)' /\ UNCHANGED <<typed, c>>
  <1>1. UNCHANGED <<typed, got, c>> /\ Len(segs) <= 1 /\ segs \in Seq(Segment) /\ Len(segs) \in Nat
    BY DEF BufInit, ShmCreate, ShmExisting, Attach, GetSemaphores, NprocLoad, NprocInc, InitStruct,
       InitSemaphores,
           locals, history, Life, TypeInv, SegTypes
  <1>2. CASE ShmCreate(p) /\ segKey = None
    BY <1>1, <1>2, CreateRing
  <1>3. CASE pc[p] \in {"set_out", "set_in"}
    <2>1. PICK to \in {"set_in", "set_nproc"} :
          /\ pc' = [pc EXCEPT ![p] = to] /\ UNCHANGED <<sem, reg, c, fresh, typed, got>>
          /\ Write(p, "out", 0) \/ Write(p, "in", 0)
      BY <1>3 DEF BufInit, ShmCreate, ShmExisting, Attach, GetSemaphores, _semget, NprocLoad,
         NprocInc, InitStruct, InitSemaphores,
           _setval, locals, history, Goto
    <2>2. QED
      BY <1>1, <1>3, <2>1, IndicesRing
  <1>4. CASE InitSemaphores(p)
    <2>1. PICK x \in SemNames, here \in {"set_free", "set_full", "set_mutex"}, v \in Nat,
            to \in {"set_full", "set_mutex", "loop"} :
           /\ pc[p] = here /\ pc' = [pc EXCEPT ![p] = to]
           /\ UNCHANGED <<segs, fresh, reg, c, typed, got>>
           /\ \/ /\ sem' = [sem EXCEPT ![x] = [id |-> sem[x].id, val |-> v, there |-> sem[x].there]]
                 /\ semadj' = [q \in Procs |-> [semadj[q] EXCEPT ![x] = 0]]
                 /\ \/ here = "set_free" /\ x = "free" /\ v = Size /\ to = "set_full"
                    \/ here = "set_full" /\ x = "full" /\ v = 0 /\ to = "set_mutex"
                    \/ here = "set_mutex" /\ x = "mutex" /\ v = 1 /\ to = "loop"
              \/ to = "loop" /\ sem' = sem
      BY <1>4, InitSemaphoresFacts
    <2>2. /\ to \in Labels \ (Calls \ {"get_full"}) /\ to \in Labels /\ pc[p] # "killed"
             /\ pc[p] \notin Calls /\ pc[p] \in InInit
          /\ to \in InInit \ {"set_full", "set_mutex"} => FALSE
      BY <2>1 DEF Labels, Calls, InInit, InPut, InGet
    <2>3. ASSUME \A t \in SemNames : sem'[t].val <= sem[t].val PROVE RingAt(m, s, r)'
      <3>1. /\ Len(segs') = Len(segs)
            /\ Len(segs) # 0 => segs'[1].in = segs[1].in /\ segs'[1].out = segs[1].out
               /\ segs'[1].buf = segs[1].buf
            /\ UNCHANGED <<typed, got, c, fresh>> /\ \A q \in Procs \ {p} : reg'[q] = reg[q]
        BY <2>1
      <3>2. QED
        BY <2>1, <2>2, <2>3, <3>1, QuietRing
    <2>4. CASE to = "loop" /\ sem' = sem
      <3>1. \A t \in SemNames : sem'[t].val <= sem[t].val
        BY <2>4 DEF TypeInv, SemTypes
      <3>2. QED
        BY <1>1, <2>3, <3>1
    <2>5. CASE /\ sem' = [sem EXCEPT ![x] = [id |-> sem[x].id, val |-> v, there |-> sem[x].there]]
               /\ semadj' = [q \in Procs |-> [semadj[q] EXCEPT ![x] = 0]]
               /\ \/ here = "set_free" /\ x = "free" /\ v = Size /\ to = "set_full"
                  \/ here = "set_full" /\ x = "full" /\ v = 0 /\ to = "set_mutex"
                  \/ here = "set_mutex" /\ x = "mutex" /\ v = 1 /\ to = "loop"
      <3>1. sem[x].there \in BOOLEAN
        BY DEF TypeInv, SemTypes
      <3>2. sem'[x].val = v /\ \A t \in SemNames \ {x} : sem'[t] = sem[t]
        BY <2>5, <3>1, SetvalFacts
      <3>3. CASE here = "set_full"
        <4>1. v = 0 /\ \A t \in SemNames : sem[t].val \in Nat
          BY <2>5, <3>3 DEF TypeInv, SemTypes
        <4>2. \A t \in SemNames : sem'[t].val <= sem[t].val
          <5> SUFFICES ASSUME NEW t \in SemNames PROVE sem'[t].val <= sem[t].val
            OBVIOUS
          <5>1. CASE t = x
            BY <3>2, <4>1, <5>1
          <5>2. CASE t # x
            BY <3>2, <4>1, <5>2
          <5>3. QED
            BY <5>1, <5>2
        <4>3. QED
          BY <1>1, <2>3, <4>2
      <3>4. CASE here \in {"set_free", "set_mutex"}
        <4>1. /\ x \in {"free", "mutex"}
              /\ \/ x = "free" /\ here = "set_free" /\ v = Size /\ to = "set_full"
                 \/ x = "mutex" /\ here = "set_mutex" /\ v = 1 /\ to = "loop"
          BY <2>5, <3>4
        <4>2. RingAt(m, s, r)'
          BY <1>1, <2>1, <2>2, <3>2, <4>1, SetvalRing
        <4>3. QED
          BY <1>1, <4>2
      <3>5. QED
        BY <3>3, <3>4
    <2>6. QED
      BY <2>1, <2>4, <2>5
  <1>5. CASE /\ \/ ShmCreate(p) /\ segKey # None
                \/ ShmExisting(p) \/ Attach(p) \/ GetSemaphores(p) \/ NprocLoad(p) \/ NprocInc(p)
                   \/ InitStruct(p)
             /\ pc[p] \notin {"set_out", "set_in"}
    <2>1. PICK to \in {"shm_existing", "attach", "loop", "get_free_sem", "get_full_sem",
          "get_mutex",
                       "find_free_sem", "find_full_sem", "find_mutex",
                       "nproc_load", "nproc_inc", "set_size", "set_out", "set_free"} :
             pc' = [pc EXCEPT ![p] = to]
      BY <1>5 DEF ShmCreate, ShmExisting, Attach, GetSemaphores, _semget, NprocLoad, NprocInc,
         InitStruct, Goto
    <2>2. /\ pc[p] \in {"start"} \cup (InInit \ {"set_free", "set_full", "set_mutex"})
      BY <1>5 DEF ShmCreate, ShmExisting, Attach, GetSemaphores, _semget, NprocLoad, NprocInc,
         InitStruct, InInit
    <2>3. pc[p] = "start" => ~ fresh[p]
      BY DEF TypeInv, Place
    <2>4. UNCHANGED fresh /\ \A q \in Procs \ {p} : reg'[q] = reg[q]
      BY <1>5 DEF ShmCreate, ShmExisting, Attach, GetSemaphores, NprocLoad, NprocInc, InitStruct,
         locals, TypeInv, VarTypes
    <2>5. \A t \in SemNames : sem'[t].val <= sem[t].val
      <3>1. \A t \in SemNames : sem[t].val \in Nat
        BY DEF TypeInv, SemTypes
      <3>2. CASE GetSemaphores(p)
        <4>1. PICK x \in SemNames : \/ sem' = [sem EXCEPT ![x]
                                       = [id |-> @.id + 1, val |-> 0, there |-> TRUE]]
                                    \/ sem' = sem
          BY <3>2, GetSemaphoresFacts DEF Made, Found, Missed
        <4>2. CASE sem' = [sem EXCEPT ![x] = [id |-> @.id + 1, val |-> 0, there |-> TRUE]]
          <5>1. sem'[x].val = 0 /\ \A t \in SemNames \ {x} : sem'[t] = sem[t]
            BY <4>2 DEF TypeInv, SemTypes
          <5> SUFFICES ASSUME NEW t \in SemNames PROVE sem'[t].val <= sem[t].val
            OBVIOUS
          <5>2. CASE t = x
            BY <3>1, <5>1, <5>2
          <5>3. CASE t # x
            BY <3>1, <5>1, <5>3
          <5>4. QED
            BY <5>2, <5>3
        <4>3. QED
          BY <3>1, <4>1, <4>2
      <3>3. CASE ~ GetSemaphores(p)
        <4>1. sem' = sem
          BY <1>5, <3>3 DEF ShmCreate, ShmExisting, Attach, NprocLoad, NprocInc, InitStruct, kernel
        <4>2. QED
          BY <3>1, <4>1
      <3>4. QED
        BY <3>2, <3>3
    <2>6. /\ Len(segs') = Len(segs)
          /\ Len(segs) # 0 => segs'[1].in = segs[1].in /\ segs'[1].out = segs[1].out
             /\ segs'[1].buf = segs[1].buf
      <3>1. CASE NprocInc(p) \/ InitStruct(p)
        <4>1. pc[p] \in {"nproc_inc", "set_size", "set_nproc"}
          BY <1>5, <3>1 DEF NprocInc, InitStruct
        <4>2. QED
          BY <1>1, <3>1, <4>1, WriteLeaves
      <3>2. CASE ~ (NprocInc(p) \/ InitStruct(p))
        BY <1>5, <3>2 DEF ShmCreate, ShmExisting, Attach, GetSemaphores, NprocLoad, kernel
      <3>3. QED
        BY <3>1, <3>2
    <2>7. /\ to \in Labels \ (Calls \ {"get_full"}) /\ pc[p] # "killed" /\ pc[p] \notin Calls
          /\ pc[p] \notin {"set_full", "set_mutex"}
      BY <2>2 DEF Labels, Calls, InInit, InPut, InGet
    <2>8. fresh[p] => pc[p] \in InInit
      BY <2>2, <2>3
    <2>9. RingAt(m, s, r)'
      BY <1>1, <2>1, <2>4, <2>5, <2>6, <2>7, <2>8, QuietRing
    <2>10. QED
      BY <1>1, <2>9
  <1>6. QED
    BY <1>2, <1>3, <1>4, <1>5 DEF BufInit

(* buf_init.                                                                *)
LEMMA BufInitCalm ==
  ASSUME TypeInv, TypeInv', FaultInv, Life, Quits, NEW s, NEW r, Pair(s, r), NEW m \in Nat,
    RingAt(m, s, r),
         NEW p \in Procs, BufInit(p)
  PROVE  CalmParts(s, r)'
  <1>1. RingAt(m, s, r)' /\ UNCHANGED <<typed, c>>
    BY BufInitRing
  <1>2. Life'
    BY ShmLife, AttachLife, SemgetLife, InitLife DEF BufInit
  <1>3. pc[p] \in InInit \cup {"start"}
    BY DEF BufInit, ShmCreate, ShmExisting, Attach, GetSemaphores, _semget, NprocLoad, NprocInc,
       InitStruct, InitSemaphores,
           _setval, InInit
  <1>4. PICK to \in InInit \cup {"loop"} : pc' = [pc EXCEPT ![p] = to]
    <2> USE DEF InInit, Goto
    <2>1. CASE ShmCreate(p) \/ ShmExisting(p) \/ Attach(p)
      BY <2>1 DEF ShmCreate, ShmExisting, Attach
    <2>2. CASE GetSemaphores(p)
      BY <2>2 DEF GetSemaphores, _semget
    <2>3. CASE NprocLoad(p) \/ NprocInc(p) \/ InitStruct(p)
      BY <2>3 DEF NprocLoad, NprocInc, InitStruct
    <2>4. CASE InitSemaphores(p)
      BY <2>4 DEF InitSemaphores, _setval
    <2>5. QED
      BY <2>1, <2>2, <2>3, <2>4 DEF BufInit
  <1>5. /\ to \in Labels \ {"start"} /\ (to \in InInit => pc[p] \in InInit \cup {"start"})
        /\ to \notin InPut /\ pc[p] \notin InPut \cup Leaving
    BY <1>3 DEF Labels, InInit, InPut, Leaving, InDestroy, Ended
  <1>6. \A q \in Senders : c'[q] = c[q]
    BY <1>1
  <1>7. Quits'
    BY <1>1, <1>4, <1>5, <1>6, QuitsKept
  <1>8. QED
    BY <1>1, <1>2, <1>7 DEF CalmParts

(* buf_destroy, exit(), and a kill anywhere.                                *)
LEMMA LeaveCalm ==
  ASSUME TypeInv, TypeInv', Life, Quits, NEW s, NEW r, Pair(s, r), NEW m \in Nat, RingAt(m, s, r),
         NEW p \in Procs, BufDestroy(p) \/ Exit(p) \/ Crash(p)
  PROVE  CalmParts(s, r)'
  <1>1. PICK to \in Leaving \ {"nproc_read"} :
          /\ pc' = [pc EXCEPT ![p] = to] /\ (to # "killed" => pc[p] \in InDestroy)
          /\ pc[p] # "killed" /\ pc[p] # "start"
    <2> USE DEF Leaving, InDestroy, Ended, Goto
    <2>1. CASE NprocRead(p) \/ NprocDec(p) \/ ShmRmid(p) \/ Detach(p)
      BY <2>1 DEF NprocRead, NprocDec, ShmRmid, Detach
    <2>2. CASE RemoveSemaphores(p)
      BY <2>2 DEF RemoveSemaphores, _semrmid
    <2>3. CASE Exit(p) \/ Crash(p)
      BY <2>3 DEF Exit, Crash, End
    <2>4. QED
      BY <2>1, <2>2, <2>3 DEF BufDestroy
  <1>2. Life'
    BY LeaveLife, RemoveLife, EndLife DEF BufDestroy
  <1>3. UNCHANGED <<typed, got, c, fresh>> /\ \A q \in Procs \ {p} : reg'[q] = reg[q]
    <2>1. CASE BufDestroy(p)
      BY <2>1 DEF BufDestroy, NprocRead, NprocDec, ShmRmid, Detach, RemoveSemaphores, locals,
         history, TypeInv, VarTypes
    <2>2. CASE Exit(p) \/ Crash(p)
      BY <2>2 DEF Exit, Crash, End, locals
    <2>3. QED
      BY <2>1, <2>2
  <1>4. \A x \in SemNames : sem'[x].val <= sem[x].val
    <2>1. \A x \in SemNames : sem[x].val \in Nat
      BY DEF TypeInv, SemTypes
    <2>2. CASE Exit(p) \/ Crash(p)
      BY <2>1, <2>2, EndLife
    <2>3. CASE RemoveSemaphores(p)
      <3>1. PICK x \in SemNames :
              \/ /\ sem' = [sem EXCEPT ![x] = [id |-> sem[x].id, val |-> 0, there |-> FALSE]]
                 /\ semadj' = [q \in Procs |-> [semadj[q] EXCEPT ![x] = 0]]
              \/ sem' = sem
        BY <2>3, RemoveSemaphoresFacts
      <3>2. CASE /\ sem' = [sem EXCEPT ![x] = [id |-> sem[x].id, val |-> 0, there |-> FALSE]]
                 /\ semadj' = [q \in Procs |-> [semadj[q] EXCEPT ![x] = 0]]
        <4>1. 0 \in Nat /\ FALSE \in BOOLEAN
          OBVIOUS
        <4>2. sem'[x].val = 0 /\ \A t \in SemNames \ {x} : sem'[t] = sem[t]
          BY <3>2, <4>1, SetvalFacts
        <4> SUFFICES ASSUME NEW t \in SemNames PROVE sem'[t].val <= sem[t].val
          OBVIOUS
        <4>3. CASE t = x
          BY <2>1, <4>2, <4>3
        <4>4. CASE t # x
          BY <2>1, <4>2, <4>4
        <4>5. QED
          BY <4>3, <4>4
      <3>3. QED
        BY <2>1, <3>1, <3>2
    <2>4. CASE NprocRead(p) \/ NprocDec(p) \/ ShmRmid(p) \/ Detach(p)
      <3>1. sem' = sem
        BY <2>4 DEF NprocRead, NprocDec, ShmRmid, Detach, kernel
      <3>2. QED
        BY <2>1, <3>1
    <2>5. QED
      BY <2>2, <2>3, <2>4 DEF BufDestroy
  <1>5. /\ Len(segs') = Len(segs)
        /\ Len(segs) # 0 => segs'[1].in = segs[1].in /\ segs'[1].out = segs[1].out
           /\ segs'[1].buf = segs[1].buf
    <2>1. segs \in Seq(Segment) /\ Len(segs) \in Nat
      BY DEF TypeInv, SegTypes
    <2>2. CASE NprocDec(p)
      <3>1. pc[p] = "nproc_dec"
        BY <2>2 DEF NprocDec
      <3>2. QED
        BY <2>1, <2>2, <3>1, WriteLeaves
    <2>3. CASE ShmRmid(p)
      <3>1. Write(p, "removed", TRUE) /\ TRUE \in BOOLEAN /\ pc[p] \in Mapped
        BY <2>3 DEF ShmRmid, Mapped
      <3>2. attached[p] \in 1 .. Len(segs) /\ Seg(p) = segs[attached[p]] /\ Seg(p) \in Segment
        BY <3>1, OwnSegment DEF Seg
      <3>3. /\ Len(segs') = Len(segs) /\ segs'[attached[p]] = [Seg(p) EXCEPT !.removed = TRUE]
            /\ \A g \in 1 .. Len(segs) : g # attached[p] => segs'[g] = segs[g]
        BY <3>1, WroteRemoved
      <3>4. /\ segs'[attached[p]].in = Seg(p).in /\ segs'[attached[p]].out = Seg(p).out
            /\ segs'[attached[p]].buf = Seg(p).buf
        BY <3>2, <3>3 DEF Segment
      <3>5. \A g \in 1 .. Len(segs) : segs'[g].in = segs[g].in /\ segs'[g].out = segs[g].out
            /\ segs'[g].buf = segs[g].buf
        BY <3>2, <3>3, <3>4
      <3>6. Len(segs) # 0 => 1 \in 1 .. Len(segs)
        BY <2>1
      <3>7. QED
        BY <3>3, <3>5, <3>6
    <2>4. CASE NprocRead(p) \/ Detach(p) \/ RemoveSemaphores(p) \/ Exit(p) \/ Crash(p)
      BY <2>4 DEF NprocRead, Detach, RemoveSemaphores, Exit, Crash, End, kernel
    <2>5. QED
      BY <2>2, <2>3, <2>4 DEF BufDestroy
  <1>6. /\ to \in Labels \ (Calls \ {"get_full"}) /\ to \in Labels \ {"start"} /\ to \notin InInit
           /\ to \notin InPut
        /\ pc[p] \notin Calls \/ to = "killed"
    BY <1>1 DEF Labels, Calls, InInit, InPut, InGet, Leaving, InDestroy, Ended
  <1>7. RingAt(m, s, r)'
    BY <1>1, <1>3, <1>4, <1>5, <1>6, QuietRing
  <1>8. Quits'
    <2>1. \A q \in Senders : c'[q] = c[q]
      BY <1>3
    <2>2. to \in InPut \cup Leaving
      BY <1>1
    <2>3. QED
      BY <1>1, <1>3, <1>6, <2>1, <2>2, QuitsKept
  <1>9. QED
    BY <1>2, <1>7, <1>8 DEF CalmParts

(* A session that is calm was calm.                                         *)
LEMMA CalmBefore ==
  ASSUME NEW p \in Procs, Run(p) \/ Crash(p), Calm'
  PROVE  Calm
  <1>1. ASSUME NEW x, NEW d, NEW next, _semop(p, x, d, next)
        PROVE  breaches \subseteq breaches'
    BY <1>1 DEF _semop, Note
  <1>2. CASE p \in Senders /\ Send(p)
    <2>1. Type(p) => breaches \subseteq breaches'
      BY DEF Type, Note
    <2>2. PutFree(p) \/ PutLock(p) \/ PutUnlock(p) \/ PutFull(p) => breaches \subseteq breaches'
      BY <1>1 DEF PutFree, PutLock, PutUnlock, PutFull
    <2>3. PutNext(p) \/ PutStore(p) \/ PutIn(p) => breaches' = breaches
      BY DEF PutNext, PutStore, PutIn, history
    <2>4. QED
      BY <1>2, <2>1, <2>2, <2>3 DEF Send, Calm
  <1>3. CASE p \in Receivers /\ Receive(p)
    <2>1. GetFull(p) \/ GetLock(p) \/ GetUnlock(p) \/ GetFree(p) => breaches \subseteq breaches'
      BY <1>1 DEF GetFull, GetLock, GetUnlock, GetFree
    <2>2. CallGet(p) \/ GetFetch(p) \/ GetOut(p) => breaches' = breaches
      BY DEF CallGet, GetFetch, GetOut, history
    <2>3. QED
      BY <1>3, <2>1, <2>2 DEF Receive, Calm
  <1>4. CASE BufInit(p)
    <2>1. ShmCreate(p) => breaches \subseteq breaches'
      BY DEF ShmCreate, Note
    <2>2. ShmExisting(p) \/ Attach(p) \/ GetSemaphores(p) \/ NprocLoad(p) \/ NprocInc(p)
            \/ InitStruct(p) \/ InitSemaphores(p) => breaches' = breaches
      BY DEF ShmExisting, Attach, GetSemaphores, NprocLoad, NprocInc, InitStruct, InitSemaphores,
         history
    <2>3. QED
      BY <1>4, <2>1, <2>2 DEF BufInit, Calm
  <1>5. CASE BufDestroy(p) \/ Exit(p) \/ Crash(p)
    <2>1. breaches' = breaches
      BY <1>5 DEF BufDestroy, NprocRead, NprocDec, ShmRmid, Detach, RemoveSemaphores, Exit, Crash,
         End, history
    <2>2. QED
      BY <2>1 DEF Calm
  <1>6. QED
    BY <1>2, <1>3, <1>4, <1>5 DEF Run

(* CalmInv is inductive, one case for each action.                          *)
LEMMA StepCalm ==
  ASSUME NEW s, NEW r, Pair(s, r)
  PROVE  TypeInv /\ FaultInv /\ CalmInv(s, r) /\ [Next]_vars => CalmInv(s, r)'
  <1> SUFFICES ASSUME TypeInv, FaultInv, CalmInv(s, r), [Next]_vars, Calm' PROVE CalmParts(s, r)'
    BY DEF CalmInv, CalmParts
  <1>1. TypeInv'
    BY StepTypeInv
  <1>2. CASE UNCHANGED vars
    BY <1>2 DEF vars, CalmInv, CalmParts, Calm, Life, Quits, RingAt, Counts, Slots, Opening,
       Launching
  <1>3. ASSUME NEW p \in Procs, Run(p) \/ Crash(p) PROVE CalmParts(s, r)'
    <2>1. Calm
      BY <1>3, CalmBefore
    <2>2. Life /\ Quits
      BY <2>1 DEF CalmInv, CalmParts
    <2>3. PICK m \in Nat : RingAt(m, s, r)
      BY <2>1 DEF CalmInv, CalmParts
    <2>4. CASE BufInit(p)
      BY <1>1, <2>2, <2>3, <2>4, BufInitCalm
    <2>5. CASE BufDestroy(p) \/ Exit(p) \/ Crash(p)
      BY <1>1, <2>2, <2>3, <2>5, LeaveCalm
    <2>6. CASE p \in Senders /\ Send(p)
      <3>1. p = s
        BY <2>6 DEF Pair
      <3>2. CASE PutFree(p) \/ PutLock(p) \/ PutUnlock(p) \/ PutFull(p)
        BY <1>1, <2>2, <2>3, <3>1, <3>2, SemopCalm DEF CalmParts
      <3>3. CASE Type(p) \/ PutNext(p) \/ PutStore(p) \/ PutIn(p)
        BY <1>1, <2>2, <2>3, <3>1, <3>3, LoopCalm DEF CalmParts
      <3>4. QED
        BY <2>6, <3>2, <3>3 DEF Send
    <2>7. CASE p \in Receivers /\ Receive(p)
      <3>1. p = r
        BY <2>7 DEF Pair
      <3>2. CASE GetFull(p) \/ GetLock(p) \/ GetUnlock(p) \/ GetFree(p)
        BY <1>1, <2>2, <2>3, <3>1, <3>2, SemopCalm DEF CalmParts
      <3>3. CASE CallGet(p) \/ GetFetch(p) \/ GetOut(p)
        BY <1>1, <2>2, <2>3, <3>1, <3>3, LoopCalm DEF CalmParts
      <3>4. QED
        BY <2>7, <3>2, <3>3 DEF Receive
    <2>8. QED
      BY <1>3, <2>4, <2>5, <2>6, <2>7 DEF Run
  <1>4. QED
    BY <1>2, <1>3 DEF Next

(* At the beginning nothing was typed.                                      *)
LEMMA InitCalm ==
  ASSUME NEW s, NEW r, Pair(s, r)
  PROVE  Init => CalmInv(s, r) /\ StoppedAfterQuit(s, r)
  <1> SUFFICES ASSUME Init PROVE CalmInv(s, r) /\ StoppedAfterQuit(s, r)
    OBVIOUS
  <1>1. s \in Senders /\ r \in Receivers /\ s \in Procs /\ r \in Procs /\ Size \in Nat \ {0}
    BY BoundAssumption DEF Pair, Procs
  <1>2. /\ segKey = 0 /\ segs = <<>> /\ Len(segs) = 0
        /\ \A p \in Procs : pc[p] = "start" /\ ~ fresh[p]
        /\ \A p \in Procs, x \in SemNames : semadj[p][x] = 0
        /\ \A x \in SemNames : sem[x].id = 0 /\ sem[x].val = 0
        /\ typed[s] = <<>> /\ got[r] = <<>> /\ \A p \in Senders : typed[p] = <<>>
    BY <1>1 DEF Init, None
  <1>3. /\ "start" \notin Leaving /\ "start" \notin Gone /\ "start" \notin Ring \cup {"nproc_read"}
           /\ "start" \notin InPut
        /\ \A x \in SemNames : "start" \in Before(x) \ {Find(x)}
    BY DEF Leaving, InDestroy, Ended, Gone, Ring, InPut, InGet, Before, Find, SemNames
  <1>4. Life
    <2>1. \A p \in Senders \cup Receivers : pc[p] = "start"
      BY <1>2 DEF Procs
    <2>2. QED
      BY <1>2, <1>3, <2>1 DEF Life
  <1>5. Quits
    BY <1>2, <1>3 DEF Quits, Procs
  <1>6. RingAt(0, s, r)
    <2>1. \A L \in {Filling, FreeHeld, FullOwed, PutInside, Fetched, FullHeld, GetInside} :
            One(pc[s], L) = 0 /\ One(pc[r], L) = 0
      BY <1>1, <1>2 DEF One, Filling, FreeHeld, FullOwed, PutInside, Fetched, FullHeld, GetInside
    <2>2. /\ sem["free"].val = 0 /\ sem["full"].val = 0 /\ sem["mutex"].val = 0
             /\ Len(typed[s]) = 0 /\ Len(got[r]) = 0
      BY <1>2 DEF SemNames
    <2>3. Counts(0, s, r)
      <3>1. /\ One(pc[s], Filling) = 0 /\ One(pc[s], FreeHeld) = 0 /\ One(pc[s], FullOwed) = 0
            /\ One(pc[s], PutInside) = 0 /\ One(pc[r], Fetched) = 0 /\ One(pc[r], FullHeld) = 0
            /\ One(pc[r], GetInside) = 0
        BY <2>1
      <3>2. QED
        BY <1>1, <2>2, <3>1 DEF Counts
    <2>4. Slots(0, s, r)
      <3>1. pc[s] \notin {"put_lock", "put_store", "put_in"} /\ pc[r] \notin Fetched
        BY <1>1, <1>2 DEF Fetched
      <3>2. IsPrefixOf(got[r], typed[s])
        BY <1>2 DEF IsPrefixOf
      <3>3. QED
        BY <1>2, <3>1, <3>2 DEF Slots
    <2>5. Opening(0, s, r)
      BY <1>2 DEF Opening
    <2>6. QED
      BY <2>3, <2>4, <2>5 DEF RingAt
  <1>7. StoppedAfterQuit(s, r)
    BY <1>1, <1>2, <1>3 DEF StoppedAfterQuit
  <1>8. QED
    BY <1>4, <1>5, <1>6, <1>7 DEF CalmInv, CalmParts

(* In an orderly session no call fails: a receiver stops after a Quit.      *)
LEMMA StepStopped ==
  ASSUME NEW s, NEW r, Pair(s, r)
  PROVE  TypeInv /\ OrderlyInv /\ CalmInv(s, r) /\ StoppedAfterQuit(s, r) /\ [Next]_vars
           => StoppedAfterQuit(s, r)'
  <1> SUFFICES ASSUME TypeInv, OrderlyInv, CalmInv(s, r), StoppedAfterQuit(s, r), [Next]_vars,
                      Orderly', pc'[r] \in Leaving
               PROVE  Len(got'[r]) > 0 /\ got'[r][Len(got'[r])] = Quit
    BY DEF StoppedAfterQuit
  <1>1. CASE UNCHANGED vars
    BY <1>1 DEF vars, StoppedAfterQuit, Orderly
  <1>2. ASSUME NEW p \in Procs, Run(p) \/ Crash(p)
        PROVE  Len(got'[r]) > 0 /\ got'[r][Len(got'[r])] = Quit
    <2>1. Orderly /\ ~ Crash(p) /\ Calm /\ Calm'
      BY <1>2, OrderlyBefore DEF Orderly, Calm
    <2>2. Parts /\ Life
      BY <2>1 DEF OrderlyInv, CalmInv, CalmParts
    <2>3. PICK m \in Nat : RingAt(m, s, r)
      BY <2>1 DEF CalmInv, CalmParts
    <2>4. s \in Procs /\ r \in Procs /\ s # r /\ r \in Receivers /\ Receivers = {r}
          /\ Senders = {s} /\ r \notin Senders
      BY PairTypes DEF Pair
    <2>5. \/ BufInit(p) \/ BufDestroy(p) \/ Exit(p)
          \/ p = s /\ Send(p)
          \/ p = r /\ Receive(p)
      BY <1>2, <2>1 DEF Run, Pair
    <2>6. ASSUME ~ (p = r /\ GetFetch(p)) PROVE got' = got
      <3>1. CASE BufInit(p)
        BY <3>1 DEF BufInit, ShmCreate, ShmExisting, Attach, GetSemaphores, NprocLoad, NprocInc,
           InitStruct, InitSemaphores, history
      <3>2. CASE BufDestroy(p) \/ Exit(p)
        BY <3>2 DEF BufDestroy, NprocRead, NprocDec, ShmRmid, Detach, RemoveSemaphores, Exit, End,
           history
      <3>3. CASE p = s /\ Send(p)
        BY <3>3 DEF Send, Type, PutFree, PutNext, PutLock, PutStore, PutIn, PutUnlock, PutFull,
           _semop, history
      <3>4. CASE p = r /\ Receive(p)
        BY <2>6, <3>4 DEF Receive, CallGet, GetFull, GetLock, GetOut, GetUnlock, GetFree, _semop,
           history
      <3>5. QED
        BY <2>5, <3>1, <3>2, <3>3, <3>4
    <2>7. CASE pc[r] \in Leaving
      <3>1. ~ GetFetch(r)
        BY <2>7 DEF GetFetch, Leaving, InDestroy, Ended
      <3>2. got' = got
        BY <2>6, <3>1
      <3>3. QED
        BY <2>1, <2>7, <3>2 DEF StoppedAfterQuit
    <2>8. CASE pc[r] \notin Leaving
      <3>1. p = r
        <4> SUFFICES ASSUME p # r PROVE pc'[r] = pc[r]
          BY <2>8
        <4>1. CASE BufInit(p)
          BY <2>4, <4>1 DEF BufInit, ShmCreate, ShmExisting, Attach, GetSemaphores, _semget,
             NprocLoad, NprocInc, InitStruct,
             InitSemaphores, _setval, Goto, TypeInv, VarTypes
        <4>2. CASE BufDestroy(p) \/ Exit(p)
          BY <2>4, <4>2 DEF BufDestroy, NprocRead, NprocDec, ShmRmid, Detach, RemoveSemaphores,
             _semrmid, Exit, End, Goto,
             TypeInv, VarTypes
        <4>3. CASE Send(p)
          BY <2>4, <4>3 DEF Send, Type, PutFree, PutNext, PutLock, PutStore, PutIn, PutUnlock,
             PutFull, _semop, Goto,
             TypeInv, VarTypes
        <4>4. QED
          BY <2>5, <4>1, <4>2, <4>3
      <3>2. ~ BufInit(r)
        <4> SUFFICES ASSUME BufInit(r) PROVE pc'[r] \in InInit \cup {"loop"}
          BY DEF InInit, Leaving, InDestroy, Ended
        <4> USE DEF InInit, Goto, TypeInv, VarTypes
        <4>1. CASE ShmCreate(r) \/ ShmExisting(r) \/ Attach(r)
          BY <2>4, <4>1 DEF ShmCreate, ShmExisting, Attach
        <4>2. CASE GetSemaphores(r)
          BY <2>4, <4>2 DEF GetSemaphores, _semget
        <4>3. CASE NprocLoad(r) \/ NprocInc(r) \/ InitStruct(r)
          BY <2>4, <4>3 DEF NprocLoad, NprocInc, InitStruct
        <4>4. CASE InitSemaphores(r)
          BY <2>4, <4>4 DEF InitSemaphores, _setval
        <4>5. QED
          BY <4>1, <4>2, <4>3, <4>4 DEF BufInit
      <3>3. ~ BufDestroy(r) /\ ~ Exit(r)
        BY <2>8 DEF BufDestroy, NprocRead, NprocDec, ShmRmid, Detach, RemoveSemaphores, _semrmid,
           Exit, Leaving, InDestroy
      <3>4. Receive(r)
        BY <2>4, <2>5, <3>1, <3>2, <3>3
      <3>5. ~ (CallGet(r) \/ GetFetch(r) \/ GetOut(r))
        <4> SUFFICES ASSUME CallGet(r) \/ GetFetch(r) \/ GetOut(r) PROVE pc'[r] \in InGet
          BY DEF InGet, Leaving, InDestroy, Ended
        <4>1. pc[r] = "loop" => attached[r] # None
          BY <2>2, <2>4 DEF Life, Ring
        <4>2. QED
          BY <2>4, <4>1 DEF CallGet, GetFetch, GetOut, Goto, IS_MEM_OK, TypeInv, VarTypes, InGet
      <3>6. PICK here \in Calls, x \in SemNames, d \in {-1, 1},
                 to \in {"put_next", "put_store", "put_full", "get_lock", "get_fetch", "get_free",
                   "loop", "nproc_read"} :
              SemopCase(r, s, r, here, x, d, to)
        <4>1. GetFull(r) \/ GetLock(r) \/ GetUnlock(r) \/ GetFree(r)
          BY <3>4, <3>5 DEF Receive
        <4>2. QED
          BY <2>1, <2>2, <2>4, <4>1, SemopCases
      <3>7. /\ pc[r] = here /\ pc'[r] = to /\ (to = "nproc_read" => c[r] = Quit)
            /\ Passing(r, s, r, here, x, d, to) \/ ~ Valid(r, x)
        BY <2>4, <3>6 DEF SemopCase, AfterCall, TypeInv, VarTypes
      <3>8. to = "nproc_read"
        BY <3>7 DEF Leaving, InDestroy, Ended
      <3>9. Valid(r, x)
        <4>1. pc[r] \in Counted \cup InInit /\ pc[r] \notin Before(x)
          BY <3>7 DEF Counted, Calls, InPut, InGet, Before
        <4>2. QED
          BY <2>2, <2>4, <4>1, Validity
      <3>10. pc[r] \in Fetched
        BY <2>4, <3>7, <3>8, <3>9 DEF Passing, Fetched
      <3>11. Len(got[r]) > 0 /\ c[r] = got[r][Len(got[r])]
        BY <2>3, <3>10 DEF RingAt, Slots
      <3>12. got' = got
        BY <2>6, <3>1, <3>5
      <3>13. QED
        BY <3>7, <3>8, <3>11, <3>12
    <2>9. QED
      BY <2>7, <2>8
  <1>3. QED
    BY <1>1, <1>2 DEF Next

(* A sender and a receiver, for any size of the ring, any alphabet and any  *)
(* kills, started in any order or together: as long as nobody types a Quit  *)
(* before the other is there and no call has a flag, what buf_get (lines    *)
(* 190-234) hands to the receiver is what buf_put (lines 144-188) was       *)
(* given, nothing lost, repeated or reordered, whatever was killed in       *)
(* between; and in an orderly session a receiver that has left its loop has *)
(* it all.                                                                  *)
THEOREM DeliveredToOne ==
  ASSUME NEW s, NEW r, Pair(s, r)
  PROVE  Spec => []AllDelivered
  <1> DEFINE I == TypeInv /\ OrderlyInv /\ FaultInv /\ CalmInv(s, r) /\ StoppedAfterQuit(s, r)
  <1>1. TwoPrograms
    BY DEF TwoPrograms, Pair, Procs
  <1>2. Init => I
    BY InitTypeInv, InitParts, InitFault, InitCalm DEF OrderlyInv
  <1>3. I /\ [Next]_vars => I'
    BY <1>1, StepTypeInv, StepOrderlyInv, StepFault, StepCalm, StepStopped
  <1>4. I => AllDelivered
    <2> SUFFICES ASSUME I
                 PROVE  /\ Calm => IsPrefixOf(got[r], typed[s])
                        /\ Orderly /\ pc[r] = "done" => got[r] = typed[s]
      BY DEF AllDelivered, Calm, Pair
    <2>1. ASSUME Calm PROVE IsPrefixOf(got[r], typed[s])
      <3>1. PICK m \in Nat : RingAt(m, s, r)
        BY <2>1 DEF CalmInv, CalmParts
      <3>2. QED
        BY <3>1 DEF RingAt, Slots
    <2>2. ASSUME Orderly, pc[r] = "done" PROVE got[r] = typed[s]
      <3>1. Calm /\ pc[r] \in Leaving
        BY <2>2 DEF Orderly, Calm, Leaving, Ended
      <3>2. Quits
        BY <3>1 DEF CalmInv, CalmParts
      <3>3. PICK m \in Nat : RingAt(m, s, r)
        BY <3>1 DEF CalmInv, CalmParts
      <3>4. Len(got[r]) > 0 /\ got[r][Len(got[r])] = Quit
        BY <2>2, <3>1 DEF StoppedAfterQuit
      <3>5. QED
        BY <3>2, <3>3, <3>4, LastCharacter
    <2>3. QED
      BY <2>1, <2>2
  <1>5. QED
    BY <1>2, <1>3, <1>4, PTL DEF Spec
================================================================================
