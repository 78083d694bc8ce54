----------------------------- MODULE SemRingProofs -----------------------------
(***************************************************************************)
(* Machine-checked theorems about SemRing, for every number of processes,  *)
(* every size of the ring, every alphabet and whatever sem_flg holds.      *)
(***************************************************************************)
EXTENDS SemRing, FiniteSetTheorems, TLAPS

(* Advancing an index modulo Size is a conditional reset. *)
LEMMA ModSucc ==
  ASSUME NEW i \in 0 .. Size - 1
  PROVE  (i + 1) % Size = Wrap(i + 1) /\ (i + 1) % Size \in 0 .. Size - 1
  <1>1. CASE i + 1 < Size
    BY <1>1, SizeAssumption DEF Wrap
  <1>2. CASE i + 1 = Size
    BY <1>2, SizeAssumption DEF Wrap
  <1>3. QED
    BY <1>1, <1>2, SizeAssumption

--------------------------------------------------------------------------------
LEMMA InitTypeOK == Init => TypeOK
  BY ProcessAssumption, SizeAssumption
  DEF Init, TypeOK, Procs, PutLabels, GetLabels

(* Whatever its flags, a semop by -1 leaves a natural number in the semaphore *)
(* and moves the process to its next step or out of the call.                 *)
LEMMA SemdownTypeOK ==
  ASSUME TypeOK, NEW s \in {"free", "full", "mutex"}, NEW p \in Procs, NEW label,
         p \in Producers => label \in PutLabels /\ c[p] \in Data,
         p \in Consumers => label \in GetLabels,
         _semdown(s, p, label), UNCHANGED <<shm, nextPos, c, history>>
  PROVE  TypeOK'
  <1> USE DEF TypeOK, Procs, PutLabels, GetLabels, shm, history, Goto
  <1>1. CASE sem[s] > 0 /\ sem' = [sem EXCEPT ![s] = @ - 1] /\ Goto(p, label)
             /\ UNCHANGED refused
    BY <1>1
  <1>2. CASE Goto(p, "idle") /\ refused' = refused \cup {p} /\ UNCHANGED sem
    BY <1>2
  <1>3. QED
    BY <1>1, <1>2 DEF _semdown

LEMMA StepTypeOK == TypeOK /\ [Next]_vars => TypeOK'
  <1> SUFFICES ASSUME TypeOK, [Next]_vars PROVE TypeOK'
    OBVIOUS
  <1> USE ProcessAssumption, SizeAssumption, BoundAssumption
      DEF TypeOK, Procs, PutLabels, GetLabels, shm, history, Goto
  <1>1. ASSUME NEW p \in Producers, PutCall(p) PROVE TypeOK'
    BY <1>1 DEF PutCall
  <1>2. ASSUME NEW p \in Producers, PutFree(p) PROVE TypeOK'
    BY <1>2, SemdownTypeOK DEF PutFree
  <1>3. ASSUME NEW p \in Producers, PutNext(p) PROVE TypeOK'
    BY <1>3, ModSucc DEF PutNext
  <1>4. ASSUME NEW p \in Producers, PutLock(p) PROVE TypeOK'
    BY <1>4, SemdownTypeOK DEF PutLock
  <1>5. ASSUME NEW p \in Producers, PutStore(p) PROVE TypeOK'
    BY <1>5 DEF PutStore
  <1>6. ASSUME NEW p \in Producers, PutIn(p) PROVE TypeOK'
    BY <1>6 DEF PutIn
  <1>7. ASSUME NEW p \in Producers, PutUnlock(p) PROVE TypeOK'
    BY <1>7 DEF PutUnlock, _semup
  <1>8. ASSUME NEW p \in Producers, PutFull(p) PROVE TypeOK'
    BY <1>8 DEF PutFull, _semup
  <1>9. ASSUME NEW p \in Consumers, GetFull(p) PROVE TypeOK'
    BY <1>9, SemdownTypeOK DEF GetFull
  <1>10. ASSUME NEW p \in Consumers, GetLock(p) PROVE TypeOK'
    BY <1>10, SemdownTypeOK DEF GetLock
  <1>11. ASSUME NEW p \in Consumers, GetFetch(p) PROVE TypeOK'
    BY <1>11 DEF GetFetch
  <1>12. ASSUME NEW p \in Consumers, GetOut(p) PROVE TypeOK'
    BY <1>12, ModSucc DEF GetOut
  <1>13. ASSUME NEW p \in Consumers, GetUnlock(p) PROVE TypeOK'
    BY <1>13 DEF GetUnlock, _semup
  <1>14. ASSUME NEW p \in Consumers, GetFree(p) PROVE TypeOK'
    BY <1>14 DEF GetFree, _semup
  <1>15. CASE UNCHANGED vars
    BY <1>15 DEF vars
  <1>16. QED
    BY <1>1, <1>2, <1>3, <1>4, <1>5, <1>6, <1>7, <1>8, <1>9, <1>10, <1>11,
       <1>12, <1>13, <1>14, <1>15 DEF Next, PutStep, GetStep

(* Type correctness of the ring, its semaphores and every call's locals. *)
THEOREM TypeCorrect == Spec => []TypeOK
  BY InitTypeOK, StepTypeOK, PTL DEF Spec

--------------------------------------------------------------------------------
(* Mutual exclusion.                                                         *)

(* A step that neither enters nor leaves the critical section, and does not  *)
(* touch the mutex, keeps MutexInv.                                          *)
LEMMA MutexKept ==
  ASSUME TypeOK, MutexInv, NEW p \in Procs, NEW label, Goto(p, label),
         pc[p] \in CSLabels <=> label \in CSLabels,
         sem'["mutex"] = sem["mutex"]
  PROVE  MutexInv'
  <1>1. InCS' = InCS
    BY DEF TypeOK, Goto, InCS
  <1>2. QED
    BY <1>1 DEF MutexInv, MutualExclusion

LEMMA MutexTaken ==
  ASSUME TypeOK, MutexInv, NEW p \in Procs, NEW label \in CSLabels,
         pc[p] \notin CSLabels, _semdown("mutex", p, label)
  PROVE  MutexInv'
  <1>1. CASE sem["mutex"] > 0 /\ sem' = [sem EXCEPT !["mutex"] = @ - 1]
             /\ Goto(p, label)
    <2>1. sem["mutex"] = 1 /\ InCS = {}
      BY <1>1 DEF MutexInv, TypeOK
    <2>2. InCS' = {p}
      BY <1>1, <2>1 DEF TypeOK, Goto, InCS
    <2>3. sem'["mutex"] = 0
      BY <1>1, <2>1 DEF TypeOK
    <2>4. QED
      BY <2>2, <2>3 DEF MutexInv, MutualExclusion
  <1>2. CASE Goto(p, "idle") /\ UNCHANGED sem
    BY <1>2, MutexKept, "idle" \notin CSLabels DEF CSLabels
  <1>3. QED
    BY <1>1, <1>2 DEF _semdown

LEMMA MutexReleased ==
  ASSUME TypeOK, MutexInv, NEW p \in Procs, NEW label,
         pc[p] \in CSLabels, label \notin CSLabels, _semup("mutex", p, label)
  PROVE  MutexInv'
  <1>1. InCS = {p}
    BY DEF MutexInv, MutualExclusion, InCS
  <1>2. sem["mutex"] = 0
    BY <1>1 DEF MutexInv
  <1>3. InCS' = {}
    BY <1>1 DEF _semup, Goto, TypeOK, InCS
  <1>4. sem'["mutex"] = 1
    BY <1>2 DEF _semup, TypeOK
  <1>5. QED
    BY <1>3, <1>4 DEF MutexInv, MutualExclusion

(* A semop by -1 on another semaphore, outside the critical section. *)
LEMMA MutexAside ==
  ASSUME TypeOK, MutexInv, NEW p \in Procs, NEW label, NEW s \in {"free", "full"},
         pc[p] \notin CSLabels, label \notin CSLabels, _semdown(s, p, label)
  PROVE  MutexInv'
  <1>1. "idle" \notin CSLabels
    BY DEF CSLabels
  <1>2. sem'["mutex"] = sem["mutex"]
    BY DEF _semdown, TypeOK
  <1>3. Goto(p, label) \/ Goto(p, "idle")
    BY DEF _semdown
  <1>4. QED
    BY <1>1, <1>2, <1>3, MutexKept

LEMMA InitMutexInv == Init => MutexInv
  BY DEF Init, MutexInv, MutualExclusion, InCS, CSLabels

LEMMA StepMutexInv == TypeOK /\ MutexInv /\ [Next]_vars => MutexInv'
  <1> SUFFICES ASSUME TypeOK, MutexInv, [Next]_vars PROVE MutexInv'
    OBVIOUS
  <1> USE DEF Procs, CSLabels
  <1>1. ASSUME NEW p \in Producers, PutCall(p) PROVE MutexInv'
    BY <1>1, MutexKept DEF PutCall
  <1>2. ASSUME NEW p \in Producers, PutFree(p) PROVE MutexInv'
    BY <1>2, MutexAside DEF PutFree
  <1>3. ASSUME NEW p \in Producers, PutNext(p) PROVE MutexInv'
    BY <1>3, MutexKept DEF PutNext
  <1>4. ASSUME NEW p \in Producers, PutLock(p) PROVE MutexInv'
    BY <1>4, MutexTaken DEF PutLock
  <1>5. ASSUME NEW p \in Producers, PutStore(p) PROVE MutexInv'
    BY <1>5, MutexKept DEF PutStore
  <1>6. ASSUME NEW p \in Producers, PutIn(p) PROVE MutexInv'
    BY <1>6, MutexKept DEF PutIn
  <1>7. ASSUME NEW p \in Producers, PutUnlock(p) PROVE MutexInv'
    BY <1>7, MutexReleased DEF PutUnlock
  <1>8. ASSUME NEW p \in Producers, PutFull(p) PROVE MutexInv'
    BY <1>8, MutexKept DEF PutFull, _semup, TypeOK
  <1>9. ASSUME NEW p \in Consumers, GetFull(p) PROVE MutexInv'
    BY <1>9, MutexAside DEF GetFull
  <1>10. ASSUME NEW p \in Consumers, GetLock(p) PROVE MutexInv'
    BY <1>10, MutexTaken DEF GetLock
  <1>11. ASSUME NEW p \in Consumers, GetFetch(p) PROVE MutexInv'
    BY <1>11, MutexKept DEF GetFetch
  <1>12. ASSUME NEW p \in Consumers, GetOut(p) PROVE MutexInv'
    BY <1>12, MutexKept DEF GetOut
  <1>13. ASSUME NEW p \in Consumers, GetUnlock(p) PROVE MutexInv'
    BY <1>13, MutexReleased DEF GetUnlock
  <1>14. ASSUME NEW p \in Consumers, GetFree(p) PROVE MutexInv'
    BY <1>14, MutexKept DEF GetFree, _semup, TypeOK
  <1>15. CASE UNCHANGED vars
    BY <1>15 DEF vars, MutexInv, MutualExclusion, InCS
  <1>16. QED
    BY <1>1, <1>2, <1>3, <1>4, <1>5, <1>6, <1>7, <1>8, <1>9, <1>10, <1>11,
       <1>12, <1>13, <1>14, <1>15 DEF Next, PutStep, GetStep

(* The critical sections of buf_put and buf_get exclude each other, for any  *)
(* number of producers and consumers and whatever flags semop is called with.*)
THEOREM CriticalSectionsExclude == Spec => []MutualExclusion
  <1>1. Spec => [](TypeOK /\ MutexInv)
    BY InitTypeOK, StepTypeOK, InitMutexInv, StepMutexInv, PTL DEF Spec
  <1>2. TypeOK /\ MutexInv => MutualExclusion
    BY DEF MutexInv
  <1>3. QED
    BY <1>1, <1>2, PTL

--------------------------------------------------------------------------------
(* What the semaphores promise.                                              *)

(* What x contributes to a count of the members of L. *)
OneIf(x, L) == IF x \in L THEN 1 ELSE 0

(* The members of S that f places in L. *)
Found(S, f, L) == {q \in S : f[q] \in L}

(* When one member of a finite set moves from f[p] to g[p], the number of    *)
(* members found in L changes by what that member contributes.               *)
LEMMA CountMoved ==
  ASSUME NEW S, IsFiniteSet(S), NEW L, NEW p \in S, NEW f, NEW g,
         \A q \in S \ {p} : f[q] = g[q]
  PROVE  /\ Cardinality(Found(S, f, L)) \in Nat
         /\ Cardinality(Found(S, g, L)) = Cardinality(Found(S, f, L))
                + OneIf(g[p], L) - OneIf(f[p], L)
  <1>1. IsFiniteSet(Found(S, f, L)) /\ Cardinality(Found(S, f, L)) \in Nat
    BY FS_Subset, FS_CardinalityType DEF Found
  <1>2. CASE f[p] \in L <=> g[p] \in L
    <2>1. Found(S, f, L) = Found(S, g, L)
      BY <1>2 DEF Found
    <2>2. QED
      BY <1>1, <1>2, <2>1 DEF OneIf
  <1>3. CASE f[p] \notin L /\ g[p] \in L
    <2>1. Found(S, g, L) = Found(S, f, L) \cup {p} /\ p \notin Found(S, f, L)
      BY <1>3 DEF Found
    <2>2. Cardinality(Found(S, g, L)) = Cardinality(Found(S, f, L)) + 1
      BY <1>1, <2>1, FS_AddElement
    <2>3. QED
      BY <1>1, <1>3, <2>2 DEF OneIf
  <1>4. CASE f[p] \in L /\ g[p] \notin L
    <2>1. Found(S, g, L) = Found(S, f, L) \ {p} /\ p \in Found(S, f, L)
      BY <1>4 DEF Found
    <2>2. Cardinality(Found(S, g, L)) = Cardinality(Found(S, f, L)) - 1
      BY <1>1, <2>1, FS_RemoveElement
    <2>3. QED
      BY <1>1, <1>4, <2>2 DEF OneIf
  <1>5. QED
    BY <1>2, <1>3, <1>4

LEMMA CountsAreFound ==
  /\ FreeHeld = Found(Producers, pc, FreeHeldAt)
  /\ FullOwed = Found(Producers, pc, FullOwedAt)
  /\ FullHeld = Found(Consumers, pc, FullHeldAt)
  /\ FreeOwed = Found(Consumers, pc, FreeOwedAt)
  BY DEF FreeHeld, FullOwed, FullHeld, FreeOwed, Found

LEMMA CountsAreFoundNext ==
  /\ FreeHeld' = Found(Producers, pc', FreeHeldAt)
  /\ FullOwed' = Found(Producers, pc', FullOwedAt)
  /\ FullHeld' = Found(Consumers, pc', FullHeldAt)
  /\ FreeOwed' = Found(Consumers, pc', FreeOwedAt)
  BY DEF FreeHeld, FullOwed, FullHeld, FreeOwed, Found

(* What a producer's step does to the four counts. *)
LEMMA ProducerMoves ==
  ASSUME TypeOK, NEW p \in Producers, NEW label, Goto(p, label)
  PROVE  /\ Cardinality(FreeHeld) \in Nat /\ Cardinality(FullOwed) \in Nat
         /\ Cardinality(FreeHeld') = Cardinality(FreeHeld)
                + OneIf(label, FreeHeldAt) - OneIf(pc[p], FreeHeldAt)
         /\ Cardinality(FullOwed') = Cardinality(FullOwed)
                + OneIf(label, FullOwedAt) - OneIf(pc[p], FullOwedAt)
         /\ Cardinality(FreeOwed') = Cardinality(FreeOwed)
         /\ Cardinality(FullHeld') = Cardinality(FullHeld)
  <1>1. \A q \in Producers \ {p} : pc[q] = pc'[q]
    BY DEF TypeOK, Goto, Procs
  <1>2. pc'[p] = label /\ IsFiniteSet(Producers)
    BY ProcessAssumption DEF TypeOK, Goto, Procs
  <1>a. ASSUME NEW L
        PROVE  /\ Cardinality(Found(Producers, pc, L)) \in Nat
               /\ Cardinality(Found(Producers, pc', L)) = Cardinality(Found(Producers, pc, L))
                      + OneIf(label, L) - OneIf(pc[p], L)
    <2>1. /\ Cardinality(Found(Producers, pc, L)) \in Nat
          /\ Cardinality(Found(Producers, pc', L)) = Cardinality(Found(Producers, pc, L))
                 + OneIf(pc'[p], L) - OneIf(pc[p], L)
      BY <1>1, <1>2, CountMoved
    <2>2. QED
      BY <1>2, <2>1
  <1>3. Cardinality(FreeHeld') = Cardinality(FreeHeld)
          + OneIf(label, FreeHeldAt) - OneIf(pc[p], FreeHeldAt)
        /\ Cardinality(FreeHeld) \in Nat
    BY <1>a, CountsAreFound, CountsAreFoundNext
  <1>4. Cardinality(FullOwed') = Cardinality(FullOwed)
          + OneIf(label, FullOwedAt) - OneIf(pc[p], FullOwedAt)
        /\ Cardinality(FullOwed) \in Nat
    BY <1>a, CountsAreFound, CountsAreFoundNext
  <1>5. FreeOwed' = FreeOwed /\ FullHeld' = FullHeld
    BY ProcessAssumption DEF TypeOK, Goto, Procs, FreeOwed, FullHeld
  <1>6. QED
    BY <1>3, <1>4, <1>5

(* What a consumer's step does to them. *)
LEMMA ConsumerMoves ==
  ASSUME TypeOK, NEW p \in Consumers, NEW label, Goto(p, label)
  PROVE  /\ Cardinality(FullHeld) \in Nat /\ Cardinality(FreeOwed) \in Nat
         /\ Cardinality(FullHeld') = Cardinality(FullHeld)
                + OneIf(label, FullHeldAt) - OneIf(pc[p], FullHeldAt)
         /\ Cardinality(FreeOwed') = Cardinality(FreeOwed)
                + OneIf(label, FreeOwedAt) - OneIf(pc[p], FreeOwedAt)
         /\ Cardinality(FullOwed') = Cardinality(FullOwed)
         /\ Cardinality(FreeHeld') = Cardinality(FreeHeld)
  <1>1. \A q \in Consumers \ {p} : pc[q] = pc'[q]
    BY DEF TypeOK, Goto, Procs
  <1>2. pc'[p] = label /\ IsFiniteSet(Consumers)
    BY ProcessAssumption DEF TypeOK, Goto, Procs
  <1>a. ASSUME NEW L
        PROVE  /\ Cardinality(Found(Consumers, pc, L)) \in Nat
               /\ Cardinality(Found(Consumers, pc', L)) = Cardinality(Found(Consumers, pc, L))
                      + OneIf(label, L) - OneIf(pc[p], L)
    <2>1. /\ Cardinality(Found(Consumers, pc, L)) \in Nat
          /\ Cardinality(Found(Consumers, pc', L)) = Cardinality(Found(Consumers, pc, L))
                 + OneIf(pc'[p], L) - OneIf(pc[p], L)
      BY <1>1, <1>2, CountMoved
    <2>2. QED
      BY <1>2, <2>1
  <1>3. Cardinality(FullHeld') = Cardinality(FullHeld)
          + OneIf(label, FullHeldAt) - OneIf(pc[p], FullHeldAt)
        /\ Cardinality(FullHeld) \in Nat
    BY <1>a, CountsAreFound, CountsAreFoundNext
  <1>4. Cardinality(FreeOwed') = Cardinality(FreeOwed)
          + OneIf(label, FreeOwedAt) - OneIf(pc[p], FreeOwedAt)
        /\ Cardinality(FreeOwed) \in Nat
    BY <1>a, CountsAreFound, CountsAreFoundNext
  <1>5. FullOwed' = FullOwed /\ FreeHeld' = FreeHeld
    BY ProcessAssumption DEF TypeOK, Goto, Procs, FullOwed, FreeHeld
  <1>6. QED
    BY <1>3, <1>4, <1>5

LEMMA InitCounts == Init => SemaphoresCountSlots
  <1> SUFFICES ASSUME Init PROVE SemaphoresCountSlots
    OBVIOUS
  <1>1. FreeHeld = {} /\ FreeOwed = {} /\ FullHeld = {} /\ FullOwed = {}
    BY DEF Init, Procs, FreeHeld, FreeOwed, FullHeld, FullOwed,
           FreeHeldAt, FreeOwedAt, FullHeldAt, FullOwedAt
  <1>2. Cardinality({}) = 0
    BY FS_EmptySet
  <1>3. sem["free"] = Size /\ sem["full"] = 0
        /\ Len(accepted) = 0 /\ Len(delivered) = 0
    BY DEF Init
  <1>4. QED
    BY <1>1, <1>2, <1>3, SizeAssumption
       DEF SemaphoresCountSlots, FreeBound, FullBound

(* The quantities the bounds are about are natural numbers. *)
LEMMA CountTypes ==
  ASSUME TypeOK
  PROVE  /\ sem["free"] \in Nat /\ sem["full"] \in Nat
         /\ Len(accepted) \in Nat /\ Len(delivered) \in Nat
         /\ Cardinality(FreeHeld) \in Nat /\ Cardinality(FreeOwed) \in Nat
         /\ Cardinality(FullHeld) \in Nat /\ Cardinality(FullOwed) \in Nat
  <1>1. FreeHeld \subseteq Producers /\ FullOwed \subseteq Producers
        /\ FullHeld \subseteq Consumers /\ FreeOwed \subseteq Consumers
    BY DEF FreeHeld, FullOwed, FullHeld, FreeOwed
  <1>2. IsFiniteSet(FreeHeld) /\ IsFiniteSet(FullOwed)
        /\ IsFiniteSet(FullHeld) /\ IsFiniteSet(FreeOwed)
    BY <1>1, ProcessAssumption, FS_Subset
  <1>3. QED
    BY <1>2, FS_CardinalityType DEF TypeOK

LEMMA CountTypesNext ==
  ASSUME TypeOK'
  PROVE  /\ sem'["free"] \in Nat /\ sem'["full"] \in Nat
         /\ Len(accepted') \in Nat /\ Len(delivered') \in Nat
  BY DEF TypeOK

(* A semop by -1 takes one unit and goes on, or takes nothing and gives up. *)
LEMMA SemdownCases ==
  ASSUME TypeOK, NEW s \in {"free", "full", "mutex"}, NEW p, NEW label,
         _semdown(s, p, label)
  PROVE  \/ /\ Goto(p, label)
            /\ sem'[s] = sem[s] - 1
            /\ \A t \in {"free", "full", "mutex"} \ {s} : sem'[t] = sem[t]
         \/ Goto(p, "idle") /\ sem' = sem
  BY DEF _semdown, TypeOK

LEMMA SemupEffect ==
  ASSUME TypeOK, NEW s \in {"free", "full", "mutex"}, NEW p, NEW label,
         _semup(s, p, label)
  PROVE  /\ Goto(p, label)
         /\ sem'[s] = sem[s] + 1
         /\ \A t \in {"free", "full", "mutex"} \ {s} : sem'[t] = sem[t]
  BY DEF _semup, TypeOK

(* What a step of one process may do to the two bounds: no more is promised  *)
(* after it, counting what the process itself holds or owes, than before.    *)
ProducerBalance(from, to) ==
  /\ sem'["free"] + OneIf(to, FreeHeldAt) + Len(accepted')
       <= sem["free"] + OneIf(from, FreeHeldAt) + Len(accepted)
  /\ sem'["full"] + OneIf(to, FullOwedAt) + Len(accepted)
       <= sem["full"] + OneIf(from, FullOwedAt) + Len(accepted')

ConsumerBalance(from, to) ==
  /\ sem'["free"] + OneIf(to, FreeOwedAt) + Len(delivered)
       <= sem["free"] + OneIf(from, FreeOwedAt) + Len(delivered')
  /\ sem'["full"] + OneIf(to, FullHeldAt) + Len(delivered')
       <= sem["full"] + OneIf(from, FullHeldAt) + Len(delivered)

LEMMA ProducerKeepsCounts ==
  ASSUME TypeOK, TypeOK', SemaphoresCountSlots, NEW p \in Producers, NEW label,
         Goto(p, label), delivered' = delivered, ProducerBalance(pc[p], label)
  PROVE  SemaphoresCountSlots'
  <1>1. /\ Cardinality(FreeHeld') = Cardinality(FreeHeld) + OneIf(label, FreeHeldAt)
                                      - OneIf(pc[p], FreeHeldAt)
        /\ Cardinality(FreeOwed') = Cardinality(FreeOwed)
    BY ProducerMoves
  <1>2. /\ Cardinality(FullOwed') = Cardinality(FullOwed) + OneIf(label, FullOwedAt)
                                      - OneIf(pc[p], FullOwedAt)
        /\ Cardinality(FullHeld') = Cardinality(FullHeld)
    BY ProducerMoves
  <1>3. OneIf(label, FreeHeldAt) \in Int /\ OneIf(pc[p], FreeHeldAt) \in Int
        /\ OneIf(label, FullOwedAt) \in Int /\ OneIf(pc[p], FullOwedAt) \in Int
    BY DEF OneIf
  <1>4. FreeBound'
    <2> DEFINE f == sem["free"]  f1 == sem'["free"]
               h == Cardinality(FreeHeld)  o == Cardinality(FreeOwed)
               x == OneIf(label, FreeHeldAt)  y == OneIf(pc[p], FreeHeldAt)
               a == Len(accepted)  a1 == Len(accepted')
               d == Len(delivered)  d1 == Len(delivered')
    <2>1. f + h + o + a <= Size + d
      BY DEF SemaphoresCountSlots, FreeBound
    <2>2. f1 + x + a1 <= f + y + a /\ d1 = d
      BY DEF ProducerBalance
    <2>3. /\ f \in Int /\ f1 \in Int /\ a \in Int /\ a1 \in Int
          /\ x \in Int /\ y \in Int /\ h \in Int /\ o \in Int
          /\ d \in Int /\ d1 \in Int
      BY <1>3, CountTypes, CountTypesNext
    <2>4. SUFFICES f1 + (h + x - y) + o + a1 <= Size + d1
      BY <1>1 DEF FreeBound
    <2> HIDE DEF f, f1, a, a1, x, y, h, o, d, d1
    <2>5. QED
      BY <2>1, <2>2, <2>3, SizeAssumption
  <1>5. FullBound'
    <2> DEFINE f == sem["full"]  f1 == sem'["full"]
               h == Cardinality(FullOwed)  o == Cardinality(FullHeld)
               x == OneIf(label, FullOwedAt)  y == OneIf(pc[p], FullOwedAt)
               a == Len(delivered)  a1 == Len(delivered')
               d == Len(accepted)  d1 == Len(accepted')
    <2>1. f + o + h + a <= d
      BY DEF SemaphoresCountSlots, FullBound
    <2>2. f1 + x + d <= f + y + d1 /\ a1 = a
      BY DEF ProducerBalance
    <2>3. /\ f \in Int /\ f1 \in Int /\ a \in Int /\ a1 \in Int
          /\ x \in Int /\ y \in Int /\ h \in Int /\ o \in Int
          /\ d \in Int /\ d1 \in Int
      BY <1>3, CountTypes, CountTypesNext, SMTT(30)
    <2>4. SUFFICES f1 + o + (h + x - y) + a1 <= d1
      BY <1>2 DEF FullBound
    <2> HIDE DEF f, f1, a, a1, x, y, h, o, d, d1
    <2>5. QED
      BY <2>1, <2>2, <2>3
  <1>6. QED
    BY <1>4, <1>5 DEF SemaphoresCountSlots

LEMMA ConsumerKeepsCounts ==
  ASSUME TypeOK, TypeOK', SemaphoresCountSlots, NEW p \in Consumers, NEW label,
         Goto(p, label), accepted' = accepted, ConsumerBalance(pc[p], label)
  PROVE  SemaphoresCountSlots'
  <1>1. /\ Cardinality(FreeOwed') = Cardinality(FreeOwed) + OneIf(label, FreeOwedAt)
                                      - OneIf(pc[p], FreeOwedAt)
        /\ Cardinality(FreeHeld') = Cardinality(FreeHeld)
    BY ConsumerMoves
  <1>2. /\ Cardinality(FullHeld') = Cardinality(FullHeld) + OneIf(label, FullHeldAt)
                                      - OneIf(pc[p], FullHeldAt)
        /\ Cardinality(FullOwed') = Cardinality(FullOwed)
    BY ConsumerMoves
  <1>3. OneIf(label, FreeOwedAt) \in Int /\ OneIf(pc[p], FreeOwedAt) \in Int
        /\ OneIf(label, FullHeldAt) \in Int /\ OneIf(pc[p], FullHeldAt) \in Int
    BY DEF OneIf
  <1>4. FreeBound'
    <2> DEFINE f == sem["free"]  f1 == sem'["free"]
               h == Cardinality(FreeOwed)  o == Cardinality(FreeHeld)
               x == OneIf(label, FreeOwedAt)  y == OneIf(pc[p], FreeOwedAt)
               a == Len(accepted)  a1 == Len(accepted')
               d == Len(delivered)  d1 == Len(delivered')
    <2>1. f + o + h + a <= Size + d
      BY DEF SemaphoresCountSlots, FreeBound
    <2>2. f1 + x + d <= f + y + d1 /\ a1 = a
      BY DEF ConsumerBalance
    <2>3. /\ f \in Int /\ f1 \in Int /\ a \in Int /\ a1 \in Int
          /\ x \in Int /\ y \in Int /\ h \in Int /\ o \in Int
          /\ d \in Int /\ d1 \in Int
      BY <1>3, CountTypes, CountTypesNext, SMTT(30)
    <2>4. SUFFICES f1 + o + (h + x - y) + a1 <= Size + d1
      BY <1>1 DEF FreeBound
    <2> HIDE DEF f, f1, a, a1, x, y, h, o, d, d1
    <2>5. QED
      BY <2>1, <2>2, <2>3, SizeAssumption
  <1>5. FullBound'
    <2> DEFINE f == sem["full"]  f1 == sem'["full"]
               h == Cardinality(FullHeld)  o == Cardinality(FullOwed)
               x == OneIf(label, FullHeldAt)  y == OneIf(pc[p], FullHeldAt)
               a == Len(delivered)  a1 == Len(delivered')
               d == Len(accepted)  d1 == Len(accepted')
    <2>1. f + h + o + a <= d
      BY DEF SemaphoresCountSlots, FullBound
    <2>2. f1 + x + a1 <= f + y + a /\ d1 = d
      BY DEF ConsumerBalance
    <2>3. /\ f \in Int /\ f1 \in Int /\ a \in Int /\ a1 \in Int
          /\ x \in Int /\ y \in Int /\ h \in Int /\ o \in Int
          /\ d \in Int /\ d1 \in Int
      BY <1>3, CountTypes, CountTypesNext, SMTT(30)
    <2>4. SUFFICES f1 + (h + x - y) + o + a1 <= d1
      BY <1>2 DEF FullBound
    <2> HIDE DEF f, f1, a, a1, x, y, h, o, d, d1
    <2>5. QED
      BY <2>1, <2>2, <2>3
  <1>6. QED
    BY <1>4, <1>5 DEF SemaphoresCountSlots

LEMMA StepCounts ==
  TypeOK /\ SemaphoresCountSlots /\ [Next]_vars => SemaphoresCountSlots'
  <1> SUFFICES ASSUME TypeOK, SemaphoresCountSlots, [Next]_vars
               PROVE  SemaphoresCountSlots'
    OBVIOUS
  <1>0. TypeOK'
    BY StepTypeOK
  <1>1. ASSUME NEW p \in Producers, PutCall(p) PROVE SemaphoresCountSlots'
    <2>1. pc[p] = "idle" /\ Goto(p, "put_free") /\ UNCHANGED <<sem, accepted, delivered>>
      BY <1>1 DEF PutCall, history
    <2>2. ProducerBalance(pc[p], "put_free")
      BY <2>1, CountTypes DEF ProducerBalance, OneIf, FreeHeldAt, FullOwedAt
    <2>3. QED
      BY <1>0, <2>1, <2>2, ProducerKeepsCounts
  <1>2. ASSUME NEW p \in Producers, PutFree(p) PROVE SemaphoresCountSlots'
    <2>1. pc[p] = "put_free" /\ _semdown("free", p, "put_next")
          /\ UNCHANGED <<accepted, delivered>>
      BY <1>2 DEF PutFree, history
    <2>2. CASE Goto(p, "put_next") /\ sem'["free"] = sem["free"] - 1
               /\ sem'["full"] = sem["full"]
      <3>1. ProducerBalance(pc[p], "put_next")
        BY <2>1, <2>2, CountTypes DEF ProducerBalance, OneIf, FreeHeldAt, FullOwedAt
      <3>2. QED
        BY <1>0, <2>1, <2>2, <3>1, ProducerKeepsCounts
    <2>3. CASE Goto(p, "idle") /\ sem' = sem
      <3>1. ProducerBalance(pc[p], "idle")
        BY <2>1, <2>3, CountTypes DEF ProducerBalance, OneIf, FreeHeldAt, FullOwedAt
      <3>2. QED
        BY <1>0, <2>1, <2>3, <3>1, ProducerKeepsCounts
    <2>4. QED
      BY <2>1, <2>2, <2>3, SemdownCases
  <1>3. ASSUME NEW p \in Producers, PutNext(p) PROVE SemaphoresCountSlots'
    <2>1. pc[p] = "put_next" /\ Goto(p, "put_lock") /\ UNCHANGED <<sem, accepted, delivered>>
      BY <1>3 DEF PutNext, history
    <2>2. ProducerBalance(pc[p], "put_lock")
      BY <2>1, CountTypes DEF ProducerBalance, OneIf, FreeHeldAt, FullOwedAt
    <2>3. QED
      BY <1>0, <2>1, <2>2, ProducerKeepsCounts
  <1>4. ASSUME NEW p \in Producers, PutLock(p) PROVE SemaphoresCountSlots'
    <2>1. pc[p] = "put_lock" /\ _semdown("mutex", p, "put_store")
          /\ UNCHANGED <<accepted, delivered>>
      BY <1>4 DEF PutLock, history
    <2>2. CASE Goto(p, "put_store") /\ sem'["free"] = sem["free"]
               /\ sem'["full"] = sem["full"]
      <3>1. ProducerBalance(pc[p], "put_store")
        BY <2>1, <2>2, CountTypes DEF ProducerBalance, OneIf, FreeHeldAt, FullOwedAt
      <3>2. QED
        BY <1>0, <2>1, <2>2, <3>1, ProducerKeepsCounts
    <2>3. CASE Goto(p, "idle") /\ sem' = sem
      <3>1. ProducerBalance(pc[p], "idle")
        BY <2>1, <2>3, CountTypes DEF ProducerBalance, OneIf, FreeHeldAt, FullOwedAt
      <3>2. QED
        BY <1>0, <2>1, <2>3, <3>1, ProducerKeepsCounts
    <2>4. QED
      BY <2>1, <2>2, <2>3, SemdownCases
  <1>5. ASSUME NEW p \in Producers, PutStore(p) PROVE SemaphoresCountSlots'
    <2>1. pc[p] = "put_store" /\ Goto(p, "put_in") /\ UNCHANGED <<sem, delivered>>
          /\ Len(accepted') = Len(accepted) + 1
      BY <1>5 DEF PutStore, TypeOK
    <2>2. ProducerBalance(pc[p], "put_in")
      BY <2>1, CountTypes, SMTT(30) DEF ProducerBalance, OneIf, FreeHeldAt, FullOwedAt
    <2>3. QED
      BY <1>0, <2>1, <2>2, ProducerKeepsCounts
  <1>6. ASSUME NEW p \in Producers, PutIn(p) PROVE SemaphoresCountSlots'
    <2>1. pc[p] = "put_in" /\ Goto(p, "put_unlock") /\ UNCHANGED <<sem, accepted, delivered>>
      BY <1>6 DEF PutIn, history
    <2>2. ProducerBalance(pc[p], "put_unlock")
      BY <2>1, CountTypes DEF ProducerBalance, OneIf, FreeHeldAt, FullOwedAt
    <2>3. QED
      BY <1>0, <2>1, <2>2, ProducerKeepsCounts
  <1>7. ASSUME NEW p \in Producers, PutUnlock(p) PROVE SemaphoresCountSlots'
    <2>1. /\ pc[p] = "put_unlock" /\ Goto(p, "put_full") /\ UNCHANGED <<accepted, delivered>>
          /\ sem'["free"] = sem["free"] /\ sem'["full"] = sem["full"]
      BY <1>7, SemupEffect DEF PutUnlock, history
    <2>2. ProducerBalance(pc[p], "put_full")
      BY <2>1, CountTypes DEF ProducerBalance, OneIf, FreeHeldAt, FullOwedAt
    <2>3. QED
      BY <1>0, <2>1, <2>2, ProducerKeepsCounts
  <1>8. ASSUME NEW p \in Producers, PutFull(p) PROVE SemaphoresCountSlots'
    <2>1. /\ pc[p] = "put_full" /\ Goto(p, "idle") /\ UNCHANGED <<accepted, delivered>>
          /\ sem'["free"] = sem["free"] /\ sem'["full"] = sem["full"] + 1
      BY <1>8, SemupEffect DEF PutFull, history
    <2>2. ProducerBalance(pc[p], "idle")
      BY <2>1, CountTypes DEF ProducerBalance, OneIf, FreeHeldAt, FullOwedAt
    <2>3. QED
      BY <1>0, <2>1, <2>2, ProducerKeepsCounts
  <1>9. ASSUME NEW p \in Consumers, GetFull(p) PROVE SemaphoresCountSlots'
    <2>1. pc[p] = "idle" /\ _semdown("full", p, "get_lock")
          /\ UNCHANGED <<accepted, delivered>>
      BY <1>9 DEF GetFull, history
    <2>2. CASE Goto(p, "get_lock") /\ sem'["free"] = sem["free"]
               /\ sem'["full"] = sem["full"] - 1
      <3>1. ConsumerBalance(pc[p], "get_lock")
        BY <2>1, <2>2, CountTypes DEF ConsumerBalance, OneIf, FullHeldAt, FreeOwedAt
      <3>2. QED
        BY <1>0, <2>1, <2>2, <3>1, ConsumerKeepsCounts
    <2>3. CASE Goto(p, "idle") /\ sem' = sem
      <3>1. ConsumerBalance(pc[p], "idle")
        BY <2>1, <2>3, CountTypes DEF ConsumerBalance, OneIf, FullHeldAt, FreeOwedAt
      <3>2. QED
        BY <1>0, <2>1, <2>3, <3>1, ConsumerKeepsCounts
    <2>4. QED
      BY <2>1, <2>2, <2>3, SemdownCases
  <1>10. ASSUME NEW p \in Consumers, GetLock(p) PROVE SemaphoresCountSlots'
    <2>1. pc[p] = "get_lock" /\ _semdown("mutex", p, "get_fetch")
          /\ UNCHANGED <<accepted, delivered>>
      BY <1>10 DEF GetLock, history
    <2>2. CASE Goto(p, "get_fetch") /\ sem'["free"] = sem["free"]
               /\ sem'["full"] = sem["full"]
      <3>1. ConsumerBalance(pc[p], "get_fetch")
        BY <2>1, <2>2, CountTypes DEF ConsumerBalance, OneIf, FullHeldAt, FreeOwedAt
      <3>2. QED
        BY <1>0, <2>1, <2>2, <3>1, ConsumerKeepsCounts
    <2>3. CASE Goto(p, "idle") /\ sem' = sem
      <3>1. ConsumerBalance(pc[p], "idle")
        BY <2>1, <2>3, CountTypes DEF ConsumerBalance, OneIf, FullHeldAt, FreeOwedAt
      <3>2. QED
        BY <1>0, <2>1, <2>3, <3>1, ConsumerKeepsCounts
    <2>4. QED
      BY <2>1, <2>2, <2>3, SemdownCases
  <1>11. ASSUME NEW p \in Consumers, GetFetch(p) PROVE SemaphoresCountSlots'
    <2>1. pc[p] = "get_fetch" /\ Goto(p, "get_out") /\ UNCHANGED <<sem, accepted>>
          /\ Len(delivered') = Len(delivered) + 1
      <3>1. buf[out] \in Data \cup {Nul}
        BY DEF TypeOK
      <3>2. QED
        BY <1>11, <3>1 DEF GetFetch, TypeOK
    <2>2. ConsumerBalance(pc[p], "get_out")
      BY <2>1, CountTypes, SMTT(30) DEF ConsumerBalance, OneIf, FullHeldAt, FreeOwedAt
    <2>3. QED
      BY <1>0, <2>1, <2>2, ConsumerKeepsCounts
  <1>12. ASSUME NEW p \in Consumers, GetOut(p) PROVE SemaphoresCountSlots'
    <2>1. pc[p] = "get_out" /\ Goto(p, "get_unlock") /\ UNCHANGED <<sem, accepted, delivered>>
      BY <1>12 DEF GetOut, history
    <2>2. ConsumerBalance(pc[p], "get_unlock")
      BY <2>1, CountTypes DEF ConsumerBalance, OneIf, FullHeldAt, FreeOwedAt
    <2>3. QED
      BY <1>0, <2>1, <2>2, ConsumerKeepsCounts
  <1>13. ASSUME NEW p \in Consumers, GetUnlock(p) PROVE SemaphoresCountSlots'
    <2>1. /\ pc[p] = "get_unlock" /\ Goto(p, "get_free") /\ UNCHANGED <<accepted, delivered>>
          /\ sem'["free"] = sem["free"] /\ sem'["full"] = sem["full"]
      BY <1>13, SemupEffect DEF GetUnlock, history
    <2>2. ConsumerBalance(pc[p], "get_free")
      BY <2>1, CountTypes DEF ConsumerBalance, OneIf, FullHeldAt, FreeOwedAt
    <2>3. QED
      BY <1>0, <2>1, <2>2, ConsumerKeepsCounts
  <1>14. ASSUME NEW p \in Consumers, GetFree(p) PROVE SemaphoresCountSlots'
    <2>1. /\ pc[p] = "get_free" /\ Goto(p, "idle") /\ UNCHANGED <<accepted, delivered>>
          /\ sem'["free"] = sem["free"] + 1 /\ sem'["full"] = sem["full"]
      BY <1>14, SemupEffect DEF GetFree, history
    <2>2. ConsumerBalance(pc[p], "idle")
      BY <2>1, CountTypes DEF ConsumerBalance, OneIf, FullHeldAt, FreeOwedAt
    <2>3. QED
      BY <1>0, <2>1, <2>2, ConsumerKeepsCounts
  <1>15. CASE UNCHANGED vars
    BY <1>15 DEF vars, SemaphoresCountSlots, FreeBound, FullBound,
                 FreeHeld, FreeOwed, FullHeld, FullOwed
  <1>16. QED
    BY <1>1, <1>2, <1>3, <1>4, <1>5, <1>6, <1>7, <1>8, <1>9, <1>10, <1>11,
       <1>12, <1>13, <1>14, <1>15 DEF Next, PutStep, GetStep

(* The semaphores never promise a slot that is taken or a character that is  *)
(* not there, whichever calls fail half way.                                 *)
THEOREM PromisesAreKept == Spec => []SemaphoresCountSlots
  <1>1. Spec => [](TypeOK /\ SemaphoresCountSlots)
    BY InitTypeOK, StepTypeOK, InitCounts, StepCounts, PTL DEF Spec
  <1>2. QED
    BY <1>1, PTL

--------------------------------------------------------------------------------
(* What the semaphores promise as long as no semop has failed.               *)

(* What a step of one process does to the two counts: nothing at all.        *)
ProducerExact(from, to) ==
  /\ sem'["free"] + OneIf(to, FreeHeldAt) + Len(accepted')
       = sem["free"] + OneIf(from, FreeHeldAt) + Len(accepted)
  /\ sem'["full"] + OneIf(to, FullOwedAt) + Len(accepted)
       = sem["full"] + OneIf(from, FullOwedAt) + Len(accepted')

ConsumerExact(from, to) ==
  /\ sem'["free"] + OneIf(to, FreeOwedAt) + Len(delivered)
       = sem["free"] + OneIf(from, FreeOwedAt) + Len(delivered')
  /\ sem'["full"] + OneIf(to, FullHeldAt) + Len(delivered')
       = sem["full"] + OneIf(from, FullHeldAt) + Len(delivered)

LEMMA ProducerKeepsUnits ==
  ASSUME TypeOK, TypeOK', NoUnitLost, NEW p \in Producers, NEW label,
         Goto(p, label), UNCHANGED <<delivered, refused>>, ProducerExact(pc[p], label)
  PROVE  NoUnitLost'
  <1> DEFINE x == OneIf(label, FreeHeldAt)  y == OneIf(pc[p], FreeHeldAt)
             z == OneIf(label, FullOwedAt)  w == OneIf(pc[p], FullOwedAt)
             f == sem["free"]  f1 == sem'["free"]  g == sem["full"]  g1 == sem'["full"]
             fh == Cardinality(FreeHeld)  fo == Cardinality(FreeOwed)
             gh == Cardinality(FullOwed)  go == Cardinality(FullHeld)
             a == Len(accepted)  a1 == Len(accepted')
             d == Len(delivered)  d1 == Len(delivered')
  <1>1. /\ Cardinality(FreeHeld') = fh + x - y /\ Cardinality(FreeOwed') = fo
        /\ Cardinality(FullOwed') = gh + z - w /\ Cardinality(FullHeld') = go
    BY ProducerMoves
  <1>2. /\ x \in Int /\ y \in Int /\ z \in Int /\ w \in Int
        /\ f \in Int /\ f1 \in Int /\ g \in Int /\ g1 \in Int
        /\ fh \in Int /\ fo \in Int /\ gh \in Int /\ go \in Int
        /\ a \in Int /\ a1 \in Int /\ d \in Int /\ d1 \in Int
    BY CountTypes, CountTypesNext DEF OneIf
  <1>3. CASE refused = {}
    <2>1. f + fh + fo + (a - d) = Size /\ g + gh + go = a - d
      BY <1>2, <1>3 DEF NoUnitLost, Occupied
    <2>2. f1 + x + a1 = f + y + a /\ g1 + z + a = g + w + a1 /\ d1 = d
      BY DEF ProducerExact
    <2>3. SUFFICES /\ f1 + (fh + x - y) + fo + (a1 - d1) = Size
                   /\ g1 + (gh + z - w) + go = a1 - d1
      BY <1>1, <1>2 DEF NoUnitLost, Occupied
    <2> HIDE DEF x, y, z, w, f, f1, g, g1, fh, fo, gh, go, a, a1, d, d1
    <2>4. QED
      BY <1>2, <2>1, <2>2, SizeAssumption
  <1>4. QED
    BY <1>3 DEF NoUnitLost

LEMMA ConsumerKeepsUnits ==
  ASSUME TypeOK, TypeOK', NoUnitLost, NEW p \in Consumers, NEW label,
         Goto(p, label), UNCHANGED <<accepted, refused>>, ConsumerExact(pc[p], label)
  PROVE  NoUnitLost'
  <1> DEFINE x == OneIf(label, FreeOwedAt)  y == OneIf(pc[p], FreeOwedAt)
             z == OneIf(label, FullHeldAt)  w == OneIf(pc[p], FullHeldAt)
             f == sem["free"]  f1 == sem'["free"]  g == sem["full"]  g1 == sem'["full"]
             fh == Cardinality(FreeOwed)  fo == Cardinality(FreeHeld)
             gh == Cardinality(FullHeld)  go == Cardinality(FullOwed)
             a == Len(accepted)  a1 == Len(accepted')
             d == Len(delivered)  d1 == Len(delivered')
  <1>1. /\ Cardinality(FreeOwed') = fh + x - y /\ Cardinality(FreeHeld') = fo
        /\ Cardinality(FullHeld') = gh + z - w /\ Cardinality(FullOwed') = go
    BY ConsumerMoves
  <1>2. /\ x \in Int /\ y \in Int /\ z \in Int /\ w \in Int
        /\ f \in Int /\ f1 \in Int /\ g \in Int /\ g1 \in Int
        /\ fh \in Int /\ fo \in Int /\ gh \in Int /\ go \in Int
        /\ a \in Int /\ a1 \in Int /\ d \in Int /\ d1 \in Int
    BY CountTypes, CountTypesNext DEF OneIf
  <1>3. CASE refused = {}
    <2>1. f + fh + fo + (a - d) = Size /\ g + gh + go = a - d
      BY <1>2, <1>3 DEF NoUnitLost, Occupied
    <2>2. f1 + x + d = f + y + d1 /\ g1 + z + d1 = g + w + d /\ a1 = a
      BY DEF ConsumerExact
    <2>3. SUFFICES /\ f1 + (fh + x - y) + fo + (a1 - d1) = Size
                   /\ g1 + (gh + z - w) + go = a1 - d1
      BY <1>1, <1>2, SMTT(30) DEF NoUnitLost, Occupied
    <2> HIDE DEF x, y, z, w, f, f1, g, g1, fh, fo, gh, go, a, a1, d, d1
    <2>4. QED
      BY <1>2, <2>1, <2>2, SizeAssumption
  <1>4. QED
    BY <1>3 DEF NoUnitLost

(* A semop by -1 as SemdownCases has it, with who is refused. *)
LEMMA SemdownOutcome ==
  ASSUME TypeOK, NEW s \in {"free", "full", "mutex"}, NEW p, NEW label,
         _semdown(s, p, label)
  PROVE  \/ /\ Goto(p, label) /\ refused' = refused
            /\ sem'[s] = sem[s] - 1
            /\ \A t \in {"free", "full", "mutex"} \ {s} : sem'[t] = sem[t]
         \/ refused' # {}
  BY DEF _semdown, TypeOK

LEMMA StepNoUnitLost ==
  TypeOK /\ NoUnitLost /\ [Next]_vars => NoUnitLost'
  <1> SUFFICES ASSUME TypeOK, NoUnitLost, [Next]_vars, refused' = {}
               PROVE  NoUnitLost'
    BY DEF NoUnitLost
  <1>0. TypeOK'
    BY StepTypeOK
  <1> USE DEF history
  <1>1. ASSUME NEW p \in Producers, PutCall(p) PROVE NoUnitLost'
    <2>1. ProducerExact(pc[p], "put_free")
      BY <1>1, CountTypes
         DEF PutCall, ProducerExact, OneIf, FreeHeldAt, FullOwedAt
    <2>2. QED
      BY <1>0, <1>1, <2>1, ProducerKeepsUnits DEF PutCall
  <1>2. ASSUME NEW p \in Producers, PutFree(p) PROVE NoUnitLost'
    <2>1. /\ pc[p] = "put_free" /\ Goto(p, "put_next") /\ sem'["free"] = sem["free"] - 1
          /\ sem'["full"] = sem["full"] /\ UNCHANGED <<accepted, delivered, refused>>
      BY <1>2, SemdownOutcome DEF PutFree
    <2>2. ProducerExact(pc[p], "put_next")
      BY <2>1, CountTypes DEF ProducerExact, OneIf, FreeHeldAt, FullOwedAt
    <2>3. QED
      BY <1>0, <2>1, <2>2, ProducerKeepsUnits
  <1>3. ASSUME NEW p \in Producers, PutNext(p) PROVE NoUnitLost'
    <2>1. ProducerExact(pc[p], "put_lock")
      BY <1>3, CountTypes
         DEF PutNext, ProducerExact, OneIf, FreeHeldAt, FullOwedAt
    <2>2. QED
      BY <1>0, <1>3, <2>1, ProducerKeepsUnits DEF PutNext
  <1>4. ASSUME NEW p \in Producers, PutLock(p) PROVE NoUnitLost'
    <2>1. /\ pc[p] = "put_lock" /\ Goto(p, "put_store") /\ sem'["free"] = sem["free"]
          /\ sem'["full"] = sem["full"] /\ UNCHANGED <<accepted, delivered, refused>>
      BY <1>4, SemdownOutcome DEF PutLock
    <2>2. ProducerExact(pc[p], "put_store")
      BY <2>1, CountTypes DEF ProducerExact, OneIf, FreeHeldAt, FullOwedAt
    <2>3. QED
      BY <1>0, <2>1, <2>2, ProducerKeepsUnits
  <1>5. ASSUME NEW p \in Producers, PutStore(p) PROVE NoUnitLost'
    <2>1. /\ pc[p] = "put_store" /\ Goto(p, "put_in") /\ Len(accepted') = Len(accepted) + 1
          /\ UNCHANGED <<sem, delivered, refused>>
      BY <1>5 DEF PutStore, TypeOK
    <2>2. ProducerExact(pc[p], "put_in")
      BY <1>0, <2>1, CountTypes, CountTypesNext, SMTT(30)
      DEF ProducerExact, OneIf, FreeHeldAt, FullOwedAt
    <2>3. QED
      BY <1>0, <2>1, <2>2, ProducerKeepsUnits
  <1>6. ASSUME NEW p \in Producers, PutIn(p) PROVE NoUnitLost'
    <2>1. ProducerExact(pc[p], "put_unlock")
      BY <1>6, CountTypes
         DEF PutIn, ProducerExact, OneIf, FreeHeldAt, FullOwedAt
    <2>2. QED
      BY <1>0, <1>6, <2>1, ProducerKeepsUnits DEF PutIn
  <1>7. ASSUME NEW p \in Producers, PutUnlock(p) PROVE NoUnitLost'
    <2>1. /\ pc[p] = "put_unlock" /\ Goto(p, "put_full") /\ sem'["free"] = sem["free"]
          /\ sem'["full"] = sem["full"] /\ UNCHANGED <<accepted, delivered, refused>>
      BY <1>7, SemupEffect DEF PutUnlock, _semup
    <2>2. ProducerExact(pc[p], "put_full")
      BY <2>1, CountTypes DEF ProducerExact, OneIf, FreeHeldAt, FullOwedAt
    <2>3. QED
      BY <1>0, <2>1, <2>2, ProducerKeepsUnits
  <1>8. ASSUME NEW p \in Producers, PutFull(p) PROVE NoUnitLost'
    <2>1. /\ pc[p] = "put_full" /\ Goto(p, "idle") /\ sem'["free"] = sem["free"]
          /\ sem'["full"] = sem["full"] + 1 /\ UNCHANGED <<accepted, delivered, refused>>
      BY <1>8, SemupEffect DEF PutFull, _semup
    <2>2. ProducerExact(pc[p], "idle")
      BY <2>1, CountTypes DEF ProducerExact, OneIf, FreeHeldAt, FullOwedAt
    <2>3. QED
      BY <1>0, <2>1, <2>2, ProducerKeepsUnits
  <1>9. ASSUME NEW p \in Consumers, GetFull(p) PROVE NoUnitLost'
    <2>1. /\ pc[p] = "idle" /\ Goto(p, "get_lock") /\ sem'["free"] = sem["free"]
          /\ sem'["full"] = sem["full"] - 1 /\ UNCHANGED <<accepted, delivered, refused>>
      BY <1>9, SemdownOutcome DEF GetFull
    <2>2. ConsumerExact(pc[p], "get_lock")
      BY <2>1, CountTypes DEF ConsumerExact, OneIf, FreeOwedAt, FullHeldAt
    <2>3. QED
      BY <1>0, <2>1, <2>2, ConsumerKeepsUnits
  <1>10. ASSUME NEW p \in Consumers, GetLock(p) PROVE NoUnitLost'
    <2>1. /\ pc[p] = "get_lock" /\ Goto(p, "get_fetch") /\ sem'["free"] = sem["free"]
          /\ sem'["full"] = sem["full"] /\ UNCHANGED <<accepted, delivered, refused>>
      BY <1>10, SemdownOutcome DEF GetLock
    <2>2. ConsumerExact(pc[p], "get_fetch")
      BY <2>1, CountTypes DEF ConsumerExact, OneIf, FreeOwedAt, FullHeldAt
    <2>3. QED
      BY <1>0, <2>1, <2>2, ConsumerKeepsUnits
  <1>11. ASSUME NEW p \in Consumers, GetFetch(p) PROVE NoUnitLost'
    <2>1. buf[out] \in Data \cup {Nul}
      BY DEF TypeOK
    <2>2. /\ pc[p] = "get_fetch" /\ Goto(p, "get_out")
          /\ Len(delivered') = Len(delivered) + 1 /\ UNCHANGED <<sem, accepted, refused>>
      BY <1>11, <2>1 DEF GetFetch, TypeOK
    <2>3. ConsumerExact(pc[p], "get_out")
      BY <2>2, CountTypes, SMTT(30) DEF ConsumerExact, OneIf, FreeOwedAt, FullHeldAt
    <2>4. QED
      BY <1>0, <2>2, <2>3, ConsumerKeepsUnits
  <1>12. ASSUME NEW p \in Consumers, GetOut(p) PROVE NoUnitLost'
    <2>1. ConsumerExact(pc[p], "get_unlock")
      BY <1>12, CountTypes
         DEF GetOut, ConsumerExact, OneIf, FreeOwedAt, FullHeldAt
    <2>2. QED
      BY <1>0, <1>12, <2>1, ConsumerKeepsUnits DEF GetOut
  <1>13. ASSUME NEW p \in Consumers, GetUnlock(p) PROVE NoUnitLost'
    <2>1. /\ pc[p] = "get_unlock" /\ Goto(p, "get_free") /\ sem'["free"] = sem["free"]
          /\ sem'["full"] = sem["full"] /\ UNCHANGED <<accepted, delivered, refused>>
      BY <1>13, SemupEffect DEF GetUnlock, _semup
    <2>2. ConsumerExact(pc[p], "get_free")
      BY <2>1, CountTypes DEF ConsumerExact, OneIf, FreeOwedAt, FullHeldAt
    <2>3. QED
      BY <1>0, <2>1, <2>2, ConsumerKeepsUnits
  <1>14. ASSUME NEW p \in Consumers, GetFree(p) PROVE NoUnitLost'
    <2>1. /\ pc[p] = "get_free" /\ Goto(p, "idle") /\ sem'["free"] = sem["free"] + 1
          /\ sem'["full"] = sem["full"] /\ UNCHANGED <<accepted, delivered, refused>>
      BY <1>14, SemupEffect DEF GetFree, _semup
    <2>2. ConsumerExact(pc[p], "idle")
      BY <2>1, CountTypes DEF ConsumerExact, OneIf, FreeOwedAt, FullHeldAt
    <2>3. QED
      BY <1>0, <2>1, <2>2, ConsumerKeepsUnits
  <1>15. CASE UNCHANGED vars
    BY <1>15 DEF vars, NoUnitLost, Occupied, FreeHeld, FreeOwed, FullHeld, FullOwed
  <1>16. QED
    BY <1>1, <1>2, <1>3, <1>4, <1>5, <1>6, <1>7, <1>8, <1>9, <1>10, <1>11,
       <1>12, <1>13, <1>14, <1>15 DEF Next, PutStep, GetStep

LEMMA InitNoUnitLost == Init => NoUnitLost
  <1> SUFFICES ASSUME Init PROVE NoUnitLost
    OBVIOUS
  <1>1. FreeHeld = {} /\ FreeOwed = {} /\ FullHeld = {} /\ FullOwed = {}
    BY DEF Init, Procs, FreeHeld, FreeOwed, FullHeld, FullOwed,
           FreeHeldAt, FreeOwedAt, FullHeldAt, FullOwedAt
  <1>2. Cardinality({}) = 0
    BY FS_EmptySet
  <1>3. sem["free"] = Size /\ sem["full"] = 0
        /\ Len(accepted) = 0 /\ Len(delivered) = 0
    BY DEF Init
  <1>4. QED
    BY <1>1, <1>2, <1>3, SizeAssumption DEF NoUnitLost, Occupied

(* Until a semop fails every unit of the two semaphores is accounted for, so *)
(* that a call can only sleep on a ring that is really full or really empty. *)
THEOREM UnitsAccounted == Spec => []NoUnitLost
  <1>1. Spec => [](TypeOK /\ NoUnitLost)
    BY InitTypeOK, StepTypeOK, InitNoUnitLost, StepNoUnitLost, PTL DEF Spec
  <1>2. QED
    BY <1>1, PTL

--------------------------------------------------------------------------------
(* The FIFO promise, for one producer and any number of consumers.           *)

LEMMA WrapInSlots ==
  ASSUME NEW i \in 0 .. Size - 1, NEW n \in 0 .. Size
  PROVE  Wrap(i + n) \in 0 .. Size - 1
  BY SizeAssumption DEF Wrap

(* Walking n steps and one more, from either end. *)
LEMMA WrapStep ==
  ASSUME NEW i \in 0 .. Size - 1, NEW n \in 0 .. Size - 1
  PROVE  /\ Wrap(Wrap(i + n) + 1) = Wrap(i + (n + 1))
         /\ Wrap(Wrap(i + 1) + n) = Wrap(i + (n + 1))
  BY SizeAssumption DEF Wrap

(* Different numbers of steps below Size end in different slots. *)
LEMMA WrapDistinct ==
  ASSUME NEW i \in 0 .. Size - 1, NEW m \in 0 .. Size - 1, NEW n \in 0 .. Size - 1,
         m # n
  PROVE  Wrap(i + m) # Wrap(i + n)
  BY SizeAssumption DEF Wrap

(* What the semaphores' bounds say of the number of characters present, of   *)
(* which a process in the critical section has one or a slot to itself.      *)
LEMMA OccupiedBounds ==
  ASSUME TypeOK, SemaphoresCountSlots
  PROVE  /\ Occupied \in 0 .. Size
         /\ \A p \in Producers : pc[p] \in FreeHeldAt => Occupied < Size
         /\ \A p \in Producers : pc[p] \in FullOwedAt => Occupied > 0
         /\ \A p \in Consumers : pc[p] \in FullHeldAt => Occupied > 0
         /\ \A p \in Consumers : pc[p] \in FreeOwedAt => Occupied < Size
  <1> DEFINE f == sem["free"]  g == sem["full"]  a == Len(accepted)  d == Len(delivered)
             fh == Cardinality(FreeHeld)  fo == Cardinality(FreeOwed)
             gh == Cardinality(FullHeld)  go == Cardinality(FullOwed)
  <1>1. /\ f \in Nat /\ g \in Nat /\ a \in Nat /\ d \in Nat
        /\ fh \in Nat /\ fo \in Nat /\ gh \in Nat /\ go \in Nat
    BY CountTypes
  <1>2. f + fh + fo + a <= Size + d /\ g + gh + go + d <= a
    BY DEF SemaphoresCountSlots, FreeBound, FullBound
  <1>3. ASSUME NEW S, IsFiniteSet(S), NEW p \in S PROVE Cardinality(S) # 0
    BY <1>3, FS_EmptySet
  <1>4. IsFiniteSet(FreeHeld) /\ IsFiniteSet(FullOwed)
        /\ IsFiniteSet(FullHeld) /\ IsFiniteSet(FreeOwed)
    BY ProcessAssumption, FS_Subset DEF FreeHeld, FullOwed, FullHeld, FreeOwed
  <1>5. /\ \A p \in Producers : pc[p] \in FreeHeldAt => fh # 0
        /\ \A p \in Producers : pc[p] \in FullOwedAt => go # 0
        /\ \A p \in Consumers : pc[p] \in FullHeldAt => gh # 0
        /\ \A p \in Consumers : pc[p] \in FreeOwedAt => fo # 0
    BY <1>3, <1>4 DEF FreeHeld, FullOwed, FullHeld, FreeOwed
  <1>6. Occupied = a - d
    BY DEF Occupied
  <1> HIDE DEF f, g, a, d, fh, fo, gh, go
  <1>7. /\ Occupied \in 0 .. Size
        /\ fh # 0 \/ fo # 0 => Occupied < Size
        /\ gh # 0 \/ go # 0 => Occupied > 0
    BY <1>1, <1>2, <1>6, SizeAssumption
  <1>8. QED
    BY <1>5, <1>7

(* Nobody is between a character and its index but the process inside the    *)
(* critical section.                                                         *)
LEMMA AloneInside ==
  ASSUME MutexInv, NEW p \in Procs, pc[p] \in CSLabels
  PROVE  /\ \A q \in Procs \ {p} : pc[q] \notin CSLabels
         /\ Stored => p \in Producers /\ pc[p] = "put_in"
         /\ Fetched => p \in Consumers /\ pc[p] = "get_out"
  <1>1. \A q \in Procs \ {p} : pc[q] \notin CSLabels
    BY DEF MutexInv, MutualExclusion, InCS
  <1>2. QED
    BY <1>1 DEF Stored, Fetched, CSLabels, Procs

LEMMA InitRingInv == Init => RingInv
  <1> SUFFICES ASSUME Init PROVE RingInv
    OBVIOUS
  <1>1. ~ Fetched /\ ~ Stored
    BY DEF Init, Fetched, Stored, Procs
  <1>2. Occupied = 0
    BY DEF Init, Occupied
  <1>3. Shown = 0
    BY <1>1, <1>2 DEF Shown
  <1>4. IndicesShow
    BY <1>3, SizeAssumption DEF Init, IndicesShow, Wrap, Procs
  <1>5. SlotsHold
    BY <1>2, SizeAssumption DEF SlotsHold
  <1>6. QED
    BY <1>4, <1>5 DEF RingInv

(* A step that moves neither characters nor indices keeps the invariant, if  *)
(* the successor of in is right where it is going to be used.                *)
LEMMA QuietStep ==
  ASSUME TypeOK, RingInv, NEW p \in Procs, NEW label, Goto(p, label),
         UNCHANGED <<in, out, buf, accepted, delivered>>,
         pc[p] \notin {"get_out", "put_in"}, label \notin {"get_out", "put_in"},
         \A q \in Producers : pc'[q] \in {"put_lock", "put_store"}
                                => nextPos'[q] = (in + 1) % Size,
         \A q \in Producers \ {p} : nextPos'[q] = nextPos[q]
  PROVE  RingInv'
  <1>1. pc' = [pc EXCEPT ![p] = label] /\ pc \in [Procs -> PutLabels \cup GetLabels]
    BY DEF Goto, TypeOK
  <1>2. Fetched' = Fetched /\ Stored' = Stored
    BY <1>1 DEF Fetched, Stored, Procs
  <1>3. Occupied' = Occupied
    BY DEF Occupied
  <1>4. Shown' = Shown /\ HeadSlot' = HeadSlot
    BY <1>2, <1>3 DEF Shown, HeadSlot
  <1>5. IndicesShow'
    BY <1>1, <1>4 DEF RingInv, IndicesShow, Procs
  <1>6. QED
    BY <1>3, <1>4, <1>5 DEF RingInv, SlotsHold

(* As QuietStep, for a step that touches no nextPos. *)
LEMMA QuietCall ==
  ASSUME TypeOK, RingInv, NEW p \in Procs, NEW label, Goto(p, label),
         UNCHANGED <<in, out, buf, nextPos, accepted, delivered>>,
         pc[p] \notin {"get_out", "put_in"}, label \notin {"get_out", "put_in"},
         label \in {"put_lock", "put_store"} => pc[p] \in {"put_lock", "put_store"}
  PROVE  RingInv'
  <1>1. \A q \in Producers : pc'[q] \in {"put_lock", "put_store"}
                               => pc[q] \in {"put_lock", "put_store"}
    BY DEF Goto, TypeOK, Procs
  <1>2. \A q \in Producers : pc'[q] \in {"put_lock", "put_store"}
                               => nextPos'[q] = (in + 1) % Size
    BY <1>1 DEF RingInv, IndicesShow
  <1>3. QED
    BY <1>2, QuietStep

LEMMA PutStoreKeeps ==
  ASSUME SoleProducer, TypeOK, MutexInv, SemaphoresCountSlots, RingInv,
         NEW p \in Producers, PutStore(p)
  PROVE  RingInv'
  <1>1. /\ pc[p] = "put_store" /\ Goto(p, "put_in")
        /\ buf' = [buf EXCEPT ![in] = c[p]] /\ accepted' = Append(accepted, c[p])
        /\ UNCHANGED <<in, out, nextPos, delivered>>
    BY DEF PutStore
  <1>2. ~ Stored /\ ~ Fetched
    BY <1>1, AloneInside DEF CSLabels, Procs
  <1>3. Stored' /\ ~ Fetched'
    BY <1>1, <1>2, ProcessAssumption DEF Stored, Fetched, Goto, TypeOK, Procs
  <1>4. c[p] \in Data /\ Len(accepted) \in Nat /\ Len(delivered) \in Nat
    BY <1>1 DEF TypeOK
  <1>5. Len(accepted') = Len(accepted) + 1
    BY <1>1, <1>4 DEF TypeOK
  <1>6. Occupied' = Occupied + 1 /\ Occupied \in 0 .. Size - 1
    <2>1. Occupied \in 0 .. Size /\ Occupied < Size
      BY <1>1, OccupiedBounds DEF FreeHeldAt
    <2>2. QED
      BY <1>1, <1>4, <1>5, <2>1, SizeAssumption DEF Occupied
  <1>7. Shown = Occupied /\ Shown' = Shown /\ HeadSlot = out /\ HeadSlot' = out
    BY <1>1, <1>2, <1>3, <1>6 DEF Shown, HeadSlot
  <1>8. in = Wrap(out + Occupied) /\ out \in 0 .. Size - 1
    BY <1>7 DEF RingInv, IndicesShow, TypeOK
  <1>9. IndicesShow'
    BY <1>1, <1>7 DEF RingInv, IndicesShow, Goto, TypeOK, Procs
  <1>10. ASSUME NEW k \in 0 .. Size - 1, k < Occupied'
         PROVE  buf'[Wrap(HeadSlot' + k)] = accepted'[Len(delivered') + k + 1]
    <2>1. CASE k = Occupied
      <3>1. buf'[in] = c[p]
        BY <1>1 DEF TypeOK
      <3>2. Len(delivered') + k + 1 = Len(accepted) + 1
        BY <1>1, <1>4, <2>1 DEF Occupied
      <3>3. accepted'[Len(accepted) + 1] = c[p]
        BY <1>1, <1>4 DEF TypeOK
      <3>4. QED
        BY <1>7, <1>8, <2>1, <3>1, <3>2, <3>3
    <2>2. CASE k # Occupied
      <3>1. k < Occupied
        BY <1>6, <1>10, <2>2
      <3>2. Wrap(out + k) # in
        BY <1>6, <1>8, <2>2, WrapDistinct
      <3>3. Wrap(out + k) \in 0 .. Size - 1
        <4>1. k \in 0 .. Size
          BY SizeAssumption
        <4>2. QED
          BY <1>8, <4>1, WrapInSlots
      <3>4. buf'[Wrap(out + k)] = buf[Wrap(out + k)]
        BY <1>1, <3>2, <3>3 DEF TypeOK
      <3>5. Len(delivered) + k + 1 \in 1 .. Len(accepted)
        BY <1>4, <3>1 DEF Occupied
      <3>6. accepted'[Len(delivered) + k + 1] = accepted[Len(delivered) + k + 1]
        BY <1>1, <1>4, <3>5 DEF TypeOK
      <3>7. QED
        BY <1>1, <1>7, <3>1, <3>4, <3>6 DEF RingInv, SlotsHold
    <2>3. QED
      BY <2>1, <2>2
  <1>11. QED
    BY <1>9, <1>10 DEF RingInv, SlotsHold

LEMMA PutInKeeps ==
  ASSUME SoleProducer, TypeOK, MutexInv, SemaphoresCountSlots, RingInv,
         NEW p \in Producers, PutIn(p)
  PROVE  RingInv'
  <1>1. /\ pc[p] = "put_in" /\ Goto(p, "put_unlock") /\ in' = nextPos[p]
        /\ UNCHANGED <<out, buf, nextPos, accepted, delivered>>
    BY DEF PutIn, history
  <1>2. Stored /\ ~ Fetched
    BY <1>1, AloneInside, ProcessAssumption DEF CSLabels, Procs, Stored
  <1>3. ~ Stored' /\ ~ Fetched'
    BY <1>1, <1>2, ProcessAssumption
       DEF SoleProducer, Stored, Fetched, Goto, TypeOK, Procs
  <1>4. Occupied \in 1 .. Size /\ Occupied' = Occupied
    BY <1>1, OccupiedBounds, SizeAssumption DEF FullOwedAt, Occupied
  <1>5. Shown = Occupied - 1 /\ Shown' = Occupied /\ HeadSlot = out /\ HeadSlot' = out
    BY <1>1, <1>2, <1>3, <1>4 DEF Shown, HeadSlot
  <1>6. in' = Wrap(out + Occupied)
    <2>1. in = Wrap(out + (Occupied - 1)) /\ nextPos[p] = (in + 1) % Size
      BY <1>1, <1>5 DEF RingInv, IndicesShow
    <2>2. nextPos[p] = Wrap(in + 1)
      BY <2>1, ModSucc DEF TypeOK
    <2>3. Occupied - 1 \in 0 .. Size - 1 /\ (Occupied - 1) + 1 = Occupied
      BY <1>4, SizeAssumption
    <2>4. QED
      BY <1>1, <2>1, <2>2, <2>3, WrapStep DEF TypeOK
  <1>7. \A q \in Producers : pc'[q] = "put_unlock"
    BY <1>1 DEF SoleProducer, Goto, TypeOK, Procs
  <1>8. IndicesShow'
    BY <1>1, <1>5, <1>6, <1>7 DEF IndicesShow
  <1>9. QED
    BY <1>1, <1>4, <1>5, <1>8 DEF RingInv, SlotsHold

LEMMA GetFetchKeeps ==
  ASSUME TypeOK, MutexInv, SemaphoresCountSlots, RingInv,
         NEW p \in Consumers, GetFetch(p)
  PROVE  /\ RingInv'
         /\ Occupied > 0 /\ buf[out] = accepted[Len(delivered) + 1]
  <1>1. /\ pc[p] = "get_fetch" /\ Goto(p, "get_out")
        /\ delivered' = Append(delivered, buf[out])
        /\ UNCHANGED <<in, out, buf, nextPos, accepted>>
    BY DEF GetFetch, shm
  <1>2. ~ Stored /\ ~ Fetched
    BY <1>1, AloneInside DEF CSLabels, Procs
  <1>3. ~ Stored' /\ Fetched'
    BY <1>1, <1>2, ProcessAssumption DEF Stored, Fetched, Goto, TypeOK, Procs
  <1>4. /\ buf[out] \in Data \cup {Nul} /\ out \in 0 .. Size - 1
        /\ Len(accepted) \in Nat /\ Len(delivered) \in Nat
    BY DEF TypeOK
  <1>5. Len(delivered') = Len(delivered) + 1
    BY <1>1, <1>4 DEF TypeOK
  <1>6. Occupied \in 1 .. Size /\ Occupied' = Occupied - 1
    <2>1. Occupied \in 0 .. Size /\ Occupied > 0
      BY <1>1, OccupiedBounds DEF FullHeldAt
    <2>2. QED
      BY <1>1, <1>4, <1>5, <2>1, SizeAssumption DEF Occupied
  <1>7. Shown = Occupied /\ Shown' = Occupied /\ HeadSlot = out /\ HeadSlot' = Wrap(out + 1)
    BY <1>1, <1>2, <1>3, <1>6 DEF Shown, HeadSlot
  <1>8. IndicesShow'
    BY <1>1, <1>7 DEF RingInv, IndicesShow, Goto, TypeOK, Procs
  <1>9. ASSUME NEW k \in 0 .. Size - 1, k < Occupied'
        PROVE  buf'[Wrap(HeadSlot' + k)] = accepted'[Len(delivered') + k + 1]
    <2>1. k + 1 \in 0 .. Size - 1 /\ k + 1 < Occupied
      BY <1>6, <1>9, SizeAssumption
    <2>2. Wrap(Wrap(out + 1) + k) = Wrap(out + (k + 1))
      BY <1>4, WrapStep
    <2>3. buf[Wrap(out + (k + 1))] = accepted[Len(delivered) + (k + 1) + 1]
      BY <1>7, <2>1 DEF RingInv, SlotsHold
    <2>4. Len(delivered') + k + 1 = Len(delivered) + (k + 1) + 1
      BY <1>4, <1>5
    <2>5. QED
      BY <1>1, <1>7, <2>2, <2>3, <2>4
  <1>10. buf[out] = accepted[Len(delivered) + 1]
    <2>1. 0 \in 0 .. Size - 1 /\ 0 < Occupied /\ Len(delivered) + 0 + 1 = Len(delivered) + 1
      BY <1>4, <1>6, SizeAssumption
    <2>2. Wrap(out + 0) = out
      BY <1>4, SizeAssumption DEF Wrap
    <2>3. QED
      BY <1>7, <2>1, <2>2 DEF RingInv, SlotsHold
  <1>11. QED
    BY <1>6, <1>8, <1>9, <1>10 DEF RingInv, SlotsHold

LEMMA GetOutKeeps ==
  ASSUME TypeOK, MutexInv, SemaphoresCountSlots, RingInv, NEW p \in Consumers, GetOut(p)
  PROVE  RingInv'
  <1>1. /\ pc[p] = "get_out" /\ Goto(p, "get_unlock") /\ out' = (out + 1) % Size
        /\ UNCHANGED <<in, buf, nextPos, accepted, delivered>>
    BY DEF GetOut, history
  <1>2. ~ Stored /\ Fetched
    BY <1>1, AloneInside, ProcessAssumption DEF CSLabels, Procs, Fetched
  <1>3. ~ Stored' /\ ~ Fetched'
    <2>1. \A q \in Procs : pc'[q] # "get_out" /\ pc'[q] # "put_in"
      BY <1>1, AloneInside DEF Goto, TypeOK, Procs, CSLabels
    <2>2. QED
      BY <2>1 DEF Stored, Fetched, Procs
  <1>4. Occupied \in 0 .. Size - 1 /\ Occupied' = Occupied
    BY <1>1, OccupiedBounds, SizeAssumption DEF FreeOwedAt, Occupied
  <1>5. /\ Shown = Occupied + 1 /\ Shown' = Occupied
        /\ HeadSlot = Wrap(out + 1) /\ HeadSlot' = out'
    BY <1>2, <1>3, <1>4 DEF Shown, HeadSlot
  <1>6. out' = Wrap(out + 1)
    BY <1>1, ModSucc DEF TypeOK
  <1>7. in' = Wrap(out' + Occupied)
    BY <1>1, <1>4, <1>5, <1>6, WrapStep DEF RingInv, IndicesShow, TypeOK
  <1>8. IndicesShow'
    BY <1>1, <1>5, <1>7 DEF RingInv, IndicesShow, Goto, TypeOK, Procs
  <1>9. QED
    BY <1>1, <1>4, <1>5, <1>6, <1>8 DEF RingInv, SlotsHold

LEMMA StepRingInv ==
  ASSUME SoleProducer
  PROVE  TypeOK /\ MutexInv /\ SemaphoresCountSlots /\ RingInv /\ [Next]_vars => RingInv'
  <1> SUFFICES ASSUME TypeOK, MutexInv, SemaphoresCountSlots, RingInv, [Next]_vars
               PROVE  RingInv'
    OBVIOUS
  <1> USE DEF Procs, shm, history
  <1>1. ASSUME NEW p \in Producers, PutCall(p) PROVE RingInv'
    BY <1>1, QuietCall DEF PutCall
  <1>2. ASSUME NEW p \in Producers, PutFree(p) PROVE RingInv'
    BY <1>2, QuietCall DEF PutFree, _semdown
  <1>3. ASSUME NEW p \in Producers, PutNext(p) PROVE RingInv'
    <2>1. Goto(p, "put_lock") /\ nextPos' = [nextPos EXCEPT ![p] = (in + 1) % Size]
          /\ pc[p] = "put_next" /\ UNCHANGED <<in, out, buf, accepted, delivered>>
      BY <1>3 DEF PutNext
    <2>2. nextPos'[p] = (in + 1) % Size
      BY <2>1 DEF TypeOK
    <2>3. \A q \in Producers : q = p
      BY DEF SoleProducer
    <2>4. QED
      BY <2>1, <2>2, <2>3, QuietStep
  <1>4. ASSUME NEW p \in Producers, PutLock(p) PROVE RingInv'
    BY <1>4, QuietCall DEF PutLock, _semdown
  <1>5. ASSUME NEW p \in Producers, PutUnlock(p) \/ PutFull(p) PROVE RingInv'
    BY <1>5, QuietCall DEF PutUnlock, PutFull, _semup
  <1>6. ASSUME NEW p \in Consumers, GetFull(p) \/ GetLock(p) PROVE RingInv'
    BY <1>6, QuietCall DEF GetFull, GetLock, _semdown
  <1>7. ASSUME NEW p \in Consumers, GetUnlock(p) \/ GetFree(p) PROVE RingInv'
    BY <1>7, QuietCall DEF GetUnlock, GetFree, _semup
  <1>8. CASE UNCHANGED vars
    BY <1>8 DEF vars, RingInv, IndicesShow, SlotsHold, Shown, HeadSlot, Occupied,
                Fetched, Stored
  <1>9. QED
    BY <1>1, <1>2, <1>3, <1>4, <1>5, <1>6, <1>7, <1>8, PutStoreKeeps, PutInKeeps,
       GetFetchKeeps, GetOutKeeps DEF Next, PutStep, GetStep

(* With one producer, the occupied slots always hold, in order, exactly the  *)
(* characters put and not got yet, although in's successor is computed       *)
(* before the mutex is taken and calls may fail half way.                    *)
THEOREM RingHoldsChars ==
  ASSUME SoleProducer
  PROVE  Spec => []RingInv
  <1>1. Spec => [](TypeOK /\ MutexInv /\ SemaphoresCountSlots /\ RingInv)
    BY InitTypeOK, StepTypeOK, InitMutexInv, StepMutexInv, InitCounts, StepCounts,
       InitRingInv, StepRingInv, PTL DEF Spec
  <1>2. QED
    BY <1>1, PTL

--------------------------------------------------------------------------------
LEMMA RefinementStep ==
  TypeOK /\ MutexInv /\ SemaphoresCountSlots /\ RingInv /\ [Next]_vars
    => [Fifo!Next]_Fifo!vars
  <1> SUFFICES ASSUME TypeOK, MutexInv, SemaphoresCountSlots, RingInv, [Next]_vars
               PROVE  [Fifo!Next]_Fifo!vars
    OBVIOUS
  <1> USE DEF Fifo!vars
  <1>1. Len(accepted) \in Nat /\ Len(delivered) \in Nat
    BY DEF TypeOK
  <1>2. ASSUME NEW p \in Producers, PutStore(p) PROVE [Fifo!Next]_Fifo!vars
    <2>1. Occupied < Size
      BY <1>2, OccupiedBounds DEF PutStore, FreeHeldAt
    <2>2. Len(accepted) - Len(delivered) < Size
      BY <2>1 DEF Occupied
    <2>3. c[p] \in Data
      BY <1>2 DEF PutStore, TypeOK
    <2>4. Fifo!Send(c[p])
      BY <1>2, <2>2 DEF PutStore, Fifo!Send
    <2>5. QED
      BY <2>3, <2>4 DEF Fifo!Next
  <1>3. ASSUME NEW p \in Consumers, GetFetch(p) PROVE [Fifo!Next]_Fifo!vars
    <2>1. Occupied > 0 /\ buf[out] = accepted[Len(delivered) + 1]
      BY <1>3, GetFetchKeeps
    <2>2. Len(delivered) < Len(accepted)
      BY <1>1, <2>1 DEF Occupied
    <2>3. Fifo!Receive
      BY <1>3, <2>1, <2>2 DEF GetFetch, Fifo!Receive
    <2>4. QED
      BY <2>3 DEF Fifo!Next
  <1>4. CASE UNCHANGED <<accepted, delivered>>
    BY <1>4
  <1>5. \/ \E p \in Producers : PutStore(p)
        \/ \E p \in Consumers : GetFetch(p)
        \/ UNCHANGED <<accepted, delivered>>
    BY DEF Next, PutStep, GetStep, PutCall, PutFree, PutNext, PutLock, PutIn, PutUnlock,
           PutFull, GetFull, GetLock, GetOut, GetUnlock, GetFree, vars, history
  <1>6. QED
    BY <1>2, <1>3, <1>4, <1>5

(* With one producer and any number of consumers, the ring guarded by the    *)
(* three semaphores implements a FIFO channel of Size characters: buf_put    *)
(* and buf_get lose, repeat, overwrite and reorder nothing, whatever sem_flg *)
(* holds and whichever semops fail.                                          *)
THEOREM RingImplementsFifo ==
  ASSUME SoleProducer
  PROVE  Spec => ImplementsFifo
  <1>1. Init => Fifo!Init
    BY DEF Init, Fifo!Init
  <1>2. Spec => [](TypeOK /\ MutexInv /\ SemaphoresCountSlots /\ RingInv)
    BY InitTypeOK, StepTypeOK, InitMutexInv, StepMutexInv, InitCounts, StepCounts,
       InitRingInv, StepRingInv, PTL DEF Spec
  <1>3. QED
    BY <1>1, <1>2, RefinementStep, PTL DEF Spec, ImplementsFifo, Fifo!Spec
================================================================================
