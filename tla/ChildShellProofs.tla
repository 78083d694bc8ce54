---------------------------- MODULE ChildShellProofs ---------------------------
(***************************************************************************)
(* Machine-checked theorems about ChildShell, for every set of pids, every *)
(* number of looks of wait_status and of signals sent by others.           *)
(***************************************************************************)
EXTENDS ChildShell, SequenceTheorems, WellFoundedInduction, TLAPS

(* A nonempty set of natural numbers has a smallest element. *)
LEMMA Smallest ==
  ASSUME NEW T \in SUBSET Nat, T # {}
  PROVE  \E x \in T : \A y \in T : x <= y
  <1>1. PICK x \in T : \A y \in T : ~ (<<y, x>> \in OpToRel(<, Nat))
    BY NatLessThanWellFounded, WFMin
  <1>2. \A y \in T : ~ (y < x)
    BY <1>1 DEF OpToRel
  <1>3. QED
    BY <1>2

--------------------------------------------------------------------------------
Node == [pid : Pids, status : Statuses]
Child == [state : {"none", "running", "stopped", "zombie", "reaped", "stranger"},
          report : {"none", "STOP", "CONT"}, pend : SUBSET Signals, user : Users]
Waited(ch) == ch.state \in {"reaped", "stranger"}

(* Nothing more has to be done to end this child. *)
Handled(ch) == Alive(ch) => "KILL" \in ch.pend

(* What waitpid can report agrees with what the child is.                    *)
KernelOK(ch) ==
  /\ ch.report = "STOP" => ch.state = "stopped"
  /\ ch.report = "CONT" => ch.state = "running"
  /\ ~ Alive(ch) => ch.report = "none" /\ ch.pend = {}

(* The node l_search finds for its pid: later nodes of that pid are older.   *)
FirstNode(nodes, i) == \A j \in 1 .. i - 1 : nodes[j].pid # nodes[i].pid

StatusRight(node, ch) ==
  /\ Alive(ch) /\ ch.report = "none" => (node.status = "STOP" <=> ch.state = "stopped")
  /\ node.status = "DEAD" <=> Waited(ch)

(* The list agrees with the children, whatever the shell is doing.  What     *)
(* StatusTracksState says of pids with one node must be accompanied by what  *)
(* holds of the others: their newest node is not taken for dead too early.   *)
Agree(nodes, ch, dbl) ==
  /\ nodes \in Seq(Node) /\ ch \in [Pids -> Child] /\ dbl \subseteq Pids
  /\ \A p \in Pids : KernelOK(ch[p])
  /\ \A i \in 1 .. Len(nodes) : ch[nodes[i].pid].state # "none"
  /\ \A i, j \in 1 .. Len(nodes) :
       nodes[i].pid = nodes[j].pid /\ nodes[i].pid \notin dbl => i = j
  /\ \A i \in 1 .. Len(nodes) :
       nodes[i].pid \notin dbl => StatusRight(nodes[i], ch[nodes[i].pid])
  /\ \A i \in 1 .. Len(nodes) :
       nodes[i].status = "DEAD" /\ FirstNode(nodes, i) => Handled(ch[nodes[i].pid])
  /\ \A p \in Pids : Handled(ch[p]) \/ \E i \in 1 .. Len(nodes) : nodes[i].pid = p

(* What a signal and a step of the kernel may do to a child, as far as the   *)
(* shell is concerned.                                                       *)
Evolves(a, b) ==
  /\ b \in Child /\ KernelOK(b)
  /\ Alive(b) => Alive(a)
  /\ Waited(a) <=> Waited(b)
  /\ a.state = "none" <=> b.state = "none"
  /\ Handled(a) => Handled(b)
  /\ Alive(b) /\ b.report = "none" =>
       a.report = "none" /\ (a.state = "stopped" <=> b.state = "stopped")

--------------------------------------------------------------------------------
LEMMA NodePid ==
  ASSUME NEW nodes \in Seq(Node), NEW i \in 1 .. Len(nodes)
  PROVE  nodes[i] \in Node /\ nodes[i].pid \in Pids /\ nodes[i].status \in Statuses
  <1>1. nodes[i] \in Node
    BY ElementOfSeq
  <1>2. QED
    BY <1>1 DEF Node

LEMMA NextOfCases ==
  ASSUME NEW n \in Nat, NEW i \in 0 .. n
  PROVE  /\ NextOf(i, n) \in 0 .. n
         /\ i = n => NextOf(i, n) = 0
         /\ i < n => NextOf(i, n) = i + 1
  <1>1. CASE i = n
    BY <1>1 DEF NextOf
  <1>2. CASE i < n
    BY <1>2 DEF NextOf
  <1>3. QED
    BY <1>1, <1>2

(* Unlinking a node moves the ones behind it up. *)
LEMMA DelNode ==
  ASSUME NEW S, NEW nodes \in Seq(S), NEW i \in 1 .. Len(nodes)
  PROVE  /\ l_del_node(nodes, i) \in Seq(S)
         /\ Len(l_del_node(nodes, i)) = Len(nodes) - 1
         /\ \A j \in 1 .. Len(nodes) - 1 :
              l_del_node(nodes, i)[j] = IF j < i THEN nodes[j] ELSE nodes[j + 1]
  <1> DEFINE n == Len(nodes)
             before == SubSeq(nodes, 1, i - 1)
             after == SubSeq(nodes, i + 1, n)
  <1>1. n \in Nat /\ \A j \in 1 .. n : nodes[j] \in S
    OBVIOUS
  <1>2. /\ before \in Seq(S) /\ Len(before) = i - 1
        /\ \A j \in 1 .. i - 1 : before[j] = nodes[j]
    BY <1>1
  <1>3. /\ after \in Seq(S) /\ Len(after) = n - i
        /\ \A j \in 1 .. n - i : after[j] = nodes[i + j]
    BY <1>1
  <1>4. l_del_node(nodes, i) = before \o after
    BY DEF l_del_node, RemoveAt
  <1> HIDE DEF before, after
  <1>5. /\ before \o after \in Seq(S) /\ Len(before \o after) = n - 1
        /\ \A j \in 1 .. n - 1 :
             (before \o after)[j] = IF j < i THEN before[j] ELSE after[j - (i - 1)]
    <2>1. /\ before \o after \in Seq(S) /\ Len(before \o after) = Len(before) + Len(after)
          /\ \A j \in 1 .. Len(before) + Len(after) : (before \o after)[j] =
               IF j <= Len(before) THEN before[j] ELSE after[j - Len(before)]
      BY <1>2, <1>3, ConcatProperties
    <2>2. Len(before) + Len(after) = n - 1 /\ Len(before) = i - 1
      BY <1>1, <1>2, <1>3
    <2>3. \A j \in 1 .. n - 1 : (j <= i - 1 <=> j < i)
      BY <1>1
    <2>4. QED
      BY <2>1, <2>2, <2>3
  <1>6. \A j \in 1 .. n - 1 :
          (before \o after)[j] = IF j < i THEN nodes[j] ELSE nodes[j + 1]
    <2>1. SUFFICES ASSUME NEW j \in 1 .. n - 1
                   PROVE  (before \o after)[j] = IF j < i THEN nodes[j] ELSE nodes[j + 1]
      OBVIOUS
    <2>2. CASE j < i
      BY <2>2, <1>5, <1>2, <1>1
    <2>3. CASE ~ (j < i)
      <3>1. j - (i - 1) \in 1 .. n - i /\ i + (j - (i - 1)) = j + 1
        BY <2>3, <1>1
      <3>2. after[j - (i - 1)] = nodes[j + 1]
        BY <3>1, <1>3
      <3>3. QED
        BY <3>2, <2>3, <1>5, <1>1
    <2>4. QED
      BY <2>2, <2>3
  <1>7. QED
    BY <1>4, <1>5, <1>6

--------------------------------------------------------------------------------
(* kill(2) changes nothing the shell relies on. *)
LEMMA SignalledEvolves ==
  ASSUME NEW ch \in Child, KernelOK(ch), NEW sig \in {"CONT"} \cup Signals
  PROVE  Evolves(ch, Signalled(ch, sig)) /\ (sig = "KILL" => Handled(Signalled(ch, sig)))
  <1> USE DEF Evolves, KernelOK, Waited, Alive, Handled, Child
  <1>1. CASE ~ Alive(ch)
    <2>1. Signalled(ch, sig) = ch
      BY <1>1 DEF Signalled
    <2>2. QED
      BY <2>1, <1>1
  <1>2. CASE Alive(ch) /\ sig = "CONT"
    <2> DEFINE pend == ch.pend \ {"STOP"}
               report == IF ch.state = "stopped" THEN "CONT" ELSE ch.report
    <2>1. Signalled(ch, sig) = [ch EXCEPT !.state = "running", !.pend = pend, !.report = report]
      BY <1>2 DEF Signalled
    <2>2. /\ pend \in SUBSET Signals /\ ("KILL" \in ch.pend => "KILL" \in pend)
          /\ report \in {"none", "CONT"} /\ (report = "none" => ch.state # "stopped" /\ ch.report = "none")
      BY <1>2
    <2> HIDE DEF pend, report
    <2>3. QED
      BY <2>1, <2>2, <1>2
  <1>3. CASE Alive(ch) /\ sig # "CONT"
    <2> DEFINE pend == IF "KILL" \in ch.pend \cup {sig} THEN {"KILL"} ELSE ch.pend \cup {sig}
    <2>1. Signalled(ch, sig) = [ch EXCEPT !.pend = pend]
      BY <1>3 DEF Signalled
    <2>2. /\ pend \in SUBSET Signals
          /\ "KILL" \in ch.pend \/ sig = "KILL" => "KILL" \in pend
      BY <1>3 DEF Signals
    <2> HIDE DEF pend
    <2>3. QED
      BY <2>1, <2>2, <1>3
  <1>4. QED
    BY <1>1, <1>2, <1>3

(* A child that changes by itself or by a signal leaves the list right. *)
LEMMA EvolvesKeeps ==
  ASSUME NEW nodes, NEW ch, NEW dbl, Agree(nodes, ch, dbl),
         NEW p \in Pids, NEW b, Evolves(ch[p], b)
  PROVE  /\ Agree(nodes, [ch EXCEPT ![p] = b], dbl)
         /\ \A q \in Pids : Evolves(ch[q], [ch EXCEPT ![p] = b][q])
  <1> DEFINE next == [ch EXCEPT ![p] = b]
  <1>1. ch \in [Pids -> Child] /\ \A q \in Pids : KernelOK(ch[q])
    BY DEF Agree
  <1>2. \A q \in Pids : Evolves(ch[q], ch[q])
    BY <1>1 DEF Evolves
  <1>3. \A q \in Pids : Evolves(ch[q], next[q])
    BY <1>1, <1>2
  <1>4. next \in [Pids -> Child]
    BY <1>1 DEF Evolves
  <1> HIDE DEF next
  <1>5. nodes \in Seq(Node) /\ \A i \in 1 .. Len(nodes) : nodes[i].pid \in Pids
    BY NodePid DEF Agree
  <1>6. \A i \in 1 .. Len(nodes) :
          StatusRight(nodes[i], ch[nodes[i].pid]) => StatusRight(nodes[i], next[nodes[i].pid])
    BY <1>3, <1>5 DEF StatusRight, Evolves
  <1>7. \A q \in Pids : /\ Handled(ch[q]) => Handled(next[q])
                        /\ ch[q].state # "none" => next[q].state # "none"
                        /\ KernelOK(next[q])
    BY <1>3 DEF Evolves
  <1>8. Agree(nodes, next, dbl)
    BY <1>4, <1>5, <1>6, <1>7 DEF Agree
  <1>9. QED
    BY <1>8, <1>3 DEF next

(* One look of refresh_status at node i, as it leaves the nodes and children. *)
Look(nodes, ch, i, seen) ==
  /\ i \in 1 .. Len(nodes)
  /\ seen = StatusSeen(ch[nodes[i].pid], nodes[i].status)
RefreshedIn(nodes, i, seen) == [nodes EXCEPT ![i].status = seen]
WaitedFor(nodes, ch, i) == [ch EXCEPT ![nodes[i].pid] = AfterWait(@)]

(* waitpid's bookkeeping. *)
LEMMA AfterWaitFacts ==
  ASSUME NEW ch \in Child, KernelOK(ch), NEW status \in Statuses
  PROVE  /\ AfterWait(ch) \in Child /\ KernelOK(AfterWait(ch))
         /\ StatusSeen(ch, status) \in Statuses
         /\ Alive(AfterWait(ch)) <=> Alive(ch)
         /\ Handled(ch) <=> Handled(AfterWait(ch))
         /\ AfterWait(ch).state = "none" <=> ch.state = "none"
         /\ ~ Alive(ch) => StatusSeen(ch, status) = "DEAD"
         /\ StatusSeen(ch, status) = "DEAD" => ~ Alive(ch) \/ status = "DEAD"
         /\ StatusRight([pid |-> 0, status |-> status], ch) /\ ch.state # "none"
              => StatusRight([pid |-> 0, status |-> StatusSeen(ch, status)], AfterWait(ch))
  <1> USE DEF KernelOK, Waited, Alive, Handled, Child, Statuses, StatusRight
  <1>1. CASE ch.state = "zombie"
    BY <1>1 DEF AfterWait, StatusSeen, Users
  <1>2. CASE ~ Alive(ch) /\ ch.state # "zombie"
    BY <1>2 DEF AfterWait, StatusSeen
  <1>3. CASE Alive(ch) /\ ch.report # "none"
    BY <1>3 DEF AfterWait, StatusSeen
  <1>4. CASE Alive(ch) /\ ch.report = "none"
    BY <1>4 DEF AfterWait, StatusSeen
  <1>5. QED
    BY <1>1, <1>2, <1>3, <1>4

(* A look keeps the list right; a child that is then taken for dead needs    *)
(* nothing more, unless another node of its pid stands in front.             *)
LEMMA LookKeeps ==
  ASSUME NEW nodes, NEW ch, NEW dbl, Agree(nodes, ch, dbl), NEW i, NEW seen,
         Look(nodes, ch, i, seen)
  PROVE  /\ seen \in Statuses
         /\ Agree(RefreshedIn(nodes, i, seen), WaitedFor(nodes, ch, i), dbl)
         /\ Len(RefreshedIn(nodes, i, seen)) = Len(nodes)
         /\ \A j \in 1 .. Len(nodes) : RefreshedIn(nodes, i, seen)[j].pid = nodes[j].pid
         /\ RefreshedIn(nodes, i, seen)[i].status = seen
         /\ \A q \in Pids : Handled(ch[q]) <=> Handled(WaitedFor(nodes, ch, i)[q])
         /\ ~ Alive(ch[nodes[i].pid]) => seen = "DEAD"
         /\ Alive(WaitedFor(nodes, ch, i)[nodes[i].pid]) <=> Alive(ch[nodes[i].pid])
         /\ seen = "DEAD" /\ FirstNode(nodes, i) => Handled(ch[nodes[i].pid])
  <1> DEFINE p == nodes[i].pid
             old == nodes[i].status
             new == RefreshedIn(nodes, i, seen)
             next == WaitedFor(nodes, ch, i)
  <1>1. /\ nodes \in Seq(Node) /\ i \in 1 .. Len(nodes)
        /\ p \in Pids /\ old \in Statuses /\ nodes[i] \in Node
        /\ \A j \in 1 .. Len(nodes) : nodes[j] \in Node /\ nodes[j].pid \in Pids
    BY NodePid DEF Agree, Look
  <1>2. ch \in [Pids -> Child] /\ \A q \in Pids : KernelOK(ch[q])
    BY DEF Agree
  <1>3. seen = StatusSeen(ch[p], old) /\ next = [ch EXCEPT ![p] = AfterWait(ch[p])]
    BY DEF Look, WaitedFor
  <1>4. /\ AfterWait(ch[p]) \in Child /\ KernelOK(AfterWait(ch[p])) /\ seen \in Statuses
        /\ Alive(AfterWait(ch[p])) <=> Alive(ch[p])
        /\ Handled(ch[p]) <=> Handled(AfterWait(ch[p]))
        /\ AfterWait(ch[p]).state = "none" <=> ch[p].state = "none"
        /\ ~ Alive(ch[p]) => seen = "DEAD"
        /\ seen = "DEAD" => ~ Alive(ch[p]) \/ old = "DEAD"
    <2>1. ch[p] \in Child /\ KernelOK(ch[p]) /\ old \in Statuses
      BY <1>1, <1>2
    <2> HIDE DEF p, old
    <2>2. QED
      BY <2>1, <1>3, AfterWaitFacts
  <1>5. /\ next \in [Pids -> Child] /\ next[p] = AfterWait(ch[p])
        /\ \A q \in Pids : q # p => next[q] = ch[q]
    BY <1>1, <1>2, <1>3, <1>4
  <1>6. /\ new = [nodes EXCEPT ![i] = [nodes[i] EXCEPT !.status = seen]]
        /\ [nodes[i] EXCEPT !.status = seen] \in Node
        /\ [nodes[i] EXCEPT !.status = seen].pid = p
        /\ [nodes[i] EXCEPT !.status = seen].status = seen
    BY <1>1, <1>4 DEF RefreshedIn, Node
  <1>7. /\ new \in Seq(Node) /\ Len(new) = Len(nodes)
        /\ new[i].pid = p /\ new[i].status = seen
        /\ \A j \in 1 .. Len(nodes) : j # i => new[j] = nodes[j]
    BY <1>1, <1>6, ExceptSeq
  <1>8. \A j \in 1 .. Len(nodes) : new[j].pid = nodes[j].pid
    BY <1>7
  <1> HIDE DEF new, next
  <1>9. \A q \in Pids : /\ KernelOK(next[q])
                        /\ Handled(ch[q]) <=> Handled(next[q])
                        /\ next[q].state = "none" <=> ch[q].state = "none"
    BY <1>2, <1>4, <1>5
  <1>10. \A j \in 1 .. Len(nodes) : FirstNode(new, j) <=> FirstNode(nodes, j)
    BY <1>1, <1>8, SMTT(30) DEF FirstNode
  <1>11. seen = "DEAD" /\ FirstNode(nodes, i) => Handled(ch[p])
    BY <1>1, <1>4 DEF Agree, Handled
  <1>12. ASSUME NEW j \in 1 .. Len(nodes), new[j].status = "DEAD", FirstNode(new, j)
         PROVE  Handled(next[new[j].pid])
    <2>1. CASE j = i
      BY <2>1, <1>12, <1>10, <1>11, <1>9, <1>8, <1>7, <1>1
    <2>2. CASE j # i
      BY <2>2, <1>12, <1>10, <1>9, <1>8, <1>7, <1>1 DEF Agree
    <2>3. QED
      BY <2>1, <2>2
  <1>13. ASSUME NEW j \in 1 .. Len(nodes), new[j].pid \notin dbl
         PROVE  StatusRight(new[j], next[new[j].pid])
    <2>1. StatusRight(nodes[j], ch[nodes[j].pid])
      BY <1>13, <1>8 DEF Agree
    <2>2. CASE j = i
      <3>1. StatusRight([pid |-> 0, status |-> old], ch[p]) /\ ch[p].state # "none"
        BY <2>1, <2>2, <1>1 DEF StatusRight, Agree
      <3>2. StatusRight([pid |-> 0, status |-> seen], next[p])
        BY <3>1, <1>1, <1>2, <1>3, <1>5, AfterWaitFacts
      <3>3. QED
        BY <3>2, <2>2, <1>7 DEF StatusRight
    <2>3. CASE j # i
      <3>1. nodes[j].pid # p
        BY <2>3, <1>13, <1>8, <1>1 DEF Agree
      <3>2. QED
        BY <3>1, <2>1, <2>3, <1>5, <1>7, <1>1
    <2>4. QED
      BY <2>2, <2>3
  <1>14. ASSUME NEW q \in Pids
         PROVE  Handled(next[q]) \/ \E j \in 1 .. Len(new) : new[j].pid = q
    BY <1>7, <1>8, <1>9 DEF Agree
  <1>15. \A j, k \in 1 .. Len(new) : new[j].pid = new[k].pid /\ new[j].pid \notin dbl => j = k
    BY <1>7, <1>8 DEF Agree
  <1>16. \A j \in 1 .. Len(new) : next[new[j].pid].state # "none"
    BY <1>1, <1>7, <1>8, <1>9 DEF Agree
  <1>17. dbl \subseteq Pids
    BY DEF Agree
  <1>18. Agree(new, next, dbl)
    BY <1>5, <1>7, <1>9, <1>12, <1>13, <1>14, <1>15, <1>16, <1>17 DEF Agree
  <1>19. QED
    BY <1>4, <1>5, <1>7, <1>8, <1>9, <1>11, <1>18, <1>1 DEF new, next

(* Unlinking a node whose child needs nothing more keeps the list right. *)
LEMMA RemoveKeeps ==
  ASSUME NEW nodes, NEW ch, NEW dbl, Agree(nodes, ch, dbl), NEW i \in 1 .. Len(nodes),
         nodes[i].status = "DEAD" \/ Handled(ch[nodes[i].pid])
  PROVE  Agree(l_del_node(nodes, i), ch, dbl)
  <1> DEFINE new == l_del_node(nodes, i)
             Old(j) == IF j < i THEN j ELSE j + 1
             n == Len(nodes)
  <1>1. nodes \in Seq(Node) /\ n \in Nat /\ i \in 1 .. n
    BY LenProperties DEF Agree
  <1>2. /\ new \in Seq(Node) /\ Len(new) = n - 1
        /\ \A j \in 1 .. n - 1 : new[j] = IF j < i THEN nodes[j] ELSE nodes[j + 1]
    BY <1>1, DelNode
  <1>3. \A j \in 1 .. n - 1 : Old(j) \in 1 .. n /\ Old(j) # i
    BY <1>1
  <1>4. \A j \in 1 .. n - 1 : new[j] = nodes[Old(j)]
    BY <1>2
  <1>5. \A j, k \in 1 .. n - 1 : /\ Old(j) = Old(k) => j = k
                                 /\ k < j => Old(k) < Old(j)
    BY <1>1
  <1>6. \A m \in 1 .. n : m # i => \E j \in 1 .. n - 1 : Old(j) = m
    <2>1. SUFFICES ASSUME NEW m \in 1 .. n, m # i
                   PROVE  \E j \in 1 .. n - 1 : Old(j) = m
      OBVIOUS
    <2>2. CASE m < i
      <3>1. m \in 1 .. n - 1 /\ Old(m) = m
        BY <2>2, <1>1
      <3>2. QED
        BY <3>1
    <2>3. CASE m > i
      <3>1. m - 1 \in 1 .. n - 1 /\ Old(m - 1) = m
        BY <2>3, <1>1
      <3>2. QED
        BY <3>1
    <2>4. QED
      BY <2>1, <2>2, <2>3, <1>1
  <1> HIDE DEF new, Old, n
  <1>7. FirstNode(nodes, i) => Handled(ch[nodes[i].pid])
    BY <1>1 DEF Agree, n
  <1>8. ASSUME NEW j \in 1 .. n - 1, new[j].status = "DEAD", FirstNode(new, j)
        PROVE  Handled(ch[new[j].pid])
    <2>1. CASE FirstNode(nodes, Old(j))
      BY <2>1, <1>8, <1>3, <1>4 DEF Agree, n
    <2>2. CASE ~ FirstNode(nodes, Old(j))
      <3>1. PICK m \in 1 .. Old(j) - 1 : nodes[m].pid = nodes[Old(j)].pid
        BY <2>2 DEF FirstNode
      <3>2. \A k \in 1 .. Old(j) - 1 : k # i => nodes[k].pid # nodes[Old(j)].pid
        <4>1. SUFFICES ASSUME NEW k \in 1 .. Old(j) - 1, k # i,
                              nodes[k].pid = nodes[Old(j)].pid
                       PROVE  FALSE
          OBVIOUS
        <4>2. k \in 1 .. n
          BY <1>1, <1>3
        <4>3. PICK l \in 1 .. n - 1 : Old(l) = k
          BY <4>1, <4>2, <1>6
        <4>4. l < j
          <5>1. Old(l) < Old(j) /\ Old(l) \in Int /\ Old(j) \in Int
            BY <4>1, <4>3, <1>3, <1>1
          <5>2. ~ (j < l) /\ l # j
            BY <5>1, <1>5
          <5>3. QED
            BY <5>2, <1>1
        <4>5. QED
          BY <4>1, <4>3, <4>4, <1>4, <1>8, <1>1, SMTT(30) DEF FirstNode
      <3>3. m = i
        BY <3>1, <3>2
      <3>4. FirstNode(nodes, i)
        <4>1. \A k \in 1 .. i - 1 : k \in 1 .. Old(j) - 1 /\ k # i
          BY <3>1, <3>3, <1>1, <1>3
        <4>2. QED
          BY <4>1, <3>1, <3>2, <3>3 DEF FirstNode
      <3>5. QED
        BY <3>1, <3>3, <3>4, <1>7, <1>4
    <2>3. QED
      BY <2>1, <2>2
  <1>9. ASSUME NEW q \in Pids, ~ Handled(ch[q])
        PROVE  \E j \in 1 .. n - 1 : new[j].pid = q
    <2>1. \E m \in 1 .. n : nodes[m].pid = q
      BY <1>9 DEF Agree, n
    <2>2. \E m \in 1 .. n : m # i /\ nodes[m].pid = q
      <3>1. CASE nodes[i].pid # q
        BY <3>1, <2>1
      <3>2. CASE nodes[i].pid = q
        <4>1. ~ FirstNode(nodes, i)
          BY <3>2, <1>7, <1>9
        <4>2. PICK m \in 1 .. i - 1 : nodes[m].pid = q
          BY <4>1, <3>2 DEF FirstNode
        <4>3. m \in 1 .. n /\ m # i
          BY <1>1
        <4>4. QED
          BY <4>2, <4>3
      <3>3. QED
        BY <3>1, <3>2
    <2>3. QED
      BY <2>2, <1>4, <1>6
  <1>10. ASSUME NEW j \in 1 .. n - 1
         PROVE  /\ ch[new[j].pid].state # "none"
                /\ new[j].pid \notin dbl => StatusRight(new[j], ch[new[j].pid])
    <2>1. Old(j) \in 1 .. n /\ new[j] = nodes[Old(j)]
      BY <1>3, <1>4
    <2>2. QED
      BY <2>1 DEF Agree, n
  <1>11. \A j, k \in 1 .. n - 1 : new[j].pid = new[k].pid /\ new[j].pid \notin dbl => j = k
    BY <1>3, <1>4, <1>5 DEF Agree, n
  <1>12. /\ ch \in [Pids -> Child] /\ dbl \subseteq Pids
         /\ \A p \in Pids : KernelOK(ch[p])
    BY DEF Agree
  <1>13. QED
    BY <1>2, <1>8, <1>9, <1>10, <1>11, <1>12 DEF Agree, new

(* A child that fork has just returned, in front of the list. *)
LEMMA AddKeeps ==
  ASSUME NEW nodes, NEW ch, NEW dbl, Agree(nodes, ch, dbl), NEW p \in Pids,
         ch[p].state \in {"none", "reaped"}, NEW node,
         node = [pid |-> p, status |-> "NORMAL"]
  PROVE  Agree(<<node>> \o nodes, [ch EXCEPT ![p].state = "running"],
               IF \E i \in 1 .. Len(nodes) : nodes[i].pid = p THEN dbl \cup {p} ELSE dbl \ {p})
  <1> DEFINE new == <<node>> \o nodes
             next == [ch EXCEPT ![p].state = "running"]
             d == IF \E i \in 1 .. Len(nodes) : nodes[i].pid = p THEN dbl \cup {p} ELSE dbl \ {p}
             n == Len(nodes)
  <1>1. /\ nodes \in Seq(Node) /\ n \in Nat
        /\ \A i \in 1 .. n : nodes[i].pid \in Pids
    BY NodePid, LenProperties DEF Agree
  <1>2. node \in Node
    BY DEF Node, Statuses
  <1>3. /\ <<node>> \in Seq(Node) /\ Len(<<node>>) = 1 /\ <<node>>[1] = node
    BY <1>2
  <1>4. /\ new \in Seq(Node) /\ Len(new) = n + 1
        /\ new[1] = node /\ \A j \in 2 .. n + 1 : new[j] = nodes[j - 1]
    <2>1. /\ new \in Seq(Node) /\ Len(new) = Len(<<node>>) + n
          /\ \A i \in 1 .. Len(<<node>>) + n : new[i] =
               IF i <= Len(<<node>>) THEN <<node>>[i] ELSE nodes[i - Len(<<node>>)]
      BY <1>1, <1>3, ConcatProperties
    <2> HIDE DEF new
    <2>2. \A i \in 1 .. 1 + n : new[i] = IF i <= 1 THEN <<node>>[i] ELSE nodes[i - 1]
      BY <2>1, <1>3
    <2>3. QED
      BY <2>1, <2>2, <1>1, <1>3
  <1>5. /\ ch \in [Pids -> Child] /\ \A q \in Pids : KernelOK(ch[q])
        /\ dbl \subseteq Pids
    BY DEF Agree
  <1>6. /\ ch[p] \in Child /\ KernelOK(ch[p]) /\ ~ Alive(ch[p])
        /\ next = [ch EXCEPT ![p] = [ch[p] EXCEPT !.state = "running"]]
    BY <1>5 DEF Alive
  <1>7. /\ [ch[p] EXCEPT !.state = "running"] \in Child
        /\ KernelOK([ch[p] EXCEPT !.state = "running"])
        /\ [ch[p] EXCEPT !.state = "running"].state = "running"
    BY <1>6 DEF Child, KernelOK, Alive
  <1>8. /\ next \in [Pids -> Child] /\ next[p].state = "running"
        /\ \A q \in Pids : KernelOK(next[q])
        /\ \A q \in Pids : q # p => next[q] = ch[q]
    BY <1>5, <1>6, <1>7
  <1>9. d \subseteq Pids
    BY <1>5
  <1>10. /\ \A q \in d : q # p => q \in dbl
         /\ \A q \in dbl : q # p => q \in d
         /\ p \in d <=> \E i \in 1 .. n : nodes[i].pid = p
    OBVIOUS
  <1> HIDE DEF new, next, d, n
  <1>11. \A j \in 1 .. n + 1 : j = 1 \/ (j - 1 \in 1 .. n /\ new[j] = nodes[j - 1] /\ j \in 2 .. n + 1)
    BY <1>1, <1>4
  <1>12. ASSUME NEW j \in 1 .. n + 1 PROVE next[new[j].pid].state # "none"
    <2>1. CASE new[j].pid = p
      BY <2>1, <1>8
    <2>2. CASE new[j].pid # p
      <3>1. j - 1 \in 1 .. n /\ new[j] = nodes[j - 1]
        BY <2>2, <1>4, <1>11
      <3>2. QED
        BY <3>1, <2>2, <1>1, <1>8 DEF Agree, n
    <2>3. QED
      BY <2>1, <2>2
  <1>13. ASSUME NEW j \in 1 .. n + 1, NEW k \in 1 .. n + 1,
                new[j].pid = new[k].pid, new[j].pid \notin d
         PROVE  j = k
    <2>1. CASE new[j].pid = p
      <3>1. ~ \E i \in 1 .. n : nodes[i].pid = p
        BY <2>1, <1>13, <1>10
      <3>2. j = 1 /\ k = 1
        BY <3>1, <2>1, <1>11, <1>13
      <3>3. QED
        BY <3>2
    <2>2. CASE new[j].pid # p
      <3>1. j - 1 \in 1 .. n /\ k - 1 \in 1 .. n /\ new[j] = nodes[j - 1] /\ new[k] = nodes[k - 1]
        BY <2>2, <1>4, <1>11, <1>13
      <3>2. new[j].pid \notin dbl
        BY <2>2, <1>10, <1>13
      <3>3. j - 1 = k - 1
        BY <3>1, <3>2, <1>13 DEF Agree, n
      <3>4. QED
        BY <3>3
    <2>3. QED
      BY <2>1, <2>2
  <1>14. ASSUME NEW j \in 1 .. n + 1, new[j].pid \notin d
         PROVE  StatusRight(new[j], next[new[j].pid])
    <2>1. CASE j = 1
      BY <2>1, <1>4, <1>8 DEF StatusRight, Waited
    <2>2. CASE j # 1
      <3>1. j - 1 \in 1 .. n /\ new[j] = nodes[j - 1]
        BY <2>2, <1>11
      <3>2. new[j].pid # p
        BY <3>1, <1>10, <1>14
      <3>3. new[j].pid \notin dbl /\ new[j].pid \in Pids
        BY <3>1, <3>2, <1>1, <1>10, <1>14
      <3>4. QED
        BY <3>1, <3>2, <3>3, <1>8 DEF Agree, n
    <2>3. QED
      BY <2>1, <2>2
  <1>15. ASSUME NEW j \in 1 .. n + 1, new[j].status = "DEAD", FirstNode(new, j)
         PROVE  Handled(next[new[j].pid])
    <2>1. j # 1
      BY <1>4, <1>15
    <2>2. j - 1 \in 1 .. n /\ new[j] = nodes[j - 1] /\ j \in 2 .. n + 1
      BY <2>1, <1>11
    <2>3. new[j].pid # p
      <3>1. 1 \in 1 .. j - 1
        BY <2>2
      <3>2. QED
        BY <3>1, <1>4, <1>15 DEF FirstNode
    <2>4. FirstNode(nodes, j - 1)
      <3>1. SUFFICES ASSUME NEW k \in 1 .. j - 1 - 1 PROVE nodes[k].pid # nodes[j - 1].pid
        BY DEF FirstNode
      <3>2. k + 1 \in 1 .. j - 1 /\ k + 1 \in 2 .. n + 1 /\ k + 1 - 1 = k
        BY <2>2, <1>1
      <3>3. new[k + 1] = nodes[k]
        BY <3>2, <1>4
      <3>4. QED
        BY <3>2, <3>3, <2>2, <1>15 DEF FirstNode
    <2>5. QED
      BY <2>2, <2>3, <2>4, <1>1, <1>8, <1>15 DEF Agree, n
  <1>16. ASSUME NEW q \in Pids, ~ Handled(next[q])
         PROVE  \E j \in 1 .. n + 1 : new[j].pid = q
    <2>1. CASE q = p
      <3>1. 1 \in 1 .. n + 1 /\ new[1].pid = p
        BY <1>1, <1>4
      <3>2. QED
        BY <2>1, <3>1
    <2>2. CASE q # p
      <3>1. PICK i \in 1 .. n : nodes[i].pid = q
        BY <2>2, <1>8, <1>16 DEF Agree, n
      <3>2. i + 1 \in 2 .. n + 1 /\ i + 1 - 1 = i /\ i + 1 \in 1 .. n + 1
        BY <1>1
      <3>3. QED
        BY <3>1, <3>2, <1>4
    <2>3. QED
      BY <2>1, <2>2
  <1>17. Agree(new, next, d)
    BY <1>4, <1>8, <1>9, <1>12, <1>13, <1>14, <1>15, <1>16 DEF Agree
  <1>18. QED
    BY <1>17 DEF new, next, d

--------------------------------------------------------------------------------
(* The commands that can have brought the shell to a label. *)
Ops(label) ==
  CASE label \in Commands                  -> {label}
    [] label = "send_cont"                 -> {"cont", "kill", "exit"}
    [] label = "send_stop"                 -> {"stop"}
    [] label = "send_usr1"                 -> {"info"}
    [] label \in {"send_term", "send_kill"} -> {"kill", "exit"}
    [] label = "wait"                      -> {"stop", "cont", "kill", "exit"}
    [] label = "done"                      -> {"exit"}
    [] label = "failed"                    -> {"exec", "stop", "cont", "kill", "info", "exit"}
    [] label \in {"prompt", "refresh"}     -> {"unknown"}

Labels == Commands \cup {"prompt", "refresh", "send_cont", "send_stop", "send_term",
                         "send_usr1", "wait", "send_kill", "done", "failed"}

Place ==
  /\ pc \in Labels /\ op \in Ops(pc) /\ cur \in 0 .. Len(list)
  /\ pc \in Sending \cup {"wait"} => cur # 0
  /\ tries \in 0 .. Tries - 1 /\ external \in 0 .. MaxExternal

(* exit has dealt with the nodes in front of the one it is at. *)
Passed(i) == i < cur \/ (pc = "exit" /\ cur = 0)
ExitDone ==
  op = "exit" => \A i \in 1 .. Len(list) : Passed(i) => Handled(child[list[i].pid])

(* The other commands have looked at the node they are about. *)
CurSeen ==
  pc \in Sending \cup {"wait"} /\ op # "exit" /\ Waited(child[list[cur].pid])
    => list[cur].status = "DEAD"

ShellInv == Agree(list, child, doubled) /\ Place /\ ExitDone /\ CurSeen

LEMMA OpsOfLabel ==
  ASSUME NEW label \in Labels, NEW o \in Ops(label)
  PROVE  /\ o \in Commands
         /\ label \in Commands => o = label
         /\ label = "send_cont" => o \in {"cont", "kill", "exit"}
         /\ label = "send_stop" => o = "stop"
         /\ label = "send_usr1" => o = "info"
         /\ label \in {"send_term", "send_kill"} => o \in {"kill", "exit"}
         /\ label = "wait" => o \in {"stop", "cont", "kill", "exit"}
         /\ label \in {"prompt", "refresh"} => o = "unknown"
  BY DEF Labels, Ops, Commands

LEMMA InvTypeOK == ShellInv => TypeOK
  <1> SUFFICES ASSUME ShellInv PROVE TypeOK
    OBVIOUS
  <1>1. op \in Commands
    BY OpsOfLabel DEF ShellInv, Place
  <1>2. QED
    BY <1>1 DEF ShellInv, Place, Labels, Agree, TypeOK, Node, Child

LEMMA ListFacts ==
  ASSUME ShellInv
  PROVE  /\ Len(list) \in Nat /\ DOMAIN list = 1 .. Len(list)
         /\ \A i \in 1 .. Len(list) : list[i].pid \in Pids
         /\ list \in Seq(Node) /\ child \in [Pids -> Child]
  BY NodePid, LenProperties DEF ShellInv, Agree

LEMMA InitShellInv == Init => ShellInv
  <1> SUFFICES ASSUME Init PROVE ShellInv
    OBVIOUS
  <1>1. list \in Seq(Node) /\ Len(list) = 0
    BY DEF Init
  <1>2. NoChild \in Child /\ KernelOK(NoChild) /\ Handled(NoChild)
    BY DEF NoChild, Child, KernelOK, Handled, Alive, Signals, Users
  <1>3. child \in [Pids -> Child] /\ \A p \in Pids : child[p] = NoChild
    BY <1>2 DEF Init
  <1>4. Agree(list, child, doubled)
    BY <1>1, <1>2, <1>3 DEF Agree, Init
  <1>5. Place
    BY <1>1, TriesAssumption, BoundAssumption
    DEF Init, Place, Labels, Ops, Sending, Commands
  <1>6. QED
    BY <1>4, <1>5 DEF ShellInv, ExitDone, CurSeen, Init, Sending

--------------------------------------------------------------------------------
(* A child changes while the list does not. *)
LEMMA EvolveStep ==
  ASSUME ShellInv, NEW p \in Pids, NEW b, Evolves(child[p], b),
         child' = [child EXCEPT ![p] = b], list' = list, doubled' = doubled
  PROVE  /\ Agree(list', child', doubled')
         /\ \A i \in 1 .. Len(list) :
              /\ Handled(child[list[i].pid]) => Handled(child'[list[i].pid])
              /\ Waited(child[list[i].pid]) <=> Waited(child'[list[i].pid])
  <1>1. Agree(list, child', doubled) /\ \A q \in Pids : Evolves(child[q], child'[q])
    BY EvolvesKeeps DEF ShellInv
  <1>2. QED
    BY <1>1, ListFacts DEF Evolves

LEMMA KernelStep ==
  ASSUME ShellInv, NEW p \in Pids, NEW b, Evolves(child[p], b),
         child' = [child EXCEPT ![p] = b], external' \in 0 .. MaxExternal,
         UNCHANGED <<list, pc, op, cur, tries, doubled>>
  PROVE  ShellInv'
  <1>1. /\ Agree(list', child', doubled')
        /\ \A i \in 1 .. Len(list) :
             /\ Handled(child[list[i].pid]) => Handled(child'[list[i].pid])
             /\ Waited(child[list[i].pid]) <=> Waited(child'[list[i].pid])
    BY EvolveStep
  <1>2. Place'
    BY DEF ShellInv, Place
  <1>3. ExitDone'
    BY <1>1 DEF ShellInv, ExitDone, Passed
  <1>4. CurSeen'
    BY <1>1, ListFacts DEF ShellInv, CurSeen, Place
  <1>5. QED
    BY <1>1, <1>2, <1>3, <1>4 DEF ShellInv

LEMMA KernelKeeps ==
  ASSUME ShellInv, NEW p \in Pids, Kernel(p)
  PROVE  ShellInv'
  <1>1. child \in [Pids -> Child] /\ child[p] \in Child /\ KernelOK(child[p])
    BY DEF ShellInv, Agree
  <1>2. external \in 0 .. MaxExternal /\ MaxExternal \in Nat
    BY BoundAssumption DEF ShellInv, Place
  <1>3. Alive(child[p]) => Evolves(child[p], Died(child[p]))
    BY <1>1 DEF Evolves, Died, Child, KernelOK, Waited, Alive, Handled
  <1>4. CASE "KILL" \in child[p].pend /\ child' = [child EXCEPT ![p] = Died(@)]
             /\ UNCHANGED <<list, pc, op, cur, tries, external, doubled>>
    <2>1. Alive(child[p])
      BY <1>1, <1>4 DEF KernelOK
    <2>2. QED
      BY <2>1, <1>2, <1>3, <1>4, KernelStep
  <1>5. CASE /\ child[p].state = "running" /\ "STOP" \in child[p].pend
             /\ child' = [child EXCEPT ![p].state = "stopped", ![p].report = "STOP",
                                       ![p].pend = @ \ {"STOP"}]
             /\ UNCHANGED <<list, pc, op, cur, tries, external, doubled>>
    <2> DEFINE b == [child[p] EXCEPT !.state = "stopped", !.report = "STOP",
                                     !.pend = child[p].pend \ {"STOP"}]
    <2>1. Evolves(child[p], b)
      BY <1>1, <1>5 DEF Evolves, Child, KernelOK, Waited, Alive, Handled
    <2>2. child' = [child EXCEPT ![p] = b]
      BY <1>5
    <2>3. QED
      BY <2>1, <2>2, <1>2, <1>5, KernelStep
  <1>6. ASSUME NEW sig \in {"TERM", "USR1"} \cap child[p].pend,
               child[p].state = "running",
               child' \in {[child EXCEPT ![p] = Died(@)],
                           [child EXCEPT ![p].pend = @ \ {sig}]},
               UNCHANGED <<list, pc, op, cur, tries, external, doubled>>
        PROVE  ShellInv'
    <2>1. CASE child' = [child EXCEPT ![p] = Died(@)]
      <3>1. Alive(child[p])
        BY <1>6 DEF Alive
      <3>2. QED
        BY <2>1, <3>1, <1>2, <1>3, <1>6, KernelStep
    <2>2. CASE child' = [child EXCEPT ![p].pend = @ \ {sig}]
      <3> DEFINE b == [child[p] EXCEPT !.pend = child[p].pend \ {sig}]
      <3>1. Evolves(child[p], b)
        BY <1>1, <1>6 DEF Evolves, Child, KernelOK, Waited, Alive, Handled
      <3>2. child' = [child EXCEPT ![p] = b]
        BY <2>2
      <3>3. QED
        BY <3>1, <3>2, <1>2, <1>6, KernelStep
    <2>3. QED
      BY <2>1, <2>2, <1>6
  <1>7. CASE Deliver(p)
    BY <1>7, <1>4, <1>5, <1>6 DEF Deliver
  <1>8. CASE Die(p)
    BY <1>8, <1>2, <1>3, KernelStep DEF Die, Alive
  <1>9. CASE Outsider(p)
    <2>1. PICK sig \in {"STOP", "CONT", "KILL"} :
            child' = [child EXCEPT ![p] = Signalled(child[p], sig)]
      BY <1>9 DEF Outsider
    <2>2. Evolves(child[p], Signalled(child[p], sig))
      BY <1>1, SignalledEvolves DEF Signals
    <2>3. external' \in 0 .. MaxExternal
      BY <1>2, <1>9 DEF Outsider
    <2>4. QED
      BY <2>1, <2>2, <2>3, <1>9, KernelStep DEF Outsider
  <1>10. CASE Stranger(p)
    <2>1. PICK user \in Users :
            /\ child' = [child EXCEPT ![p].state = "stranger", ![p].user = user]
            /\ user = "other" => external < MaxExternal
            /\ external' = external + (IF user = "other" THEN 1 ELSE 0)
      BY <1>10 DEF Stranger
    <2> DEFINE b == [child[p] EXCEPT !.state = "stranger", !.user = user]
    <2>2. Evolves(child[p], b)
      BY <1>1, <1>10 DEF Stranger, Evolves, Child, KernelOK, Waited, Alive, Handled
    <2>3. child' = [child EXCEPT ![p] = b]
      BY <2>1
    <2>4. external' \in 0 .. MaxExternal
      BY <2>1, <1>2
    <2>5. QED
      BY <2>2, <2>3, <2>4, <1>10, KernelStep DEF Stranger
  <1>11. CASE ChangeUser(p)
    <2> DEFINE b == [child[p] EXCEPT !.user = "other"]
    <2>1. Evolves(child[p], b)
      BY <1>1 DEF Evolves, Child, KernelOK, Waited, Alive, Handled, Users
    <2>2. child' = [child EXCEPT ![p] = b]
      BY <1>11 DEF ChangeUser
    <2>3. external' \in 0 .. MaxExternal
      BY <1>2, <1>11 DEF ChangeUser
    <2>4. QED
      BY <2>1, <2>2, <2>3, <1>11, KernelStep DEF ChangeUser
  <1>12. QED
    BY <1>7, <1>8, <1>9, <1>10, <1>11 DEF Kernel

--------------------------------------------------------------------------------
(* What a look at a node of the list leaves. *)
LEMMA LookStep ==
  ASSUME ShellInv, NEW i \in 1 .. Len(list), NEW seen, refresh_status(i, seen)
  PROVE  /\ seen \in Statuses
         /\ Agree(Refreshed(i, seen), child', doubled)
         /\ Len(Refreshed(i, seen)) = Len(list)
         /\ \A j \in 1 .. Len(list) : Refreshed(i, seen)[j].pid = list[j].pid
         /\ Refreshed(i, seen)[i].status = seen
         /\ \A j \in 1 .. Len(list) : Handled(child[list[j].pid]) <=> Handled(child'[list[j].pid])
         /\ Waited(child'[list[i].pid]) => seen = "DEAD"
         /\ seen = "DEAD" /\ FirstNode(list, i) => Handled(child[list[i].pid])
  <1>1. Look(list, child, i, seen)
    BY DEF Look, refresh_status
  <1>2. child' = WaitedFor(list, child, i) /\ Refreshed(i, seen) = RefreshedIn(list, i, seen)
    BY DEF refresh_status, WaitedFor, Refreshed, RefreshedIn
  <1>3. /\ seen \in Statuses
        /\ Agree(Refreshed(i, seen), child', doubled)
        /\ Len(Refreshed(i, seen)) = Len(list)
        /\ \A j \in 1 .. Len(list) : Refreshed(i, seen)[j].pid = list[j].pid
        /\ Refreshed(i, seen)[i].status = seen
        /\ \A q \in Pids : Handled(child[q]) <=> Handled(child'[q])
        /\ ~ Alive(child[list[i].pid]) => seen = "DEAD"
        /\ Alive(child'[list[i].pid]) <=> Alive(child[list[i].pid])
        /\ seen = "DEAD" /\ FirstNode(list, i) => Handled(child[list[i].pid])
    BY <1>1, <1>2, LookKeeps DEF ShellInv
  <1>4. Waited(child'[list[i].pid]) => ~ Alive(child'[list[i].pid])
    BY DEF Waited, Alive
  <1>5. QED
    BY <1>3, <1>4, ListFacts

(* Unlinking a node that was just found dead. *)
LEMMA UnlinkDead ==
  ASSUME ShellInv, NEW i \in 1 .. Len(list), refresh_status(i, "DEAD")
  PROVE  /\ Agree(l_del_node(list, i), child', doubled)
         /\ Len(l_del_node(list, i)) = Len(list) - 1
  <1> DEFINE nodes == Refreshed(i, "DEAD")
  <1>1. /\ Agree(nodes, child', doubled) /\ Len(nodes) = Len(list)
        /\ nodes[i].status = "DEAD"
    BY LookStep
  <1>2. /\ nodes \in Seq(Node) /\ list \in Seq(Node) /\ Len(list) \in Nat
    BY <1>1, ListFacts DEF Agree
  <1>3. \A j \in 1 .. Len(list) : j # i => nodes[j] = list[j]
    BY <1>2 DEF Refreshed
  <1> HIDE DEF nodes
  <1>4. /\ l_del_node(list, i) \in Seq(Node) /\ Len(l_del_node(list, i)) = Len(list) - 1
        /\ \A j \in 1 .. Len(list) - 1 :
             l_del_node(list, i)[j] = IF j < i THEN list[j] ELSE list[j + 1]
    BY <1>2, DelNode
  <1>5. /\ l_del_node(nodes, i) \in Seq(Node) /\ Len(l_del_node(nodes, i)) = Len(list) - 1
        /\ \A j \in 1 .. Len(list) - 1 :
             l_del_node(nodes, i)[j] = IF j < i THEN nodes[j] ELSE nodes[j + 1]
    BY <1>1, <1>2, DelNode
  <1>6. \A j \in 1 .. Len(list) - 1 : l_del_node(list, i)[j] = l_del_node(nodes, i)[j]
    <2>1. SUFFICES ASSUME NEW j \in 1 .. Len(list) - 1
                   PROVE  l_del_node(list, i)[j] = l_del_node(nodes, i)[j]
      OBVIOUS
    <2>2. CASE j < i
      BY <2>2, <1>2, <1>3, <1>4, <1>5
    <2>3. CASE ~ (j < i)
      <3>1. j + 1 \in 1 .. Len(list) /\ j + 1 # i
        BY <2>3, <1>2
      <3>2. QED
        BY <3>1, <2>3, <1>3, <1>4, <1>5
    <2>4. QED
      BY <2>2, <2>3
  <1>7. l_del_node(list, i) = l_del_node(nodes, i)
    BY <1>4, <1>5, <1>6, SeqEqual
  <1>8. Agree(l_del_node(nodes, i), child', doubled)
    BY <1>1, RemoveKeeps
  <1>9. QED
    BY <1>4, <1>7, <1>8

LEMMA FirstSignalFacts ==
  ASSUME op \in {"kill", "stop", "cont", "info", "exit"}, NEW seen
  PROVE  FirstSignal(seen) # "none" =>
           /\ FirstSignal(seen) \in Sending /\ FirstSignal(seen) \in Labels
           /\ op \in Ops(FirstSignal(seen))
  BY DEF FirstSignal, Sending, Labels, Ops, Commands

(* What follows a wait, when nothing has to be done about the node any more. *)
LEMMA EndOfWaitKeeps ==
  ASSUME ShellInv, pc \in {"wait", "send_kill"}, NEW nodes,
         Agree(nodes, child', doubled), Len(nodes) = Len(list),
         \A j \in 1 .. Len(list) : /\ nodes[j].pid = list[j].pid
                                   /\ Handled(child[list[j].pid]) => Handled(child'[list[j].pid]),
         op = "kill" => nodes[cur].status = "DEAD" \/ Handled(child'[nodes[cur].pid]),
         op = "exit" => Handled(child'[nodes[cur].pid]),
         EndOfWait(nodes), tries' \in 0 .. Tries - 1, UNCHANGED <<external, doubled>>
  PROVE  ShellInv'
  <1>1. /\ op \in {"stop", "cont", "kill", "exit"} /\ cur \in 1 .. Len(list)
        /\ Len(list) \in Nat /\ external \in 0 .. MaxExternal
    BY OpsOfLabel, ListFacts DEF ShellInv, Place, Labels, Sending
  <1>2. CASE op = "kill"
    <2>1. list' = l_del_node(nodes, cur) /\ cur' = 0 /\ pc' = "prompt" /\ op' = "unknown"
      BY <1>2 DEF EndOfWait, BackToPrompt, Goto
    <2>2. Agree(list', child', doubled')
      BY <2>1, <1>1, <1>2, RemoveKeeps
    <2>3. list' \in Seq(Node)
      BY <2>2 DEF Agree
    <2>4. Place'
      BY <2>1, <2>3, <1>1, LenProperties DEF Place, Labels, Ops, Commands, Sending
    <2>5. QED
      BY <2>1, <2>2, <2>4 DEF ShellInv, ExitDone, CurSeen, Sending
  <1>3. CASE op = "exit"
    <2>1. list' = nodes /\ cur' = NextOf(cur, Len(list)) /\ pc' = "exit" /\ op' = "exit"
      BY <1>3 DEF EndOfWait, Goto
    <2>2. Agree(list', child', doubled')
      BY <2>1
    <2>3. /\ cur' \in 0 .. Len(list)
          /\ cur = Len(list) => cur' = 0
          /\ cur < Len(list) => cur' = cur + 1
      <3>1. cur \in 0 .. Len(list)
        BY <1>1
      <3>2. QED
        BY <3>1, <2>1, <1>1, NextOfCases
    <2>4. Place'
      BY <2>1, <2>3, <1>1 DEF Place, Labels, Ops, Commands, Sending
    <2>5. \A i \in 1 .. Len(list) : Passed(i)' => i <= cur
      BY <2>1, <2>3, <1>1 DEF Passed
    <2>6. \A i \in 1 .. Len(list) : i < cur => Handled(child[list[i].pid])
      BY <1>3 DEF ShellInv, ExitDone, Passed
    <2>7. \A i \in 1 .. Len(list) : i <= cur => Handled(child'[nodes[i].pid])
      BY <2>6, <1>1, <1>3
    <2>8. ExitDone'
      BY <2>1, <2>5, <2>7 DEF ExitDone
    <2>9. QED
      BY <2>1, <2>2, <2>4, <2>8 DEF ShellInv, CurSeen
  <1>4. CASE op \in {"stop", "cont"}
    <2>1. list' = nodes /\ cur' = 0 /\ pc' = "prompt" /\ op' = "unknown"
      BY <1>4 DEF EndOfWait, BackToPrompt, Goto
    <2>2. Place'
      BY <2>1, <1>1 DEF Place, Labels, Ops, Commands, Sending
    <2>3. QED
      BY <2>1, <2>2 DEF ShellInv, ExitDone, CurSeen, Sending
  <1>5. QED
    BY <1>1, <1>2, <1>3, <1>4

(* Looks at nodes in turn and leaves the list as it found it, but for what   *)
(* it saw: the loops of refresh_all and _list.                               *)
LEMMA LoopKeeps ==
  ASSUME ShellInv, pc \in {"refresh", "list"}, Agree(list', child', doubled'),
         cur' \in 0 .. Len(list'), UNCHANGED <<pc, op, tries, external>>
  PROVE  ShellInv'
  <1>1. op \in {"unknown", "list"}
    BY OpsOfLabel DEF ShellInv, Place, Labels, Commands
  <1>2. Place'
    BY DEF ShellInv, Place, Sending
  <1>3. QED
    BY <1>1, <1>2 DEF ShellInv, ExitDone, CurSeen, Sending

(* Of the pids that were given out twice only those of the list matter. *)
LEMMA ForgetUnlisted ==
  ASSUME Agree(list, child, doubled)
  PROVE  Agree(list, child, doubled \cap Listed)
  BY DEF Agree, Listed

(* The steps that leave the list and the children as they are. *)
LEMMA QuietKeeps ==
  ASSUME ShellInv,
         \/ ReadCommand \/ Obey \/ UnknownCommand \/ ExecFails \/ ListDone \/ ExitNode
         \/ SignalRefused \/ UNCHANGED vars
  PROVE  ShellInv'
  <1> USE DEF Goto, BackToPrompt
  <1>1. list' = list /\ child' = child
    BY DEF ReadCommand, Obey, UnknownCommand, ExecFails, ListDone, ExitNode, SignalRefused,
           vars
  <1>a. doubled' = doubled \/ doubled' = doubled \cap Listed
    BY DEF ReadCommand, Obey, UnknownCommand, ExecFails, ListDone, ExitNode, SignalRefused,
           vars
  <1>2. Agree(list', child', doubled')
    BY <1>1, <1>a, ForgetUnlisted DEF ShellInv
  <1>3. /\ Len(list) \in Nat /\ First \in 0 .. Len(list)
        /\ Len(list) # 0 => First = 1
    BY ListFacts, NextOfCases DEF First
  <1>4. /\ tries \in 0 .. Tries - 1 /\ external \in 0 .. MaxExternal
        /\ cur \in 0 .. Len(list) /\ op \in Ops(pc)
    BY DEF ShellInv, Place
  <1>5. CASE ReadCommand
    <2>1. op = "unknown" /\ pc' = "refresh" /\ op' = op /\ cur' = First
      BY <1>4, <1>5, OpsOfLabel DEF ReadCommand, Labels
    <2>2. Place'
      BY <2>1, <1>1, <1>3, <1>4, <1>5 DEF ReadCommand, Place, Labels, Ops, Commands, Sending
    <2>3. QED
      BY <2>1, <2>2, <1>2 DEF ShellInv, ExitDone, CurSeen, Sending
  <1>6. CASE Obey
    <2>1. /\ op' \in Commands /\ pc' = op' /\ UNCHANGED <<tries, external>>
          /\ cur' = IF op' \in {"list", "exit"} THEN First ELSE 0
      BY <1>6 DEF Obey
    <2>2. Place'
      BY <2>1, <1>1, <1>3, <1>4 DEF Place, Labels, Ops, Commands, Sending
    <2>3. ASSUME op' = "exit", NEW i \in 1 .. Len(list) PROVE ~ Passed(i)'
      BY <2>1, <2>3, <1>3 DEF Passed
    <2>4. ExitDone'
      BY <2>3, <1>1 DEF ExitDone
    <2>5. QED
      BY <2>1, <2>2, <2>4, <1>2 DEF ShellInv, CurSeen, Sending, Commands
  <1>7. CASE UnknownCommand
    BY <1>1, <1>2, <1>4, <1>7
    DEF UnknownCommand, ShellInv, Place, Labels, Ops, Commands, Sending, ExitDone, CurSeen
  <1>8. CASE ExecFails
    <2>1. /\ op = "exec"
          /\ (pc' = "failed" /\ op' = op) \/ (pc' = "prompt" /\ op' = "unknown")
      BY <1>4, <1>8, OpsOfLabel DEF ExecFails, Labels, Commands
    <2>2. Place'
      BY <2>1, <1>1, <1>4, <1>8 DEF ExecFails, Place, Labels, Ops, Commands, Sending
    <2>3. QED
      BY <2>1, <2>2, <1>2 DEF ShellInv, ExitDone, CurSeen, Sending
  <1>9. CASE ListDone
    BY <1>1, <1>2, <1>4, <1>9
    DEF ListDone, ShellInv, Place, Labels, Ops, Commands, Sending, ExitDone, CurSeen
  <1>10. CASE ExitNode
    <2>1. op = "exit" /\ pc = "exit" /\ cur # 0 /\ op' = op /\ cur' = cur
      BY <1>4, <1>10, OpsOfLabel DEF ExitNode, Labels, Commands
    <2>2. pc' = FirstSignal(list[cur].status) /\ pc' # "none"
      BY <2>1, <1>10 DEF ExitNode, FirstSignal
    <2>3. pc' \in Sending /\ pc' \in Labels /\ op' \in Ops(pc')
      BY <2>1, <2>2, FirstSignalFacts
    <2>4. Place'
      BY <2>1, <2>3, <1>1, <1>4, <1>10 DEF ExitNode, Place
    <2>5. \A i \in 1 .. Len(list) : Passed(i)' => Passed(i)
      BY <2>1, <2>3 DEF Passed, Sending
    <2>6. ExitDone'
      BY <2>1, <2>5, <1>1 DEF ShellInv, ExitDone
    <2>7. QED
      BY <2>1, <2>4, <2>6, <1>2 DEF ShellInv, CurSeen
  <1>11. CASE SignalRefused
    <2>1. /\ pc \in Sending /\ pc' = "failed" /\ op' = op /\ cur' = cur
          /\ op \in {"stop", "cont", "kill", "info", "exit"}
      BY <1>4, <1>11, OpsOfLabel DEF SignalRefused, Sending, Labels
    <2>2. Place'
      BY <2>1, <1>1, <1>4, <1>11
      DEF SignalRefused, Place, Labels, Ops, Commands, Sending
    <2>3. \A i \in 1 .. Len(list) : Passed(i)' => Passed(i)
      BY <2>1 DEF Passed
    <2>4. ExitDone'
      BY <2>1, <2>3, <1>1 DEF ShellInv, ExitDone
    <2>5. QED
      BY <2>1, <2>2, <2>4, <1>2 DEF ShellInv, CurSeen, Sending
  <1>12. CASE UNCHANGED vars
    BY <1>12 DEF vars, ShellInv, Place, ExitDone, CurSeen, Passed
  <1>13. QED
    BY <1>5, <1>6, <1>7, <1>8, <1>9, <1>10, <1>11, <1>12

LEMMA RefreshNodeKeeps == ShellInv /\ RefreshNode => ShellInv'
  <1> SUFFICES ASSUME ShellInv, RefreshNode PROVE ShellInv'
    OBVIOUS
  <1>1. /\ cur \in 1 .. Len(list) /\ Len(list) \in Nat /\ pc = "refresh"
        /\ UNCHANGED <<pc, op, tries, external, doubled>>
    BY ListFacts DEF RefreshNode, ShellInv, Place
  <1>2. PICK seen \in Statuses :
          /\ refresh_status(cur, seen)
          /\ \/ /\ seen # "DEAD"
                /\ list' = Refreshed(cur, seen)
                /\ cur' = NextOf(cur, Len(list))
             \/ /\ seen = "DEAD"
                /\ list' = l_del_node(list, cur)
                /\ cur' = NextOf(IF cur = Len(list) THEN 0 ELSE cur, Len(list'))
    BY DEF RefreshNode
  <1>3. CASE seen # "DEAD"
    <2>1. Agree(list', child', doubled') /\ Len(list') = Len(list)
      BY <1>1, <1>2, <1>3, LookStep
    <2>2. cur' \in 0 .. Len(list')
      BY <2>1, <1>1, <1>2, <1>3, NextOfCases
    <2>3. QED
      BY <2>1, <2>2, <1>1, LoopKeeps
  <1>4. CASE seen = "DEAD"
    <2>1. Agree(list', child', doubled') /\ Len(list') = Len(list) - 1
      BY <1>1, <1>2, <1>4, UnlinkDead
    <2>2. (IF cur = Len(list) THEN 0 ELSE cur) \in 0 .. Len(list') /\ Len(list') \in Nat
      BY <2>1, <1>1
    <2>3. cur' \in 0 .. Len(list')
      BY <2>2, <1>2, <1>4, NextOfCases
    <2>4. QED
      BY <2>1, <2>3, <1>1, LoopKeeps
  <1>5. QED
    BY <1>3, <1>4

LEMMA ListNodeKeeps == ShellInv /\ ListNode => ShellInv'
  <1> SUFFICES ASSUME ShellInv, ListNode PROVE ShellInv'
    OBVIOUS
  <1>1. /\ cur \in 1 .. Len(list) /\ Len(list) \in Nat /\ pc = "list"
        /\ UNCHANGED <<pc, op, tries, external, doubled>> /\ cur' = NextOf(cur, Len(list))
    BY ListFacts DEF ListNode, ShellInv, Place
  <1>2. PICK seen \in Statuses : refresh_status(cur, seen) /\ list' = Refreshed(cur, seen)
    BY DEF ListNode
  <1>3. Agree(list', child', doubled') /\ Len(list') = Len(list)
    BY <1>1, <1>2, LookStep
  <1>4. cur' \in 0 .. Len(list')
    BY <1>1, <1>3, NextOfCases
  <1>5. QED
    BY <1>1, <1>3, <1>4, LoopKeeps

LEMMA ExecKeeps == ShellInv /\ Exec => ShellInv'
  <1> SUFFICES ASSUME ShellInv, Exec PROVE ShellInv'
    OBVIOUS
  <1>1. PICK p \in Pids :
          /\ child[p].state \in {"none", "reaped"}
          /\ child' = [child EXCEPT ![p].state = "running"]
          /\ list' = <<[pid |-> p, status |-> "NORMAL"]>> \o list
          /\ doubled' = IF p \in Listed THEN doubled \cup {p} ELSE doubled \ {p}
    BY DEF Exec, l_add
  <1>2. p \in Listed <=> \E i \in 1 .. Len(list) : list[i].pid = p
    BY ListFacts DEF Listed
  <1>3. Agree(list', child', doubled')
    BY <1>1, <1>2, AddKeeps DEF ShellInv
  <1>4. list' \in Seq(Node) /\ Len(list') = Len(list) + 1
    BY <1>1, <1>3, ListFacts DEF Agree
  <1>5. pc' = "prompt" /\ op' = "unknown" /\ UNCHANGED <<cur, tries, external>>
    BY DEF Exec, BackToPrompt, Goto
  <1>6. Place'
    BY <1>4, <1>5, ListFacts DEF ShellInv, Place, Labels, Ops, Commands, Sending
  <1>7. QED
    BY <1>3, <1>5, <1>6 DEF ShellInv, ExitDone, CurSeen, Sending

(* l_search finds the first node of a pid. *)
LEMMA SearchFinds ==
  ASSUME ShellInv, NEW p, l_search(p) # 0
  PROVE  l_search(p) \in 1 .. Len(list)
  <1> DEFINE Has(i) == list[i].pid = p
             Is(i) == i \in 1 .. Len(list) /\ Has(i) /\ \A j \in 1 .. i - 1 : ~ Has(j)
  <1>1. Len(list) \in Nat /\ DOMAIN list = 1 .. Len(list)
    BY ListFacts
  <1>2. PICK i \in 1 .. Len(list) : Has(i)
    BY <1>1 DEF l_search
  <1>3. \E k \in 1 .. Len(list) : Is(k)
    <2> DEFINE T == {j \in Nat : j \in 1 .. Len(list) /\ Has(j)}
    <2>1. T \in SUBSET Nat /\ T # {}
      BY <1>1, <1>2
    <2>2. PICK k \in T : \A j \in T : k <= j
      BY <2>1, Smallest
    <2>3. \A j \in 1 .. k - 1 : ~ Has(j)
      BY <2>2, <1>1
    <2>4. QED
      BY <2>2, <2>3
  <1>4. l_search(p) = CHOOSE k \in 1 .. Len(list) :
                        list[k].pid = p /\ \A j \in 1 .. k - 1 : list[j].pid # p
    BY <1>1, <1>2 DEF l_search
  <1>5. QED
    BY <1>3, <1>4

LEMMA ReadPidKeeps == ShellInv /\ ReadPid => ShellInv'
  <1> SUFFICES ASSUME ShellInv, ReadPid PROVE ShellInv'
    OBVIOUS
  <1>1. /\ op \in {"kill", "stop", "cont", "info"} /\ pc = op
        /\ UNCHANGED <<tries, external, doubled>> /\ Len(list) \in Nat
        /\ tries \in 0 .. Tries - 1 /\ external \in 0 .. MaxExternal
        /\ cur \in 0 .. Len(list)
    BY OpsOfLabel, ListFacts DEF ReadPid, ShellInv, Place, Labels, Commands
  <1>2. CASE pc' = "prompt" /\ op' = "unknown" /\ UNCHANGED <<list, child, cur>>
    <2>1. Place'
      BY <1>1, <1>2 DEF Place, Labels, Ops, Commands, Sending
    <2>2. QED
      BY <2>1, <1>1, <1>2 DEF ShellInv, ExitDone, CurSeen, Sending
  <1>3. ASSUME NEW p \in Pids, l_search(p) # 0, NEW seen \in Statuses,
               refresh_status(l_search(p), seen), list' = Refreshed(l_search(p), seen),
               \/ /\ FirstSignal(seen) = "none"
                  /\ BackToPrompt /\ UNCHANGED cur
               \/ /\ FirstSignal(seen) # "none"
                  /\ Goto(FirstSignal(seen)) /\ UNCHANGED op
                  /\ cur' = l_search(p)
        PROVE  ShellInv'
    <2> DEFINE i == l_search(p)
    <2>1. i \in 1 .. Len(list)
      BY <1>3, SearchFinds
    <2>2. /\ Agree(list', child', doubled') /\ Len(list') = Len(list)
          /\ list'[i].pid = list[i].pid /\ list'[i].status = seen
          /\ Waited(child'[list[i].pid]) => seen = "DEAD"
      BY <2>1, <1>1, <1>3, LookStep
    <2> HIDE DEF i
    <2>3. CASE FirstSignal(seen) = "none"
      <3>1. pc' = "prompt" /\ op' = "unknown" /\ cur' = cur
        BY <2>3, <1>3 DEF BackToPrompt, Goto
      <3>2. Place'
        BY <3>1, <2>2, <1>1 DEF Place, Labels, Ops, Commands, Sending
      <3>3. QED
        BY <3>1, <3>2, <2>2 DEF ShellInv, ExitDone, CurSeen, Sending
    <2>4. CASE FirstSignal(seen) # "none"
      <3>1. /\ pc' \in Sending /\ pc' \in Labels /\ op' \in Ops(pc') /\ op' = op /\ cur' = i
        BY <2>4, <1>1, <1>3, FirstSignalFacts DEF Goto, i
      <3>2. Place'
        BY <3>1, <2>1, <2>2, <1>1 DEF Place
      <3>3. CurSeen'
        BY <3>1, <2>2 DEF CurSeen
      <3>4. QED
        BY <3>1, <3>2, <3>3, <2>2, <1>1 DEF ShellInv, ExitDone
    <2>5. QED
      BY <2>3, <2>4
  <1>4. QED
    BY <1>2, <1>3 DEF ReadPid, BackToPrompt, Goto

LEMMA DestroyKeeps == ShellInv /\ l_destroy => ShellInv'
  <1> SUFFICES ASSUME ShellInv, l_destroy PROVE ShellInv'
    OBVIOUS
  <1>1. /\ pc = "exit" /\ op = "exit" /\ cur = 0 /\ list' = <<>> /\ pc' = "done"
        /\ UNCHANGED <<child, op, cur, tries, external, doubled>>
    BY OpsOfLabel DEF l_destroy, Goto, ShellInv, Place, Labels, Commands
  <1>2. \A i \in 1 .. Len(list) : Handled(child[list[i].pid])
    BY <1>1 DEF ShellInv, ExitDone, Passed
  <1>3. \A p \in Pids : Handled(child[p])
    BY <1>2 DEF ShellInv, Agree
  <1>4. list' \in Seq(Node) /\ Len(list') = 0
    BY <1>1
  <1>5. Agree(list', child', doubled')
    BY <1>1, <1>3, <1>4 DEF ShellInv, Agree
  <1>6. Place'
    BY <1>1, <1>4 DEF ShellInv, Place, Labels, Ops, Commands, Sending
  <1>7. QED
    BY <1>1, <1>4, <1>5, <1>6 DEF ShellInv, ExitDone, CurSeen, Sending

(* A signal that is sent: the node and what is known of it stay. *)
LEMMA SendKeeps ==
  ASSUME ShellInv, pc \in Sending, NEW sig \in {"CONT"} \cup Signals, send_signal(sig),
         UNCHANGED <<list, doubled>>
  PROVE  /\ Agree(list', child', doubled') /\ cur \in 1 .. Len(list)
         /\ \A i \in 1 .. Len(list) :
              /\ Handled(child[list[i].pid]) => Handled(child'[list[i].pid])
              /\ Waited(child[list[i].pid]) <=> Waited(child'[list[i].pid])
         /\ sig = "KILL" => Handled(child'[list[cur].pid])
  <1>1. cur \in 1 .. Len(list) /\ list[cur].pid \in Pids /\ child \in [Pids -> Child]
    BY ListFacts DEF ShellInv, Place
  <1>2. child[list[cur].pid] \in Child /\ KernelOK(child[list[cur].pid])
    BY <1>1 DEF ShellInv, Agree
  <1> DEFINE b == Signalled(child[list[cur].pid], sig)
  <1>3. Evolves(child[list[cur].pid], b) /\ (sig = "KILL" => Handled(b))
    BY <1>2, SignalledEvolves
  <1>4. child' = [child EXCEPT ![list[cur].pid] = b]
    BY DEF send_signal
  <1> HIDE DEF b
  <1>5. child'[list[cur].pid] = b
    BY <1>1, <1>4
  <1>6. QED
    BY <1>1, <1>3, <1>4, <1>5, EvolveStep

LEMMA SendsKeep ==
  ASSUME ShellInv, SendCont \/ SendStop \/ SendTerm
  PROVE  ShellInv'
  <1>1. /\ op \in {"cont", "stop", "kill", "exit"} /\ pc \in Sending
        /\ UNCHANGED <<list, op, cur, tries, external, doubled>>
        /\ pc' \in {"wait", "send_term"} /\ (op \in {"cont", "stop"} => pc' = "wait")
    BY OpsOfLabel
    DEF SendCont, SendStop, SendTerm, ShellInv, Place, Labels, Commands, Sending, Goto
  <1>2. PICK sig \in {"CONT"} \cup Signals : send_signal(sig)
    BY DEF SendCont, SendStop, SendTerm, Signals
  <1>3. /\ Agree(list', child', doubled') /\ cur \in 1 .. Len(list)
        /\ \A i \in 1 .. Len(list) :
             /\ Handled(child[list[i].pid]) => Handled(child'[list[i].pid])
             /\ Waited(child[list[i].pid]) <=> Waited(child'[list[i].pid])
    BY <1>1, <1>2, SendKeeps
  <1>4. Place'
    BY <1>1, <1>3 DEF ShellInv, Place, Labels, Ops, Commands, Sending
  <1>5. ExitDone'
    BY <1>1, <1>3 DEF ShellInv, ExitDone, Passed, Sending
  <1>6. CurSeen'
    BY <1>1, <1>3 DEF ShellInv, CurSeen
  <1>7. QED
    BY <1>3, <1>4, <1>5, <1>6 DEF ShellInv

LEMMA SendUsr1Keeps == ShellInv /\ SendUsr1 => ShellInv'
  <1> SUFFICES ASSUME ShellInv, SendUsr1 PROVE ShellInv'
    OBVIOUS
  <1>1. /\ pc' = "prompt" /\ op' = "unknown" /\ cur' = 0 /\ pc \in Sending
        /\ UNCHANGED <<list, tries, external, doubled>> /\ send_signal("USR1")
    BY DEF SendUsr1, BackToPrompt, Goto, Sending
  <1>2. Agree(list', child', doubled')
    BY <1>1, SendKeeps DEF Signals
  <1>3. Place'
    BY <1>1, ListFacts DEF ShellInv, Place, Labels, Ops, Commands, Sending
  <1>4. QED
    BY <1>1, <1>2, <1>3 DEF ShellInv, ExitDone, CurSeen, Sending

LEMMA SendKillKeeps == ShellInv /\ SendKill => ShellInv'
  <1> SUFFICES ASSUME ShellInv, SendKill PROVE ShellInv'
    OBVIOUS
  <1>1. /\ pc = "send_kill" /\ pc \in Sending /\ send_signal("KILL") /\ EndOfWait(list)
        /\ UNCHANGED <<tries, external, doubled>> /\ tries' \in 0 .. Tries - 1
    BY DEF SendKill, Sending, ShellInv, Place
  <1>2. child' = [child EXCEPT ![list[cur].pid] = Signalled(@, "KILL")]
    BY <1>1 DEF send_signal
  <1>3. cur \in 1 .. Len(list) /\ list[cur].pid \in Pids /\ child \in [Pids -> Child]
    BY <1>1, ListFacts DEF ShellInv, Place
  <1> DEFINE b == Signalled(child[list[cur].pid], "KILL")
  <1>4. Evolves(child[list[cur].pid], b) /\ Handled(b)
    BY <1>3, SignalledEvolves DEF ShellInv, Agree, Signals
  <1> HIDE DEF b
  <1>5. /\ Agree(list, child', doubled)
        /\ \A q \in Pids : Evolves(child[q], child'[q])
    BY <1>2, <1>3, <1>4, EvolvesKeeps DEF ShellInv, b
  <1>6. Handled(child'[list[cur].pid])
    BY <1>2, <1>3, <1>4 DEF b
  <1>7. \A j \in 1 .. Len(list) : Handled(child[list[j].pid]) => Handled(child'[list[j].pid])
    BY <1>5, ListFacts DEF Evolves
  <1>8. QED
    BY <1>1, <1>5, <1>6, <1>7, EndOfWaitKeeps

--------------------------------------------------------------------------------
(* A look of wait_status that is followed by EndOfWait. *)
LEMMA LookEndsWait ==
  ASSUME ShellInv, pc = "wait", NEW seen, refresh_status(cur, seen),
         EndOfWait(Refreshed(cur, seen)), tries' \in 0 .. Tries - 1,
         UNCHANGED <<external, doubled>>, op \in {"kill", "exit"} => seen = "DEAD"
  PROVE  ShellInv'
  <1> DEFINE nodes == Refreshed(cur, seen)
  <1>1. cur \in 1 .. Len(list) /\ Len(list) \in Nat
    BY ListFacts DEF ShellInv, Place
  <1>2. /\ Agree(nodes, child', doubled) /\ Len(nodes) = Len(list)
        /\ \A j \in 1 .. Len(list) : nodes[j].pid = list[j].pid
        /\ nodes[cur].status = seen
        /\ \A j \in 1 .. Len(list) : Handled(child[list[j].pid]) <=> Handled(child'[list[j].pid])
        /\ seen = "DEAD" /\ FirstNode(list, cur) => Handled(child[list[cur].pid])
    BY <1>1, LookStep
  <1> HIDE DEF nodes
  <1>3. ASSUME op = "exit" PROVE Handled(child'[nodes[cur].pid])
    <2>1. CASE FirstNode(list, cur)
      BY <2>1, <1>1, <1>2, <1>3
    <2>2. CASE ~ FirstNode(list, cur)
      <3>1. PICK j \in 1 .. cur - 1 : list[j].pid = list[cur].pid
        BY <2>2 DEF FirstNode
      <3>2. j \in 1 .. Len(list) /\ Passed(j)
        BY <1>1 DEF Passed
      <3>3. Handled(child[list[j].pid])
        BY <3>2, <1>3 DEF ShellInv, ExitDone
      <3>4. QED
        BY <3>1, <3>2, <3>3, <1>1, <1>2
    <2>3. QED
      BY <2>1, <2>2
  <1>4. QED
    BY <1>1, <1>2, <1>3, EndOfWaitKeeps DEF nodes

(* A look that is not the last thing to be done. *)
LEMMA LookGoesOn ==
  ASSUME ShellInv, pc = "wait", NEW seen, refresh_status(cur, seen),
         list' = Refreshed(cur, seen), tries' \in 0 .. Tries - 1,
         UNCHANGED <<op, cur, external, doubled>>,
         pc' = "wait" \/ (pc' = "send_kill" /\ op \in {"kill", "exit"})
  PROVE  ShellInv'
  <1>1. /\ cur \in 1 .. Len(list) /\ Len(list) \in Nat
        /\ op \in {"stop", "cont", "kill", "exit"} /\ external \in 0 .. MaxExternal
    BY ListFacts, OpsOfLabel DEF ShellInv, Place, Labels
  <1>2. /\ Agree(list', child', doubled) /\ Len(list') = Len(list)
        /\ \A j \in 1 .. Len(list) : list'[j].pid = list[j].pid
        /\ list'[cur].status = seen
        /\ \A j \in 1 .. Len(list) : Handled(child[list[j].pid]) <=> Handled(child'[list[j].pid])
        /\ Waited(child'[list[cur].pid]) => seen = "DEAD"
    BY <1>1, LookStep
  <1>3. Place'
    BY <1>1, <1>2 DEF Place, Labels, Ops, Commands, Sending
  <1>4. ExitDone'
    BY <1>2 DEF ShellInv, ExitDone, Passed
  <1>5. CurSeen'
    BY <1>1, <1>2 DEF CurSeen
  <1>6. QED
    BY <1>2, <1>3, <1>4, <1>5 DEF ShellInv

LEMMA WaitKeeps ==
  ASSUME ShellInv, WaitSeen \/ WaitAgain \/ WaitTimesOut
  PROVE  ShellInv'
  <1>1. /\ pc = "wait" /\ op \in {"stop", "cont", "kill", "exit"}
        /\ tries \in 0 .. Tries - 1 /\ Tries \in Nat \ {0} /\ 0 \in 0 .. Tries - 1
    BY OpsOfLabel, TriesAssumption
    DEF WaitSeen, WaitAgain, WaitTimesOut, ShellInv, Place, Labels
  <1>2. CASE WaitSeen
    <2>1. op \in {"kill", "exit"} => Wanted = "DEAD"
      BY DEF Wanted
    <2>2. QED
      BY <2>1, <1>1, <1>2, LookEndsWait DEF WaitSeen
  <1>3. CASE WaitAgain
    <2>1. tries' \in 0 .. Tries - 1 /\ pc' = pc
      BY <1>1, <1>3 DEF WaitAgain
    <2>2. QED
      BY <2>1, <1>1, <1>3, LookGoesOn DEF WaitAgain
  <1>4. CASE WaitTimesOut
    <2>1. PICK seen \in Statuses \ {Wanted} :
            /\ refresh_status(cur, seen)
            /\ \/ op \in {"stop", "cont"} /\ EndOfWait(Refreshed(cur, seen))
               \/ /\ op \in {"kill", "exit"}
                  /\ list' = Refreshed(cur, seen) /\ pc' = "send_kill"
                  /\ UNCHANGED <<op, cur>>
      BY <1>4 DEF WaitTimesOut, Goto
    <2>2. tries' = 0 /\ UNCHANGED <<external, doubled>>
      BY <1>4 DEF WaitTimesOut
    <2>3. CASE op \in {"stop", "cont"}
      BY <2>1, <2>2, <2>3, <1>1, LookEndsWait
    <2>4. CASE op \in {"kill", "exit"}
      BY <2>1, <2>2, <2>4, <1>1, LookGoesOn
    <2>5. QED
      BY <2>3, <2>4, <1>1
  <1>5. QED
    BY <1>2, <1>3, <1>4

LEMMA StepShellInv == ShellInv /\ [Next]_vars => ShellInv'
  <1> SUFFICES ASSUME ShellInv, [Next]_vars PROVE ShellInv'
    OBVIOUS
  <1>1. CASE \E p \in Pids : Kernel(p)
    BY <1>1, KernelKeeps
  <1>2. CASE Shell
    BY <1>2, RefreshNodeKeeps, ListNodeKeeps, ExecKeeps, ReadPidKeeps, DestroyKeeps,
       QuietKeeps, SendsKeep, SendUsr1Keeps, SendKillKeeps, WaitKeeps
    DEF Shell
  <1>3. CASE ReadCommand \/ UNCHANGED vars
    BY <1>3, QuietKeeps
  <1>4. QED
    BY <1>1, <1>2, <1>3 DEF Next

LEMMA ShellInvAlways == Spec => []ShellInv
  BY InitShellInv, StepShellInv, PTL DEF Spec

--------------------------------------------------------------------------------
(* The list, the children and the shell's variables stay within their types. *)
THEOREM TypeCorrect == Spec => []TypeOK
  BY ShellInvAlways, InvTypeOK, PTL

(* For every number of children, looks and signals from elsewhere, and in    *)
(* whatever order they come: what the list says of a child whose pid has no  *)
(* second node is true as soon as waitpid has nothing more to report.        *)
THEOREM StatusesTrue == Spec => []StatusTracksState
  <1>1. ShellInv => StatusTracksState
    BY ListFacts DEF ShellInv, Agree, StatusTracksState, StatusRight, Waited
  <1>2. QED
    BY <1>1, ShellInvAlways, PTL

(* No command, timeout or refresh lets the shell lose a child that lives and *)
(* has not been sent SIGKILL.                                                *)
THEOREM ChildrenReachable == Spec => []NoChildForgotten
  <1>1. ShellInv => NoChildForgotten
    <2> SUFFICES ASSUME ShellInv, NEW p \in Pids, Alive(child[p])
                 PROVE  p \in Listed \/ "KILL" \in child[p].pend
      BY DEF NoChildForgotten
    <2>1. Handled(child[p]) \/ \E i \in 1 .. Len(list) : list[i].pid = p
      BY DEF ShellInv, Agree
    <2>2. QED
      BY <2>1, ListFacts DEF Listed, Handled
  <1>2. QED
    BY <1>1, ShellInvAlways, PTL

(* A pid that was given to another process is never signalled by a command   *)
(* that takes its node for living, but for exit, which does not look, and a  *)
(* pid that two nodes have.                                                  *)
THEOREM SignalsReachChildren == Spec => []SignalsOwnChildren
  <1>1. ShellInv => SignalsOwnChildren
    <2> SUFFICES ASSUME ShellInv, pc \in Sending, Waited(child[list[cur].pid]),
                        list[cur].status # "DEAD"
                 PROVE  op = "exit" /\ list[cur].pid \in doubled
      BY DEF SignalsOwnChildren, Waited
    <2>1. op = "exit"
      BY DEF ShellInv, CurSeen
    <2>2. cur \in 1 .. Len(list)
      BY ListFacts DEF ShellInv, Place
    <2>3. QED
      BY <2>1, <2>2 DEF ShellInv, Agree, StatusRight
  <1>2. QED
    BY <1>1, ShellInvAlways, PTL
================================================================================
