-------------------------- MODULE PipePipelineProofs ---------------------------
(***************************************************************************)
(* Machine-checked theorems about PipePipeline, for every set of           *)
(* expressions of any length, every capacity of the pipes, everything that *)
(* may lie in memory and every number of failures.                         *)
(***************************************************************************)
EXTENDS PipePipeline, ExpressionsProofs

Places == {"none", "fork", "close", "exec", "ask", "write", "read", "show", "reap", "gone"}
Waiting == {"close", "exec", "read"}   \* a child that is alive and has no message

(* Who is alive has its own two ends open, and children come into being in   *)
(* their order.                                                              *)
Descriptors ==
  /\ \A p \in Procs : pc[p] \notin {"none", "gone"} => EndsOf(p) \subseteq ends[p]
  /\ \A p \in Procs : pc[p] = "exec" => ends[p] = EndsOf(p)
  /\ pc[0] = "fork" => ends[0] = Pipes \X {"r", "w"}
  /\ pc[0] = "fork" => pc[3] = "none" /\ (pc[1] = "none" => pc[2] = "none")
  /\ pc[0] \notin {"none", "exec"}
  /\ \A i \in Children : pc[i] \in {"none", "close", "exec", "read", "write", "gone"}

(* A blank line follows a q, and who reads the q reads no further.           *)
BlankAfterQuit(lines) ==
  \A k \in 1 .. Len(lines) : lines[k] = Blank => k > 1 /\ IsQuit(lines[k - 1])
ReadsOn(i) == pc[i] \in {"none"} \cup Waiting \/ (pc[i] = "write" /\ ~ IsQuit(line[i]))
Messages ==
  /\ pc[0] = "write" => text[0] # Blank
  /\ \A i \in Children : pc[i] = "write" =>
       text[i] # Blank /\ line[i] # Blank /\ (IsQuit(text[i]) <=> IsQuit(line[i]))
  /\ \A i \in Children : ReadsOn(i) => BlankAfterQuit(pipe[Inbox(i)])

Finished == IF IsQuit(asked) THEN "gone" ELSE "read"

(* What is left in a pipe when its message has been read. *)
Rest(f) == IF f # 0 /\ IsQuit(asked) THEN <<Blank>> ELSE <<>>
Clear == \A f \in Pipes : pipe[f] = <<>>

Starting ==
  /\ pc[0] \in {"fork", "close"} /\ Clear
  /\ \A i \in Children : pc[i] \in Waiting \/ (pc[i] = "none" /\ pc[0] = "fork")
Asking ==
  /\ pc[0] \in {"ask", "write"} /\ Clear
  /\ \A i \in Children : pc[i] \in Waiting
  /\ pc[0] = "write" => text[0] = asked /\ asked # <<>>

(* The message of the session has passed the first s - 1 children, and the   *)
(* next process has it, or the pipe before it.                               *)
InFlight(s) ==
  LET p == s % 4
  IN /\ asked # <<>>
     /\ pc[p] \in IF p = 0 THEN {"read"} ELSE Waiting \cup {"write"}
     /\ \A f \in Pipes : f < s - 1 => pipe[f] = Rest(f)
     /\ \A f \in Pipes : f > s - 1 => pipe[f] = <<>>
     /\ pc[p] # "write" => pipe[s - 1] = LinesOf(s - 1, Stage(asked, s - 1))
     /\ pc[p] = "write" => /\ pipe[s - 1] = Rest(s - 1)
                           /\ text[p] = Stage(asked, s) /\ (IsQuit(line[p]) <=> IsQuit(asked))
     /\ p # 0 => pc[0] = "read"
     /\ \A i \in Children : i < s => pc[i] = Finished
     /\ \A i \in Children : i > s => pc[i] \in Waiting
Answered ==
  /\ pc[0] = (IF IsQuit(asked) THEN "reap" ELSE "show")
  /\ asked # <<>>
  /\ \A f \in Pipes : pipe[f] = Rest(f)
  /\ \A i \in Children : pc[i] = Finished
  /\ text[0] = Stage(asked, 3)
Closed == pc[0] = "gone" /\ \A i \in Children : pc[i] = "gone"

Whole ==
  whole => Starting \/ Asking \/ Answered \/ Closed \/ \E s \in 1 .. 4 : InFlight(s)

Base == TypeOK /\ Descriptors /\ Messages
PInv == Base /\ Whole

--------------------------------------------------------------------------------
(* The operators the actions are made of. *)

LEMMA Ring ==
  /\ Inbox(0) = 3 /\ Inbox(1) = 0 /\ Inbox(2) = 1 /\ Inbox(3) = 2
  /\ Procs = {0, 1, 2, 3} /\ Children = {1, 2, 3} /\ Pipes = {0, 1, 2, 3}
  /\ \A p \in Procs : Inbox(p) \in Pipes /\ Outbox(p) = p
  /\ 1 % 4 = 1 /\ 2 % 4 = 2 /\ 3 % 4 = 3 /\ 4 % 4 = 0
  BY DEF Inbox, Outbox, Procs, Children, Pipes

LEMMA EndsFacts ==
  ASSUME NEW p \in Procs
  PROVE  /\ EndsOf(p) \in SUBSET (Pipes \X {"r", "w"})
         /\ EndsOf(p) = {<<Inbox(p), "r">>, <<p, "w">>}
  <1>1. Inbox(p) \in Pipes /\ Outbox(p) = p /\ p \in Pipes
    BY Ring
  <1>2. QED
    BY <1>1 DEF EndsOf

LEMMA AskedFacts == \A e \in Exprs : e \in Seq(AnyTerm) /\ e # <<>> /\ ~ IsQuit(e)
  BY ExprsAssumption, WellFormedFacts

LEMMA LinesFacts ==
  ASSUME NEW p \in Procs, NEW m \in Line, m # Blank
  PROVE  /\ LinesOf(p, m) \in Seq(Line) /\ LinesOf(p, m) # <<>>
         /\ Len(LinesOf(p, m)) = IF p # 0 /\ IsQuit(m) THEN 2 ELSE 1
         /\ LinesOf(p, m)[1] = m /\ Head(LinesOf(p, m)) = m
         /\ p # 0 /\ IsQuit(m) => LinesOf(p, m)[2] = Blank /\ Tail(LinesOf(p, m)) = <<Blank>>
         /\ ~ (p # 0 /\ IsQuit(m)) => Tail(LinesOf(p, m)) = <<>>
  <1>1. Blank \in Line
    BY DEF Blank, Line
  <1>2. /\ <<m, Blank>> \in Seq(Line) /\ <<m>> \in Seq(Line)
        /\ Len(<<m, Blank>>) = 2 /\ Len(<<m>>) = 1
        /\ <<m, Blank>>[1] = m /\ <<m>>[1] = m /\ <<m, Blank>>[2] = Blank
        /\ Head(<<m, Blank>>) = m /\ Head(<<m>>) = m
        /\ Tail(<<m, Blank>>) = <<Blank>> /\ Tail(<<m>>) = <<>>
        /\ <<m, Blank>> # <<>> /\ <<m>> # <<>>
    BY <1>1
  <1>3. QED
    BY <1>2 DEF LinesOf

(* What is read from the front of a pipe, and what is appended to it.        *)
LEMMA FrontOfPipe ==
  ASSUME NEW lines \in Seq(Line), lines # <<>>, BlankAfterQuit(lines)
  PROVE  /\ Head(lines) # Blank
         /\ ~ IsQuit(Head(lines)) => BlankAfterQuit(Tail(lines))
  <1>1. 1 \in 1 .. Len(lines) /\ Head(lines) = lines[1] /\ Len(lines) \in Nat /\ Len(lines) # 0
    OBVIOUS
  <1>2. Head(lines) # Blank
    BY <1>1 DEF BlankAfterQuit
  <1>3. ASSUME ~ IsQuit(Head(lines)) PROVE BlankAfterQuit(Tail(lines))
    <2>1. /\ Len(Tail(lines)) = Len(lines) - 1
          /\ \A k \in 1 .. Len(lines) - 1 : Tail(lines)[k] = lines[k + 1]
      OBVIOUS
    <2>2. ASSUME NEW k \in 1 .. Len(Tail(lines)), Tail(lines)[k] = Blank
          PROVE  k > 1 /\ IsQuit(Tail(lines)[k - 1])
      <3>1. k + 1 \in 1 .. Len(lines) /\ lines[k + 1] = Blank /\ (k + 1) - 1 = k
        BY <1>1, <2>1, <2>2
      <3>2. IsQuit(lines[k])
        BY <3>1 DEF BlankAfterQuit
      <3>3. k # 1
        BY <1>1, <1>3, <3>2
      <3>4. k > 1 /\ k - 1 \in 1 .. Len(lines) - 1 /\ (k - 1) + 1 = k
        BY <1>1, <2>1, <3>3
      <3>5. QED
        BY <2>1, <3>2, <3>4
    <2>3. QED
      BY <2>2 DEF BlankAfterQuit
  <1>4. QED
    BY <1>2, <1>3

LEMMA BackOfPipe ==
  ASSUME NEW lines \in Seq(Line), BlankAfterQuit(lines),
         NEW p \in Procs, NEW m \in Line, m # Blank
  PROVE  BlankAfterQuit(lines \o LinesOf(p, m))
  <1> DEFINE l == LinesOf(p, m)
             n == Len(lines)
  <1>1. /\ l \in Seq(Line) /\ Len(l) \in {1, 2} /\ l[1] = m
        /\ Len(l) = 2 => IsQuit(m)
    <2>1. l \in Seq(Line) /\ l[1] = m /\ Len(l) = IF p # 0 /\ IsQuit(m) THEN 2 ELSE 1
      BY LinesFacts
    <2> HIDE DEF l
    <2>2. QED
      BY <2>1
  <1> HIDE DEF l
  <1>2. n \in Nat /\ Len(lines \o l) = n + Len(l)
    BY <1>1
  <1>3. /\ \A k \in 1 .. n : (lines \o l)[k] = lines[k]
        /\ \A k \in n + 1 .. n + Len(l) : (lines \o l)[k] = l[k - n]
    BY <1>1, <1>2
  <1>4. PICK all : all = lines \o l
    OBVIOUS
  <1>5. ASSUME NEW k \in 1 .. Len(all), all[k] = Blank PROVE k > 1 /\ IsQuit(all[k - 1])
    <2>1. CASE k \in 1 .. n
      <3>1. lines[k] = Blank
        BY <1>3, <1>4, <1>5, <2>1
      <3>2. k > 1 /\ IsQuit(lines[k - 1])
        BY <2>1, <3>1 DEF BlankAfterQuit
      <3>3. k - 1 \in 1 .. n
        BY <1>2, <2>1, <3>2
      <3>4. QED
        BY <1>3, <1>4, <3>2, <3>3
    <2>2. CASE k \notin 1 .. n
      <3>1. k \in n + 1 .. n + Len(l)
        BY <1>1, <1>2, <1>4, <2>2
      <3>2. l[k - n] = Blank
        BY <1>3, <1>4, <1>5, <3>1
      <3>3. k - n # 1
        BY <1>1, <3>2
      <3>4. k = n + 2 /\ Len(l) = 2 /\ k > 1
        <4>1. PICK x \in Nat, d \in {1, 2} : x = n /\ d = Len(l)
          BY <1>1, <1>2
        <4>2. k \in x + 1 .. x + d /\ k - x # 1
          BY <3>1, <3>3, <4>1
        <4>3. k = x + 2 /\ d = 2 /\ k > 1
          BY <4>2
        <4>4. QED
          BY <4>1, <4>3
      <3>5. k - 1 \in n + 1 .. n + Len(l) /\ (k - 1) - n = 1
        BY <1>2, <3>4
      <3>6. all[k - 1] = m
        BY <1>1, <1>3, <1>4, <3>5
      <3>7. QED
        BY <1>1, <3>4, <3>6
    <2>3. QED
      BY <2>1, <2>2
  <1>6. QED
    BY <1>4, <1>5 DEF BlankAfterQuit, l

(* The child main starts next. *)
LEMMA NextChildIs ==
  ASSUME pc[3] = "none", pc[1] = "none" => pc[2] = "none"
  PROVE  NextChild = IF pc[1] = "none" THEN 1 ELSE IF pc[2] = "none" THEN 2 ELSE 3
  <1> DEFINE S == {i \in Children : pc[i] = "none"}
  <1>1. S \subseteq {1, 2, 3} /\ 3 \in S
    BY Ring
  <1>2. CASE pc[1] = "none"
    <2>1. 1 \in S /\ \A i \in S : 1 <= i
      BY <1>1, <1>2, Ring
    <2>2. \A x \in S : (\A i \in S : x <= i) => x = 1
      BY <1>1, <2>1
    <2>3. QED
      BY <1>2, <2>1, <2>2 DEF NextChild, Min
  <1>3. CASE pc[1] # "none" /\ pc[2] = "none"
    <2>1. 2 \in S /\ \A i \in S : 2 <= i
      BY <1>1, <1>3, Ring
    <2>2. \A x \in S : (\A i \in S : x <= i) => x = 2
      BY <1>1, <2>1
    <2>3. QED
      BY <1>3, <2>1, <2>2 DEF NextChild, Min
  <1>4. CASE pc[1] # "none" /\ pc[2] # "none"
    <2>1. S = {3}
      BY <1>1, <1>4
    <2>2. QED
      BY <1>4, <2>1 DEF NextChild, Min
  <1>5. QED
    BY <1>2, <1>3, <1>4

--------------------------------------------------------------------------------
(* What holds whatever fails and whoever is killed. *)

LEMMA Typed ==
  ASSUME Base
  PROVE  /\ pipe \in [Pipes -> Seq(Line)] /\ ends \in [Procs -> SUBSET (Pipes \X {"r", "w"})]
         /\ pc \in [Procs -> Places] /\ line \in [Procs -> Line] /\ text \in [Procs -> Line]
         /\ asked \in Exprs \cup {Quit, <<>>} /\ whole \in BOOLEAN /\ faults \in 0 .. MaxFaults
         /\ \A i \in Pipes : Len(pipe[i]) <= Capacity + 1
         /\ \A p \in Procs : pc[p] \in {"ask", "write", "read", "show", "reap"} => ends[p] = EndsOf(p)
  BY DEF Base, TypeOK, Places

LEMMA BaseInit == Init => Base
  <1> SUFFICES ASSUME Init PROVE Base
    OBVIOUS
  <1>1. <<>> \in Line /\ <<>> \in Seq(Line)
    BY DEF Line
  <1>2. TypeOK
    <2>1. \A i \in Pipes : pipe[i] = <<>> /\ Len(pipe[i]) = 0
      BY DEF Init
    <2>2. 0 <= Capacity + 1
      BY CapacityAssumption
    <2>3. ends \in [Procs -> SUBSET (Pipes \X {"r", "w"})]
      BY DEF Init
    <2>4. \A p \in Procs : pc[p] \in {"none", "fork"}
      BY DEF Init
    <2>5. QED
      BY <1>1, <2>1, <2>2, <2>3, <2>4, FaultsAssumption DEF Init, TypeOK
  <1>3. Descriptors
    BY Ring, EndsFacts DEF Init, Descriptors
  <1>4. Messages
    <2>1. \A i \in Children : pc[i] = "none" /\ pipe[Inbox(i)] = <<>>
      BY Ring DEF Init
    <2>2. BlankAfterQuit(<<>>)
      BY DEF BlankAfterQuit
    <2>3. pc[0] = "fork"
      BY Ring DEF Init
    <2>4. QED
      BY <2>1, <2>2, <2>3 DEF Messages
  <1>5. QED
    BY <1>2, <1>3, <1>4 DEF Base

LEMMA FaultTyped ==
  ASSUME Base, Fault \/ Unharmed
  PROVE  whole' \in BOOLEAN /\ faults' \in 0 .. MaxFaults
  <1>1. faults \in 0 .. MaxFaults /\ whole \in BOOLEAN
    BY Typed
  <1>2. CASE Fault
    <2>1. whole' = FALSE /\ faults < MaxFaults /\ faults' = faults + 1
      BY <1>2 DEF Fault
    <2>2. faults' \in 0 .. MaxFaults
      BY <1>1, <2>1, FaultsAssumption
    <2>3. QED
      BY <2>1, <2>2
  <1>3. CASE Unharmed
    BY <1>1, <1>3 DEF Unharmed
  <1>4. QED
    BY <1>2, <1>3

(* Processes come to their end. *)
LEMMA BaseEnds ==
  ASSUME Base, NEW ps \in SUBSET Procs, \A p \in ps : pc[p] # "none", Ends(ps), UNCHANGED <<pipe, line, text, asked>>,
         Fault \/ Unharmed
  PROVE  Base'
  <1>1. /\ \A p \in Procs : p \in ps => pc'[p] = "gone" /\ ends'[p] = {}
        /\ \A p \in Procs : p \notin ps => pc'[p] = pc[p] /\ ends'[p] = ends[p]
        /\ pc' \in [Procs -> Places] /\ ends' \in [Procs -> SUBSET (Pipes \X {"r", "w"})]
    BY Typed DEF Ends, Places
  <1>2. TypeOK'
    <2>1. \A p \in Procs : pc'[p] \in {"ask", "write", "read", "show", "reap"} => ends'[p] = EndsOf(p)
      BY <1>1, Typed
    <2>2. QED
      BY <1>1, <2>1, Typed, FaultTyped DEF TypeOK, Places
  <1>3. Descriptors'
    <2>1. \A p \in Procs : (pc'[p] = pc[p] /\ ends'[p] = ends[p]) \/ pc'[p] = "gone"
      BY <1>1
    <2>2. /\ \A p \in Procs : pc'[p] \notin {"none", "gone"} => EndsOf(p) \subseteq ends'[p]
          /\ \A p \in Procs : pc'[p] = "exec" => ends'[p] = EndsOf(p)
      BY <2>1 DEF Base, Descriptors
    <2>3. pc'[0] \in {pc[0], "gone"} /\ (pc'[0] = "fork" => ends'[0] = ends[0])
      BY <2>1, Ring
    <2>4. \A i \in Children : pc'[i] \in {pc[i], "gone"}
      BY <2>1, Ring
    <2>5. pc'[0] = "fork" => pc'[3] = "none" /\ (pc'[1] = "none" => pc'[2] = "none")
      <3>1. \A p \in Procs : pc[p] = "none" <=> pc'[p] = "none"
        BY <1>1
      <3>2. pc'[0] = "fork" => pc[0] = "fork"
        BY <2>3
      <3>3. QED
        BY <3>1, <3>2, Ring DEF Base, Descriptors
    <2>6. QED
      BY <2>2, <2>3, <2>4, <2>5 DEF Base, Descriptors
  <1>4. Messages'
    <2>1. \A p \in Procs : pc'[p] = pc[p] \/ pc'[p] = "gone"
      BY <1>1
    <2>2. pc'[0] = "write" => pc[0] = "write"
      BY <2>1, Ring
    <2>3. ASSUME NEW i \in Children PROVE (pc'[i] = "write" => pc[i] = "write") /\ (ReadsOn(i)' => ReadsOn(i))
      BY <2>1, Ring DEF ReadsOn, Waiting
    <2>4. QED
      BY <2>2, <2>3 DEF Base, Messages
  <1>5. QED
    BY <1>2, <1>3, <1>4 DEF Base

(* A process comes to be at a place before its loop. *)
LEMMA BaseGoto ==
  ASSUME Base, UNCHANGED <<pipe, line>>, Unharmed, NEW p \in Procs, NEW label \in Places,
         Goto(p, label), ends' = [ends EXCEPT ![p] = EndsOf(p)],
         asked' \in Exprs \cup {Quit, <<>>},
         text' \in [Procs -> Line], \A i \in Children : text'[i] = text[i],
         p = 0 => label \in {"ask", "write"} /\ (label = "write" => text'[0] # Blank),
         p # 0 => pc[p] \in Waiting /\ label \in Waiting /\ text' = text
  PROVE  Base'
  <1>1. /\ pc'[p] = label /\ ends'[p] = EndsOf(p)
        /\ \A q \in Procs : q # p => pc'[q] = pc[q] /\ ends'[q] = ends[q]
        /\ pc' \in [Procs -> Places] /\ ends' \in [Procs -> SUBSET (Pipes \X {"r", "w"})]
    BY Typed, EndsFacts DEF Goto
  <1>2. TypeOK'
    <2>1. \A q \in Procs : pc'[q] \in {"ask", "write", "read", "show", "reap"} => ends'[q] = EndsOf(q)
      BY <1>1, Typed
    <2>2. QED
      BY <1>1, <2>1, Typed, FaultTyped DEF TypeOK, Places
  <1>3. Descriptors'
    BY <1>1, Ring DEF Base, Descriptors, Waiting
  <1>4. Messages'
    <2>1. pc'[0] = "write" => text'[0] # Blank
      BY <1>1, Ring DEF Base, Messages
    <2>2. ASSUME NEW i \in Children
          PROVE  (pc'[i] = "write" => pc[i] = "write") /\ (ReadsOn(i)' => ReadsOn(i))
      BY <1>1, Ring DEF ReadsOn, Waiting
    <2>3. QED
      BY <2>1, <2>2 DEF Base, Messages
  <1>5. QED
    BY <1>2, <1>3, <1>4 DEF Base

LEMMA BaseFork ==
  ASSUME Base, Fork
  PROVE  Base'
  <1>1. /\ pc[0] = "fork" /\ pc[3] = "none" /\ (pc[1] = "none" => pc[2] = "none")
        /\ ends[0] = Pipes \X {"r", "w"}
    BY DEF Fork, Base, Descriptors
  <1>2. NextChild = IF pc[1] = "none" THEN 1 ELSE IF pc[2] = "none" THEN 2 ELSE 3
    BY <1>1, NextChildIs
  <1>3. PICK c \in Children : c = NextChild /\ pc[c] = "none" /\ (c = 1 => pc[3] = "none")
                                /\ (c = 2 => pc[3] = "none" /\ pc[1] # "none")
    BY <1>1, <1>2, Ring
  <1>4. PICK a \in {"close", "fork"} : a = IF c = 3 THEN "close" ELSE "fork"
    OBVIOUS
  <1>5. pc' = [pc EXCEPT ![c] = "close", ![0] = a] /\ ends' = [ends EXCEPT ![c] = ends[0]]
    BY <1>3, <1>4 DEF Fork
  <1>6. c # 0 /\ c \in Procs /\ 0 \in Procs /\ "close" \in Places /\ a \in Places
    BY Ring DEF Places
  <1>7. /\ pc' \in [Procs -> Places] /\ ends' \in [Procs -> SUBSET (Pipes \X {"r", "w"})]
        /\ pc'[c] = "close" /\ pc'[0] = a /\ ends'[c] = Pipes \X {"r", "w"}
        /\ \A q \in Procs : q # c => ends'[q] = ends[q] /\ (q # 0 => pc'[q] = pc[q])
    <2> HIDE DEF Places
    <2>1. QED
      BY <1>1, <1>5, <1>6, Typed
  <1>8. TypeOK'
    <2>1. \A q \in Procs : pc'[q] \in {"ask", "write", "read", "show", "reap"} => ends'[q] = EndsOf(q)
      BY <1>7, Typed
    <2>2. UNCHANGED <<pipe, line, text, asked, whole, faults>>
      BY DEF Fork, Unharmed
    <2>3. QED
      BY <1>7, <2>1, <2>2, Typed DEF TypeOK, Places
  <1>9. Descriptors'
    <2>1. EndsOf(c) \subseteq ends'[c]
      BY <1>6, <1>7, EndsFacts
    <2>2. \A p \in Procs : pc'[p] \notin {"none", "gone"} => EndsOf(p) \subseteq ends'[p]
      BY <1>1, <1>7, <2>1 DEF Base, Descriptors
    <2>3. pc'[0] = "fork" => pc'[3] = "none" /\ (pc'[1] = "none" => pc'[2] = "none")
      BY <1>1, <1>3, <1>4, <1>7, Ring
    <2>4. \A p \in Procs : pc'[p] = "exec" => ends'[p] = EndsOf(p)
      BY <1>7 DEF Base, Descriptors
    <2>5. pc'[0] = "fork" => ends'[0] = Pipes \X {"r", "w"}
      BY <1>1, <1>6, <1>7
    <2>6. \A i \in Children : pc'[i] \in {"none", "close", "exec", "read", "write", "gone"}
      BY <1>7, Ring DEF Base, Descriptors
    <2>7. QED
      BY <1>7, <2>2, <2>3, <2>4, <2>5, <2>6 DEF Descriptors
  <1>10. Messages'
    <2>1. UNCHANGED <<pipe, line, text>>
      BY DEF Fork
    <2>2. ASSUME NEW i \in Children
          PROVE  (pc'[i] = "write" => pc[i] = "write") /\ (ReadsOn(i)' => ReadsOn(i))
      BY <1>3, <1>7, <2>1, Ring DEF ReadsOn, Waiting
    <2>3. pc'[0] # "write"
      BY <1>7
    <2>4. QED
      BY <2>1, <2>2, <2>3 DEF Base, Messages
  <1>11. QED
    BY <1>8, <1>9, <1>10 DEF Base

(* A line is used, the one at the front of the pipe or one that was in the   *)
(* buffer before.                                                            *)
LEMMA BaseUse ==
  ASSUME Base, NEW p \in Procs, pc[p] = "read", NEW m \in Line, Use(p, m),
         p # 0 => m # Blank,
         pipe' \in [Pipes -> Seq(Line)],
         \A i \in Pipes : Len(pipe'[i]) <= Len(pipe[i]),
         \A i \in Pipes : i # Inbox(p) => pipe'[i] = pipe[i],
         p # 0 /\ ~ IsQuit(m) => BlankAfterQuit(pipe'[Inbox(p)]),
         UNCHANGED <<ends, asked>>, Unharmed
  PROVE  Base'
  <1>1. PICK x \in Line : /\ x = (IF p = 0 THEN m ELSE Processed(p, m))
                          /\ p # 0 => x # Blank /\ (IsQuit(x) <=> IsQuit(m))
    <2>1. p # 0 => p \in Children
      BY Ring
    <2>2. QED
      BY <2>1, ProcessedTyped DEF Line, Blank
  <1>2. PICK a \in {"write", "reap", "show"} :
          /\ a = (CASE p # 0 -> "write"
                    [] p = 0 /\ IsQuit(asked) -> "reap"
                    [] p = 0 /\ ~ IsQuit(asked) -> "show")
          /\ p # 0 <=> a = "write"
    OBVIOUS
  <1>3. /\ line' = [line EXCEPT ![p] = m] /\ text' = [text EXCEPT ![p] = x]
        /\ pc' = [pc EXCEPT ![p] = a]
    BY <1>1, <1>2 DEF Use, Goto
  <1>4. a \in Places
    BY <1>2 DEF Places
  <1>5. /\ line' \in [Procs -> Line] /\ text' \in [Procs -> Line] /\ pc' \in [Procs -> Places]
        /\ line'[p] = m /\ text'[p] = x /\ pc'[p] = a
        /\ \A q \in Procs : q # p => line'[q] = line[q] /\ text'[q] = text[q] /\ pc'[q] = pc[q]
    <2> HIDE DEF Places
    <2>1. QED
      BY <1>3, <1>4, Typed
  <1>6. TypeOK'
    <2>1. \A q \in Procs : pc'[q] \in {"ask", "write", "read", "show", "reap"} => ends'[q] = EndsOf(q)
      BY <1>5, Typed
    <2>2. \A i \in Pipes : Len(pipe'[i]) <= Capacity + 1
      <3>1. SUFFICES ASSUME NEW i \in Pipes PROVE Len(pipe'[i]) <= Capacity + 1
        OBVIOUS
      <3>2. pipe[i] \in Seq(Line) /\ pipe'[i] \in Seq(Line) /\ Len(pipe'[i]) <= Len(pipe[i]) /\ Len(pipe[i]) <= Capacity + 1
        BY Typed
      <3>3. PICK x1 \in Nat, x2 \in Nat : x1 = Len(pipe[i]) /\ x2 = Len(pipe'[i])
        BY <3>2
      <3>4. QED
        BY <3>2, <3>3, CapacityAssumption
    <2>3. QED
      BY <1>5, <2>1, <2>2, Typed, FaultTyped DEF TypeOK, Places
  <1>7. Descriptors'
    <2>1. \A q \in Procs : pc'[q] = pc[q] \/ q = p
      BY <1>5
    <2>2. /\ \A q \in Procs : pc'[q] \notin {"none", "gone"} => EndsOf(q) \subseteq ends'[q]
          /\ \A q \in Procs : pc'[q] = "exec" => ends'[q] = EndsOf(q)
      BY <1>2, <1>5, <2>1 DEF Base, Descriptors
    <2>3. pc'[0] \in {pc[0], "reap", "show"}
      BY <1>2, <1>5, Ring
    <2>4. pc'[0] = "fork" => p # 0 /\ pc'[3] = "none" /\ (pc'[1] = "none" => pc'[2] = "none")
      BY <1>2, <1>5, Ring DEF Base, Descriptors
    <2>5. \A i \in Children : pc'[i] \in {pc[i], "write"}
      BY <1>2, <1>5, Ring
    <2>6. QED
      BY <2>2, <2>3, <2>4, <2>5 DEF Base, Descriptors
  <1>8. Messages'
    <2>1. pc'[0] # "write" \/ (pc[0] = "write" /\ text'[0] = text[0])
      BY <1>2, <1>5, Ring
    <2>2. ASSUME NEW i \in Children, pc'[i] = "write"
          PROVE  text'[i] # Blank /\ line'[i] # Blank /\ (IsQuit(text'[i]) <=> IsQuit(line'[i]))
      <3>1. CASE i = p
        <4>1. p # 0
          BY <3>1, Ring
        <4>2. QED
          BY <3>1, <4>1, <1>1, <1>5
      <3>2. CASE i # p
        <4>1. i \in Procs
          BY Ring
        <4>2. QED
          BY <2>2, <3>2, <4>1, <1>5 DEF Base, Messages
      <3>3. QED
        BY <3>1, <3>2
    <2>3. ASSUME NEW i \in Children, ReadsOn(i)'
          PROVE  BlankAfterQuit(pipe'[Inbox(i)])
      <3>1. CASE i = p
        <4>1. p # 0 /\ pc'[i] = "write" /\ line'[i] = m
          BY <3>1, <1>2, <1>5, Ring
        <4>2. ~ IsQuit(m)
          BY <2>3, <4>1 DEF ReadsOn, Waiting
        <4>3. QED
          BY <3>1, <4>1, <4>2
      <3>2. CASE i # p
        <4>1. i \in Procs /\ Inbox(i) # Inbox(p) /\ Inbox(i) \in Pipes
          BY <3>2, Ring
        <4>2. ReadsOn(i)
          BY <2>3, <3>2, <4>1, <1>5 DEF ReadsOn
        <4>3. QED
          BY <4>1, <4>2 DEF Base, Messages
      <3>3. QED
        BY <3>1, <3>2
    <2>4. QED
      BY <2>1, <2>2, <2>3 DEF Base, Messages
  <1>9. QED
    BY <1>6, <1>7, <1>8 DEF Base

LEMMA BaseRead ==
  ASSUME Base, NEW p \in Procs, Read(p)
  PROVE  Base'
  <1>1. Inbox(p) \in Pipes
    BY Ring
  <1>2. PICK lines \in Seq(Line) : lines = pipe[Inbox(p)] /\ lines # <<>>
    BY <1>1, Typed DEF Read
  <1>3. /\ Head(lines) \in Line /\ Tail(lines) \in Seq(Line) /\ Len(Tail(lines)) <= Len(lines)
    BY <1>2
  <1>4. pipe' = [pipe EXCEPT ![Inbox(p)] = Tail(lines)] /\ pc[p] = "read"
    BY <1>2 DEF Read
  <1>5. /\ pipe' \in [Pipes -> Seq(Line)] /\ pipe'[Inbox(p)] = Tail(lines)
        /\ \A i \in Pipes : i # Inbox(p) => pipe'[i] = pipe[i]
    BY <1>1, <1>3, <1>4, Typed
  <1>6. \A i \in Pipes : Len(pipe'[i]) <= Len(pipe[i])
    <2>1. SUFFICES ASSUME NEW i \in Pipes PROVE Len(pipe'[i]) <= Len(pipe[i])
      OBVIOUS
    <2>2. CASE i = Inbox(p)
      BY <1>2, <1>3, <1>5, <2>2
    <2>3. CASE i # Inbox(p)
      <3>1. pipe'[i] = pipe[i] /\ Len(pipe[i]) \in Nat
        BY <1>5, <2>3, Typed
      <3>2. QED
        BY <3>1
    <2>4. QED
      BY <2>2, <2>3
  <1>7. p # 0 => Head(lines) # Blank /\ (~ IsQuit(Head(lines)) => BlankAfterQuit(Tail(lines)))
    <2>1. SUFFICES ASSUME p # 0 PROVE Head(lines) # Blank /\ (~ IsQuit(Head(lines)) => BlankAfterQuit(Tail(lines)))
      OBVIOUS
    <2>2. p \in Children
      BY <2>1, Ring
    <2>3. ReadsOn(p)
      BY <1>4 DEF ReadsOn, Waiting
    <2>4. BlankAfterQuit(lines)
      BY <1>2, <2>2, <2>3 DEF Base, Messages
    <2>5. QED
      BY <1>2, <2>4, FrontOfPipe
  <1>8. Use(p, Head(lines)) /\ UNCHANGED <<ends, asked>> /\ Unharmed
    BY <1>2 DEF Read
  <1>9. PICK m \in Line : m = Head(lines)
    BY <1>3
  <1>10. QED
    BY <1>4, <1>5, <1>6, <1>7, <1>8, <1>9, BaseUse

LEMMA BaseReadEnd ==
  ASSUME Base, NEW p \in Procs, ReadEnd(p)
  PROVE  Base'
  <1>1. Inbox(p) \in Pipes /\ pc[p] = "read" /\ pipe[Inbox(p)] = <<>> /\ UNCHANGED <<pipe, asked>> /\ Unharmed
    BY Ring DEF ReadEnd
  <1>2. CASE p \in Procs /\ Ends({p}) /\ UNCHANGED <<line, text>>
    <2>1. {p} \in SUBSET Procs /\ \A q \in {p} : pc[q] # "none"
      BY <1>1
    <2>2. QED
      BY <1>1, <1>2, <2>1, BaseEnds
  <1>3. ASSUME NEW m \in IF line[p] = <<>> THEN Garbage ELSE {line[p]}, Use(p, m), UNCHANGED ends
        PROVE  Base'
    <2>1. m \in Line /\ m # Blank
      BY <1>3, Typed, GarbageAssumption DEF Line, Blank
    <2>2. BlankAfterQuit(pipe'[Inbox(p)])
      BY <1>1 DEF BlankAfterQuit
    <2>3. \A i \in Pipes : Len(pipe'[i]) <= Len(pipe[i])
      <3>1. \A i \in Pipes : Len(pipe[i]) \in Nat /\ pipe'[i] = pipe[i]
        BY <1>1, Typed
      <3>2. QED
        BY <3>1
    <2>4. pipe' \in [Pipes -> Seq(Line)] /\ \A i \in Pipes : i # Inbox(p) => pipe'[i] = pipe[i]
      BY <1>1, Typed
    <2>5. QED
      BY <1>1, <1>3, <2>1, <2>2, <2>3, <2>4, BaseUse
  <1>4. QED
    BY <1>2, <1>3 DEF ReadEnd

LEMMA BaseWrite ==
  ASSUME Base, NEW p \in Procs, Write(p)
  PROVE  Base'
  <1>1. Outbox(p) = p /\ p \in Pipes /\ (p # 0 => p \in Children)
    BY Ring
  <1>2. /\ pc[p] = "write" /\ Len(pipe[p]) < Capacity
        /\ pipe' = [pipe EXCEPT ![p] = @ \o LinesOf(p, text[p])]
        /\ text' = [text EXCEPT ![p] = <<>>]
        /\ UNCHANGED <<line, asked>> /\ Unharmed
    BY <1>1 DEF Write
  <1>3. PICK m \in Line : m = text[p] /\ m # Blank
    BY <1>1, <1>2, Typed DEF Base, Messages
  <1>4. PICK lines \in Seq(Line) : lines = pipe[p]
    BY <1>1, Typed
  <1>5. PICK l \in Seq(Line) : l = LinesOf(p, m) /\ Len(l) \in {1, 2}
    BY <1>3, LinesFacts
  <1>6. /\ pipe' \in [Pipes -> Seq(Line)] /\ pipe'[p] = lines \o l
        /\ \A i \in Pipes : i # p => pipe'[i] = pipe[i]
    BY <1>1, <1>2, <1>3, <1>4, <1>5, Typed
  <1>7. /\ pc' \in [Procs -> Places] /\ ends' \in [Procs -> SUBSET (Pipes \X {"r", "w"})]
        /\ \A q \in Procs : q # p => pc'[q] = pc[q] /\ ends'[q] = ends[q]
        /\ \/ pc'[p] = "gone" /\ p # 0
           \/ pc'[p] = "read" /\ ends'[p] = ends[p] /\ ~ (p # 0 /\ IsQuit(line[p]))
    <2>1. CASE AfterWrite(p) = "gone"
      <3>1. p # 0
        BY <2>1 DEF AfterWrite
      <3>2. Ends({p})
        BY <2>1 DEF Write
      <3>3. QED
        BY <3>1, <3>2, Typed DEF Ends, Places
    <2>2. CASE AfterWrite(p) # "gone"
      <3>1. AfterWrite(p) = "read"
        BY <2>2 DEF AfterWrite
      <3>2. pc' = [pc EXCEPT ![p] = "read"] /\ UNCHANGED ends
        BY <2>2, <3>1 DEF Write, Goto
      <3>3. QED
        BY <2>2, <3>2, Typed DEF Places, AfterWrite
    <2>3. QED
      BY <2>1, <2>2
  <1>8. text' \in [Procs -> Line] /\ \A q \in Procs : q # p => text'[q] = text[q]
    BY <1>2, Typed DEF Line
  <1>9. TypeOK'
    <2>1. \A q \in Procs : pc'[q] \in {"ask", "write", "read", "show", "reap"} => ends'[q] = EndsOf(q)
      BY <1>2, <1>7, Typed
    <2>2. \A i \in Pipes : Len(pipe'[i]) <= Capacity + 1
      <3>1. Len(lines \o l) = Len(lines) + Len(l) /\ Len(lines) \in Nat
        OBVIOUS
      <3>2. PICK x \in Nat, d \in {1, 2} : x = Len(lines) /\ d = Len(l)
        BY <3>1, <1>5
      <3>3. x < Capacity /\ Capacity \in Nat
        BY <1>2, <1>4, <3>2, CapacityAssumption
      <3>4. x + d <= Capacity + 1
        BY <3>3
      <3>5. Len(pipe'[p]) <= Capacity + 1
        BY <1>6, <3>1, <3>2, <3>4
      <3>6. QED
        BY <1>6, <3>5, Typed
    <2>3. QED
      BY <1>2, <1>6, <1>7, <1>8, <2>1, <2>2, Typed, FaultTyped DEF TypeOK, Places
  <1>10. Descriptors'
    <2>1. /\ \A q \in Procs : pc'[q] \notin {"none", "gone"} => EndsOf(q) \subseteq ends'[q]
          /\ \A q \in Procs : pc'[q] = "exec" => ends'[q] = EndsOf(q)
      BY <1>2, <1>7 DEF Base, Descriptors
    <2>2. pc'[0] \in {pc[0], "read"}
      BY <1>7, Ring
    <2>3. pc'[0] = "fork" => p # 0 /\ pc'[3] = "none" /\ (pc'[1] = "none" => pc'[2] = "none")
      BY <1>2, <1>7, Ring DEF Base, Descriptors
    <2>4. \A i \in Children : pc'[i] \in {pc[i], "read", "gone"}
      BY <1>7, Ring
    <2>5. pc'[0] = "fork" => ends'[0] = ends[0] /\ pc[0] = "fork"
      BY <1>7, <2>3, Ring
    <2>6. QED
      BY <2>1, <2>2, <2>3, <2>4, <2>5 DEF Base, Descriptors
  <1>11. Messages'
    <2>1. \A q \in Procs : pc'[q] = "write" => q # p /\ pc[q] = "write" /\ text'[q] = text[q]
      BY <1>7, <1>8
    <2>2. pc'[0] = "write" => text'[0] # Blank
      BY <2>1, Ring DEF Base, Messages
    <2>3. \A i \in Children : pc'[i] = "write" =>
            text'[i] # Blank /\ line'[i] # Blank /\ (IsQuit(text'[i]) <=> IsQuit(line'[i]))
      BY <1>2, <2>1, Ring DEF Base, Messages
    <2>4. ASSUME NEW i \in Children, ReadsOn(i)'
          PROVE  BlankAfterQuit(pipe'[Inbox(i)])
      <3>1. ReadsOn(i)
        <4>1. CASE i = p
          <5>1. pc'[i] = "read"
            BY <2>4, <4>1, <1>7 DEF ReadsOn, Waiting
          <5>2. ~ IsQuit(line[i])
            BY <1>7, <4>1, <5>1, Ring
          <5>3. QED
            BY <1>2, <4>1, <5>2 DEF ReadsOn
        <4>2. CASE i # p
          <5>1. i \in Procs
            BY Ring
          <5>2. QED
            BY <1>2, <1>7, <2>4, <4>2, <5>1 DEF ReadsOn
        <4>3. QED
          BY <4>1, <4>2
      <3>2. BlankAfterQuit(pipe[Inbox(i)]) /\ Inbox(i) \in Pipes
        BY <3>1, Ring DEF Base, Messages
      <3>3. CASE Inbox(i) = p
        <4>1. BlankAfterQuit(lines)
          BY <1>4, <3>2, <3>3
        <4>2. BlankAfterQuit(lines \o LinesOf(p, m))
          BY <4>1, <1>3, BackOfPipe
        <4>3. QED
          BY <4>2, <3>3, <1>5, <1>6
      <3>4. CASE Inbox(i) # p
        BY <1>6, <3>2, <3>4
      <3>5. QED
        BY <3>3, <3>4
    <2>5. QED
      BY <2>2, <2>3, <2>4 DEF Messages
  <1>12. QED
    BY <1>9, <1>10, <1>11 DEF Base

LEMMA BaseStep == Base /\ [Next]_vars => Base'
  <1> SUFFICES ASSUME Base, [Next]_vars PROVE Base'
    OBVIOUS
  <1>1. 0 \in Procs /\ <<>> \in Line
    BY Ring DEF Line
  <1>2. CASE GetExpression
    <2>1. PICK e \in Exprs \cup {Quit} : asked' = e /\ text' = [text EXCEPT ![0] = e]
      BY <1>2 DEF GetExpression
    <2>2. e \in Line /\ e # Blank
      BY QuitFacts, AskedFacts DEF Line, Blank
    <2>3. /\ Goto(0, "write") /\ Unharmed /\ UNCHANGED <<pipe, line, ends>> /\ pc[0] = "ask"
      BY <1>2 DEF GetExpression
    <2>4. ends' = [ends EXCEPT ![0] = EndsOf(0)]
      <3>1. ends[0] = EndsOf(0)
        BY <1>1, <2>3, Typed
      <3>2. QED
        BY <2>3, <3>1, Typed
    <2>5. "write" \in Places /\ asked' \in Exprs \cup {Quit, <<>>}
      BY <2>1 DEF Places
    <2>6. text' \in [Procs -> Line] /\ text'[0] # Blank /\ \A i \in Children : text'[i] = text[i]
      BY <1>1, <2>1, <2>2, Typed, Ring
    <2>7. QED
      BY <1>1, <2>3, <2>4, <2>5, <2>6, BaseGoto
  <1>3. CASE ForkFails
    <2>1. /\ Ends({p \in Procs : pc[p] # "none"}) /\ Fault /\ UNCHANGED <<pipe, line, text, asked>>
      BY <1>3 DEF ForkFails
    <2>2. PICK ps \in SUBSET Procs : ps = {p \in Procs : pc[p] # "none"}
      OBVIOUS
    <2>3. QED
      BY <2>1, <2>2, BaseEnds
  <1>4. ASSUME NEW p \in Procs, ExecFails(p) \/ Die(p) \/ WriteBroken(p) PROVE Base'
    <2>1. /\ Ends({p}) /\ (Fault \/ Unharmed) /\ UNCHANGED <<pipe, line, text, asked>>
          /\ pc[p] # "none" /\ {p} \in SUBSET Procs
      BY <1>4 DEF ExecFails, Die, WriteBroken
    <2>2. QED
      BY <2>1, BaseEnds
  <1>5. CASE Reap
    <2>1. /\ Ends({0}) /\ Unharmed /\ UNCHANGED <<pipe, line, text, asked>>
          /\ pc[0] # "none" /\ {0} \in SUBSET Procs
      BY <1>1, <1>5 DEF Reap
    <2>2. QED
      BY <2>1, BaseEnds
  <1>6. ASSUME NEW p \in Procs, CloseUnused(p) PROVE Base'
    <2>1. PICK label \in {"ask", "exec"} : label = IF p = 0 THEN "ask" ELSE "exec"
      OBVIOUS
    <2>2. /\ Goto(p, label) /\ ends' = [ends EXCEPT ![p] = EndsOf(p)] /\ pc[p] = "close"
          /\ UNCHANGED <<pipe, line, text, asked>> /\ Unharmed
      BY <1>6, <2>1 DEF CloseUnused
    <2>3. label \in Places /\ pc[p] \in Waiting /\ (p # 0 => label \in Waiting)
      BY <2>1, <2>2 DEF Places, Waiting
    <2>4. /\ asked' \in Exprs \cup {Quit, <<>>} /\ text' = text /\ text' \in [Procs -> Line]
          /\ \A i \in Children : text'[i] = text[i]
      BY <2>2, Typed
    <2>5. /\ p = 0 => label \in {"ask", "write"} /\ label # "write"
          /\ p # 0 => pc[p] \in Waiting /\ label \in Waiting
      BY <2>1, <2>3
    <2>6. QED
      BY <2>2, <2>3, <2>4, <2>5, BaseGoto
  <1>7. ASSUME NEW p \in Procs, Exec(p), p # 0 PROVE Base'
    <2>1. /\ Goto(p, "read") /\ pc[p] = "exec" /\ UNCHANGED <<pipe, line, text, ends, asked>> /\ Unharmed
      BY <1>7 DEF Exec
    <2>2. ends' = [ends EXCEPT ![p] = EndsOf(p)]
      <3>1. ends[p] = EndsOf(p)
        BY <2>1 DEF Base, Descriptors
      <3>2. QED
        BY <2>1, <3>1, Typed
    <2>3. "read" \in Places /\ "read" \in Waiting /\ pc[p] \in Waiting
      BY <2>1 DEF Places, Waiting
    <2>4. /\ asked' \in Exprs \cup {Quit, <<>>} /\ text' = text /\ text' \in [Procs -> Line]
          /\ \A i \in Children : text'[i] = text[i]
      BY <2>1, Typed
    <2>5. PICK label \in Places : label = "read" /\ label \in Waiting
      BY <2>3
    <2>6. Goto(p, label) /\ UNCHANGED <<pipe, line>> /\ Unharmed
      BY <2>1, <2>5
    <2>7. QED
      BY <1>7, <2>2, <2>3, <2>4, <2>5, <2>6, BaseGoto
  <1>8. CASE Show
    <2>1. /\ pc[0] = "show" /\ Goto(0, "ask") /\ text' = [text EXCEPT ![0] = <<>>] /\ asked' = <<>>
          /\ UNCHANGED <<pipe, ends, line>> /\ Unharmed
      BY <1>8 DEF Show
    <2>2. ends' = [ends EXCEPT ![0] = EndsOf(0)]
      <3>1. ends[0] = EndsOf(0)
        BY <1>1, <2>1, Typed
      <3>2. QED
        BY <2>1, <3>1, Typed
    <2>3. "ask" \in Places /\ asked' \in Exprs \cup {Quit, <<>>}
      BY <2>1 DEF Places
    <2>4. text' \in [Procs -> Line] /\ \A i \in Children : text'[i] = text[i]
      BY <1>1, <2>1, Typed, Ring
    <2>5. QED
      BY <1>1, <2>1, <2>2, <2>3, <2>4, BaseGoto
  <1>9. CASE UNCHANGED vars
    BY <1>9 DEF vars, Base, TypeOK, Descriptors, Messages, ReadsOn
  <1>10. QED
    BY <1>1, <1>2, <1>3, <1>4, <1>5, <1>6, <1>7, <1>8, <1>9, BaseFork, BaseRead, BaseReadEnd, BaseWrite
       DEF Next, Step

--------------------------------------------------------------------------------
(* What holds as long as nothing fails and nobody is killed. *)

(* Who can take a message step, and what else goes on in a whole session. *)
Able(p) == \/ pc[p] = "write"
           \/ pc[p] = "read" /\ pipe[Inbox(p)] # <<>>
Moves == \/ pc[0] = "fork" /\ Fork
         \/ pc[0] = "close" /\ CloseUnused(0)
         \/ pc[0] = "ask" /\ GetExpression
         \/ pc[0] = "show" /\ Show
         \/ pc[0] = "reap" /\ Reap
         \/ \E i \in Children : CloseUnused(i) \/ Exec(i)
         \/ \E p \in Procs : Able(p) /\ (Write(p) \/ Read(p))

Alive(p) == pc[p] \notin {"none", "gone"}

LEMMA AliveHas ==
  ASSUME Base, NEW p \in Procs, Alive(p)
  PROVE  HasReader(Inbox(p)) /\ HasWriter(p)
  <1>1. EndsOf(p) \subseteq ends[p]
    BY DEF Base, Descriptors, Alive
  <1>2. <<Inbox(p), "r">> \in ends[p] /\ <<p, "w">> \in ends[p]
    BY <1>1, EndsFacts
  <1>3. QED
    BY <1>2 DEF HasReader, HasWriter

LEMMA AskedTyped ==
  ASSUME Base, asked # <<>>
  PROVE  asked \in Seq(AnyTerm)
  <1>1. asked \in Exprs \cup {Quit}
    BY Typed
  <1>2. QED
    BY <1>1, QuitFacts, AskedFacts

(* What a process has sent on, and what is left of it when it is read.       *)
LEMMA SentFacts ==
  ASSUME Base, asked # <<>>, NEW f \in Pipes
  PROVE  /\ Stage(asked, f) \in Line /\ Stage(asked, f) # Blank
         /\ IsQuit(Stage(asked, f)) <=> IsQuit(asked)
         /\ LinesOf(f, Stage(asked, f)) \in Seq(Line) /\ LinesOf(f, Stage(asked, f)) # <<>>
         /\ Head(LinesOf(f, Stage(asked, f))) = Stage(asked, f)
         /\ Tail(LinesOf(f, Stage(asked, f))) = Rest(f)
  <1>1. asked \in Seq(AnyTerm)
    BY AskedTyped
  <1>2. f \in 0 .. 3 /\ f \in Procs
    BY Ring DEF Pipes
  <1>3. /\ Stage(asked, f) \in Line /\ Stage(asked, f) # Blank
        /\ IsQuit(Stage(asked, f)) <=> IsQuit(asked)
    BY <1>1, <1>2, StageFacts DEF Line, Blank
  <1>4. PICK m \in Line : m = Stage(asked, f) /\ m # Blank /\ (IsQuit(m) <=> IsQuit(asked))
    BY <1>3
  <1>5. QED
    BY <1>2, <1>3, <1>4, LinesFacts DEF Rest

(* Who is to read or to write finds somebody at the other end of the pipe.   *)
LEMMA NobodyMissing ==
  ASSUME Base, NEW p \in Procs,
         Starting \/ Asking \/ Answered \/ Closed \/ \E s \in 1 .. 4 : InFlight(s)
  PROVE  ~ WriteBroken(p) /\ ~ ReadEnd(p)
  <1>1. SUFFICES /\ pc[p] = "write" => HasReader(p)
                 /\ pc[p] = "read" /\ pipe[Inbox(p)] = <<>> => HasWriter(Inbox(p))
    BY Ring DEF WriteBroken, ReadEnd
  <1>2. ASSUME \A q \in Procs : Alive(q)
        PROVE  HasReader(p) /\ HasWriter(Inbox(p))
    <2>1. PICK q \in Procs : Inbox(q) = p
      BY Ring
    <2>2. Inbox(p) \in Procs
      BY Ring
    <2>3. QED
      BY <1>2, <2>1, <2>2, AliveHas
  <1>3. CASE Starting
    <2>1. CASE pc[0] = "fork"
      <3>1. ends[0] = Pipes \X {"r", "w"} /\ p \in Pipes /\ Inbox(p) \in Pipes /\ 0 \in Procs
        BY <2>1, Ring DEF Base, Descriptors
      <3>2. <<p, "r">> \in ends[0] /\ <<Inbox(p), "w">> \in ends[0]
        BY <3>1
      <3>3. QED
        BY <3>1, <3>2 DEF HasReader, HasWriter
    <2>2. CASE pc[0] = "close"
      <3>1. \A q \in Procs : Alive(q)
        BY <1>3, <2>2, Ring DEF Starting, Alive, Waiting
      <3>2. QED
        BY <1>2, <3>1
    <2>3. QED
      BY <1>3, <2>1, <2>2 DEF Starting
  <1>4. CASE Asking
    <2>1. \A q \in Procs : Alive(q)
      BY <1>4, Ring DEF Asking, Alive, Waiting
    <2>2. QED
      BY <1>2, <2>1
  <1>5. CASE Answered
    <2>1. CASE IsQuit(asked)
      BY <1>5, <2>1, Ring DEF Answered, Finished
    <2>2. CASE ~ IsQuit(asked)
      <3>1. \A q \in Procs : Alive(q)
        BY <1>5, <2>2, Ring DEF Answered, Finished, Alive
      <3>2. QED
        BY <1>2, <3>1
    <2>3. QED
      BY <2>1, <2>2
  <1>6. CASE Closed
    BY <1>6, Ring DEF Closed
  <1>7. ASSUME NEW s \in 1 .. 4, InFlight(s)
        PROVE  /\ pc[p] = "write" => HasReader(p)
               /\ pc[p] = "read" /\ pipe[Inbox(p)] = <<>> => HasWriter(Inbox(p))
    <2>1. s \in {1, 2, 3, 4} /\ s % 4 = (IF s = 4 THEN 0 ELSE s)
      BY Ring
    <2>2. /\ pc[s % 4] \in IF s % 4 = 0 THEN {"read"} ELSE Waiting \cup {"write"}
          /\ s % 4 # 0 => pc[0] = "read"
          /\ \A i \in Children : i < s => pc[i] = Finished
          /\ \A i \in Children : i > s => pc[i] \in Waiting
          /\ pc[s % 4] # "write" => pipe[s - 1] = LinesOf(s - 1, Stage(asked, s - 1))
      BY <1>7 DEF InFlight
    <2>3. pc[0] = "read"
      BY <2>1, <2>2
    <2>4. CASE ~ IsQuit(asked)
      <3>1. \A q \in Procs : Alive(q)
        BY <2>1, <2>2, <2>3, <2>4, Ring DEF Finished, Alive, Waiting
      <3>2. QED
        BY <1>2, <3>1
    <2>5. CASE IsQuit(asked)
      <3>1. ASSUME pc[p] = "write" PROVE HasReader(p)
        <4>1. p = s /\ s # 4
          BY <2>1, <2>2, <2>3, <2>5, <3>1, Ring DEF Finished, Waiting
        <4>2. PICK q \in Procs : q = (IF s = 3 THEN 0 ELSE s + 1) /\ Inbox(q) = s
          BY <2>1, <4>1, Ring
        <4>3. Alive(q)
          BY <2>1, <2>2, <2>3, <4>1, <4>2, Ring DEF Alive, Waiting
        <4>4. QED
          BY <4>1, <4>2, <4>3, AliveHas
      <3>2. ASSUME pc[p] = "read", pipe[Inbox(p)] = <<>> PROVE HasWriter(Inbox(p))
        <4>1. s - 1 \in Pipes /\ asked # <<>>
          BY <1>7, <2>1, Ring DEF InFlight
        <4>2. pc[s % 4] # "write" => pipe[s - 1] # <<>>
          BY <2>2, <4>1, SentFacts
        <4>3. p # s % 4
          BY <2>1, <3>2, <4>2, Ring
        <4>4. (p = 0 /\ s # 4) \/ p > s
          BY <2>1, <2>2, <2>5, <3>2, <4>3, Ring DEF Finished
        <4>5. PICK q \in Children : q = Inbox(p) /\ q >= s
          BY <2>1, <4>4, Ring
        <4>6. Alive(q) /\ q \in Procs
          BY <2>1, <2>2, <4>5, Ring DEF Alive, Waiting
        <4>7. QED
          BY <4>5, <4>6, AliveHas
      <3>3. QED
        BY <3>1, <3>2
    <2>6. QED
      BY <2>4, <2>5
  <1>8. QED
    BY <1>3, <1>4, <1>5, <1>6, <1>7

LEMMA WholeMoves ==
  ASSUME Base, Next, whole',
         Starting \/ Asking \/ Answered \/ Closed \/ \E s \in 1 .. 4 : InFlight(s)
  PROVE  Moves
  <1>1. ~ ForkFails /\ \A p \in Procs : ~ ExecFails(p) /\ ~ Die(p)
    BY DEF ForkFails, ExecFails, Die, Fault
  <1>2. \A p \in Procs : ~ WriteBroken(p) /\ ~ ReadEnd(p)
    BY NobodyMissing
  <1>3. \/ GetExpression \/ Fork \/ Show \/ Reap
        \/ \E p \in Procs : CloseUnused(p) \/ Write(p) \/ Read(p) \/ (p # 0 /\ Exec(p))
    BY <1>1, <1>2 DEF Next, Step
  <1>4. ASSUME NEW p \in Procs, CloseUnused(p) \/ (p # 0 /\ Exec(p)) PROVE Moves
    BY <1>4, Ring DEF Moves, CloseUnused
  <1>5. ASSUME NEW p \in Procs, Write(p) \/ Read(p) PROVE Moves
    BY <1>5 DEF Moves, Able, Write, Read
  <1>6. QED
    BY <1>3, <1>4, <1>5 DEF Moves, GetExpression, Fork, Show, Reap

(* A child prepares itself, and nobody else notices. *)
LEMMA Prepares ==
  ASSUME Base, NEW i \in Children, CloseUnused(i) \/ Exec(i)
  PROVE  /\ pc[i] \in {"close", "exec"} /\ pc'[i] \in Waiting
         /\ \A q \in Procs : q # i => pc'[q] = pc[q]
         /\ UNCHANGED <<pipe, line, text, asked>>
  <1>1. i # 0 /\ i \in Procs
    BY Ring
  <1>2. /\ pc[i] \in {"close", "exec"} /\ UNCHANGED <<pipe, line, text, asked>>
        /\ Goto(i, "exec") \/ Goto(i, "read")
    BY <1>1 DEF CloseUnused, Exec
  <1>3. QED
    BY <1>1, <1>2, Typed DEF Goto, Waiting

LEMMA StartingStep ==
  ASSUME Base, Starting, Moves
  PROVE  Starting' \/ Asking'
  <1>1. ASSUME NEW p \in Procs PROVE ~ Able(p)
    BY Ring DEF Able, Starting, Clear, Waiting
  <1>2. CASE Fork
    <2>1. pc[0] = "fork" /\ pc[3] = "none" /\ (pc[1] = "none" => pc[2] = "none")
      BY <1>2 DEF Fork, Base, Descriptors
    <2>2. NextChild = IF pc[1] = "none" THEN 1 ELSE IF pc[2] = "none" THEN 2 ELSE 3
      BY <2>1, NextChildIs
    <2>3. PICK c \in Children : c = NextChild /\ (c = 3 => pc[1] # "none" /\ pc[2] # "none")
      BY <2>2, Ring
    <2>4. PICK a \in {"close", "fork"} : a = IF c = 3 THEN "close" ELSE "fork"
      OBVIOUS
    <2>5. pc' = [pc EXCEPT ![c] = "close", ![0] = a] /\ UNCHANGED pipe
      BY <1>2, <2>3, <2>4 DEF Fork
    <2>6. /\ pc'[c] = "close" /\ pc'[0] = a
          /\ \A i \in Children : i # c => pc'[i] = pc[i]
      BY <2>5, Typed, Ring
    <2>7. \A i \in Children : pc'[i] \in Waiting \/ (pc'[i] = "none" /\ pc'[0] = "fork")
      <3>1. "close" \in Waiting
        BY DEF Waiting
      <3>2. \A i \in Children : i # c => pc'[i] \in Waiting \/ pc'[i] = "none"
        BY <2>6 DEF Starting
      <3>3. CASE c = 3
        BY <2>3, <2>6, <3>1, <3>3, Ring DEF Starting
      <3>4. CASE c # 3
        BY <2>4, <2>6, <3>1, <3>2, <3>4
      <3>5. QED
        BY <3>3, <3>4
    <2>8. Clear'
      BY <2>5 DEF Starting, Clear
    <2>9. QED
      BY <2>6, <2>7, <2>8 DEF Starting
  <1>3. CASE pc[0] = "close" /\ CloseUnused(0)
    <2>1. pc' = [pc EXCEPT ![0] = "ask"] /\ UNCHANGED pipe
      BY <1>3 DEF CloseUnused, Goto
    <2>2. pc'[0] = "ask" /\ \A i \in Children : pc'[i] = pc[i]
      BY <2>1, Typed, Ring
    <2>3. \A i \in Children : pc'[i] \in Waiting
      BY <1>3, <2>2 DEF Starting
    <2>4. Clear'
      BY <2>1 DEF Starting, Clear
    <2>5. QED
      BY <2>2, <2>3, <2>4 DEF Asking
  <1>4. ASSUME NEW i \in Children, CloseUnused(i) \/ Exec(i) PROVE Starting'
    <2>1. /\ pc'[i] \in Waiting /\ \A q \in Procs : q # i => pc'[q] = pc[q]
          /\ UNCHANGED <<pipe, line, text, asked>>
      BY <1>4, Prepares
    <2>2. Clear'
      BY <2>1 DEF Starting, Clear
    <2>3. QED
      BY <2>1, <2>2, Ring DEF Starting
  <1>5. QED
    BY <1>1, <1>2, <1>3, <1>4 DEF Moves, Starting

LEMMA AskingStep ==
  ASSUME Base, Asking, Moves
  PROVE  Asking' \/ InFlight(1)'
  <1>1. ASSUME NEW p \in Procs, Able(p) PROVE p = 0 /\ pc[0] = "write"
    BY <1>1, Ring DEF Able, Asking, Clear, Waiting
  <1>2. CASE GetExpression
    <2>1. PICK e \in Exprs \cup {Quit} : asked' = e /\ text' = [text EXCEPT ![0] = e]
      BY <1>2 DEF GetExpression
    <2>2. e # <<>>
      BY QuitFacts, AskedFacts
    <2>3. pc' = [pc EXCEPT ![0] = "write"] /\ UNCHANGED pipe
      BY <1>2 DEF GetExpression, Goto
    <2>4. pc'[0] = "write" /\ text'[0] = e /\ \A i \in Children : pc'[i] = pc[i]
      BY <2>1, <2>3, Typed, Ring
    <2>5. Clear'
      BY <2>3 DEF Asking, Clear
    <2>6. QED
      BY <2>1, <2>2, <2>4, <2>5 DEF Asking
  <1>3. CASE Write(0)
    <2>1. text[0] = asked /\ asked # <<>> /\ pc[0] = "write"
      BY <1>3 DEF Write, Asking
    <2>2. PICK l \in Seq(Line) : l = LinesOf(0, Stage(asked, 0))
      BY <2>1, SentFacts, Ring
    <2>3. Stage(asked, 0) = asked
      BY <2>1, AskedTyped, StageFacts
    <2>4. pipe' = [pipe EXCEPT ![0] = pipe[0] \o LinesOf(0, text[0])] /\ UNCHANGED asked
      BY <1>3, Ring DEF Write
    <2>5. pipe[0] = <<>> /\ \A f \in Pipes : pipe[f] = <<>>
      BY Ring DEF Asking, Clear
    <2>6. <<>> \o l = l
      BY <2>2
    <2>7. pipe' = [pipe EXCEPT ![0] = l]
      BY <2>1, <2>2, <2>3, <2>4, <2>5, <2>6
    <2>8. pipe'[0] = l /\ \A f \in Pipes : f # 0 => pipe'[f] = <<>>
      BY <2>5, <2>7, Typed, Ring
    <2>9. pc' = [pc EXCEPT ![0] = "read"]
      BY <1>3 DEF Write, AfterWrite, Goto
    <2>10. pc'[0] = "read" /\ \A i \in Children : pc'[i] = pc[i]
      BY <2>9, Typed, Ring
    <2>11. \A i \in Children : pc'[i] \in Waiting
      BY <2>10 DEF Asking
    <2>12. /\ 1 % 4 = 1 /\ 1 - 1 = 0 /\ 1 \in Children
           /\ \A i \in Children : ~ (i < 1)
           /\ \A f \in Pipes : ~ (f < 0) /\ (f > 0 => f # 0)
      BY Ring
    <2>13. pc'[1] \in Waiting /\ pc'[1] # "write"
      BY <2>11, <2>12 DEF Waiting
    <2>14. InFlight(1)'
      BY <2>1, <2>2, <2>4, <2>8, <2>10, <2>11, <2>12, <2>13 DEF InFlight
    <2>15. QED
      BY <2>14
  <1>4. ASSUME NEW i \in Children, CloseUnused(i) \/ Exec(i) PROVE Asking'
    <2>1. /\ pc'[i] \in Waiting /\ \A q \in Procs : q # i => pc'[q] = pc[q]
          /\ UNCHANGED <<pipe, line, text, asked>>
      BY <1>4, Prepares
    <2>2. Clear'
      BY <2>1 DEF Asking, Clear
    <2>3. QED
      BY <2>1, <2>2, Ring DEF Asking
  <1>5. ~ Read(0)
    BY DEF Read, Asking
  <1>6. QED
    BY <1>1, <1>2, <1>3, <1>4, <1>5 DEF Moves, Asking

(* Only the process that has the message, or finds it in its pipe, can go    *)
(* on; the others may still prepare themselves.                              *)
LEMMA InFlightMoves ==
  ASSUME Base, NEW s \in 1 .. 4, InFlight(s), Moves
  PROVE  \/ Write(s % 4) \/ Read(s % 4)
         \/ \E i \in Children : CloseUnused(i) \/ Exec(i)
  <1>1. s \in {1, 2, 3, 4} /\ s % 4 = (IF s = 4 THEN 0 ELSE s)
    BY Ring
  <1>2. /\ pc[s % 4] \in IF s % 4 = 0 THEN {"read"} ELSE Waiting \cup {"write"}
        /\ s % 4 # 0 => pc[0] = "read"
        /\ \A i \in Children : i < s => pc[i] = Finished
        /\ \A i \in Children : i > s => pc[i] \in Waiting
        /\ \A f \in Pipes : f < s - 1 => pipe[f] = Rest(f)
        /\ \A f \in Pipes : f > s - 1 => pipe[f] = <<>>
    BY DEF InFlight
  <1>3. pc[0] = "read"
    BY <1>1, <1>2
  <1>4. ASSUME NEW p \in Procs, p # s % 4 PROVE ~ Able(p)
    <2>1. CASE p # 0 /\ p < s
      <3>1. pc[p] = Finished /\ Inbox(p) \in Pipes /\ Inbox(p) < s - 1
        BY <1>1, <1>2, <2>1, Ring
      <3>2. CASE IsQuit(asked)
        BY <3>1, <3>2 DEF Able, Finished
      <3>3. CASE ~ IsQuit(asked)
        <4>1. pipe[Inbox(p)] = <<>>
          BY <1>2, <3>1, <3>3 DEF Rest
        <4>2. QED
          BY <3>1, <3>3, <4>1 DEF Able, Finished
      <3>4. QED
        BY <3>2, <3>3
    <2>2. CASE p = 0 \/ p > s
      <3>1. Inbox(p) \in Pipes /\ Inbox(p) > s - 1
        BY <1>1, <1>4, <2>2, Ring
      <3>2. pipe[Inbox(p)] = <<>> /\ pc[p] # "write"
        BY <1>1, <1>2, <1>3, <2>2, <3>1, Ring DEF Waiting
      <3>3. QED
        BY <3>2 DEF Able
    <2>3. QED
      BY <1>1, <1>4, <2>1, <2>2, Ring
  <1>5. QED
    BY <1>3, <1>4 DEF Moves

LEMMA InFlightStep ==
  ASSUME Base, NEW s \in 1 .. 4, InFlight(s), Moves
  PROVE  \/ InFlight(s)'
         \/ s # 4 /\ InFlight(s + 1)'
         \/ s = 4 /\ Answered'
  <1> DEFINE p == s % 4
  <1>1. /\ s \in {1, 2, 3, 4} /\ p = (IF s = 4 THEN 0 ELSE s) /\ p \in Procs
        /\ Inbox(p) = s - 1 /\ s - 1 \in Pipes /\ s - 1 \in 0 .. 3 /\ Outbox(p) = p
        /\ Children = {1, 2, 3} /\ Pipes = {0, 1, 2, 3}
    BY Ring
  <1>2. Write(p) \/ Read(p) \/ \E i \in Children : CloseUnused(i) \/ Exec(i)
    BY InFlightMoves
  <1>3. /\ asked # <<>>
        /\ pc[p] \in IF p = 0 THEN {"read"} ELSE Waiting \cup {"write"}
        /\ \A f \in Pipes : f < s - 1 => pipe[f] = Rest(f)
        /\ \A f \in Pipes : f > s - 1 => pipe[f] = <<>>
        /\ pc[p] # "write" => pipe[s - 1] = LinesOf(s - 1, Stage(asked, s - 1))
        /\ pc[p] = "write" => /\ pipe[s - 1] = Rest(s - 1)
                              /\ text[p] = Stage(asked, s) /\ (IsQuit(line[p]) <=> IsQuit(asked))
        /\ p # 0 => pc[0] = "read"
        /\ \A i \in Children : i < s => pc[i] = Finished
        /\ \A i \in Children : i > s => pc[i] \in Waiting
    BY DEF InFlight
  <1>4. asked \in Seq(AnyTerm) /\ asked # <<>>
    BY <1>3, AskedTyped
  <1>5. Finished \in {"gone", "read"} /\ "write" \notin Waiting /\ "gone" \notin Waiting
    BY DEF Finished, Waiting
  <1> HIDE DEF p
  <1>6. ASSUME NEW i \in Children, CloseUnused(i) \/ Exec(i) PROVE InFlight(s)'
    <2>1. /\ pc[i] \in {"close", "exec"} /\ pc'[i] \in Waiting
          /\ \A q \in Procs : q # i => pc'[q] = pc[q]
          /\ UNCHANGED <<pipe, line, text, asked>>
      BY <1>6, Prepares
    <2>2. i # 0 /\ \A j \in Children : j \in Procs
      BY Ring
    <2>3. i >= s
      BY <1>1, <1>3, <2>1 DEF Finished
    <2>4. /\ pc'[p] \in IF p = 0 THEN {"read"} ELSE Waiting \cup {"write"}
          /\ (pc'[p] = "write") = (pc[p] = "write")
      BY <1>1, <1>3, <1>5, <2>1, <2>2
    <2>5. p # 0 => pc'[0] = "read"
      BY <1>3, <2>1, <2>2, Ring
    <2>6. /\ \A j \in Children : j < s => pc'[j] = Finished'
          /\ \A j \in Children : j > s => pc'[j] \in Waiting
      BY <1>1, <1>3, <2>1, <2>2, <2>3 DEF Finished
    <2>7. QED
      BY <1>3, <2>1, <2>4, <2>5, <2>6 DEF InFlight, Rest, p
  <1>7. CASE Write(p)
    <2>1. /\ pc[p] = "write" /\ pipe' = [pipe EXCEPT ![p] = pipe[p] \o LinesOf(p, text[p])]
          /\ UNCHANGED <<line, asked>>
      BY <1>1, <1>7 DEF Write
    <2>2. p # 0 /\ p = s /\ s # 4 /\ s \in Pipes /\ s \in Children
      BY <1>1, <1>3, <2>1
    <2>3. PICK l \in Seq(Line) : l = LinesOf(s, Stage(asked, s))
      BY <1>3, <2>2, SentFacts
    <2>4. pipe[s] = <<>>
      BY <1>1, <1>3, <2>2
    <2>5. <<>> \o l = l
      BY <2>3
    <2>6. pipe' = [pipe EXCEPT ![s] = l]
      BY <1>3, <2>1, <2>2, <2>3, <2>4, <2>5
    <2>7. pipe'[s] = l /\ \A f \in Pipes : f # s => pipe'[f] = pipe[f]
      BY <2>2, <2>6, Typed
    <2>8. pc' = [pc EXCEPT ![s] = Finished]
      <3>1. AfterWrite(p) = Finished
        BY <1>3, <2>1, <2>2 DEF AfterWrite, Finished
      <3>2. CASE Finished = "gone"
        <4>1. Ends({s})
          BY <1>7, <2>2, <3>1, <3>2 DEF Write
        <4>2. pc' = [q \in Procs |-> IF q \in {s} THEN "gone" ELSE pc[q]]
          BY <4>1 DEF Ends
        <4>3. QED
          BY <3>2, <4>2, Typed
      <3>3. CASE Finished = "read"
        BY <1>7, <2>2, <3>1, <3>3 DEF Write, Goto
      <3>4. QED
        BY <1>5, <3>2, <3>3
    <2>9. pc'[s] = Finished /\ \A q \in Procs : q # s => pc'[q] = pc[q]
      BY <1>1, <2>2, <2>8, Typed
    <2>10. (s + 1) % 4 = (IF s = 3 THEN 0 ELSE s + 1) /\ (s + 1) - 1 = s
      BY <1>1, <2>2, Ring
    <2>11. /\ \A f \in Pipes : f < s => pipe'[f] = Rest(f)
           /\ \A f \in Pipes : f > s => pipe'[f] = <<>>
      <3>1. ASSUME NEW f \in Pipes, f < s PROVE pipe'[f] = Rest(f)
        <4>1. f # s /\ (f < s - 1 \/ f = s - 1)
          BY <1>1, <3>1
        <4>2. QED
          BY <1>3, <2>1, <2>7, <4>1
      <3>2. ASSUME NEW f \in Pipes, f > s PROVE pipe'[f] = <<>>
        <4>1. f # s /\ f > s - 1
          BY <1>1, <3>2
        <4>2. QED
          BY <1>3, <2>7, <4>1
      <3>3. QED
        BY <3>1, <3>2
    <2>12. /\ pc'[0] = "read" /\ pc'[(s + 1) % 4] # "write"
           /\ pc'[(s + 1) % 4] \in IF (s + 1) % 4 = 0 THEN {"read"} ELSE Waiting \cup {"write"}
      <3>1. pc'[0] = "read"
        BY <1>3, <2>2, <2>9, Ring
      <3>2. CASE s = 3
        BY <2>10, <3>1, <3>2
      <3>3. CASE s # 3
        <4>1. s + 1 \in Children /\ s + 1 \in Procs /\ s + 1 # s /\ s + 1 > s /\ s + 1 # 0
          BY <1>1, <2>2, <3>3, Ring
        <4>2. pc'[s + 1] \in Waiting
          BY <1>3, <2>9, <4>1
        <4>3. QED
          BY <1>5, <2>10, <3>1, <3>3, <4>1, <4>2
      <3>4. QED
        BY <3>2, <3>3
    <2>13. \A i \in Children : i < s + 1 => pc'[i] = Finished
      BY <1>1, <1>3, <2>2, <2>9, Ring
    <2>14. \A i \in Children : i > s + 1 => pc'[i] \in Waiting
      BY <1>1, <1>3, <2>2, <2>9, Ring
    <2>15. PICK t : t = s + 1 /\ t - 1 = s
      BY <2>10
    <2>16. /\ asked' # <<>> /\ pipe'[t - 1] = LinesOf(t - 1, Stage(asked', t - 1))
           /\ \A f \in Pipes : f < t - 1 => pipe'[f] = Rest(f)'
           /\ \A f \in Pipes : f > t - 1 => pipe'[f] = <<>>
      BY <1>4, <2>1, <2>3, <2>7, <2>11, <2>15 DEF Rest
    <2>17. /\ pc'[0] = "read" /\ pc'[t % 4] # "write"
           /\ pc'[t % 4] \in IF t % 4 = 0 THEN {"read"} ELSE Waiting \cup {"write"}
           /\ \A i \in Children : i < t => pc'[i] = Finished'
           /\ \A i \in Children : i > t => pc'[i] \in Waiting
      BY <2>1, <2>12, <2>13, <2>14, <2>15 DEF Finished
    <2>18. InFlight(t)'
      BY <2>16, <2>17 DEF InFlight
    <2>19. QED
      BY <2>2, <2>15, <2>18
  <1>8. CASE Read(p)
    <2>1. /\ pc[p] = "read" /\ pipe' = [pipe EXCEPT ![s - 1] = Tail(pipe[s - 1])]
          /\ Use(p, Head(pipe[s - 1])) /\ UNCHANGED asked
      BY <1>1, <1>8 DEF Read
    <2>2. PICK m \in Line : m = Stage(asked, s - 1) /\ (IsQuit(m) <=> IsQuit(asked))
      BY <1>1, <1>3, SentFacts
    <2>3. pipe' = [pipe EXCEPT ![s - 1] = Rest(s - 1)] /\ Use(p, m)
      BY <1>1, <1>3, <2>1, <2>2, SentFacts
    <2>4. pipe'[s - 1] = Rest(s - 1) /\ \A f \in Pipes : f # s - 1 => pipe'[f] = pipe[f]
      BY <1>1, <2>3, Typed
    <2>5. /\ \A f \in Pipes : f <= s - 1 => pipe'[f] = Rest(f)
          /\ \A f \in Pipes : f > s - 1 => pipe'[f] = <<>>
      BY <1>1, <1>3, <2>4
    <2>6. CASE s # 4
      <3>1. p = s /\ p # 0 /\ s \in Children
        BY <1>1, <2>6
      <3>2. Processed(p, m) = Stage(asked, s)
        BY <1>4, <2>2, <3>1, StageFacts
      <3>3. /\ line' = [line EXCEPT ![p] = m] /\ text' = [text EXCEPT ![p] = Stage(asked, s)]
            /\ pc' = [pc EXCEPT ![p] = "write"]
        BY <2>3, <3>1, <3>2 DEF Use, Goto
      <3>4. /\ line'[p] = m /\ text'[p] = Stage(asked, s) /\ pc'[p] = "write"
            /\ \A q \in Procs : q # p => pc'[q] = pc[q]
        BY <1>1, <3>3, Typed
      <3>5. /\ pc'[0] = "read"
            /\ \A i \in Children : i < s => pc'[i] = Finished
            /\ \A i \in Children : i > s => pc'[i] \in Waiting
        BY <1>1, <1>3, <3>1, <3>4, Ring
      <3>6. \A f \in Pipes : f < s - 1 => pipe'[f] = Rest(f)
        BY <1>1, <2>5
      <3>7. InFlight(s)'
        BY <1>3, <2>1, <2>2, <2>4, <2>5, <3>1, <3>4, <3>5, <3>6 DEF InFlight, Finished, Rest, p
      <3>8. QED
        BY <3>7
    <2>7. CASE s = 4
      <3>1. p = 0 /\ s - 1 = 3
        BY <1>1, <2>7
      <3>2. PICK a \in {"reap", "show"} : a = IF IsQuit(asked) THEN "reap" ELSE "show"
        OBVIOUS
      <3>3. text' = [text EXCEPT ![0] = m] /\ pc' = [pc EXCEPT ![0] = a]
        BY <2>3, <3>1, <3>2 DEF Use, Goto
      <3>4. text'[0] = m /\ pc'[0] = a /\ \A i \in Children : pc'[i] = pc[i]
        BY <3>3, Typed, Ring
      <3>5. \A i \in Children : pc'[i] = Finished
        BY <1>1, <1>3, <2>7, <3>4
      <3>6. \A f \in Pipes : pipe'[f] = Rest(f)
        BY <1>1, <2>5, <2>7
      <3>7. Answered'
        BY <1>3, <2>1, <2>2, <3>1, <3>2, <3>4, <3>5, <3>6 DEF Answered, Finished, Rest
      <3>8. QED
        BY <2>7, <3>7
    <2>8. QED
      BY <2>6, <2>7
  <1>9. QED
    BY <1>2, <1>6, <1>7, <1>8

LEMMA AnsweredStep ==
  ASSUME Base, Answered, Moves
  PROVE  Asking' \/ Closed'
  <1>1. ASSUME NEW p \in Procs PROVE ~ Able(p)
    <2>1. CASE IsQuit(asked)
      BY <2>1, Ring DEF Able, Answered, Finished
    <2>2. CASE ~ IsQuit(asked)
      BY <2>2, Ring DEF Able, Answered, Finished, Rest
    <2>3. QED
      BY <2>1, <2>2
  <1>2. \A i \in Children : ~ CloseUnused(i) /\ ~ Exec(i)
    BY DEF CloseUnused, Exec, Answered, Finished
  <1>3. Show \/ Reap
    BY <1>1, <1>2 DEF Moves, Answered
  <1>4. CASE Show
    <2>1. ~ IsQuit(asked) /\ pc' = [pc EXCEPT ![0] = "ask"] /\ UNCHANGED pipe
      BY <1>4 DEF Show, Answered, Goto
    <2>2. /\ \A i \in Children : pc[i] = "read"
          /\ \A f \in Pipes : pipe[f] = <<>>
      BY <2>1 DEF Answered, Finished, Rest
    <2>3. pc'[0] = "ask" /\ \A i \in Children : pc'[i] = "read"
      BY <2>1, <2>2, Typed, Ring
    <2>4. Clear'
      BY <2>1, <2>2 DEF Clear
    <2>5. QED
      BY <2>3, <2>4 DEF Asking, Waiting
  <1>5. CASE Reap
    <2>1. /\ pc' = [q \in Procs |-> IF q \in {0} THEN "gone" ELSE pc[q]]
          /\ \A i \in Children : pc[i] = "gone"
      BY <1>5 DEF Reap, Ends
    <2>2. QED
      BY <2>1, Ring DEF Closed
  <1>6. QED
    BY <1>3, <1>4, <1>5

LEMMA ClosedStep ==
  ASSUME Base, Closed, Moves
  PROVE  FALSE
  <1>1. ASSUME NEW p \in Procs PROVE ~ Able(p)
    BY Ring DEF Able, Closed
  <1>2. \A i \in Children : ~ CloseUnused(i) /\ ~ Exec(i)
    BY DEF CloseUnused, Exec, Closed
  <1>3. QED
    BY <1>1, <1>2 DEF Moves, Closed

(* Nothing makes a session whole again. *)
LEMMA StaysBroken ==
  ASSUME Next, whole'
  PROVE  whole
  <1>1. ~ Fault
    BY DEF Fault
  <1>2. Unharmed
    BY <1>1 DEF Next, Step, GetExpression, ForkFails, CloseUnused, Write, WriteBroken, Read, ReadEnd,
                Exec, Fork, Show, Reap, ExecFails, Die
  <1>3. QED
    BY <1>2 DEF Unharmed

LEMMA WholeStep ==
  ASSUME PInv, [Next]_vars
  PROVE  Whole'
  <1> SUFFICES ASSUME whole'
               PROVE  Starting' \/ Asking' \/ Answered' \/ Closed' \/ \E s \in 1 .. 4 : InFlight(s)'
    BY DEF Whole
  <1>1. Base
    BY DEF PInv
  <1>2. CASE Next
    <2>1. Starting \/ Asking \/ Answered \/ Closed \/ \E s \in 1 .. 4 : InFlight(s)
      BY <1>2, StaysBroken DEF PInv, Whole
    <2>2. Moves
      BY <1>1, <1>2, <2>1, WholeMoves
    <2>3. CASE Starting
      BY <1>1, <2>2, <2>3, StartingStep
    <2>4. CASE Asking
      <3>1. 1 \in 1 .. 4
        OBVIOUS
      <3>2. QED
        BY <1>1, <2>2, <2>4, <3>1, AskingStep
    <2>5. CASE Answered
      BY <1>1, <2>2, <2>5, AnsweredStep
    <2>6. CASE Closed
      BY <1>1, <2>2, <2>6, ClosedStep
    <2>7. ASSUME NEW s \in 1 .. 4, InFlight(s)
          PROVE  Answered' \/ \E t \in 1 .. 4 : InFlight(t)'
      <3>1. s # 4 => s + 1 \in 1 .. 4
        OBVIOUS
      <3>2. InFlight(s)' \/ (s # 4 /\ InFlight(s + 1)') \/ (s = 4 /\ Answered')
        BY <1>1, <2>2, <2>7, InFlightStep
      <3>3. QED
        BY <3>1, <3>2
    <2>8. QED
      BY <2>1, <2>3, <2>4, <2>5, <2>6, <2>7
  <1>3. CASE UNCHANGED vars
    BY <1>3 DEF PInv, Whole, Starting, Asking, Answered, Closed, InFlight, Finished, Rest, Clear, vars
  <1>4. QED
    BY <1>2, <1>3

THEOREM InductiveInvariant == Spec => []PInv
  <1>1. Init => PInv
    <2>1. SUFFICES ASSUME Init PROVE Whole
      BY BaseInit DEF PInv
    <2>2. pc[0] = "fork" /\ Clear /\ \A i \in Children : pc[i] = "none"
      BY <2>1, Ring DEF Init, Clear
    <2>3. QED
      BY <2>2 DEF Whole, Starting
  <1>2. PInv /\ [Next]_vars => PInv'
    BY BaseStep, WholeStep DEF PInv
  <1>3. QED
    BY <1>1, <1>2, PTL DEF Spec

--------------------------------------------------------------------------------
(* The theorems. *)

(* Every variable has a value of its kind, a process in its loop has its own *)
(* two ends open and no other, so that the end of a neighbour is noticed at  *)
(* all, and a pipe never holds more than it can but for the blank line       *)
(* behind a q, whoever fails or is killed.                                   *)
THEOREM TypeCorrect == Spec => []TypeOK
  <1>1. PInv => TypeOK
    BY DEF PInv, Base
  <1>2. QED
    BY <1>1, InductiveInvariant, PTL

--------------------------------------------------------------------------------
(* The pipeline implements the calculator. *)

(* What the calculator sees of a state of the pipeline. *)
StateOf(at, all, e) ==
  IF ~ all \/ at \in {"fork", "close", "gone"} THEN "off"
  ELSE IF at = "ask" THEN "ready"
  ELSE IF at = "show" THEN "shown"
  ELSE IF IsQuit(e) THEN "closing" ELSE "asked"

(* main is at a place of its own. *)
MainPlaced == whole \in BOOLEAN /\ pc[0] \in Places \ {"none", "exec"}

LEMMA MainIsPlaced == PInv => MainPlaced
  BY Typed, Ring DEF PInv, Base, Descriptors, MainPlaced

LEMMA StateNowIs == MainPlaced => StateNow = StateOf(pc[0], whole, asked)
  <1> SUFFICES ASSUME MainPlaced PROVE StateNow = StateOf(pc[0], whole, asked)
    OBVIOUS
  <1>1. CASE ~ whole \/ pc[0] \in {"fork", "close", "gone"}
    BY <1>1 DEF StateNow, StateOf
  <1>2. CASE whole /\ pc[0] = "ask"
    BY <1>2 DEF StateNow, StateOf
  <1>3. CASE whole /\ pc[0] = "show"
    BY <1>3 DEF StateNow, StateOf
  <1>4. CASE whole /\ pc[0] \in {"write", "read", "reap"}
    BY <1>4 DEF StateNow, StateOf
  <1>5. QED
    BY <1>1, <1>2, <1>3, <1>4 DEF MainPlaced, Places

(* What main has in hand when it shows a result. *)
LEMMA ShownIsValue ==
  PInv /\ whole /\ pc[0] = "show" =>
    asked \in Exprs /\ text[0] = <<Number(Value(asked))>>
  <1> SUFFICES ASSUME PInv, whole, pc[0] = "show"
               PROVE  asked \in Exprs /\ text[0] = <<Number(Value(asked))>>
    OBVIOUS
  <1>1. Answered
    <2>1. ASSUME NEW s \in 1 .. 4, InFlight(s) PROVE FALSE
      <3>1. s % 4 = 0 \/ s % 4 # 0
        OBVIOUS
      <3>2. QED
        BY <2>1, <3>1 DEF InFlight
    <2>2. QED
      BY <2>1 DEF PInv, Whole, Starting, Asking, Closed
  <1>2. asked \in Exprs
    BY <1>1, Typed, QuitFacts DEF Answered, PInv
  <1>3. text[0] = Stage(asked, 3)
    BY <1>1 DEF Answered
  <1>4. WellFormed(asked)
    BY <1>2, ExprsAssumption
  <1>5. QED
    BY <1>2, <1>3, <1>4, ThreePasses

LEMMA CalculatorStep ==
  ASSUME PInv, PInv', [Next]_vars
  PROVE  [Calc!Next]_Calc!vars
  <1>1. MainPlaced /\ MainPlaced'
    <2>1. MainPlaced'
      BY MainIsPlaced, PTL
    <2>2. QED
      BY <2>1, MainIsPlaced
  <1>2. /\ StateNow = StateOf(pc[0], whole, asked)
        /\ StateNow' = StateOf(pc'[0], whole', asked')
    <2>1. (MainPlaced => StateNow = StateOf(pc[0], whole, asked))'
      BY StateNowIs, PTL
    <2>2. QED
      BY <1>1, <2>1, StateNowIs
  <1>3. (whole /\ pc[0] = "show")' =>
          asked' \in Exprs /\ text'[0] = <<Number(Value(asked'))>>
    <2>1. (PInv /\ whole /\ pc[0] = "show" =>
             asked \in Exprs /\ text[0] = <<Number(Value(asked))>>)'
      BY ShownIsValue, PTL
    <2>2. QED
      BY <2>1
  <1>4. /\ pc \in [Procs -> Places] /\ text \in [Procs -> Line]
        /\ 0 \in Procs /\ whole \in BOOLEAN /\ Base
    BY Ring, Typed DEF PInv
  <1>5. ASSUME StateNow' = StateNow, StateNow \in {"asked", "shown"} => asked' = asked,
               StateNow = "shown" => text'[0] = text[0]
        PROVE  UNCHANGED Calc!vars
    BY <1>5 DEF Calc!vars
  <1>6. ASSUME StateNow' = "off" PROVE Calc!Next
    BY <1>6 DEF Calc!Break, Calc!Next
  <1>7. CASE Next /\ ~ whole'
    <2>1. StateNow' = "off"
      BY <1>2, <1>7 DEF StateOf
    <2>2. QED
      BY <1>6, <2>1
  <1>8. CASE Next /\ whole'
    <2>1. whole
      BY <1>8, StaysBroken
    <2>2. Moves
      <3>1. Starting \/ Asking \/ Answered \/ Closed \/ \E s \in 1 .. 4 : InFlight(s)
        BY <2>1 DEF PInv, Whole
      <3>2. QED
        BY <1>4, <1>8, <3>1, WholeMoves
    <2>3. CASE Fork
      <3>1. pc[0] = "fork" /\ pc[3] = "none" /\ (pc[1] = "none" => pc[2] = "none")
        BY <1>4, <2>3 DEF Fork, Base, Descriptors
      <3>2. NextChild # 0
        BY <3>1, NextChildIs
      <3>3. pc'[0] \in {"fork", "close"}
        BY <1>4, <2>3, <3>2 DEF Fork
      <3>4. StateNow' = "off"
        BY <1>2, <3>3 DEF StateOf
      <3>5. QED
        BY <1>6, <3>4
    <2>4. CASE pc[0] = "close" /\ CloseUnused(0)
      <3>1. pc'[0] = "ask"
        BY <1>4, <2>4 DEF CloseUnused, Goto
      <3>2. StateNow = "off" /\ StateNow' = "ready"
        BY <1>2, <1>8, <2>1, <2>4, <3>1 DEF StateOf
      <3>3. QED
        BY <3>2 DEF Calc!Next, Calc!Start
    <2>5. CASE GetExpression
      <3>1. PICK e \in Exprs \cup {Quit} : asked' = e
        BY <2>5 DEF GetExpression
      <3>2. pc[0] = "ask" /\ pc'[0] = "write"
        BY <1>4, <2>5 DEF GetExpression, Goto
      <3>3. CASE e = Quit
        <4>1. StateNow = "ready" /\ StateNow' = "closing"
          BY <1>2, <1>8, <2>1, <3>1, <3>2, <3>3, QuitFacts DEF StateOf
        <4>2. QED
          BY <4>1 DEF Calc!Next, Calc!Close
      <3>4. CASE e \in Exprs
        <4>1. StateNow = "ready" /\ StateNow' = "asked"
          BY <1>2, <1>8, <2>1, <3>1, <3>2, <3>4, AskedFacts DEF StateOf
        <4>2. QED
          BY <3>1, <3>4, <4>1 DEF Calc!Next, Calc!Ask
      <3>5. QED
        BY <3>1, <3>3, <3>4
    <2>6. CASE Show
      <3>1. pc[0] = "show" /\ pc'[0] = "ask"
        BY <1>4, <2>6 DEF Show, Goto
      <3>2. StateNow = "shown" /\ StateNow' = "ready"
        BY <1>2, <1>8, <2>1, <3>1 DEF StateOf
      <3>3. QED
        BY <3>2 DEF Calc!Next, Calc!Again
    <2>7. CASE Reap
      <3>1. pc'[0] = "gone"
        BY <1>4, <2>7 DEF Reap, Ends
      <3>2. StateNow' = "off"
        BY <1>2, <3>1 DEF StateOf
      <3>3. QED
        BY <1>6, <3>2
    <2>8. ASSUME NEW i \in Children, CloseUnused(i) \/ Exec(i) PROVE UNCHANGED Calc!vars
      <3>1. pc'[0] = pc[0] /\ UNCHANGED <<text, asked>>
        BY <1>4, <2>8, Prepares, Ring
      <3>2. QED
        BY <1>2, <1>5, <1>8, <2>1, <3>1
    <2>9. ASSUME NEW p \in Procs, p # 0, Write(p) \/ Read(p) PROVE UNCHANGED Calc!vars
      <3>1. pc'[0] = pc[0] /\ text'[0] = text[0] /\ UNCHANGED asked
        <4>1. CASE Write(p)
          BY <1>4, <2>9, <4>1 DEF Write, Ends, Goto
        <4>2. CASE Read(p)
          BY <1>4, <2>9, <4>2 DEF Read, Use, Goto
        <4>3. QED
          BY <2>9, <4>1, <4>2
      <3>2. QED
        BY <1>2, <1>5, <1>8, <2>1, <3>1
    <2>10. CASE Write(0)
      <3>1. pc[0] = "write" /\ pc'[0] = "read" /\ UNCHANGED asked
        BY <1>4, <2>10 DEF Write, AfterWrite, Goto
      <3>2. StateNow' = StateNow /\ StateNow # "shown"
        BY <1>2, <1>8, <2>1, <3>1 DEF StateOf
      <3>3. QED
        BY <1>5, <3>1, <3>2
    <2>11. CASE Read(0)
      <3>1. /\ pc[0] = "read" /\ UNCHANGED asked
            /\ IsQuit(asked) => pc'[0] = "reap"
            /\ ~ IsQuit(asked) => pc'[0] = "show"
        BY <1>4, <2>11 DEF Read, Use, Goto
      <3>2. CASE IsQuit(asked)
        <4>1. StateNow = "closing" /\ StateNow' = "closing"
          BY <1>2, <1>8, <2>1, <3>1, <3>2 DEF StateOf
        <4>2. QED
          BY <1>5, <4>1
      <3>3. CASE ~ IsQuit(asked)
        <4>1. StateNow = "asked" /\ StateNow' = "shown"
          BY <1>2, <1>8, <2>1, <3>1, <3>3 DEF StateOf
        <4>2. text'[0] = <<Number(Value(asked'))>>
          BY <1>3, <1>8, <3>1, <3>3
        <4>3. Calc!Value(asked) = Value(asked)
          BY DEF Value, Calc!Value, Apply, Calc!Apply, Known, Calc!Known, Max, Calc!Max
        <4>4. text'[0] = <<Calc!Number(Calc!Value(asked))>>
          BY <3>1, <4>2, <4>3 DEF Number, Calc!Number
        <4>5. QED
          BY <3>1, <4>1, <4>4 DEF Calc!Next, Calc!Answer
      <3>4. QED
        BY <3>2, <3>3
    <2>12. QED
      BY <2>2, <2>3, <2>4, <2>5, <2>6, <2>7, <2>8, <2>9, <2>10, <2>11 DEF Moves
  <1>9. CASE UNCHANGED vars
    BY <1>2, <1>5, <1>9 DEF vars
  <1>10. QED
    BY <1>7, <1>8, <1>9

(* The pipeline is a calculator: as long as nobody is killed, each result    *)
(* main prints is the value of the expression typed last, however long it is *)
(* and whatever the pipes hold, and another is asked for only after that.    *)
THEOREM PipelineCalculates == Spec => Calc!Init /\ [][Calc!Next]_Calc!vars
  <1>1. Init => Calc!Init
    <2>1. SUFFICES ASSUME Init PROVE Calc!Init
      OBVIOUS
    <2>2. pc[0] = "fork" /\ whole = TRUE
      BY <2>1, Ring DEF Init
    <2>3. StateNow = "off"
      BY <2>2, StateNowIs DEF StateOf, MainPlaced, Places
    <2>4. QED
      BY <2>3 DEF Calc!Init
  <1>2. PInv /\ PInv' /\ [Next]_vars => [Calc!Next]_Calc!vars
    BY CalculatorStep
  <1>3. QED
    BY <1>1, <1>2, InductiveInvariant, PTL DEF Spec
================================================================================
