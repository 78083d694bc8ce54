-------------------------- MODULE FilePipelineProofs ---------------------------
(***************************************************************************)
(* Machine-checked theorems about FilePipeline, for every set of           *)
(* expressions of any length and every number of interrupts and failures.  *)
(***************************************************************************)
EXTENDS FilePipeline, ExpressionsProofs

Places == {"off", "fork", "ask", "send", "write", "receive", "truncate",
           "show", "reap", "remove", "gone"}

(* In every session: no process has an empty message in hand when it is to   *)
(* send it, who is about to write has an empty file before it, children run  *)
(* only while main does and are started in their order, and main cleans up   *)
(* when they are gone.                                                       *)
Sessions ==
  /\ \A p \in Procs : pc[p] \in {"send", "write", "truncate"} => text[p] # <<>>
  /\ \A p \in Procs : pc[p] = "write" => com[p] = <<>>
  /\ pc[0] = "off" => session = "spoiled" /\ \A i \in Children : pc[i] = "off"
  /\ pc[0] = "fork" => pc[3] = "off" /\ (pc[1] = "off" => pc[2] = "off")
  /\ pc[0] = "remove" => \A i \in Children : pc[i] = "gone"

Finished == IF IsQuit(asked) THEN "gone" ELSE "receive"

(* Between two questions, while main has the question in hand, and while it  *)
(* has the answer.                                                           *)
Forking ==
  /\ pc[0] = "fork" /\ AllEmpty
  /\ \A i \in Children : pc[i] \in {"off", "receive"}
Asking ==
  /\ pc[0] \in {"ask", "send", "write"} /\ AllEmpty
  /\ \A i \in Children : pc[i] = "receive"
  /\ pc[0] # "ask" => text[0] = asked /\ asked # <<>>
Answered ==
  /\ pc[0] = (IF IsQuit(asked) THEN "reap" ELSE "show") /\ AllEmpty
  /\ asked # <<>>
  /\ \A i \in Children : pc[i] = Finished
  /\ text[0] = Stage(asked, 3)
Closed ==
  /\ pc[0] = "remove" /\ AllEmpty
  /\ \A i \in Children : pc[i] = "gone"

(* On its way round the one message of the session has passed the first      *)
(* s - 1 children and is with the next process, or in the file before it,    *)
(* and nowhere else.                                                         *)
InFlight(s) ==
  LET p == s % 4
  IN /\ asked # <<>>
     /\ pc[p] \in {"receive", "truncate"} \cup (IF p = 0 THEN {} ELSE {"send", "write"})
     /\ \A f \in Files : com[f] = IF f = s - 1 /\ pc[p] \in {"receive", "truncate"}
                                    THEN LinesOf(f, Stage(asked, s - 1)) ELSE <<>>
     /\ pc[p] = "truncate" => text[p] = Stage(asked, s - 1)
     /\ pc[p] \in {"send", "write"} => text[p] = Stage(asked, s)
     /\ p # 0 => pc[0] = "receive"
     /\ \A i \in Children : i < s => pc[i] = Finished
     /\ \A i \in Children : i > s => pc[i] = "receive"

Sound ==
  session = "sound" =>
    Forking \/ Asking \/ Answered \/ Closed \/ \E s \in 1 .. 4 : InFlight(s)

Base == TypeOK /\ Sessions
FInv == Base /\ Sound

--------------------------------------------------------------------------------
(* The operators the actions are made of. *)

LEMMA LinesFacts ==
  ASSUME NEW p \in Procs, NEW m \in Seq(AnyTerm), m # <<>>
  PROVE  /\ LinesOf(p, m) \in Seq(Seq(AnyTerm)) /\ LinesOf(p, m) # <<>>
         /\ Len(LinesOf(p, m)) = IF p = 0 THEN 2 ELSE 1
         /\ LinesOf(p, m)[1] = m /\ Head(LinesOf(p, m)) = m
  <1>1. <<>> \in Seq(AnyTerm)
    OBVIOUS
  <1>2. /\ <<m, <<>>>> \in Seq(Seq(AnyTerm)) /\ <<m>> \in Seq(Seq(AnyTerm))
        /\ Len(<<m, <<>>>>) = 2 /\ Len(<<m>>) = 1
        /\ <<m, <<>>>>[1] = m /\ <<m>>[1] = m
        /\ Head(<<m, <<>>>>) = m /\ Head(<<m>>) = m
        /\ <<m, <<>>>> # <<>> /\ <<m>> # <<>>
    BY <1>1
  <1>3. QED
    BY <1>2 DEF LinesOf

LEMMA Ring ==
  /\ Inbox(0) = 3 /\ Inbox(1) = 0 /\ Inbox(2) = 1 /\ Inbox(3) = 2
  /\ Procs = {0, 1, 2, 3} /\ Children = {1, 2, 3} /\ Files = {0, 1, 2, 3}
  /\ \A p \in Procs : Inbox(p) \in Files /\ Outbox(p) = p
  /\ 1 % 4 = 1 /\ 2 % 4 = 2 /\ 3 % 4 = 3 /\ 4 % 4 = 0
  BY DEF Inbox, Outbox, Procs, Children, Files

LEMMA AskedFacts == \A e \in Exprs : e \in Seq(AnyTerm) /\ e # <<>> /\ ~ IsQuit(e)
  BY ExprsAssumption, WellFormedFacts

(* The child main starts next. *)
LEMMA NextChildIs ==
  ASSUME pc[3] = "off", pc[1] = "off" => pc[2] = "off"
  PROVE  NextChild = IF pc[1] = "off" THEN 1 ELSE IF pc[2] = "off" THEN 2 ELSE 3
  <1> DEFINE S == {i \in Children : pc[i] = "off"}
  <1>1. S \subseteq {1, 2, 3} /\ 3 \in S
    BY Ring
  <1>2. CASE pc[1] = "off"
    <2>1. 1 \in S /\ \A i \in S : 1 <= i
      BY <1>1, <1>2, Ring
    <2>2. \A x \in S : (\A i \in S : x <= i) => x = 1
      BY <1>1, <2>1
    <2>3. QED
      BY <1>2, <2>1, <2>2 DEF NextChild, Min
  <1>3. CASE pc[1] # "off" /\ pc[2] = "off"
    <2>1. 2 \in S /\ \A i \in S : 2 <= i
      BY <1>1, <1>3, Ring
    <2>2. \A x \in S : (\A i \in S : x <= i) => x = 2
      BY <1>1, <2>1
    <2>3. QED
      BY <1>3, <2>1, <2>2 DEF NextChild, Min
  <1>4. CASE pc[1] # "off" /\ pc[2] # "off"
    <2>1. S = {3}
      BY <1>1, <1>4
    <2>2. QED
      BY <1>4, <2>1 DEF NextChild, Min
  <1>5. QED
    BY <1>2, <1>3, <1>4

--------------------------------------------------------------------------------
(* What holds in every session. *)

LEMMA BaseInit == Init => Base
  <1> SUFFICES ASSUME Init PROVE Base
    OBVIOUS
  <1>1. TypeOK
    BY FaultsAssumption DEF Init, TypeOK
  <1>2. Sessions
    BY Ring DEF Init, Sessions
  <1>3. QED
    BY <1>1, <1>2 DEF Base

(* Nobody runs, the files stay as they are or are emptied. *)
LEMMA BaseOff ==
  ASSUME Base, AllOff, faults' \in 0 .. MaxFaults, UNCHANGED com \/ com' = [f \in Files |-> <<>>]
  PROVE  Base'
  <1>1. TypeOK'
    <2>1. <<>> \in Seq(AnyTerm) /\ <<>> \in Seq(Seq(AnyTerm))
      OBVIOUS
    <2>2. /\ com' \in [Files -> Seq(Seq(AnyTerm))]
          /\ \A f \in Files : com'[f] # <<>> =>
               Len(com'[f]) = (IF f = 0 THEN 2 ELSE 1) /\ com'[f][1] # <<>>
      <3>1. CASE UNCHANGED com
        BY <3>1 DEF Base, TypeOK
      <3>2. CASE com' = [f \in Files |-> <<>>]
        BY <3>2, <2>1
      <3>3. QED
        BY <3>1, <3>2
    <2>3. pc' \in [Procs -> {"off"}] /\ text' \in [Procs -> Seq(AnyTerm)]
      BY <2>1 DEF AllOff
    <2>4. QED
      BY <2>2, <2>3 DEF TypeOK, AllOff
  <1>2. Sessions'
    BY Ring DEF Sessions, AllOff
  <1>3. QED
    BY <1>1, <1>2 DEF Base

(* A child has been started or has failed to. *)
LEMMA BaseFork ==
  ASSUME Base, pc[0] = "fork", NEW label \in {"receive", "gone"},
         pc' = [pc EXCEPT ![NextChild] = label, ![0] = IF NextChild = 3 THEN "ask" ELSE "fork"],
         session' \in {"sound", "spoiled"}, faults' \in 0 .. MaxFaults,
         UNCHANGED <<com, text, asked>>
  PROVE  Base'
  <1>1. NextChild = IF pc[1] = "off" THEN 1 ELSE IF pc[2] = "off" THEN 2 ELSE 3
    BY NextChildIs DEF Base, Sessions
  <1>2. PICK c \in Children : c = NextChild /\ (c = 1 => pc[3] = "off") /\ (c = 2 => pc[3] = "off" /\ pc[1] # "off")
    BY <1>1, Ring DEF Base, Sessions
  <1>3. /\ pc' \in [Procs -> Places]
        /\ pc'[c] = label /\ pc'[0] = IF c = 3 THEN "ask" ELSE "fork"
        /\ \A i \in Children : i # c => pc'[i] = pc[i]
    <2>1. PICK a \in {"ask", "fork"} : a = IF c = 3 THEN "ask" ELSE "fork"
      OBVIOUS
    <2>2. pc' = [pc EXCEPT ![c] = label, ![0] = a]
      BY <1>2, <2>1
    <2>3. c # 0 /\ c \in Procs /\ 0 \in Procs /\ Children \subseteq Procs /\ 0 \notin Children
      BY Ring
    <2>4. pc \in [Procs -> Places]
      BY DEF Base, TypeOK, Places
    <2>5. label \in Places /\ a \in Places
      BY <2>1 DEF Places
    <2> HIDE DEF Places
    <2>6. QED
      BY <2>1, <2>2, <2>3, <2>4, <2>5
  <1>4. TypeOK'
    BY <1>3 DEF Base, TypeOK, Places
  <1>5. Sessions'
    <2>1. /\ pc'[0] # "off" /\ pc'[0] # "remove"
          /\ \A p \in Procs : pc'[p] \in {"send", "write", "truncate"} => pc[p] = pc'[p]
      BY <1>3, Ring
    <2>2. pc'[0] = "fork" => pc'[3] = "off" /\ (pc'[1] = "off" => pc'[2] = "off")
      BY <1>2, <1>3, Ring DEF Base, Sessions
    <2>3. QED
      BY <2>1, <2>2 DEF Base, Sessions
  <1>6. QED
    BY <1>4, <1>5 DEF Base

LEMMA BaseMessages ==
  ASSUME Base, NEW p \in Procs, Messages(p)
  PROVE  Base'
  <1>1. Inbox(p) \in Files /\ Outbox(p) = p /\ p \in Files
    BY Ring
  <1>2. CASE SendWait(p)
    <2>1. TypeOK'
      BY <1>2 DEF SendWait, Base, TypeOK
    <2>2. Sessions'
      BY <1>1, <1>2, Ring, SMTT(30) DEF SendWait, Base, TypeOK, Sessions
    <2>3. QED
      BY <2>1, <2>2 DEF Base
  <1>3. CASE SendWrite(p)
    <2>1. text[p] \in Seq(AnyTerm) /\ text[p] # <<>>
      BY <1>3 DEF SendWrite, Base, TypeOK, Sessions
    <2>2. PICK l \in Seq(Seq(AnyTerm)) :
            l = LinesOf(p, text[p]) /\ Len(l) = (IF p = 0 THEN 2 ELSE 1) /\ l[1] # <<>>
      BY <2>1, LinesFacts
    <2>3. com' = [com EXCEPT ![p] = l]
      BY <1>1, <1>3, <2>2 DEF SendWrite
    <2>4. PICK a \in {"receive", "gone"} : a = AfterSend(p) /\ (p = 0 => a = "receive")
      BY DEF AfterSend
    <2>5. pc' = [pc EXCEPT ![p] = a] /\ text' = [text EXCEPT ![p] = <<>>]
      BY <1>3, <2>4 DEF SendWrite
    <2>6. UNCHANGED <<asked, session, faults>> /\ pc[p] = "write"
      BY <1>3 DEF SendWrite
    <2>7. TypeOK'
      <3>1. com' \in [Files -> Seq(Seq(AnyTerm))]
        BY <2>3 DEF Base, TypeOK
      <3>2. \A f \in Files : com'[f] # <<>> =>
              Len(com'[f]) = (IF f = 0 THEN 2 ELSE 1) /\ com'[f][1] # <<>>
        <4>1. SUFFICES ASSUME NEW f \in Files, com'[f] # <<>>
                       PROVE  Len(com'[f]) = (IF f = 0 THEN 2 ELSE 1) /\ com'[f][1] # <<>>
          OBVIOUS
        <4>2. CASE f = p
          BY <4>2, <2>2, <2>3, <1>1 DEF Base, TypeOK
        <4>3. CASE f # p
          BY <4>1, <4>3, <2>3 DEF Base, TypeOK
        <4>4. QED
          BY <4>2, <4>3
      <3>3. pc' \in [Procs -> Places]
        BY <2>5 DEF Base, TypeOK, Places
      <3>4. text' \in [Procs -> Seq(AnyTerm)]
        BY <2>5 DEF Base, TypeOK
      <3>5. QED
        BY <3>1, <3>2, <3>3, <3>4, <2>6 DEF Base, TypeOK, Places
    <2>8. Sessions'
      BY <2>3, <2>4, <2>5, <2>6, Ring DEF Base, TypeOK, Sessions
    <2>9. QED
      BY <2>7, <2>8 DEF Base
  <1>4. CASE ReceiveRead(p)
    <2>1. PICK m \in Seq(AnyTerm) : m = Head(com[Inbox(p)]) /\ m # <<>>
      <3>1. PICK l \in Seq(Seq(AnyTerm)) : l = com[Inbox(p)] /\ l # <<>> /\ l[1] # <<>>
        BY <1>1, <1>4 DEF ReceiveRead, Base, TypeOK
      <3>2. Head(l) \in Seq(AnyTerm) /\ Head(l) = l[1]
        BY <3>1
      <3>3. QED
        BY <3>1, <3>2
    <2>2. /\ text' = [text EXCEPT ![p] = m] /\ pc' = [pc EXCEPT ![p] = "truncate"]
          /\ UNCHANGED <<com, asked, session, faults>> /\ pc[p] = "receive"
      BY <1>4, <2>1 DEF ReceiveRead
    <2>3. TypeOK'
      BY <2>1, <2>2 DEF Base, TypeOK
    <2>4. Sessions'
      BY <2>1, <2>2, Ring DEF Base, TypeOK, Sessions
    <2>5. QED
      BY <2>3, <2>4 DEF Base
  <1>5. CASE TruncateFile(p)
    <2>1. text[p] \in Seq(AnyTerm) /\ text[p] # <<>>
      BY <1>5 DEF TruncateFile, Base, TypeOK, Sessions
    <2>2. PICK m \in Seq(AnyTerm) : m = Used(p) /\ m # <<>>
      <3>1. p # 0 => p \in Children
        BY Ring
      <3>2. QED
        BY <3>1, <2>1, ProcessedTyped DEF Used
    <2>3. PICK a \in {"send", "reap", "show"} :
            a = AfterReceive(p) /\ (p # 0 <=> a = "send")
      BY DEF AfterReceive
    <2>4. PICK i \in Files : i = Inbox(p)
      BY <1>1
    <2>5. /\ com' = [com EXCEPT ![i] = <<>>]
          /\ text' = [text EXCEPT ![p] = m] /\ pc' = [pc EXCEPT ![p] = a]
          /\ UNCHANGED <<asked, session, faults>> /\ pc[p] = "truncate"
      BY <1>5, <2>2, <2>3, <2>4 DEF TruncateFile
    <2>6. TypeOK'
      <3>1. <<>> \in Seq(Seq(AnyTerm))
        OBVIOUS
      <3>2. /\ com' \in [Files -> Seq(Seq(AnyTerm))]
            /\ \A f \in Files : com'[f] # <<>> =>
                 Len(com'[f]) = (IF f = 0 THEN 2 ELSE 1) /\ com'[f][1] # <<>>
        BY <3>1, <2>5 DEF Base, TypeOK
      <3>3. pc' \in [Procs -> Places]
        BY <2>3, <2>5 DEF Base, TypeOK, Places
      <3>4. text' \in [Procs -> Seq(AnyTerm)]
        BY <2>5 DEF Base, TypeOK
      <3>5. QED
        BY <3>2, <3>3, <3>4, <2>5 DEF Base, TypeOK, Places
    <2>7. Sessions'
      BY <2>2, <2>3, <2>5, Ring DEF Base, TypeOK, Sessions
    <2>8. QED
      BY <2>6, <2>7 DEF Base
  <1>6. QED
    BY <1>2, <1>3, <1>4, <1>5 DEF Messages

LEMMA BaseStep == Base /\ [Next]_vars => Base'
  <1> SUFFICES ASSUME Base, [Next]_vars PROVE Base'
    OBVIOUS
  <1>1. CASE Start
    <2>1. TypeOK'
      BY <1>1 DEF Start, Base, TypeOK
    <2>2. Sessions'
      BY <1>1, Ring DEF Start, Base, TypeOK, Sessions
    <2>3. QED
      BY <2>1, <2>2 DEF Base
  <1>2. CASE GetExpression
    <2>1. PICK e \in Exprs \cup {Quit} : asked' = e /\ text' = [text EXCEPT ![0] = e]
      BY <1>2 DEF GetExpression
    <2>2. e \in Seq(AnyTerm) /\ e # <<>>
      BY QuitFacts, AskedFacts
    <2>3. TypeOK'
      BY <1>2, <2>1, <2>2, Ring DEF GetExpression, Base, TypeOK
    <2>4. Sessions'
      BY <1>2, <2>1, <2>2, Ring DEF GetExpression, Base, TypeOK, Sessions
    <2>5. QED
      BY <2>3, <2>4 DEF Base
  <1>3. CASE Fork
    <2>1. session' \in {"sound", "spoiled"} /\ faults' \in 0 .. MaxFaults
      BY <1>3 DEF Fork, Base, TypeOK
    <2>2. QED
      BY <1>3, <2>1, BaseFork DEF Fork
  <1>4. CASE ExecFails
    <2>1. session' \in {"sound", "spoiled"} /\ faults' \in 0 .. MaxFaults
      BY <1>4, FaultsAssumption DEF ExecFails, Base, TypeOK
    <2>2. QED
      BY <1>4, <2>1, BaseFork DEF ExecFails
  <1>5. CASE ForkFails \/ Interrupt
    <2>1. faults' \in 0 .. MaxFaults
      BY <1>5, FaultsAssumption DEF ForkFails, Interrupt, Base, TypeOK
    <2>2. QED
      BY <1>5, <2>1, BaseOff DEF ForkFails, Interrupt
  <1>6. CASE \E p \in Procs : Messages(p)
    BY <1>6, BaseMessages
  <1>7. CASE Show
    <2>1. TypeOK'
      BY <1>7, Ring, SMTT(30) DEF Show, Base, TypeOK
    <2>2. Sessions'
      BY <1>7, Ring DEF Show, Base, TypeOK, Sessions
    <2>3. QED
      BY <2>1, <2>2 DEF Base
  <1>8. CASE Reap
    <2>1. TypeOK'
      BY <1>8 DEF Reap, Base, TypeOK
    <2>2. Sessions'
      BY <1>8, Ring DEF Reap, Base, TypeOK, Sessions
    <2>3. QED
      BY <2>1, <2>2 DEF Base
  <1>9. CASE RemoveFiles
    <2>1. faults' \in 0 .. MaxFaults
      BY <1>9 DEF RemoveFiles, Base, TypeOK
    <2>2. QED
      BY <1>9, <2>1, BaseOff DEF RemoveFiles
  <1>10. CASE UNCHANGED vars
    BY <1>10 DEF vars, Base, TypeOK, Sessions
  <1>11. QED
    <2>1. Next => \/ Start \/ GetExpression \/ Fork \/ ExecFails \/ ForkFails \/ Interrupt
                  \/ \E p \in Procs : Messages(p)
                  \/ Show \/ Reap \/ RemoveFiles
      BY DEF Next, Main, Procs
    <2>2. QED
      BY <2>1, <1>1, <1>2, <1>3, <1>4, <1>5, <1>6, <1>7, <1>8, <1>9, <1>10
--------------------------------------------------------------------------------
(* What holds in a sound session. *)

(* Who can take a message step, and what else goes on in a sound session. *)
Able(p) == \/ pc[p] \in {"send", "write", "truncate"}
           \/ pc[p] = "receive" /\ com[Inbox(p)] # <<>>
Moves == \/ pc[0] = "fork" /\ Fork
         \/ pc[0] = "ask" /\ GetExpression
         \/ pc[0] = "show" /\ Show
         \/ pc[0] = "reap" /\ Reap
         \/ \E p \in Procs : Able(p) /\ Messages(p)

LEMMA SoundMoves ==
  ASSUME Base, Next, session = "sound", session' = "sound"
  PROVE  Moves
  <1>1. ~ Start
    BY DEF Start, Base, Sessions
  <1>2. ~ ExecFails /\ ~ ForkFails /\ ~ Interrupt /\ ~ RemoveFiles
    BY DEF ExecFails, ForkFails, Interrupt, RemoveFiles, AllOff
  <1>3. ASSUME NEW p \in Procs, Messages(p) PROVE Able(p)
    BY <1>3 DEF Messages, Able, SendWait, SendWrite, ReceiveRead, TruncateFile
  <1>4. \/ GetExpression \/ Fork \/ Show \/ Reap
        \/ \E p \in Procs : Messages(p)
    BY <1>1, <1>2 DEF Next, Main, Procs
  <1>5. QED
    BY <1>3, <1>4 DEF Moves, GetExpression, Fork, Show, Reap

LEMMA ForkingStep ==
  ASSUME Base, Forking, Moves
  PROVE  Forking' \/ Asking'
  <1>1. ASSUME NEW p \in Procs PROVE ~ Able(p)
    BY Ring DEF Able, Forking, AllEmpty
  <1>2. Fork
    BY <1>1 DEF Moves, Forking
  <1>3. NextChild = IF pc[1] = "off" THEN 1 ELSE IF pc[2] = "off" THEN 2 ELSE 3
    BY <1>2, NextChildIs DEF Fork, Base, Sessions
  <1>4. PICK c \in Children : c = NextChild /\ (c = 3 => pc[1] # "off" /\ pc[2] # "off")
    BY <1>3, Ring
  <1>5. pc \in [Procs -> Places]
    BY DEF Base, TypeOK, Places
  <1>6. /\ pc'[c] = "receive" /\ pc'[0] = IF c = 3 THEN "ask" ELSE "fork"
        /\ \A i \in Children : i # c => pc'[i] = pc[i]
        /\ UNCHANGED com
    BY <1>2, <1>4, <1>5, Ring DEF Fork
  <1>7. AllEmpty'
    BY <1>6 DEF Forking, AllEmpty
  <1>8. CASE c = 3
    BY <1>4, <1>6, <1>7, <1>8, Ring DEF Forking, Asking
  <1>9. CASE c # 3
    BY <1>4, <1>6, <1>7, <1>9 DEF Forking
  <1>10. QED
    BY <1>8, <1>9

LEMMA AskingStep ==
  ASSUME Base, Asking, Moves
  PROVE  Asking' \/ InFlight(1)'
  <1>1. ASSUME NEW p \in Procs, Able(p) PROVE p = 0 /\ pc[0] \in {"send", "write"}
    BY <1>1, Ring DEF Able, Asking, AllEmpty
  <1>2. GetExpression \/ Messages(0)
    BY <1>1 DEF Moves, Asking
  <1>3. pc \in [Procs -> Places] /\ text \in [Procs -> Seq(AnyTerm)]
        /\ com \in [Files -> Seq(Seq(AnyTerm))]
    BY DEF Base, TypeOK, Places
  <1>4. CASE GetExpression
    <2>1. PICK e \in Exprs \cup {Quit} : asked' = e /\ text' = [text EXCEPT ![0] = e]
      BY <1>4 DEF GetExpression
    <2>2. e # <<>>
      BY QuitFacts, AskedFacts
    <2>3. pc' = [pc EXCEPT ![0] = "send"] /\ UNCHANGED com
      BY <1>4 DEF GetExpression
    <2>4. Asking'
      BY <2>1, <2>2, <2>3, <1>3, Ring DEF Asking, AllEmpty
    <2>5. QED
      BY <2>4
  <1>5. CASE SendWait(0)
    <2>1. Asking'
      BY <1>3, <1>5, Ring DEF SendWait, Asking, AllEmpty
    <2>2. QED
      BY <2>1
  <1>6. CASE SendWrite(0)
    <2>1. text[0] = asked /\ asked # <<>> /\ asked \in Seq(AnyTerm) /\ pc[0] = "write"
      BY <1>3, <1>6, Ring DEF SendWrite, Asking
    <2>2. Stage(asked, 0) = asked
      BY <2>1, StageFacts
    <2>3. com' = [com EXCEPT ![0] = LinesOf(0, Stage(asked, 0))]
      BY <1>6, <2>1, <2>2, Ring DEF SendWrite
    <2>4. pc' = [pc EXCEPT ![0] = "receive"] /\ UNCHANGED asked
      BY <1>6 DEF SendWrite, AfterSend
    <2>5. 1 % 4 = 1 /\ 1 - 1 = 0
      BY Ring
    <2>6. pc'[1] = "receive" /\ pc'[0] = "receive" /\ \A i \in Children : pc'[i] = "receive"
      BY <1>3, <2>4, Ring DEF Asking
    <2>7. \A g \in Files : com'[g] = IF g = 0 THEN LinesOf(g, Stage(asked, 0)) ELSE <<>>
      BY <1>3, <2>3, Ring DEF Asking, AllEmpty
    <2>8. \A i \in Children : ~ (i < 1)
      BY Ring
    <2>9. InFlight(1)'
      BY <2>1, <2>4, <2>5, <2>6, <2>7, <2>8 DEF InFlight
    <2>10. QED
      BY <2>9
  <1>7. QED
    <2>1. pc[0] \notin {"receive", "truncate"}
      BY DEF Asking
    <2>2. QED
      BY <1>2, <1>4, <1>5, <1>6, <2>1 DEF Messages, ReceiveRead, TruncateFile

(* Only the process that has the message, or finds it in its file, can go on. *)
LEMMA InFlightMoves ==
  ASSUME Base, NEW s \in 1 .. 4, InFlight(s), Moves
  PROVE  Messages(s % 4) /\ s % 4 \in Procs
  <1>1. s \in {1, 2, 3, 4} /\ s % 4 = (IF s = 4 THEN 0 ELSE s)
    BY Ring
  <1>2. pc[0] \in {"receive", "truncate"} \cup {"send", "write"}
    BY <1>1 DEF InFlight
  <1>3. ASSUME NEW p \in Procs, p # s % 4 PROVE ~ Able(p)
    <2>1. pc[p] \in {"receive", "gone"}
      BY <1>1, <1>3, Ring DEF InFlight, Finished
    <2>2. com[Inbox(p)] = <<>>
      BY <1>1, <1>3, Ring DEF InFlight
    <2>3. QED
      BY <2>1, <2>2 DEF Able
  <1>4. s % 4 \in Procs
    BY <1>1, Ring
  <1>5. PICK p \in Procs : Able(p) /\ Messages(p)
    BY <1>2 DEF Moves
  <1>6. QED
    BY <1>3, <1>4, <1>5

LEMMA InFlightStep ==
  ASSUME Base, NEW s \in 1 .. 4, InFlight(s), Moves
  PROVE  \/ InFlight(s)'
         \/ s # 4 /\ InFlight(s + 1)'
         \/ s = 4 /\ Answered'
  <1> DEFINE p == s % 4
  <1>1. /\ s \in {1, 2, 3, 4} /\ p = (IF s = 4 THEN 0 ELSE s) /\ p \in Procs
        /\ Inbox(p) = s - 1 /\ s - 1 \in Files /\ s - 1 \in Procs /\ s - 1 \in 0 .. 3 /\ Outbox(p) = p
        /\ Children = {1, 2, 3}
    BY Ring
  <1>2. Messages(p)
    BY InFlightMoves
  <1>3. /\ pc \in [Procs -> Places] /\ text \in [Procs -> Seq(AnyTerm)]
        /\ com \in [Files -> Seq(Seq(AnyTerm))]
    BY DEF Base, TypeOK, Places
  <1>4. asked \in Seq(AnyTerm) /\ asked # <<>>
    <2>1. asked \in Exprs \cup {Quit, <<>>} /\ asked # <<>>
      BY DEF Base, TypeOK, InFlight
    <2>2. QED
      BY <2>1, QuitFacts, AskedFacts
  <1>5. /\ asked # <<>>
        /\ pc[p] \in {"receive", "truncate"} \cup (IF p = 0 THEN {} ELSE {"send", "write"})
        /\ \A f \in Files : com[f] = IF f = s - 1 /\ pc[p] \in {"receive", "truncate"}
                                       THEN LinesOf(f, Stage(asked, s - 1)) ELSE <<>>
        /\ pc[p] = "truncate" => text[p] = Stage(asked, s - 1)
        /\ pc[p] \in {"send", "write"} => text[p] = Stage(asked, s)
        /\ p # 0 => pc[0] = "receive"
        /\ \A i \in Children : i < s => pc[i] = Finished
        /\ \A i \in Children : i > s => pc[i] = "receive"
    BY DEF InFlight
  <1>6. PICK m \in Seq(AnyTerm) : m = Stage(asked, s - 1) /\ m # <<>> /\ (IsQuit(m) <=> IsQuit(asked))
    BY <1>1, <1>4, StageFacts
  <1> HIDE DEF p
  <1>7. CASE SendWait(p)
    <2>1. /\ pc[p] = "send" /\ pc' = [pc EXCEPT ![p] = "write"]
          /\ UNCHANGED <<com, text, asked>>
      BY <1>7 DEF SendWait
    <2>2. pc'[p] = "write" /\ \A i \in Procs : i # p => pc'[i] = pc[i]
      BY <1>1, <1>3, <2>1
    <2>3. p # 0
      BY <1>5, <2>1
    <2>4. InFlight(s)'
      BY <1>1, <1>5, <2>1, <2>2, <2>3, Ring DEF InFlight, Finished, p
    <2>5. QED
      BY <2>4
  <1>8. CASE SendWrite(p)
    <2>1. /\ pc[p] = "write" /\ pc' = [pc EXCEPT ![p] = AfterSend(p)]
          /\ com' = [com EXCEPT ![p] = LinesOf(p, text[p])]
          /\ UNCHANGED asked
      BY <1>1, <1>8 DEF SendWrite
    <2>2. p # 0 /\ p = s /\ s # 4 /\ text[p] = Stage(asked, s)
      BY <1>1, <1>5, <2>1
    <2>3. PICK n : n = Stage(asked, s) /\ (IsQuit(n) <=> IsQuit(asked))
      <3>1. s \in 0 .. 3
        BY <1>1, <2>2
      <3>2. QED
        BY <3>1, <1>4, StageFacts
    <2>4. AfterSend(p) = Finished
      BY <2>2, <2>3 DEF AfterSend, Finished
    <2>5. pc'[s] = Finished /\ \A i \in Procs : i # s => pc'[i] = pc[i]
      BY <1>1, <1>3, <2>1, <2>2, <2>4
    <2>6. \A f \in Files : com'[f] = IF f = s THEN LinesOf(f, Stage(asked, s)) ELSE <<>>
      BY <1>1, <1>3, <1>5, <2>1, <2>2
    <2>7. (s + 1) % 4 = (IF s = 3 THEN 0 ELSE s + 1) /\ (s + 1) - 1 = s
      BY <1>1, <2>2, Ring
    <2>8. pc'[(s + 1) % 4] = "receive" /\ pc'[0] = "receive"
      BY <1>1, <1>5, <2>2, <2>5, <2>7, Ring
    <2>9. \A i \in Children : i < s + 1 => pc'[i] = Finished
      BY <1>1, <1>5, <2>2, <2>5, Ring
    <2>10. \A i \in Children : i > s + 1 => pc'[i] = "receive"
      BY <1>1, <1>5, <2>2, <2>5, Ring
    <2>11. InFlight(s + 1)'
      BY <1>5, <2>1, <2>6, <2>7, <2>8, <2>9, <2>10 DEF InFlight, Finished
    <2>12. QED
      BY <2>2, <2>11
  <1>9. CASE ReceiveRead(p)
    <2>1. /\ pc[p] = "receive" /\ pc' = [pc EXCEPT ![p] = "truncate"]
          /\ text' = [text EXCEPT ![p] = Head(com[s - 1])]
          /\ UNCHANGED <<com, asked>>
      BY <1>1, <1>9 DEF ReceiveRead
    <2>2. Head(com[s - 1]) = m
      BY <1>1, <1>5, <1>6, <2>1, LinesFacts
    <2>3. /\ pc'[p] = "truncate" /\ \A i \in Procs : i # p => pc'[i] = pc[i]
          /\ text'[p] = Stage(asked, s - 1)
      BY <1>1, <1>3, <1>6, <2>1, <2>2
    <2>4. InFlight(s)'
      BY <1>1, <1>5, <2>1, <2>3, Ring DEF InFlight, Finished, p
    <2>5. QED
      BY <2>4
  <1>10. CASE TruncateFile(p)
    <2>1. /\ pc[p] = "truncate" /\ pc' = [pc EXCEPT ![p] = AfterReceive(p)]
          /\ com' = [com EXCEPT ![s - 1] = <<>>]
          /\ text' = [text EXCEPT ![p] = Used(p)]
          /\ UNCHANGED asked
      BY <1>1, <1>10 DEF TruncateFile
    <2>2. \A f \in Files : com'[f] = <<>>
      BY <1>1, <1>3, <1>5, <2>1
    <2>3. /\ pc'[p] = AfterReceive(p) /\ \A i \in Procs : i # p => pc'[i] = pc[i]
          /\ text'[p] = Used(p)
      BY <1>1, <1>3, <2>1
    <2>4. CASE s # 4
      <3>1. p # 0 /\ p = s /\ AfterReceive(p) = "send"
        BY <1>1, <2>4 DEF AfterReceive
      <3>2. Used(p) = Stage(asked, s)
        <4>1. s \in Children
          BY <1>1, <2>4
        <4>2. Stage(asked, s) = Processed(s, Stage(asked, s - 1))
          BY <4>1, <1>4, StageFacts
        <4>3. QED
          BY <3>1, <4>2, <1>5, <2>1 DEF Used
      <3>3. InFlight(s)'
        BY <1>1, <1>5, <2>1, <2>2, <2>3, <3>1, <3>2, Ring DEF InFlight, Finished, p
      <3>4. QED
        BY <3>3
    <2>5. CASE s = 4
      <3>1. p = 0 /\ AfterReceive(p) = IF IsQuit(asked) THEN "reap" ELSE "show"
        BY <1>1, <2>5 DEF AfterReceive
      <3>2. Used(p) = Stage(asked, 3)
        BY <3>1, <1>5, <2>1, <2>5 DEF Used
      <3>3. Answered'
        BY <1>1, <1>5, <2>1, <2>2, <2>3, <2>5, <3>1, <3>2, Ring DEF Answered, AllEmpty, Finished
      <3>4. QED
        BY <2>5, <3>3
    <2>6. QED
      BY <2>4, <2>5
  <1>11. QED
    BY <1>2, <1>7, <1>8, <1>9, <1>10 DEF Messages

LEMMA AnsweredStep ==
  ASSUME Base, Answered, Moves
  PROVE  Asking' \/ Closed'
  <1>1. ASSUME NEW p \in Procs PROVE ~ Able(p)
    BY Ring DEF Able, Answered, AllEmpty, Finished
  <1>2. Show \/ Reap
    BY <1>1 DEF Moves, Answered
  <1>3. pc \in [Procs -> Places]
    BY DEF Base, TypeOK, Places
  <1>4. CASE Show
    <2>1. ~ IsQuit(asked) /\ pc' = [pc EXCEPT ![0] = "ask"] /\ UNCHANGED com
      BY <1>4 DEF Show, Answered
    <2>2. \A i \in Children : pc[i] = "receive"
      BY <2>1 DEF Answered, Finished
    <2>3. pc'[0] = "ask" /\ \A i \in Children : pc'[i] = "receive"
      BY <1>3, <2>1, <2>2, Ring
    <2>4. AllEmpty'
      BY <2>1 DEF Answered, AllEmpty
    <2>5. QED
      BY <2>3, <2>4 DEF Asking
  <1>5. CASE Reap
    <2>1. /\ pc' = [pc EXCEPT ![0] = "remove"] /\ UNCHANGED com
          /\ \A i \in Children : pc[i] = "gone"
      BY <1>5 DEF Reap
    <2>2. pc'[0] = "remove" /\ \A i \in Children : pc'[i] = "gone"
      BY <1>3, <2>1, Ring
    <2>3. AllEmpty'
      BY <2>1 DEF Answered, AllEmpty
    <2>4. QED
      BY <2>2, <2>3 DEF Closed
  <1>6. QED
    BY <1>2, <1>4, <1>5

LEMMA ClosedStep ==
  ASSUME Base, Closed, Moves
  PROVE  FALSE
  <1>1. ASSUME NEW p \in Procs PROVE ~ Able(p)
    BY Ring DEF Able, Closed
  <1>2. QED
    BY <1>1 DEF Moves, Closed

LEMMA SoundStep ==
  ASSUME FInv, [Next]_vars
  PROVE  Sound'
  <1> SUFFICES ASSUME session' = "sound"
               PROVE  Forking' \/ Asking' \/ Answered' \/ Closed' \/ \E s \in 1 .. 4 : InFlight(s)'
    BY DEF Sound
  <1>1. Base
    BY DEF FInv
  <1>2. CASE Next /\ session = "sound"
    <2>1. Moves
      BY <1>1, <1>2, SoundMoves
    <2>2. Forking \/ Asking \/ Answered \/ Closed \/ \E s \in 1 .. 4 : InFlight(s)
      BY <1>2 DEF FInv, Sound
    <2>3. CASE Forking
      BY <1>1, <2>1, <2>3, ForkingStep
    <2>4. CASE Asking
      <3>1. 1 \in 1 .. 4
        OBVIOUS
      <3>2. QED
        BY <1>1, <2>1, <2>4, <3>1, AskingStep
    <2>5. CASE Answered
      BY <1>1, <2>1, <2>5, AnsweredStep
    <2>6. CASE Closed
      BY <1>1, <2>1, <2>6, ClosedStep
    <2>7. ASSUME NEW s \in 1 .. 4, InFlight(s)
          PROVE  Answered' \/ \E t \in 1 .. 4 : InFlight(t)'
      <3>1. s # 4 => s + 1 \in 1 .. 4
        OBVIOUS
      <3>2. InFlight(s)' \/ (s # 4 /\ InFlight(s + 1)') \/ (s = 4 /\ Answered')
        BY <1>1, <2>1, <2>7, InFlightStep
      <3>3. QED
        BY <3>1, <3>2
    <2>8. QED
      BY <2>2, <2>3, <2>4, <2>5, <2>6, <2>7
  <1>3. CASE Next /\ session # "sound"
    <2>1. Start
      BY <1>3 DEF Next, Main, Messages, Start, GetExpression, Fork, SendWait, SendWrite, ReceiveRead,
                  TruncateFile, Show, Reap, RemoveFiles, ExecFails, ForkFails, Interrupt, AllOff
    <2>2. /\ AllEmpty /\ UNCHANGED com /\ pc[0] = "off" /\ pc' = [pc EXCEPT ![0] = "fork"]
      BY <2>1 DEF Start
    <2>3. \A i \in Children : pc[i] = "off"
      BY <1>1, <2>2 DEF Base, Sessions
    <2>4. pc'[0] = "fork" /\ \A i \in Children : pc'[i] = "off"
      BY <1>1, <2>2, <2>3, Ring DEF Base, TypeOK
    <2>5. AllEmpty'
      BY <2>2 DEF AllEmpty
    <2>6. Forking'
      BY <2>4, <2>5 DEF Forking
    <2>7. QED
      BY <2>6
  <1>4. CASE UNCHANGED vars
    BY <1>4 DEF FInv, Sound, Forking, Asking, Answered, Closed, InFlight, Finished, AllEmpty, vars
  <1>5. QED
    BY <1>2, <1>3, <1>4

THEOREM InductiveInvariant == Spec => []FInv
  <1>1. Init => FInv
    <2>1. Init => Sound
      BY DEF Init, Sound
    <2>2. QED
      BY <2>1, BaseInit DEF FInv
  <1>2. FInv /\ [Next]_vars => FInv'
    BY BaseStep, SoundStep DEF FInv
  <1>3. QED
    BY <1>1, <1>2, PTL DEF Spec

--------------------------------------------------------------------------------
(* The theorems. *)

(* Every variable has a value of its kind, and no file is left with a blank  *)
(* line alone, though SendMessage's receiver reads but the first line.       *)
THEOREM TypeCorrect == Spec => []TypeOK
  <1>1. FInv => TypeOK
    BY DEF FInv, Base
  <1>2. QED
    BY <1>1, InductiveInvariant, PTL

(* Nobody writes into a file that is not empty, in any session.              *)
THEOREM MessagesKept == Spec => NoMessageOverwritten
  <1> DEFINE Kept == \A f \in Files : com[f] # <<>> => com'[f] \in {com[f], <<>>}
  <1>1. ASSUME FInv, [Next]_vars PROVE Kept
    <2>1. com \in [Files -> Seq(Seq(AnyTerm))] /\ \A p \in Procs : pc[p] = "write" => com[p] = <<>>
      BY <1>1 DEF FInv, Base, TypeOK, Sessions
    <2>2. ASSUME NEW p \in Procs, Messages(p) PROVE Kept
      <3>1. CASE SendWait(p) \/ ReceiveRead(p)
        BY <3>1 DEF SendWait, ReceiveRead
      <3>2. CASE SendWrite(p)
        BY <3>2, <2>1, Ring DEF SendWrite
      <3>3. CASE TruncateFile(p)
        BY <3>3, <2>1, Ring DEF TruncateFile
      <3>4. QED
        BY <2>2, <3>1, <3>2, <3>3 DEF Messages
    <2>3. CASE RemoveFiles
      BY <2>3 DEF RemoveFiles
    <2>4. CASE UNCHANGED com
      BY <2>4
    <2>5. \/ \E p \in Procs : Messages(p)
          \/ RemoveFiles \/ UNCHANGED com
      BY <1>1 DEF Next, Main, Procs, vars, Start, GetExpression, Fork, Show, Reap, ExecFails,
                  ForkFails, Interrupt
    <2>6. QED
      BY <2>2, <2>3, <2>4, <2>5
  <1>2. FInv /\ [Next]_vars => [Kept]_vars
    BY <1>1
  <1>3. QED
    BY <1>2, InductiveInvariant, PTL DEF Spec, NoMessageOverwritten

(* Main takes the files away from nobody, and no message with them.          *)
THEOREM CleanUpSafe == Spec => []RemovesUnused
  <1>1. FInv => RemovesUnused
    <2>1. SUFFICES ASSUME FInv, pc[0] = "remove" PROVE RemovesUnused
      BY DEF RemovesUnused
    <2>2. \A i \in Children : pc[i] = "gone"
      BY <2>1 DEF FInv, Base, Sessions
    <2>3. \A s \in 1 .. 4 : ~ InFlight(s)
      BY <2>1, Ring DEF InFlight
    <2>4. session = "sound" => AllEmpty
      BY <2>1, <2>3 DEF FInv, Sound, Forking, Asking, Answered, Closed
    <2>5. QED
      BY <2>2, <2>4 DEF RemovesUnused
  <1>2. QED
    BY <1>1, InductiveInvariant, PTL

--------------------------------------------------------------------------------
(* The pipeline implements the calculator. *)

(* What the calculator sees of a state of the pipeline. *)
StateOf(at, kind, e) ==
  IF kind = "spoiled" THEN "off"
  ELSE IF at \in {"fork", "ask"} THEN "ready"
  ELSE IF at = "show" THEN "shown"
  ELSE IF at \in {"reap", "remove"} THEN "closing"
  ELSE IF IsQuit(e) THEN "closing" ELSE "asked"

(* Main is at a place of its own, and at none but those in a sound session. *)
MainPlaced == /\ pc[0] \in Places /\ session \in {"sound", "spoiled"}
              /\ pc[0] \in {"off", "gone"} => session = "spoiled"

LEMMA MainIsPlaced == FInv => MainPlaced
  <1> SUFFICES ASSUME FInv PROVE MainPlaced
    OBVIOUS
  <1>1. pc[0] \in Places /\ session \in {"sound", "spoiled"} /\ (pc[0] = "off" => session = "spoiled")
    BY Ring DEF FInv, Base, TypeOK, Sessions, Places
  <1>2. session = "sound" => pc[0] # "gone"
    <2>1. ASSUME NEW s \in 1 .. 4, InFlight(s) PROVE pc[0] # "gone"
      <3>1. s % 4 = 0 \/ s % 4 # 0
        OBVIOUS
      <3>2. QED
        BY <2>1, <3>1 DEF InFlight
    <2>2. QED
      BY <2>1 DEF FInv, Sound, Forking, Asking, Answered, Closed
  <1>3. QED
    BY <1>1, <1>2 DEF MainPlaced

LEMMA StateNowIs == MainPlaced => StateNow = StateOf(pc[0], session, asked)
  <1> SUFFICES ASSUME MainPlaced PROVE StateNow = StateOf(pc[0], session, asked)
    OBVIOUS
  <1>1. CASE pc[0] \in {"reap", "remove"} /\ session = "sound"
    BY <1>1 DEF StateNow, StateOf
  <1>2. CASE session = "spoiled"
    BY <1>2 DEF StateNow, StateOf
  <1>3. CASE pc[0] \in {"fork", "ask"} /\ session = "sound"
    BY <1>3 DEF StateNow, StateOf
  <1>4. CASE pc[0] = "show" /\ session = "sound"
    BY <1>4 DEF StateNow, StateOf
  <1>5. CASE pc[0] \in {"send", "write", "receive", "truncate"} /\ session = "sound"
    BY <1>5 DEF StateNow, StateOf
  <1>6. QED
    BY <1>1, <1>2, <1>3, <1>4, <1>5 DEF MainPlaced, Places

(* What main has in hand when it shows a result. *)
LEMMA ShownIsValue ==
  FInv /\ session = "sound" /\ pc[0] = "show" =>
    asked \in Exprs /\ text[0] = <<Number(Value(asked))>>
  <1> SUFFICES ASSUME FInv, session = "sound", pc[0] = "show"
               PROVE  asked \in Exprs /\ text[0] = <<Number(Value(asked))>>
    OBVIOUS
  <1>1. Answered
    BY Ring DEF FInv, Sound, Forking, Asking, Closed, InFlight
  <1>2. asked \in Exprs
    BY <1>1, QuitFacts, AskedFacts DEF Answered, FInv, Base, TypeOK
  <1>3. text[0] = Stage(asked, 3)
    BY <1>1 DEF Answered
  <1>4. WellFormed(asked)
    BY <1>2, ExprsAssumption
  <1>5. QED
    BY <1>2, <1>3, <1>4, ThreePasses

LEMMA CalculatorStep ==
  ASSUME FInv, FInv', [Next]_vars
  PROVE  [Calc!Next]_Calc!vars
  <1>1. MainPlaced /\ MainPlaced'
    <2>1. MainPlaced'
      BY MainIsPlaced, PTL
    <2>2. QED
      BY <2>1, MainIsPlaced
  <1>2. /\ StateNow = StateOf(pc[0], session, asked)
        /\ StateNow' = StateOf(pc'[0], session', asked')
    <2>1. (MainPlaced => StateNow = StateOf(pc[0], session, asked))'
      BY StateNowIs, PTL
    <2>2. QED
      BY <1>1, <2>1, StateNowIs
  <1>3. (session = "sound" /\ pc[0] = "show")' =>
          asked' \in Exprs /\ text'[0] = <<Number(Value(asked'))>>
    <2>1. (FInv /\ session = "sound" /\ pc[0] = "show" =>
             asked \in Exprs /\ text[0] = <<Number(Value(asked))>>)'
      BY ShownIsValue, PTL
    <2>2. QED
      BY <2>1
  <1>4. /\ pc \in [Procs -> Places] /\ text \in [Procs -> Seq(AnyTerm)]
        /\ 0 \in Procs /\ session \in {"sound", "spoiled"}
    BY Ring DEF FInv, Base, TypeOK, Places
  <1>5. ASSUME StateNow' = StateNow, StateNow \in {"asked", "shown"} => asked' = asked,
               StateNow = "shown" => text'[0] = text[0]
        PROVE  UNCHANGED Calc!vars
    BY <1>5 DEF Calc!vars
  <1>6. ASSUME StateNow' = "off" PROVE Calc!Break
    BY <1>6 DEF Calc!Break
  <1>7. CASE Start
    <2>1. /\ pc[0] = "off" /\ session = "spoiled" /\ pc'[0] = "fork"
          /\ session' \in {"sound", "spoiled"}
      BY <1>4, <1>7 DEF Start, FInv, Base, Sessions
    <2>2. StateNow = "off" /\ StateNow' \in {"off", "ready"}
      BY <1>2, <2>1 DEF StateOf
    <2>3. CASE StateNow' = "off"
      BY <1>6, <2>3 DEF Calc!Next
    <2>4. CASE StateNow' = "ready"
      BY <2>2, <2>4 DEF Calc!Next, Calc!Start
    <2>5. QED
      BY <2>2, <2>3, <2>4
  <1>8. CASE Fork
    <2>1. MainPlaced' /\ pc[0] = "fork" /\ session' = session
      BY <1>1, <1>8 DEF Fork
    <2>2. pc'[0] \in {"fork", "ask"}
      <3>1. NextChild = IF pc[1] = "off" THEN 1 ELSE IF pc[2] = "off" THEN 2 ELSE 3
        BY <2>1, NextChildIs DEF FInv, Base, Sessions
      <3>2. NextChild # 0
        BY <3>1
      <3>3. QED
        BY <1>4, <1>8, <3>2 DEF Fork
    <2>3. StateNow \in {"off", "ready"} /\ StateNow' = StateNow
      BY <1>2, <2>1, <2>2 DEF StateOf
    <2>4. QED
      BY <1>5, <2>3
  <1>9. CASE ExecFails
    <2>1. session' = "spoiled" /\ pc[0] = "fork"
      BY <1>9 DEF ExecFails
    <2>2. pc'[0] \in {"fork", "ask"}
      <3>1. NextChild = IF pc[1] = "off" THEN 1 ELSE IF pc[2] = "off" THEN 2 ELSE 3
        BY <2>1, NextChildIs DEF FInv, Base, Sessions
      <3>2. NextChild # 0
        BY <3>1
      <3>3. QED
        BY <1>4, <1>9, <3>2 DEF ExecFails
    <2>3. StateNow' = "off"
      BY <1>2, <2>1, <2>2 DEF StateOf
    <2>4. QED
      BY <1>6, <2>3 DEF Calc!Next
  <1>10. CASE ForkFails \/ Interrupt
    <2>1. session' = "spoiled" /\ pc'[0] = "off"
      BY <1>4, <1>10 DEF ForkFails, Interrupt, AllOff
    <2>2. StateNow' = "off"
      BY <1>2, <2>1 DEF StateOf
    <2>3. QED
      BY <1>6, <2>2 DEF Calc!Next
  <1>11. CASE GetExpression
    <2>1. PICK e \in Exprs \cup {Quit} : asked' = e
      BY <1>11 DEF GetExpression
    <2>2. pc[0] = "ask" /\ pc'[0] = "send" /\ session' = session
      BY <1>4, <1>11 DEF GetExpression
    <2>3. CASE session = "spoiled"
      <3>1. StateNow' = "off"
        BY <1>2, <2>2, <2>3 DEF StateOf
      <3>2. QED
        BY <1>6, <3>1 DEF Calc!Next
    <2>4. CASE session = "sound" /\ e = Quit
      <3>1. StateNow = "ready" /\ StateNow' = "closing"
        BY <1>2, <2>1, <2>2, <2>4, QuitFacts, AskedFacts DEF StateOf
      <3>2. QED
        BY <3>1 DEF Calc!Next, Calc!Close
    <2>5. CASE session = "sound" /\ e \in Exprs
      <3>1. StateNow = "ready" /\ StateNow' = "asked"
        BY <1>2, <2>1, <2>2, <2>5, QuitFacts, AskedFacts DEF StateOf
      <3>2. QED
        BY <2>1, <2>5, <3>1 DEF Calc!Next, Calc!Ask
    <2>6. QED
      BY <1>4, <2>1, <2>3, <2>4, <2>5
  <1>12. ASSUME NEW p \in Procs, Messages(p), p # 0 PROVE UNCHANGED Calc!vars
    <2>1. pc'[0] = pc[0] /\ text'[0] = text[0] /\ UNCHANGED <<asked, session>>
      BY <1>4, <1>12 DEF Messages, SendWait, SendWrite, ReceiveRead, TruncateFile
    <2>2. QED
      BY <1>2, <1>5, <2>1
  <1>13. CASE SendWait(0) \/ SendWrite(0) \/ ReceiveRead(0)
    <2>1. /\ {pc[0], pc'[0]} \subseteq {"send", "write", "receive", "truncate"}
          /\ UNCHANGED <<asked, session>>
      BY <1>4, <1>13 DEF SendWait, SendWrite, ReceiveRead, AfterSend
    <2>2. StateNow' = StateNow /\ StateNow # "shown"
      BY <1>2, <2>1 DEF StateOf
    <2>3. QED
      BY <1>5, <2>1, <2>2
  <1>14. CASE TruncateFile(0)
    <2>1. /\ pc[0] = "truncate" /\ pc'[0] = IF IsQuit(asked) THEN "reap" ELSE "show"
          /\ UNCHANGED <<asked, session>>
      BY <1>4, <1>14 DEF TruncateFile, AfterReceive
    <2>2. CASE IsQuit(asked) /\ session = "sound"
      <3>1. StateNow = "closing" /\ StateNow' = "closing"
        BY <1>2, <2>1, <2>2 DEF StateOf
      <3>2. QED
        BY <1>5, <3>1
    <2>3. CASE session = "spoiled"
      <3>1. StateNow' = "off"
        BY <1>2, <2>1, <2>3 DEF StateOf
      <3>2. QED
        BY <1>6, <3>1 DEF Calc!Next
    <2>4. CASE ~ IsQuit(asked) /\ session = "sound"
      <3>1. StateNow = "asked" /\ StateNow' = "shown"
        BY <1>2, <2>1, <2>4 DEF StateOf
      <3>2. text'[0] = <<Number(Value(asked))>>
        BY <1>3, <2>1, <2>4
      <3>3. Calc!Value(asked) = Value(asked)
        BY DEF Value, Calc!Value, Apply, Calc!Apply, Known, Calc!Known, Max, Calc!Max
      <3>4. text'[0] = <<Calc!Number(Calc!Value(asked))>>
        BY <3>2, <3>3 DEF Number, Calc!Number
      <3>5. QED
        BY <2>1, <3>1, <3>4 DEF Calc!Next, Calc!Answer
    <2>5. QED
      BY <1>4, <2>2, <2>3, <2>4
  <1>15. CASE Show
    <2>1. pc[0] = "show" /\ pc'[0] = "ask" /\ session' = session
      BY <1>4, <1>15 DEF Show
    <2>2. CASE session = "spoiled"
      <3>1. StateNow' = "off"
        BY <1>2, <2>1, <2>2 DEF StateOf
      <3>2. QED
        BY <1>6, <3>1 DEF Calc!Next
    <2>3. CASE session = "sound"
      <3>1. StateNow = "shown" /\ StateNow' = "ready"
        BY <1>2, <2>1, <2>3 DEF StateOf
      <3>2. QED
        BY <3>1 DEF Calc!Next, Calc!Again
    <2>4. QED
      BY <1>4, <2>2, <2>3
  <1>16. CASE Reap
    <2>1. pc[0] = "reap" /\ pc'[0] = "remove"
      BY <1>4, <1>16 DEF Reap
    <2>2. session' = session
      BY <1>16 DEF Reap
    <2>3. CASE session = "spoiled"
      <3>1. StateNow' = "off"
        BY <1>2, <2>2, <2>3 DEF StateOf
      <3>2. QED
        BY <1>6, <3>1 DEF Calc!Next
    <2>4. CASE session = "sound"
      <3>1. StateNow = "closing" /\ StateNow' = "closing"
        BY <1>2, <2>1, <2>2, <2>4 DEF StateOf
      <3>2. QED
        BY <1>5, <3>1
    <2>5. QED
      BY <1>4, <2>3, <2>4
  <1>17. CASE RemoveFiles
    <2>1. pc'[0] = "off" /\ session' = "spoiled"
      BY <1>4, <1>17 DEF RemoveFiles, AllOff
    <2>2. StateNow' = "off"
      BY <1>2, <2>1 DEF StateOf
    <2>3. QED
      BY <1>6, <2>2 DEF Calc!Next
  <1>18. CASE UNCHANGED vars
    BY <1>2, <1>5, <1>18 DEF vars
  <1>19. QED
    <2>1. Next => \/ Start \/ GetExpression \/ Fork \/ ExecFails \/ ForkFails \/ Interrupt
                  \/ \E p \in Procs : Messages(p) /\ p # 0
                  \/ SendWait(0) \/ SendWrite(0) \/ ReceiveRead(0) \/ TruncateFile(0)
                  \/ Show \/ Reap \/ RemoveFiles
      BY Ring DEF Next, Main, Messages
    <2>2. QED
      BY <2>1, <1>7, <1>8, <1>9, <1>10, <1>11, <1>12, <1>13, <1>14, <1>15, <1>16, <1>17, <1>18

(* The pipeline is a calculator: each result main prints in a session that   *)
(* found no message of an earlier one is the value of the expression typed   *)
(* last, however long, and another is asked for only after that.             *)
THEOREM PipelineCalculates == Spec => Calc!Init /\ [][Calc!Next]_Calc!vars
  <1>1. Init => Calc!Init
    <2>1. SUFFICES ASSUME Init PROVE Calc!Init
      OBVIOUS
    <2>2. pc[0] = "off" /\ session = "spoiled"
      BY <2>1, Ring DEF Init
    <2>3. StateNow = "off"
      BY <2>2, StateNowIs DEF StateOf, MainPlaced, Places
    <2>4. QED
      BY <2>3 DEF Calc!Init
  <1>2. FInv /\ FInv' /\ [Next]_vars => [Calc!Next]_Calc!vars
    BY CalculatorStep
  <1>3. QED
    BY <1>1, <1>2, InductiveInvariant, PTL DEF Spec
================================================================================
