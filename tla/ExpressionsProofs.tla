--------------------------- MODULE ExpressionsProofs ----------------------------
(***************************************************************************)
(* Machine-checked theorems about Expressions: what one pass does to an    *)
(* expression, and that three passes compute its value.                    *)
(***************************************************************************)
EXTENDS Expressions, SequenceTheorems, WellFoundedInduction, TLAPS

(* Induction over the natural numbers, stated with sets: the theorems of    *)
(* the library take a predicate as a parameter, here it is the set of the   *)
(* numbers that satisfy it, which a proof can name like any other set.      *)

(* A nonempty set of natural numbers has a smallest element. *)
LEMMA Smallest ==
  ASSUME NEW T \in SUBSET Nat, T # {}
  PROVE  \E x \in T : \A y \in T : x <= y
  <1>1. PICK x \in T : \A y \in T : ~ (<<y, x>> \in OpToRel(<, Nat))
    BY NatLessThanWellFounded, WFMin
  <1>2. \A y \in T : ~ (y < x)
    BY <1>1 DEF OpToRel
  <1>3. QED
    BY <1>2

(* A set with 0 and the successor of each of its numbers has them all. *)
LEMMA SetInduction ==
  ASSUME NEW S, 0 \in S, \A n \in Nat : n \in S => n + 1 \in S
  PROVE  Nat \subseteq S
  <1>1. SUFFICES ASSUME Nat \ S # {} PROVE FALSE
    OBVIOUS
  <1>2. PICK x \in Nat \ S : \A y \in Nat \ S : x <= y
    BY <1>1, Smallest
  <1>3. x # 0 /\ x - 1 \in Nat
    BY <1>2
  <1>4. x - 1 \in S
    BY <1>2, <1>3
  <1>5. QED
    BY <1>2, <1>3, <1>4

(* The same for the numbers from 1 to n. *)
LEMMA InductionUpTo ==
  ASSUME NEW n \in Nat, NEW S, 1 \in S, \A k \in 1 .. n - 1 : k \in S => k + 1 \in S
  PROVE  1 .. n \subseteq S
  <1> DEFINE T == {k \in Nat : k + 1 \in 1 .. n => k + 1 \in S}
  <1>1. 0 \in T
    OBVIOUS
  <1>2. \A k \in Nat : k \in T => k + 1 \in T
    <2>1. SUFFICES ASSUME NEW k \in Nat, k \in T, k + 1 + 1 \in 1 .. n PROVE k + 1 + 1 \in S
      OBVIOUS
    <2>2. k + 1 \in 1 .. n - 1 /\ k + 1 \in 1 .. n
      BY <2>1
    <2>3. QED
      BY <2>1, <2>2
  <1>3. Nat \subseteq T
    <2> HIDE DEF T
    <2>1. QED
      BY <1>1, <1>2, SetInduction
  <1>4. ASSUME NEW k \in 1 .. n PROVE k \in S
    <2>1. k - 1 \in T /\ k - 1 + 1 = k
      BY <1>3
    <2>2. QED
      BY <2>1
  <1>5. QED
    BY <1>4

--------------------------------------------------------------------------------
(* The largest element of a set of positions. *)
LEMMA MaxFacts ==
  ASSUME NEW n \in Nat, NEW S \in SUBSET (1 .. n), S # {}
  PROVE  Max(S) \in S /\ \A x \in S : x <= Max(S)
  <1> DEFINE T == {n - x : x \in S}
  <1>1. T \in SUBSET Nat /\ T # {}
    <2>1. \A x \in S : n - x \in Nat
      OBVIOUS
    <2>2. PICK x : x \in S
      OBVIOUS
    <2>3. n - x \in T
      BY <2>2
    <2>4. QED
      BY <2>1, <2>3
  <1> HIDE DEF T
  <1>2. PICK y \in T : \A z \in T : y <= z
    BY <1>1, Smallest
  <1>3. PICK x \in S : y = n - x
    BY <1>2 DEF T
  <1>4. \A z \in S : x >= z
    <2>1. SUFFICES ASSUME NEW z \in S PROVE x >= z
      OBVIOUS
    <2>2. n - x <= n - z
      BY <1>2, <1>3 DEF T
    <2>3. QED
      BY <2>2
  <1>5. Max(S) \in S /\ \A z \in S : Max(S) >= z
    BY <1>3, <1>4 DEF Max
  <1>6. QED
    BY <1>5

LEMMA MaxIs ==
  ASSUME NEW n \in Nat, NEW S \in SUBSET (1 .. n), NEW m \in S, \A x \in S : x <= m
  PROVE  Max(S) = m
  <1>1. PICK y \in S : y = Max(S) /\ \A x \in S : x <= y
    <2>1. S # {}
      OBVIOUS
    <2>2. QED
      BY <2>1, MaxFacts
  <1>2. y <= m /\ m <= y
    BY <1>1
  <1>3. QED
    BY <1>1, <1>2

--------------------------------------------------------------------------------
(* One pass, as the states its loop goes through. *)

First(expr) == [parsed |-> <<>>, held |-> Head(expr)]
Turn(ops, acc, t) ==
  IF t.op \in ops THEN [acc EXCEPT !.held.num = Apply(t.op, @, t.num)]
  ELSE [parsed |-> Append(acc.parsed, acc.held), held |-> t]

FoldStep(expr, ops, g, s) ==
  IF s = {} THEN First(expr)
  ELSE Turn(ops, g[s \ {Max(s)}], Tail(expr)[Max(s)])
IsFold(expr, ops, g) ==
  g = [s \in SUBSET (DOMAIN Tail(expr)) |-> FoldStep(expr, ops, g, s)]

LEMMA ParseIsFold ==
  ASSUME NEW expr, NEW ops, \E g : IsFold(expr, ops, g)
  PROVE  \E g : /\ IsFold(expr, ops, g)
                /\ ParseExpression(expr, ops) =
                     Append(g[DOMAIN Tail(expr)].parsed, g[DOMAIN Tail(expr)].held)
  <1> DEFINE h == CHOOSE g : IsFold(expr, ops, g)
  <1>1. IsFold(expr, ops, h)
    OBVIOUS
  <1>2. ParseExpression(expr, ops) = Append(h[DOMAIN Tail(expr)].parsed, h[DOMAIN Tail(expr)].held)
    BY DEF ParseExpression, FoldLeft, MapThenFoldSet, IsFold, FoldStep, First, Turn
  <1>3. QED
    BY <1>1, <1>2

(* The fold by which the pass is defined exists: it is built up to one term  *)
(* after the other.                                                          *)
LEMMA FoldExists ==
  ASSUME NEW expr \in Seq(AnyTerm), expr # <<>>, NEW ops
  PROVE  \E g : IsFold(expr, ops, g)
  <1> DEFINE F(g, s) == FoldStep(expr, ops, g, s)
             U(n) == SUBSET (1 .. n)
             S == {n \in Nat : \E g : g = [s \in U(n) |-> F(g, s)]}
  <1>1. ASSUME NEW g, NEW h, NEW s, s # {} => g[s \ {Max(s)}] = h[s \ {Max(s)}]
        PROVE  F(g, s) = F(h, s)
    BY <1>1 DEF FoldStep
  <1>2. ASSUME NEW g, NEW s, s = {} PROVE F(g, s) = First(expr)
    BY <1>2 DEF FoldStep
  <1> HIDE DEF F
  <1>3. 0 \in S
    <2> DEFINE g == [s \in U(0) |-> First(expr)]
    <2>1. U(0) = {{}}
      OBVIOUS
    <2>2. \A s \in U(0) : F(g, s) = First(expr)
      BY <2>1, <1>2
    <2>3. g = [s \in U(0) |-> F(g, s)]
      BY <2>2
    <2>4. QED
      BY <2>3
  <1>4. ASSUME NEW n \in Nat, n \in S PROVE n + 1 \in S
    <2>1. PICK g : g = [s \in U(n) |-> F(g, s)]
      BY <1>4
    <2> DEFINE h == [s \in U(n + 1) |-> IF n + 1 \in s THEN F(g, s) ELSE g[s]]
    <2>2. \A s \in U(n + 1) : n + 1 \notin s => s \in U(n)
      OBVIOUS
    <2>3. U(n) \subseteq U(n + 1) /\ \A s \in U(n) : n + 1 \notin s
      OBVIOUS
    <2>4. \A s \in U(n) : h[s] = g[s]
      BY <2>3
    <2>5. ASSUME NEW s \in U(n + 1) PROVE h[s] = F(h, s)
      <3>1. CASE n + 1 \in s
        <4>1. Max(s) = n + 1
          <5>1. n + 1 \in Nat /\ s \in SUBSET (1 .. n + 1) /\ \A x \in s : x <= n + 1
            OBVIOUS
          <5>2. QED
            BY <5>1, <3>1, MaxIs
        <4>2. s \ {Max(s)} \in U(n)
          BY <4>1
        <4>3. F(g, s) = F(h, s)
          BY <4>2, <2>4, <1>1
        <4>4. QED
          BY <4>3, <3>1
      <3>2. CASE n + 1 \notin s
        <4>1. s \in U(n)
          BY <3>2, <2>2
        <4>2. s # {} => s \ {Max(s)} \in U(n)
          BY <4>1
        <4>3. F(g, s) = F(h, s)
          BY <4>2, <2>4, <1>1
        <4>4. g[s] = F(g, s)
          BY <4>1, <2>1
        <4>5. QED
          BY <4>1, <4>3, <4>4, <2>4
      <3>3. QED
        BY <3>1, <3>2
    <2>6. h = [s \in U(n + 1) |-> F(h, s)]
      BY <2>5
    <2> HIDE DEF h, U
    <2>7. QED
      BY <2>6
  <1>5. Len(Tail(expr)) \in Nat /\ DOMAIN Tail(expr) = 1 .. Len(Tail(expr))
    BY HeadTailProperties, LenProperties
  <1>6. Len(Tail(expr)) \in S
    <2> HIDE DEF S
    <2>1. Nat \subseteq S
      BY <1>3, <1>4, SetInduction
    <2>2. QED
      BY <2>1, <1>5
  <1>7. QED
    BY <1>5, <1>6 DEF IsFold, F

(* The states of the loop before the second term, after it, and so on. *)
IsTrace(expr, ops, a) ==
  /\ a[1] = First(expr)
  /\ \A k \in 1 .. Len(expr) - 1 : a[k + 1] = Turn(ops, a[k], expr[k + 1])

LEMMA PassTrace ==
  ASSUME NEW expr \in Seq(AnyTerm), expr # <<>>, NEW ops
  PROVE  \E a : /\ IsTrace(expr, ops, a)
                /\ ParseExpression(expr, ops) =
                     Append(a[Len(expr)].parsed, a[Len(expr)].held)
  <1> DEFINE n == Len(expr) - 1
  <1>1. /\ Tail(expr) \in Seq(AnyTerm) /\ Len(Tail(expr)) = n /\ n \in Nat
        /\ DOMAIN Tail(expr) = 1 .. n
        /\ \A k \in 1 .. n : Tail(expr)[k] = expr[k + 1]
    BY HeadTailProperties, LenProperties
  <1>2. PICK g : /\ IsFold(expr, ops, g)
                 /\ ParseExpression(expr, ops) = Append(g[1 .. n].parsed, g[1 .. n].held)
    BY <1>1, FoldExists, ParseIsFold
  <1>3. \A s \in SUBSET (1 .. n) : g[s] = FoldStep(expr, ops, g, s)
    BY <1>1, <1>2 DEF IsFold
  <1> DEFINE a == [k \in 1 .. n + 1 |-> g[1 .. k - 1]]
  <1>4. a[1] = First(expr)
    <2>1. 1 .. 1 - 1 = {} /\ 1 \in 1 .. n + 1
      BY <1>1
    <2>2. QED
      BY <2>1, <1>3 DEF FoldStep
  <1>5. ASSUME NEW k \in 1 .. n PROVE a[k + 1] = Turn(ops, a[k], expr[k + 1])
    <2>1. a[k + 1] = g[1 .. k] /\ a[k] = g[1 .. k - 1]
      BY <1>1
    <2>2. 1 .. k \in SUBSET (1 .. n) /\ 1 .. k # {} /\ Max(1 .. k) = k /\ (1 .. k) \ {k} = 1 .. k - 1
      <3>1. 1 .. k \in SUBSET (1 .. n) /\ k \in 1 .. k /\ \A x \in 1 .. k : x <= k
        BY <1>1
      <3>2. Max(1 .. k) = k
        BY <3>1, <1>1, MaxIs
      <3>3. (1 .. k) \ {k} = 1 .. k - 1
        BY <1>1
      <3>4. QED
        BY <3>1, <3>2, <3>3
    <2>3. g[1 .. k] = Turn(ops, g[1 .. k - 1], Tail(expr)[k])
      BY <2>2, <1>3 DEF FoldStep
    <2>4. QED
      BY <2>1, <2>3, <1>1
  <1>6. a[Len(expr)] = g[1 .. n]
    BY <1>1
  <1>7. IsTrace(expr, ops, a)
    BY <1>4, <1>5 DEF IsTrace
  <1> HIDE DEF a
  <1>8. QED
    BY <1>2, <1>6, <1>7

--------------------------------------------------------------------------------
(* What a pass yields, and how it goes on when there is one more term. *)

LEMMA FirstOfAppend ==
  ASSUME NEW s \in Seq(AnyTerm), NEW t \in AnyTerm
  PROVE  /\ Append(s, t) \in Seq(AnyTerm) /\ Append(s, t) # <<>>
         /\ Append(s, t)[1] = IF s = <<>> THEN t ELSE s[1]
  <1>1. CASE s = <<>>
    BY <1>1, AppendProperties
  <1>2. CASE s # <<>>
    <2>1. 1 \in 1 .. Len(s)
      BY <1>2
    <2>2. QED
      BY <2>1, <1>2, AppendProperties
  <1>3. QED
    BY <1>1, <1>2

LEMMA ApplyInt ==
  ASSUME NEW i \in Children, NEW op \in Known[i], NEW x \in Int, NEW y \in Int
  PROVE  Apply(op, x, y) \in Int
  <1>1. op \in {"+", "-", "==", "<", "<=", ">", ">=", "&&"}
    BY DEF Children, Known
  <1>2. QED
    BY <1>1 DEF Apply

Accumulators == [parsed : Seq(AnyTerm), held : AnyTerm]

LEMMA TurnTyped ==
  ASSUME NEW i \in Children, NEW acc \in Accumulators, NEW t \in AnyTerm
  PROVE  /\ Turn(Known[i], acc, t) \in Accumulators
         /\ t.op \in Known[i] =>
              /\ Turn(Known[i], acc, t).parsed = acc.parsed
              /\ Turn(Known[i], acc, t).held =
                   [op |-> acc.held.op, num |-> Apply(t.op, acc.held.num, t.num)]
         /\ t.op \notin Known[i] =>
              /\ Turn(Known[i], acc, t).parsed = Append(acc.parsed, acc.held)
              /\ Turn(Known[i], acc, t).held = t
  <1>1. /\ acc = [parsed |-> acc.parsed, held |-> acc.held]
        /\ acc.parsed \in Seq(AnyTerm) /\ acc.held \in AnyTerm
    BY DEF Accumulators
  <1>2. /\ acc.held = [op |-> acc.held.op, num |-> acc.held.num]
        /\ acc.held.op \in Symbols /\ acc.held.num \in Int /\ t.num \in Int
    BY <1>1 DEF AnyTerm
  <1>3. CASE t.op \in Known[i]
    <2> DEFINE x == Apply(t.op, acc.held.num, t.num)
               h == [op |-> acc.held.op, num |-> x]
    <2>1. x \in Int
      BY <1>2, <1>3, ApplyInt
    <2>2. Turn(Known[i], acc, t) = [acc EXCEPT !.held = [acc.held EXCEPT !.num = x]]
      BY <1>3 DEF Turn
    <2> HIDE DEF x
    <2>3. [acc.held EXCEPT !.num = x] = h /\ h \in AnyTerm
      BY <1>2, <2>1 DEF AnyTerm
    <2> HIDE DEF h
    <2>4. Turn(Known[i], acc, t) = [parsed |-> acc.parsed, held |-> h]
      BY <2>2, <2>3, <1>1
    <2>5. QED
      BY <2>3, <2>4, <1>1, <1>3 DEF Accumulators, h, x
  <1>4. CASE t.op \notin Known[i]
    <2>1. Turn(Known[i], acc, t) = [parsed |-> Append(acc.parsed, acc.held), held |-> t]
      BY <1>4 DEF Turn
    <2>2. Append(acc.parsed, acc.held) \in Seq(AnyTerm)
      BY <1>1
    <2>3. QED
      BY <2>1, <2>2, <1>4 DEF Accumulators
  <1>5. QED
    BY <1>3, <1>4

(* The loop keeps the operator in front of the first number. *)
Starts(acc, op) == (IF acc.parsed = <<>> THEN acc.held ELSE acc.parsed[1]).op = op

LEMMA TraceTyped ==
  ASSUME NEW expr \in Seq(AnyTerm), expr # <<>>, NEW i \in Children,
         NEW a, IsTrace(expr, Known[i], a)
  PROVE  \A k \in 1 .. Len(expr) : a[k] \in Accumulators /\ Starts(a[k], expr[1].op)
  <1> DEFINE S == {k \in 1 .. Len(expr) : a[k] \in Accumulators /\ Starts(a[k], expr[1].op)}
  <1>1. Len(expr) \in Nat /\ Len(expr) # 0 /\ \A k \in 1 .. Len(expr) : expr[k] \in AnyTerm
    BY ElementOfSeq
  <1>2. a[1] = [parsed |-> <<>>, held |-> expr[1]]
    BY DEF IsTrace, First
  <1>3. 1 \in S
    <2>1. 1 \in 1 .. Len(expr) /\ <<>> \in Seq(AnyTerm)
      BY <1>1
    <2>2. a[1] \in Accumulators /\ a[1].parsed = <<>> /\ a[1].held = expr[1]
      BY <2>1, <1>1, <1>2 DEF Accumulators
    <2>3. QED
      BY <2>1, <2>2 DEF Starts
  <1>4. ASSUME NEW k \in 1 .. Len(expr) - 1, k \in S PROVE k + 1 \in S
    <2>1. PICK acc \in Accumulators : acc = a[k] /\ Starts(acc, expr[1].op)
      BY <1>4
    <2>2. PICK t \in AnyTerm : t = expr[k + 1]
      BY <1>1
    <2> DEFINE new == Turn(Known[i], acc, t)
    <2>3. a[k + 1] = new /\ k + 1 \in 1 .. Len(expr)
      BY <2>1, <2>2, <1>1 DEF IsTrace
    <2>4. /\ new \in Accumulators
          /\ t.op \in Known[i] =>
               /\ new.parsed = acc.parsed
               /\ new.held = [op |-> acc.held.op, num |-> Apply(t.op, acc.held.num, t.num)]
          /\ t.op \notin Known[i] => new.parsed = Append(acc.parsed, acc.held)
      BY TurnTyped
    <2> HIDE DEF new
    <2>5. acc.parsed \in Seq(AnyTerm) /\ acc.held \in AnyTerm
      BY DEF Accumulators
    <2>6. Starts(new, expr[1].op)
      <3>1. CASE t.op \in Known[i]
        <4>1. new.parsed = acc.parsed /\ new.held.op = acc.held.op
          BY <3>1, <2>4
        <4>2. QED
          BY <4>1, <2>1 DEF Starts
      <3>2. CASE t.op \notin Known[i]
        <4>1. new.parsed = Append(acc.parsed, acc.held)
          BY <3>2, <2>4
        <4>2. /\ new.parsed # <<>>
              /\ new.parsed[1] = IF acc.parsed = <<>> THEN acc.held ELSE acc.parsed[1]
          BY <4>1, <2>5, FirstOfAppend
        <4>3. QED
          BY <4>2, <2>1 DEF Starts
      <3>3. QED
        BY <3>1, <3>2
    <2>7. QED
      BY <2>3, <2>4, <2>6
  <1>5. 1 .. Len(expr) \subseteq S
    <2> HIDE DEF S
    <2>1. QED
      BY <1>1, <1>3, <1>4, InductionUpTo
  <1>6. QED
    BY <1>5

(* A pass turns an expression into one that begins with the same operator. *)
LEMMA ParseTyped ==
  ASSUME NEW expr \in Seq(AnyTerm), expr # <<>>, NEW i \in Children
  PROVE  /\ ParseExpression(expr, Known[i]) \in Seq(AnyTerm)
         /\ ParseExpression(expr, Known[i]) # <<>>
         /\ ParseExpression(expr, Known[i])[1].op = expr[1].op
  <1>1. PICK a : /\ IsTrace(expr, Known[i], a)
                 /\ ParseExpression(expr, Known[i]) =
                      Append(a[Len(expr)].parsed, a[Len(expr)].held)
    BY PassTrace
  <1>2. Len(expr) \in 1 .. Len(expr)
    OBVIOUS
  <1>3. PICK acc \in Accumulators : acc = a[Len(expr)] /\ Starts(acc, expr[1].op)
    BY <1>1, <1>2, TraceTyped
  <1>4. acc.parsed \in Seq(AnyTerm) /\ acc.held \in AnyTerm
    BY DEF Accumulators
  <1>5. /\ Append(acc.parsed, acc.held) \in Seq(AnyTerm)
        /\ Append(acc.parsed, acc.held) # <<>>
        /\ Append(acc.parsed, acc.held)[1] =
             IF acc.parsed = <<>> THEN acc.held ELSE acc.parsed[1]
    BY <1>4, FirstOfAppend
  <1>6. QED
    BY <1>1, <1>3, <1>5 DEF Starts

(* What a child sends on is an expression again, and q if that was received. *)
LEMMA ProcessedTyped ==
  ASSUME NEW i \in Children, NEW m \in Seq(AnyTerm), m # <<>>
  PROVE  /\ Processed(i, m) \in Seq(AnyTerm) /\ Processed(i, m) # <<>>
         /\ IsQuit(Processed(i, m)) <=> IsQuit(m)
  BY ParseTyped DEF Processed, IsQuit

(* A message after the first s children. *)
Stage(m, s) ==
  IF s = 0 THEN m
  ELSE IF s = 1 THEN Processed(1, m)
  ELSE IF s = 2 THEN Processed(2, Processed(1, m))
  ELSE Processed(3, Processed(2, Processed(1, m)))

LEMMA StageFacts ==
  ASSUME NEW m \in Seq(AnyTerm), m # <<>>
  PROVE  /\ Stage(m, 0) = m
         /\ \A s \in 0 .. 3 : /\ Stage(m, s) \in Seq(AnyTerm) /\ Stage(m, s) # <<>>
                              /\ IsQuit(Stage(m, s)) <=> IsQuit(m)
         /\ \A i \in Children : Stage(m, i) = Processed(i, Stage(m, i - 1))
  <1> DEFINE one == Processed(1, m)
             two == Processed(2, one)
             three == Processed(3, two)
  <1>1. one \in Seq(AnyTerm) /\ one # <<>> /\ (IsQuit(one) <=> IsQuit(m))
    BY ProcessedTyped DEF Children
  <1>2. Stage(m, 0) = m /\ Stage(m, 1) = one /\ Stage(m, 2) = two /\ Stage(m, 3) = three
    BY DEF Stage
  <1> HIDE DEF one
  <1>3. two \in Seq(AnyTerm) /\ two # <<>> /\ (IsQuit(two) <=> IsQuit(m))
    BY <1>1, ProcessedTyped DEF Children
  <1> HIDE DEF two
  <1>4. three \in Seq(AnyTerm) /\ three # <<>> /\ (IsQuit(three) <=> IsQuit(m))
    BY <1>3, ProcessedTyped DEF Children
  <1> HIDE DEF three
  <1>5. ASSUME NEW s \in 0 .. 3
        PROVE  /\ Stage(m, s) \in Seq(AnyTerm) /\ Stage(m, s) # <<>>
               /\ IsQuit(Stage(m, s)) <=> IsQuit(m)
    <2>1. s = 0 \/ s = 1 \/ s = 2 \/ s = 3
      OBVIOUS
    <2>2. QED
      BY <2>1, <1>1, <1>2, <1>3, <1>4
  <1>6. ASSUME NEW i \in Children PROVE Stage(m, i) = Processed(i, Stage(m, i - 1))
    <2>1. i = 1 \/ i = 2 \/ i = 3
      BY DEF Children
    <2>2. 1 - 1 = 0 /\ 2 - 1 = 1 /\ 3 - 1 = 2
      OBVIOUS
    <2>3. one = Processed(1, m) /\ two = Processed(2, one) /\ three = Processed(3, two)
      BY DEF one, two, three
    <2>4. QED
      BY <2>1, <2>2, <2>3, <1>2
  <1>7. QED
    BY <1>2, <1>5, <1>6

LEMMA QuitFacts == Quit \in Seq(AnyTerm) /\ Quit # <<>> /\ IsQuit(Quit)
  <1>1. [op |-> "q", num |-> 0] \in AnyTerm
    BY DEF AnyTerm, Symbols
  <1>2. Quit \in Seq(AnyTerm) /\ Quit # <<>>
    BY <1>1 DEF Quit
  <1>3. IsQuit(Quit)
    BY DEF Quit, IsQuit
  <1>4. QED
    BY <1>2, <1>3

LEMMA WellFormedFacts ==
  ASSUME NEW e, WellFormed(e)
  PROVE  e \in Seq(AnyTerm) /\ e # <<>> /\ ~ IsQuit(e)
  <1>1. e \in Seq(AnyTerm) /\ e # <<>>
    BY DEF WellFormed
  <1>2. ~ IsQuit(e)
    BY DEF WellFormed, IsQuit
  <1>3. QED
    BY <1>1, <1>2

LEMMA ParseOne ==
  ASSUME NEW t \in AnyTerm, NEW ops
  PROVE  ParseExpression(<<t>>, ops) = <<t>>
  <1>1. <<t>> \in Seq(AnyTerm) /\ <<t>> # <<>> /\ Len(<<t>>) = 1 /\ Head(<<t>>) = t
    OBVIOUS
  <1>2. PICK a : /\ IsTrace(<<t>>, ops, a)
                 /\ ParseExpression(<<t>>, ops) = Append(a[1].parsed, a[1].held)
    BY <1>1, PassTrace
  <1>3. a[1] = [parsed |-> <<>>, held |-> t]
    BY <1>1, <1>2 DEF IsTrace, First
  <1>4. QED
    BY <1>2, <1>3

(* One more term: its number is added to the last one, or it stands alone.   *)
LEMMA ParseAppend ==
  ASSUME NEW x \in Seq(AnyTerm), x # <<>>, NEW t \in AnyTerm, NEW i \in Children,
         NEW p \in Seq(AnyTerm), NEW h \in AnyTerm,
         ParseExpression(x, Known[i]) = Append(p, h)
  PROVE  ParseExpression(Append(x, t), Known[i]) =
           IF t.op \in Known[i]
             THEN Append(p, [op |-> h.op, num |-> Apply(t.op, h.num, t.num)])
             ELSE Append(Append(p, h), t)
  <1> DEFINE y == Append(x, t)
             n == Len(x)
  <1>1. /\ y \in Seq(AnyTerm) /\ y # <<>> /\ Len(y) = n + 1 /\ n \in Nat /\ n # 0
        /\ \A k \in 1 .. n : y[k] = x[k]
        /\ y[n + 1] = t /\ Head(y) = Head(x)
    OBVIOUS
  <1> HIDE DEF y
  <1>2. PICK a : /\ IsTrace(x, Known[i], a)
                 /\ ParseExpression(x, Known[i]) = Append(a[n].parsed, a[n].held)
    BY PassTrace
  <1>3. PICK b : /\ IsTrace(y, Known[i], b)
                 /\ ParseExpression(y, Known[i]) = Append(b[n + 1].parsed, b[n + 1].held)
    BY <1>1, PassTrace
  <1>4. n \in {k \in 1 .. n : a[k] = b[k]}
    <2> DEFINE S == {k \in 1 .. n : a[k] = b[k]}
    <2>1. 1 \in S
      BY <1>1, <1>2, <1>3 DEF IsTrace, First
    <2>2. ASSUME NEW k \in 1 .. n - 1, k \in S PROVE k + 1 \in S
      <3>1. k \in 1 .. (n + 1) - 1 /\ k + 1 \in 1 .. n
        BY <1>1
      <3>2. /\ a[k + 1] = Turn(Known[i], a[k], x[k + 1])
            /\ b[k + 1] = Turn(Known[i], b[k], y[k + 1])
        BY <3>1, <1>1, <1>2, <1>3 DEF IsTrace
      <3>3. QED
        BY <3>1, <3>2, <2>2, <1>1
    <2> HIDE DEF S
    <2>3. 1 .. n \subseteq S
      BY <2>1, <2>2, <1>1, InductionUpTo
    <2>4. QED
      BY <2>3, <1>1 DEF S
  <1>5. b[n + 1] = Turn(Known[i], a[n], t)
    <2>1. a[n] = b[n] /\ n \in 1 .. (n + 1) - 1
      BY <1>1, <1>4
    <2>2. b[n + 1] = Turn(Known[i], b[n], y[n + 1])
      BY <2>1, <1>1, <1>3 DEF IsTrace
    <2>3. QED
      BY <2>1, <2>2, <1>1
  <1>6. PICK acc \in Accumulators : acc = a[n]
    BY <1>1, <1>2, TraceTyped
  <1>7. /\ acc.parsed \in Seq(AnyTerm) /\ acc.held \in AnyTerm
        /\ Append(acc.parsed, acc.held) = Append(p, h)
    BY <1>2, <1>6 DEF Accumulators
  <1>8. acc.parsed = p /\ acc.held = h
    BY <1>7, AppendInjective
  <1>9. QED
    BY <1>3, <1>5, <1>6, <1>8, TurnTyped, SMTT(30) DEF y

--------------------------------------------------------------------------------
(* The value, as the solution of the equations by which it is defined.       *)

Span(l, i, j) == [level |-> l, from |-> i, to |-> j]
Spans(expr) == [level : 0 .. 3, from : 1 .. Len(expr), to : 1 .. Len(expr)]
Operators(expr, s) == {k \in s.from + 1 .. s.to : expr[k].op \in Known[s.level]}
LastOp(expr, s) == Max(Operators(expr, s))

(* The spans that the value of a span is made of. *)
Below(s) == [s EXCEPT !.level = @ - 1]
LeftOf(expr, s) == [s EXCEPT !.to = LastOp(expr, s) - 1]
RightOf(expr, s) == [s EXCEPT !.level = @ - 1, !.from = LastOp(expr, s)]

ValueStep(expr, v, s) ==
  IF s.level = 0 THEN expr[s.from].num
  ELSE IF Operators(expr, s) = {} THEN v[Below(s)]
  ELSE Apply(expr[LastOp(expr, s)].op, v[LeftOf(expr, s)], v[RightOf(expr, s)])
IsValue(expr, v) == v = [s \in Spans(expr) |-> ValueStep(expr, v, s)]

LEMMA ValueIs ==
  ASSUME NEW expr, \E v : IsValue(expr, v)
  PROVE  \E v : IsValue(expr, v) /\ Value(expr) = v[Span(3, 1, Len(expr))]
  <1> DEFINE h == CHOOSE v : IsValue(expr, v)
  <1>1. IsValue(expr, h)
    OBVIOUS
  <1>2. Value(expr) = h[Span(3, 1, Len(expr))]
    BY DEF Value, IsValue, ValueStep, Spans, Span, Operators, LastOp, Below, LeftOf, RightOf
  <1>3. QED
    BY <1>1, <1>2

LEMMA SpanFacts ==
  ASSUME NEW expr, Len(expr) \in Nat, NEW l \in 0 .. 3,
         NEW i \in 1 .. Len(expr), NEW j \in 1 .. Len(expr)
  PROVE  /\ Span(l, i, j) \in Spans(expr)
         /\ Operators(expr, Span(l, i, j)) = {k \in i + 1 .. j : expr[k].op \in Known[l]}
         /\ Below(Span(l, i, j)) = Span(l - 1, i, j)
         /\ LeftOf(expr, Span(l, i, j)) = Span(l, i, LastOp(expr, Span(l, i, j)) - 1)
         /\ RightOf(expr, Span(l, i, j)) = Span(l - 1, LastOp(expr, Span(l, i, j)), j)
  <1>1. Span(l, i, j) \in Spans(expr)
    BY DEF Span, Spans
  <1>2. /\ Span(l, i, j).level = l /\ Span(l, i, j).from = i /\ Span(l, i, j).to = j
        /\ Span(l, i, j) = [level |-> l, from |-> i, to |-> j]
    BY DEF Span
  <1>3. Operators(expr, Span(l, i, j)) = {k \in i + 1 .. j : expr[k].op \in Known[l]}
    BY <1>2 DEF Operators
  <1>4. Below(Span(l, i, j)) = Span(l - 1, i, j)
    BY DEF Span, Below
  <1>5. LeftOf(expr, Span(l, i, j)) = Span(l, i, LastOp(expr, Span(l, i, j)) - 1)
    <2>1. PICK k : k = LastOp(expr, Span(l, i, j))
      OBVIOUS
    <2>2. LeftOf(expr, Span(l, i, j)) = [Span(l, i, j) EXCEPT !.to = k - 1]
      BY <2>1 DEF LeftOf
    <2>3. QED
      BY <2>1, <2>2 DEF Span
  <1>6. RightOf(expr, Span(l, i, j)) = Span(l - 1, LastOp(expr, Span(l, i, j)), j)
    <2>1. PICK k : k = LastOp(expr, Span(l, i, j))
      OBVIOUS
    <2>2. RightOf(expr, Span(l, i, j)) = [Span(l, i, j) EXCEPT !.level = @ - 1, !.from = k]
      BY <2>1 DEF RightOf
    <2>3. QED
      BY <2>1, <2>2 DEF Span
  <1>7. QED
    BY <1>1, <1>3, <1>4, <1>5, <1>6

LEMMA LastFacts ==
  ASSUME NEW expr, Len(expr) \in Nat, NEW l \in 0 .. 3,
         NEW i \in 1 .. Len(expr), NEW j \in 1 .. Len(expr),
         Operators(expr, Span(l, i, j)) # {}
  PROVE  /\ LastOp(expr, Span(l, i, j)) \in i + 1 .. j
         /\ expr[LastOp(expr, Span(l, i, j))].op \in Known[l]
         /\ \A k \in i + 1 .. j : expr[k].op \in Known[l] => k <= LastOp(expr, Span(l, i, j))
  <1> DEFINE S == {k \in i + 1 .. j : expr[k].op \in Known[l]}
  <1>1. Operators(expr, Span(l, i, j)) = S
    BY SpanFacts
  <1>2. S \in SUBSET (1 .. Len(expr)) /\ S # {}
    BY <1>1
  <1>3. Max(S) \in S /\ \A k \in S : k <= Max(S)
    <2> HIDE DEF S
    <2>1. QED
      BY <1>2, MaxFacts
  <1>4. QED
    BY <1>1, <1>3 DEF LastOp

(* The three equations, for a solution v. *)
LEMMA ValueAt ==
  ASSUME NEW expr, Len(expr) \in Nat, NEW v, IsValue(expr, v), NEW l \in 0 .. 3,
         NEW i \in 1 .. Len(expr), NEW j \in 1 .. Len(expr)
  PROVE  /\ v[Span(l, i, j)] = ValueStep(expr, v, Span(l, i, j))
         /\ Span(l, i, j).level = l /\ Span(l, i, j).from = i
  BY SpanFacts DEF IsValue, Span

LEMMA ValueOfNumber ==
  ASSUME NEW expr, Len(expr) \in Nat, NEW v, IsValue(expr, v),
         NEW i \in 1 .. Len(expr), NEW j \in 1 .. Len(expr)
  PROVE  v[Span(0, i, j)] = expr[i].num
  <1>1. 0 \in 0 .. 3
    OBVIOUS
  <1>2. QED
    BY <1>1, ValueAt DEF ValueStep

LEMMA ValueBelow ==
  ASSUME NEW expr, Len(expr) \in Nat, NEW v, IsValue(expr, v), NEW l \in 1 .. 3,
         NEW i \in 1 .. Len(expr), NEW j \in 1 .. Len(expr),
         \A k \in i + 1 .. j : expr[k].op \notin Known[l]
  PROVE  v[Span(l, i, j)] = v[Span(l - 1, i, j)]
  <1>1. l \in 0 .. 3 /\ l # 0
    OBVIOUS
  <1>2. Operators(expr, Span(l, i, j)) = {} /\ Below(Span(l, i, j)) = Span(l - 1, i, j)
    BY <1>1, SpanFacts
  <1>3. v[Span(l, i, j)] = ValueStep(expr, v, Span(l, i, j)) /\ Span(l, i, j).level = l
    BY <1>1, ValueAt
  <1>4. QED
    BY <1>1, <1>2, <1>3 DEF ValueStep

LEMMA ValueOfOperator ==
  ASSUME NEW expr, Len(expr) \in Nat, NEW v, IsValue(expr, v), NEW l \in 1 .. 3,
         NEW i \in 1 .. Len(expr), NEW j \in 1 .. Len(expr), NEW k \in i + 1 .. j,
         expr[k].op \in Known[l],
         \A m \in k + 1 .. j : expr[m].op \notin Known[l]
  PROVE  v[Span(l, i, j)] =
           Apply(expr[k].op, v[Span(l, i, k - 1)], v[Span(l - 1, k, j)])
  <1>1. l \in 0 .. 3 /\ l # 0
    OBVIOUS
  <1>2. Operators(expr, Span(l, i, j)) # {}
    BY <1>1, SpanFacts, SMTT(30)
  <1>3. PICK m \in i + 1 .. j : /\ m = LastOp(expr, Span(l, i, j)) /\ expr[m].op \in Known[l]
                                /\ k <= m
    BY <1>1, <1>2, LastFacts
  <1>4. m = k
    BY <1>3
  <1>5. /\ LeftOf(expr, Span(l, i, j)) = Span(l, i, LastOp(expr, Span(l, i, j)) - 1)
        /\ RightOf(expr, Span(l, i, j)) = Span(l - 1, LastOp(expr, Span(l, i, j)), j)
    BY <1>1, SpanFacts
  <1>6. /\ LeftOf(expr, Span(l, i, j)) = Span(l, i, k - 1)
        /\ RightOf(expr, Span(l, i, j)) = Span(l - 1, k, j)
    BY <1>3, <1>4, <1>5
  <1>7. v[Span(l, i, j)] = ValueStep(expr, v, Span(l, i, j)) /\ Span(l, i, j).level = l
    BY <1>1, ValueAt
  <1>8. QED
    BY <1>1, <1>2, <1>3, <1>4, <1>6, <1>7 DEF ValueStep

(* A solution exists: the spans a value is made of are shorter or of a lower *)
(* level.                                                                    *)
LEMMA ValueExists ==
  ASSUME NEW expr, Len(expr) \in Nat
  PROVE  \E v : IsValue(expr, v)
  <1> DEFINE n == Len(expr)
             W(s) == s.level + s.to - s.from + n
             F(v, s) == ValueStep(expr, v, s)
             Upto(v, m) == \A s \in Spans(expr) : W(s) <= m => v[s] = F(v, s)
             S == {m \in Nat : \E v : Upto(v, m) /\ v = [s \in Spans(expr) |-> v[s]]}
  <1>1. \A s \in Spans(expr) : W(s) \in Int /\ W(s) > 0 /\ W(s) <= 3 + n + n
    BY DEF Spans
  <1>2. ASSUME NEW s \in Spans(expr), s.level # 0
        PROVE  /\ Operators(expr, s) = {} => Below(s) \in Spans(expr) /\ W(Below(s)) < W(s)
               /\ Operators(expr, s) # {} =>
                    /\ LeftOf(expr, s) \in Spans(expr) /\ W(LeftOf(expr, s)) < W(s)
                    /\ RightOf(expr, s) \in Spans(expr) /\ W(RightOf(expr, s)) < W(s)
    <2>1. /\ s = Span(s.level, s.from, s.to) /\ s.level \in 0 .. 3
          /\ s.from \in 1 .. n /\ s.to \in 1 .. n
      BY DEF Spans, Span
    <2>2. PICK l \in 0 .. 3, i \in 1 .. n, j \in 1 .. n : s = Span(l, i, j) /\ l # 0
      BY <2>1, <1>2
    <2>3. \A a, b, c : W(Span(a, b, c)) = a + c - b + n
      BY DEF Span
    <2>4. l - 1 \in 0 .. 3
      BY <2>2
    <2>5. Below(s) = Span(l - 1, i, j) /\ Below(s) \in Spans(expr)
      BY <2>2, <2>4, SpanFacts
    <2>6. ASSUME Operators(expr, s) # {}
          PROVE  /\ LeftOf(expr, s) \in Spans(expr) /\ W(LeftOf(expr, s)) < W(s)
                 /\ RightOf(expr, s) \in Spans(expr) /\ W(RightOf(expr, s)) < W(s)
      <3>1. PICK k \in i + 1 .. j : k = LastOp(expr, s)
        BY <2>2, <2>6, LastFacts
      <3>2. k \in 1 .. n /\ k - 1 \in 1 .. n
        BY <3>1
      <3>3. LeftOf(expr, s) = Span(l, i, k - 1) /\ RightOf(expr, s) = Span(l - 1, k, j)
        BY <3>1, <2>2, SpanFacts
      <3>4. LeftOf(expr, s) \in Spans(expr) /\ RightOf(expr, s) \in Spans(expr)
        BY <3>2, <3>3, <2>4, SpanFacts
      <3>5. /\ W(LeftOf(expr, s)) = l + (k - 1) - i + n
            /\ W(RightOf(expr, s)) = (l - 1) + j - k + n
            /\ W(s) = l + j - i + n
        <4>1. /\ W(Span(l, i, k - 1)) = l + (k - 1) - i + n
              /\ W(Span(l - 1, k, j)) = (l - 1) + j - k + n
              /\ W(Span(l, i, j)) = l + j - i + n
          BY DEF Span
        <4> HIDE DEF W
        <4>2. QED
          BY <4>1, <3>3, <2>2
      <3> HIDE DEF W
      <3>6. W(LeftOf(expr, s)) < W(s) /\ W(RightOf(expr, s)) < W(s)
        <4>1. PICK x : x = W(LeftOf(expr, s)) /\ x = l + (k - 1) - i + n
          BY <3>5
        <4>2. PICK y : y = W(RightOf(expr, s)) /\ y = (l - 1) + j - k + n
          BY <3>5
        <4>3. PICK z : z = W(s) /\ z = l + j - i + n
          BY <3>5
        <4>4. l \in Int /\ i \in Int /\ j \in Int /\ k \in Int /\ n \in Int /\ k <= j /\ i < k
          BY <3>1
        <4>5. x < z /\ y < z
          BY <4>1, <4>2, <4>3, <4>4
        <4>6. QED
          BY <4>1, <4>2, <4>3, <4>5
      <3>7. QED
        BY <3>4, <3>6
    <2>7. W(Below(s)) < W(s)
      BY <2>2, <2>3, <2>5
    <2>8. QED
      BY <2>5, <2>6, <2>7
  <1>3. ASSUME NEW v, NEW w, NEW s \in Spans(expr),
               \A t \in Spans(expr) : W(t) < W(s) => v[t] = w[t]
        PROVE  F(v, s) = F(w, s)
    <2>1. CASE s.level = 0
      BY <2>1 DEF ValueStep
    <2>2. CASE s.level # 0 /\ Operators(expr, s) = {}
      <3>1. v[Below(s)] = w[Below(s)]
        BY <2>2, <1>2, <1>3
      <3>2. QED
        BY <3>1, <2>2 DEF ValueStep
    <2>3. CASE s.level # 0 /\ Operators(expr, s) # {}
      <3>1. v[LeftOf(expr, s)] = w[LeftOf(expr, s)] /\ v[RightOf(expr, s)] = w[RightOf(expr, s)]
        BY <2>3, <1>2, <1>3
      <3>2. QED
        BY <3>1, <2>3 DEF ValueStep
    <2>4. QED
      BY <2>1, <2>2, <2>3
  <1> HIDE DEF F, W
  <1>4. 0 \in S
    <2> DEFINE v == [s \in Spans(expr) |-> 0]
    <2>1. Upto(v, 0)
      BY <1>1
    <2>2. v = [s \in Spans(expr) |-> v[s]]
      OBVIOUS
    <2> HIDE DEF v
    <2>3. QED
      BY <2>1, <2>2
  <1>5. ASSUME NEW m \in Nat, m \in S PROVE m + 1 \in S
    <2>1. PICK v : Upto(v, m) /\ v = [s \in Spans(expr) |-> v[s]]
      BY <1>5
    <2> DEFINE w == [s \in Spans(expr) |-> IF W(s) <= m THEN v[s] ELSE F(v, s)]
    <2>2. ASSUME NEW s \in Spans(expr), W(s) <= m + 1 PROVE w[s] = F(w, s)
      <3>1. \A t \in Spans(expr) : W(t) < W(s) => v[t] = w[t]
        BY <1>1, <2>2
      <3>2. F(v, s) = F(w, s)
        BY <3>1, <1>3
      <3>3. W(s) <= m => v[s] = F(v, s)
        BY <2>1
      <3>4. QED
        BY <3>2, <3>3
    <2>3. w = [s \in Spans(expr) |-> w[s]]
      OBVIOUS
    <2> HIDE DEF w
    <2>4. QED
      BY <2>2, <2>3
  <1>6. 3 + n + n \in S
    <2> HIDE DEF S
    <2>1. Nat \subseteq S
      BY <1>4, <1>5, SetInduction
    <2>2. QED
      BY <2>1
  <1>7. PICK v : Upto(v, 3 + n + n) /\ v = [s \in Spans(expr) |-> v[s]]
    BY <1>6
  <1>8. \A s \in Spans(expr) : v[s] = F(v, s)
    BY <1>1, <1>7
  <1>9. v = [s \in Spans(expr) |-> F(v, s)]
    BY <1>7, <1>8
  <1>10. QED
    BY <1>9 DEF IsValue, F

--------------------------------------------------------------------------------
(* Three passes compute the value. *)

(* The operators the first l children know. *)
Low(l) == UNION {Known[m] : m \in 1 .. l}

LEMMA LowFacts ==
  /\ Low(0) = {}
  /\ \A l \in 1 .. 3 : Low(l) = Low(l - 1) \cup Known[l] /\ Low(l - 1) \cap Known[l] = {}
  <1>1. /\ Low(0) = {} /\ Low(1) = Known[1] /\ Low(2) = Known[1] \cup Known[2]
        /\ Low(3) = Known[1] \cup Known[2] \cup Known[3]
    <2>1. 1 .. 0 = {} /\ 1 .. 1 = {1} /\ 1 .. 2 = {1, 2} /\ 1 .. 3 = {1, 2, 3}
      OBVIOUS
    <2>2. QED
      BY <2>1 DEF Low
  <1>2. /\ Known[1] \cap Known[2] = {} /\ Known[1] \cap Known[3] = {}
        /\ Known[2] \cap Known[3] = {}
    BY DEF Known
  <1>3. QED
    BY <1>1, <1>2

(* The first l passes have put together the terms b to k, and none before. *)
Begins(expr, l, b, k) ==
  /\ b \in 1 .. k
  /\ b = 1 \/ expr[b].op \notin Low(l)
  /\ \A m \in b + 1 .. k : expr[m].op \in Low(l)

LEMMA BeginExists ==
  ASSUME NEW expr, NEW l, NEW k \in Nat \ {0}
  PROVE  \E b \in 1 .. k : Begins(expr, l, b, k)
  <1> DEFINE S == {b \in 1 .. k : b = 1 \/ expr[b].op \notin Low(l)}
  <1>1. 1 \in S /\ S \in SUBSET (1 .. k)
    OBVIOUS
  <1> HIDE DEF S
  <1>2. PICK b \in S : \A x \in S : x <= b
    BY <1>1, MaxFacts
  <1> USE DEF S
  <1>3. ASSUME NEW m \in b + 1 .. k PROVE expr[m].op \in Low(l)
    <2>1. m \in 1 .. k /\ ~ (m <= b)
      BY <1>2
    <2>2. QED
      BY <2>1, <1>2
  <1>4. QED
    BY <1>2, <1>3 DEF Begins

(* The terms b to k as the one term they become, and the prefixes of the     *)
(* expression after l passes.                                                *)
Operand(expr, v, l, b, k) == [op |-> expr[b].op, num |-> v[Span(l, b, k)]]
Ahead(x, b) == IF b = 1 THEN <<>> ELSE x[b - 1]
AfterPass(expr, v, l, x) ==
  /\ \A k \in 1 .. Len(expr) : x[k] \in Seq(AnyTerm) /\ x[k] # <<>>
  /\ \A k \in 1 .. Len(expr) : \A b \in 1 .. k :
       Begins(expr, l, b, k) => x[k] = Append(Ahead(x, b), Operand(expr, v, l, b, k))

LEMMA LastOfAppend ==
  ASSUME NEW p \in Seq(AnyTerm), NEW h, Append(p, h) \in Seq(AnyTerm)
  PROVE  h \in AnyTerm
  <1>1. /\ Len(Append(p, h)) = Len(p) + 1 /\ Append(p, h)[Len(p) + 1] = h
        /\ Len(p) + 1 \in 1 .. Len(p) + 1
    OBVIOUS
  <1>2. QED
    BY <1>1, ElementOfSeq

LEMMA PassPutsTogether ==
  ASSUME NEW expr, WellFormed(expr), NEW v, IsValue(expr, v), NEW l \in 1 .. 3,
         NEW x, AfterPass(expr, v, l - 1, x),
         NEW y, y = [k \in 1 .. Len(expr) |-> ParseExpression(x[k], Known[l])]
  PROVE  AfterPass(expr, v, l, y)
  <1> DEFINE n == Len(expr)
             Good(k) == \A b \in 1 .. k :
                          Begins(expr, l, b, k) =>
                            y[k] = Append(Ahead(y, b), Operand(expr, v, l, b, k))
             S == {k \in 1 .. n : \A j \in 1 .. k : Good(j)}
  <1>1. /\ n \in Nat /\ n # 0 /\ l \in Children
        /\ \A k \in 2 .. n : expr[k].op \in Low(3)
        /\ Low(l) = Low(l - 1) \cup Known[l] /\ Low(l - 1) \cap Known[l] = {}
    <2>1. Low(l) = Low(l - 1) \cup Known[l] /\ Low(l - 1) \cap Known[l] = {}
      BY LowFacts
    <2>2. expr \in Seq(AnyTerm) /\ expr # <<>> /\ \A k \in 2 .. n : expr[k].op \in Low(3)
      BY DEF WellFormed, Low, Children
    <2>3. n \in Nat /\ n # 0
      BY <2>2
    <2>4. l \in Children
      BY DEF Children
    <2>5. QED
      BY <2>1, <2>2, <2>3, <2>4
  <1>2. ASSUME NEW k \in 1 .. n
        PROVE  /\ x[k] \in Seq(AnyTerm) /\ x[k] # <<>>
               /\ y[k] = ParseExpression(x[k], Known[l])
               /\ y[k] \in Seq(AnyTerm) /\ y[k] # <<>>
    <2>1. x[k] \in Seq(AnyTerm) /\ x[k] # <<>>
      BY DEF AfterPass
    <2>2. y[k] = ParseExpression(x[k], Known[l])
      OBVIOUS
    <2>3. QED
      BY <2>1, <2>2, <1>1, ParseTyped
  <1>3. ASSUME NEW k \in 1 .. n, \A j \in 1 .. k - 1 : Good(j),
               NEW b \in 1 .. k, Begins(expr, l, b, k)
        PROVE  y[k] = Append(Ahead(y, b), Operand(expr, v, l, b, k))
    <2>1. PICK c \in 1 .. k : Begins(expr, l - 1, c, k)
      <3>1. k \in Nat \ {0}
        OBVIOUS
      <3>2. QED
        BY <3>1, BeginExists
    <2> DEFINE t == Operand(expr, v, l - 1, c, k)
    <2>2. x[k] = Append(Ahead(x, c), t)
      BY <2>1 DEF AfterPass
    <2>3. /\ \A m \in c + 1 .. k : expr[m].op \in Low(l - 1) /\ expr[m].op \notin Known[l]
          /\ \A m \in c + 1 .. k : expr[m].op \in Low(l)
          /\ c = 1 \/ expr[c].op \notin Low(l - 1)
          /\ b = 1 \/ expr[b].op \notin Low(l)
          /\ \A m \in b + 1 .. k : expr[m].op \in Low(l)
      BY <2>1, <1>1, <1>3 DEF Begins
    <2>4. b <= c
      BY <2>3
    <2>5. Ahead(x, c) \in Seq(AnyTerm)
      <3>1. c # 1 => c - 1 \in 1 .. n
        OBVIOUS
      <3>2. QED
        BY <3>1, <1>2 DEF Ahead
    <2>6. t \in AnyTerm
      BY <2>2, <2>5, <1>2, LastOfAppend
    <2>7. t.op = expr[c].op /\ t.num = v[Span(l - 1, c, k)]
      BY DEF Operand
    <2>8. ASSUME b = c PROVE t = Operand(expr, v, l, b, k)
      <3>1. /\ b \in 1 .. n /\ k \in 1 .. n /\ n \in Nat
            /\ \A m \in b + 1 .. k : expr[m].op \notin Known[l]
        BY <2>3, <2>8, <1>1
      <3>2. v[Span(l, b, k)] = v[Span(l - 1, b, k)]
        BY <3>1, ValueBelow, SMTT(30)
      <3>3. QED
        BY <3>2, <2>8 DEF Operand
    <2> HIDE DEF t
    <2>9. CASE c = 1
      <3>1. b = 1 /\ Ahead(x, c) = <<>> /\ Ahead(y, b) = <<>>
        BY <2>4, <2>9 DEF Ahead
      <3>2. x[k] = <<t>> /\ Append(<<>>, t) = <<t>>
        BY <3>1, <2>2
      <3>3. y[k] = <<t>>
        BY <3>2, <2>6, <1>2, ParseOne
      <3>4. t = Operand(expr, v, l, b, k)
        BY <3>1, <2>8, <2>9
      <3>5. QED
        BY <3>1, <3>2, <3>3, <3>4
    <2>10. ASSUME c # 1, NEW a \in 1 .. c - 1, Begins(expr, l, a, c - 1)
           PROVE  y[k] = IF t.op \in Known[l]
                           THEN Append(Ahead(y, a),
                                       [op |-> expr[a].op,
                                        num |-> Apply(t.op, v[Span(l, a, c - 1)], t.num)])
                           ELSE Append(y[c - 1], t)
      <3> DEFINE p == Ahead(y, a)
                 h == Operand(expr, v, l, a, c - 1)
      <3>1. c - 1 \in 1 .. n /\ c - 1 \in 1 .. k - 1 /\ Ahead(x, c) = x[c - 1]
        BY <2>10 DEF Ahead
      <3>2. y[c - 1] = Append(p, h)
        BY <3>1, <2>10, <1>3
      <3>3. p \in Seq(AnyTerm)
        <4>1. a # 1 => a - 1 \in 1 .. n
          BY <3>1
        <4>2. QED
          BY <4>1, <1>2 DEF Ahead
      <3> HIDE DEF p
      <3>4. h \in AnyTerm
        BY <3>1, <3>2, <3>3, <1>2, LastOfAppend
      <3>5. h.op = expr[a].op /\ h.num = v[Span(l, a, c - 1)]
        BY DEF Operand
      <3> HIDE DEF h
      <3>6. ParseExpression(x[c - 1], Known[l]) = Append(p, h)
        BY <3>1, <3>2, <1>2
      <3>7. y[k] = ParseExpression(Append(x[c - 1], t), Known[l])
        BY <3>1, <2>2, <1>2
      <3>8. ParseExpression(Append(x[c - 1], t), Known[l]) =
              IF t.op \in Known[l]
                THEN Append(p, [op |-> h.op, num |-> Apply(t.op, h.num, t.num)])
                ELSE Append(Append(p, h), t)
        <4>1. PICK z : z = x[c - 1]
          OBVIOUS
        <4>2. /\ z \in Seq(AnyTerm) /\ z # <<>> /\ ParseExpression(z, Known[l]) = Append(p, h)
              /\ l \in Children /\ p \in Seq(AnyTerm) /\ h \in AnyTerm /\ t \in AnyTerm
          BY <4>1, <3>1, <3>3, <3>4, <3>6, <2>6, <1>1, <1>2
        <4>3. ParseExpression(Append(z, t), Known[l]) =
                IF t.op \in Known[l]
                  THEN Append(p, [op |-> h.op, num |-> Apply(t.op, h.num, t.num)])
                  ELSE Append(Append(p, h), t)
          BY <4>2, ParseAppend
        <4>4. QED
          BY <4>1, <4>3
      <3>9. QED
        BY <3>2, <3>5, <3>7, <3>8 DEF p
    <2>11. CASE c # 1 /\ expr[c].op \notin Known[l]
      <3>1. b = c
        BY <2>3, <2>4, <2>11, <1>1
      <3>2. t = Operand(expr, v, l, b, k)
        BY <3>1, <2>8
      <3>3. c - 1 \in Nat \ {0} /\ Ahead(y, b) = y[c - 1]
        BY <3>1, <2>11 DEF Ahead
      <3>4. PICK a \in 1 .. c - 1 : Begins(expr, l, a, c - 1)
        BY <3>3, BeginExists
      <3>5. y[k] = Append(y[c - 1], t)
        BY <3>4, <2>7, <2>10, <2>11
      <3>6. QED
        BY <3>2, <3>3, <3>5
    <2>12. CASE c # 1 /\ expr[c].op \in Known[l]
      <3>1. b # c
        BY <2>3, <2>12, <1>1
      <3>2. b \in 1 .. c - 1 /\ c \in b + 1 .. k /\ b \in 1 .. n
        BY <3>1, <2>4
      <3>3. Begins(expr, l, b, c - 1)
        BY <3>2, <2>3 DEF Begins
      <3>4. y[k] = Append(Ahead(y, b), [op |-> expr[b].op,
                                         num |-> Apply(t.op, v[Span(l, b, c - 1)], t.num)])
        BY <3>2, <3>3, <2>7, <2>10, <2>12
      <3>5. v[Span(l, b, k)] = Apply(expr[c].op, v[Span(l, b, c - 1)], v[Span(l - 1, c, k)])
        <4>1. \A m \in c + 1 .. k : expr[m].op \notin Known[l]
          BY <2>3
        <4>2. k \in 1 .. n /\ n \in Nat
          BY <1>1
        <4>3. QED
          BY <4>1, <4>2, <3>2, <2>12, ValueOfOperator, SMTT(30)
      <3>6. QED
        BY <3>4, <3>5, <2>7 DEF Operand
    <2>13. QED
      BY <2>9, <2>11, <2>12
  <1>4. 1 \in S
    <2>1. 1 .. 1 - 1 = {} /\ 1 .. 1 = {1} /\ 1 \in 1 .. n
      BY <1>1
    <2>2. QED
      BY <2>1, <1>3
  <1>5. ASSUME NEW k \in 1 .. n - 1, k \in S PROVE k + 1 \in S
    <2>1. k + 1 \in 1 .. n /\ (k + 1) - 1 = k /\ 1 .. k + 1 = (1 .. k) \cup {k + 1}
      BY <1>1
    <2>2. Good(k + 1)
      BY <2>1, <1>3, <1>5
    <2> HIDE DEF Good
    <2>3. QED
      BY <2>1, <2>2, <1>5
  <1>6. 1 .. n \subseteq S
    <2> HIDE DEF S
    <2>1. QED
      BY <1>1, <1>4, <1>5, InductionUpTo
  <1>7. \A k \in 1 .. n : Good(k)
    <2>1. SUFFICES ASSUME NEW k \in 1 .. n PROVE Good(k)
      OBVIOUS
    <2>2. k \in S /\ k \in 1 .. k
      BY <1>6
    <2> HIDE DEF Good
    <2>3. QED
      BY <2>2
  <1>8. QED
    BY <1>2, <1>7 DEF AfterPass
(* Before the first pass every prefix of the expression is as it was typed.  *)
LEMMA BeforePasses ==
  ASSUME NEW expr, WellFormed(expr), NEW v, IsValue(expr, v),
         NEW x, x = [k \in 1 .. Len(expr) |-> SubSeq(expr, 1, k)]
  PROVE  AfterPass(expr, v, 0, x)
  <1> DEFINE n == Len(expr)
  <1>1. expr \in Seq(AnyTerm) /\ n \in Nat
    <2>1. expr \in Seq(AnyTerm)
      BY DEF WellFormed
    <2>2. QED
      BY <2>1
  <1>2. ASSUME NEW k \in 1 .. n
        PROVE  /\ x[k] = SubSeq(expr, 1, k)
               /\ x[k] \in Seq(AnyTerm) /\ x[k] # <<>>
    <2>1. x[k] = SubSeq(expr, 1, k)
      OBVIOUS
    <2>2. 1 \in 1 .. n + 1 /\ k \in 0 .. n /\ 1 <= k
      BY <1>1
    <2>3. /\ SubSeq(expr, 1, k) \in Seq(AnyTerm)
          /\ Len(SubSeq(expr, 1, k)) = k
      BY <1>1, <2>2, SubSeqProperties
    <2>4. k # 0 /\ Len(<<>>) = 0
      OBVIOUS
    <2>5. SubSeq(expr, 1, k) # <<>>
      BY <2>3, <2>4
    <2>6. QED
      BY <2>1, <2>3, <2>5
  <1>3. ASSUME NEW k \in 1 .. n, NEW b \in 1 .. k, Begins(expr, 0, b, k)
        PROVE  x[k] = Append(Ahead(x, b), Operand(expr, v, 0, b, k))
    <2>1. b = k
      <3>1. \A m \in b + 1 .. k : FALSE
        BY <1>3, LowFacts DEF Begins
      <3>2. b # k => k \in b + 1 .. k
        OBVIOUS
      <3>3. QED
        BY <3>1, <3>2
    <2>2. expr[k] = Operand(expr, v, 0, b, k)
      <3>1. v[Span(0, k, k)] = expr[k].num
        BY <1>1, ValueOfNumber
      <3>2. expr[k] \in AnyTerm
        BY <1>1, ElementOfSeq
      <3>3. QED
        BY <2>1, <3>1, <3>2 DEF Operand, AnyTerm
    <2>3. CASE k = 1
      <3>1. SubSeq(expr, 1, k) = Append(<<>>, expr[k])
        <4>1. PICK s : s = SubSeq(expr, 1, k)
          OBVIOUS
        <4>2. s \in Seq(AnyTerm) /\ Len(s) = 1 /\ s[1] = expr[1]
          <5>1. 1 \in 1 .. n + 1 /\ k \in 0 .. n /\ k - 1 + 1 = 1 /\ 1 \in 1 .. 1 /\ 1 + 1 - 1 = 1
            BY <1>1, <2>3
          <5>2. QED
            BY <1>1, <2>3, <4>1, <5>1, SubSeqProperties
        <4>3. s = <<expr[1]>>
          BY <4>2
        <4>4. Append(<<>>, expr[1]) = <<expr[1]>>
          OBVIOUS
        <4>5. QED
          BY <4>1, <4>3, <4>4, <2>3
      <3>2. Ahead(x, b) = <<>>
        BY <2>1, <2>3 DEF Ahead
      <3>3. QED
        BY <3>1, <3>2, <1>2, <2>2
    <2>4. CASE k # 1
      <3>1. k - 1 \in 1 .. n /\ Ahead(x, b) = SubSeq(expr, 1, k - 1)
        BY <2>1, <2>4 DEF Ahead
      <3>2. SubSeq(expr, 1, k) = Append(SubSeq(expr, 1, k - 1), expr[k])
        BY <1>1, <2>4
      <3>3. QED
        BY <3>1, <3>2, <2>2
    <2>5. QED
      BY <2>3, <2>4
  <1>4. QED
    BY <1>2, <1>3 DEF AfterPass

(* util.c:ParseExpression with the operators of P1, P2 and P3 in a row: the   *)
(* one number left is the value by the usual precedences, for every          *)
(* expression of every length.                                               *)
THEOREM ThreePasses ==
  ASSUME NEW expr, WellFormed(expr)
  PROVE  Stage(expr, 3) = <<Number(Value(expr))>>
  <1> DEFINE n == Len(expr)
  <1>1. expr \in Seq(AnyTerm) /\ expr # <<>> /\ n \in Nat /\ n \in 1 .. n /\ ~ IsQuit(expr)
    <2>1. expr \in Seq(AnyTerm) /\ expr # <<>> /\ ~ IsQuit(expr)
      BY WellFormedFacts
    <2>2. n \in Nat /\ n # 0
      BY <2>1
    <2>3. QED
      BY <2>1, <2>2
  <1>2. PICK v : IsValue(expr, v) /\ Value(expr) = v[Span(3, 1, n)]
    <2>1. \E v : IsValue(expr, v)
      BY <1>1, ValueExists
    <2>2. QED
      BY <2>1, ValueIs
  <1> DEFINE x0 == [k \in 1 .. n |-> SubSeq(expr, 1, k)]
             x1 == [k \in 1 .. n |-> ParseExpression(x0[k], Known[1])]
             x2 == [k \in 1 .. n |-> ParseExpression(x1[k], Known[2])]
             x3 == [k \in 1 .. n |-> ParseExpression(x2[k], Known[3])]
  <1>3. AfterPass(expr, v, 3, x3)
    <2>1. AfterPass(expr, v, 1 - 1, x0)
      BY <1>2, BeforePasses
    <2> HIDE DEF x0
    <2>2. AfterPass(expr, v, 2 - 1, x1)
      BY <1>2, <2>1, 1 \in 1 .. 3, PassPutsTogether
    <2> HIDE DEF x1
    <2>3. AfterPass(expr, v, 3 - 1, x2)
      BY <1>2, <2>2, 2 \in 1 .. 3, PassPutsTogether
    <2> HIDE DEF x2
    <2>4. QED
      BY <1>2, <2>3, 3 \in 1 .. 3, PassPutsTogether
  <1>4. x3[n] = <<Number(Value(expr))>>
    <2>1. 1 \in 1 .. n /\ Begins(expr, 3, 1, n)
      <3>1. 1 \in 1 .. n /\ 1 + 1 = 2
        BY <1>1
      <3>2. QED
        BY <3>1 DEF Begins, WellFormed, Low, Children
    <2> HIDE DEF x3
    <2>2. x3[n] = Append(Ahead(x3, 1), Operand(expr, v, 3, 1, n))
      BY <1>1, <1>3, <2>1 DEF AfterPass
    <2>3. Ahead(x3, 1) = <<>>
      BY DEF Ahead
    <2>4. Operand(expr, v, 3, 1, n) = Number(Value(expr))
      BY <1>2 DEF Operand, Number, WellFormed
    <2>5. Append(<<>>, Number(Value(expr))) = <<Number(Value(expr))>>
      <3>1. PICK t : t = Number(Value(expr))
        OBVIOUS
      <3>2. Append(<<>>, t) = <<t>>
        OBVIOUS
      <3>3. QED
        BY <3>1, <3>2
    <2>6. QED
      BY <2>2, <2>3, <2>4, <2>5
  <1>5. x0[n] = expr
    BY <1>1
  <1> HIDE DEF x0
  <1> DEFINE m1 == Processed(1, expr)
             m2 == Processed(2, m1)
             m3 == Processed(3, m2)
  <1>6. m1 = x1[n] /\ m1 \in Seq(AnyTerm) /\ m1 # <<>> /\ ~ IsQuit(m1)
    <2>1. m1 \in Seq(AnyTerm) /\ m1 # <<>> /\ ~ IsQuit(m1)
      BY <1>1, 1 \in Children, ProcessedTyped DEF Children
    <2>2. QED
      BY <2>1, <1>1, <1>5 DEF Processed
  <1> HIDE DEF m1, x1
  <1>7. m2 = x2[n] /\ m2 \in Seq(AnyTerm) /\ m2 # <<>> /\ ~ IsQuit(m2)
    <2>1. m2 \in Seq(AnyTerm) /\ m2 # <<>> /\ ~ IsQuit(m2)
      BY <1>6, 2 \in Children, ProcessedTyped DEF Children
    <2>2. QED
      BY <2>1, <1>1, <1>6 DEF Processed
  <1> HIDE DEF m2, x2
  <1>8. m3 = x3[n]
    BY <1>1, <1>7 DEF Processed
  <1> HIDE DEF m3, x3
  <1>9. QED
    BY <1>4, <1>8 DEF m1, m2, m3, Stage
================================================================================
