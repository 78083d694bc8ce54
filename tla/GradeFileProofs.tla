---------------------------- MODULE GradeFileProofs ----------------------------
(***************************************************************************)
(* Machine-checked theorems about GradeFile, for every set of courses,     *)
(* every range of dates and grades and every length of the file.           *)
(***************************************************************************)
EXTENDS GradeFile, SequenceTheorems, WellFoundedInduction, TLAPS

(* Induction over the natural numbers, stated with sets: the theorems of    *)
(* the library take a predicate as a parameter, here it is the set of the   *)
(* numbers that satisfy it, which a proof can name like any other set.      *)

(* A nonempty set of natural numbers has a smallest element. *)
LEMMA Smallest ==
  ASSUME NEW T \in SUBSET Nat, T # {}
  PROVE  \E x \in T : \A y \in T : x <= y
  <1>1. PICK x \in T : \A y \in T : ~ (<<y, x>> \in OpToRel(<, Nat))
    BY NatLessThanWellFounded, WFMin
  <1>2. \A y \in T : ~ (y < x)
    BY <1>1 DEF OpToRel
  <1>3. QED
    BY <1>2

(* A set with 0 and the successor of each of its numbers has them all. *)
LEMMA SetInduction ==
  ASSUME NEW S, 0 \in S, \A n \in Nat : n \in S => n + 1 \in S
  PROVE  Nat \subseteq S
  <1>1. SUFFICES ASSUME Nat \ S # {} PROVE FALSE
    OBVIOUS
  <1>2. PICK x \in Nat \ S : \A y \in Nat \ S : x <= y
    BY <1>1, Smallest
  <1>3. x # 0 /\ x - 1 \in Nat
    BY <1>2
  <1>4. x - 1 \in S
    BY <1>2, <1>3
  <1>5. QED
    BY <1>2, <1>3, <1>4

--------------------------------------------------------------------------------
(* What is compared: a line, an entry that was typed, or a bound made for a  *)
(* search.                                                                   *)
Key == [name : Int, date : Int, grade : Int]

(* The order of the file. *)
Before(a, b) == a.name < b.name \/ (a.name = b.name /\ a.date > b.date)

--------------------------------------------------------------------------------
(* Comparators *)

LEMMA CmpNameDate ==
  ASSUME NEW a \in Key, NEW b \in Key
  PROVE  /\ CourseCmp(a, b, {"NAME", "DATE"}) \in Int
         /\ CourseCmp(a, b, {"NAME", "DATE"}) < 0 <=> Before(a, b)
         /\ CourseCmp(a, b, {"NAME", "DATE"}) > 0 <=> Before(b, a)
         /\ CourseCmp(a, b, {"NAME", "DATE"}) = 0 <=> a.name = b.name /\ a.date = b.date
  <1>1. /\ a.name \in Int /\ b.name \in Int /\ a.date \in Int /\ b.date \in Int
    BY DEF Key
  <1>2. CourseCmp(a, b, {"NAME", "DATE"}) =
          IF a.name - b.name # 0 THEN a.name - b.name ELSE b.date - a.date
    BY <1>1 DEF CourseCmp, FirstNonZero, DateCmp
  <1>3. QED
    BY <1>1, <1>2 DEF Before

LEMMA GradeCmpFacts == \A g, h \in Int : GradeCmp(g, h) \in Int
  BY DEF GradeCmp

LEMMA CmpAll ==
  ASSUME NEW a \in Key, NEW b \in Key
  PROVE  /\ CourseCmp(a, b, All) \in Int
         /\ Before(a, b) => CourseCmp(a, b, All) < 0
         /\ Before(b, a) => CourseCmp(a, b, All) > 0
         /\ ~ Before(a, b) /\ ~ Before(b, a) => a.name = b.name /\ a.date = b.date
  <1>1. /\ a.name \in Int /\ b.name \in Int /\ a.date \in Int /\ b.date \in Int
        /\ a.grade \in Int /\ b.grade \in Int
    BY DEF Key
  <1>2. GradeCmp(a.grade, b.grade) \in Int
    BY <1>1, GradeCmpFacts
  <1>3. CourseCmp(a, b, All) =
          IF a.name - b.name # 0 THEN a.name - b.name
          ELSE IF b.date - a.date # 0 THEN b.date - a.date ELSE GradeCmp(a.grade, b.grade)
    BY <1>1, <1>2 DEF CourseCmp, FirstNonZero, DateCmp, All
  <1>4. QED
    BY <1>1, <1>2, <1>3 DEF Before

LEMMA CmpNameGrade ==
  ASSUME NEW a \in Key, NEW b \in Key
  PROVE  /\ CourseCmp(a, b, {"NAME", "GRADE"}) \in Int
         /\ a.name < b.name => CourseCmp(a, b, {"NAME", "GRADE"}) < 0
         /\ a.name > b.name => CourseCmp(a, b, {"NAME", "GRADE"}) > 0
         /\ a.name = b.name =>
              CourseCmp(a, b, {"NAME", "GRADE"}) = GradeCmp(a.grade, b.grade)
  <1>1. /\ a.name \in Int /\ b.name \in Int /\ a.grade \in Int /\ b.grade \in Int
    BY DEF Key
  <1>2. GradeCmp(a.grade, b.grade) \in Int
    BY <1>1, GradeCmpFacts
  <1>3. CourseCmp(a, b, {"NAME", "GRADE"}) =
          IF a.name - b.name # 0 THEN a.name - b.name ELSE GradeCmp(a.grade, b.grade)
    BY <1>1, <1>2 DEF CourseCmp, FirstNonZero
  <1>4. QED
    BY <1>1, <1>2, <1>3

--------------------------------------------------------------------------------
(* SearchCourse.  The function it is defined by is the one solution of its   *)
(* recursion, which exists because the interval gets smaller with every turn *)
(* of the loop; what it returns is shown by induction on the interval.       *)

Cmp(f, c, mode, i) == CourseCmp(f[i], c, mode)
Mid(b) == (b.low + b.high) \div 2
Turn(f, c, mode, g, b) ==
  IF b.low >= b.high \/ Cmp(f, c, mode, Mid(b) + 1) = 0 THEN Mid(b)
  ELSE g[IF Cmp(f, c, mode, Mid(b) + 1) < 0 THEN [b EXCEPT !.low = Mid(b) + 1]
                                            ELSE [b EXCEPT !.high = Mid(b)]]
IsBisect(f, c, mode, g) == g = [b \in Bounds(f) |-> Turn(f, c, mode, g, b)]
Whole(f) == [low |-> 0, high |-> Len(f) - 1]

LEMMA SearchIsBisect ==
  ASSUME NEW f, NEW c, NEW mode, \E g : IsBisect(f, c, mode, g)
  PROVE  \E g : IsBisect(f, c, mode, g) /\ SearchCourse(f, c, mode) = g[Whole(f)]
  <1> DEFINE h == CHOOSE g : IsBisect(f, c, mode, g)
  <1>1. IsBisect(f, c, mode, h)
    OBVIOUS
  <1>2. SearchCourse(f, c, mode) = h[Whole(f)]
    BY DEF SearchCourse, IsBisect, Turn, Cmp, Mid, Whole
  <1>3. QED
    BY <1>1, <1>2

(* A turn goes on with a smaller interval, or not at all. *)
LEMMA TurnFacts ==
  ASSUME NEW f \in Seq(Key), Len(f) # 0, NEW c \in Key, NEW mode,
         \A i \in 1 .. Len(f) : Cmp(f, c, mode, i) \in Int,
         NEW b \in Bounds(f), b.low < b.high
  PROVE  /\ Mid(b) \in b.low .. b.high - 1 /\ Mid(b) + 1 \in 1 .. Len(f)
         /\ b.low \in Int /\ b.high \in Int
         /\ [b EXCEPT !.low = Mid(b) + 1] \in Bounds(f)
         /\ [b EXCEPT !.low = Mid(b) + 1].low = Mid(b) + 1
         /\ [b EXCEPT !.low = Mid(b) + 1].high = b.high
         /\ [b EXCEPT !.high = Mid(b)] \in Bounds(f)
         /\ [b EXCEPT !.high = Mid(b)].low = b.low
         /\ [b EXCEPT !.high = Mid(b)].high = Mid(b)
  <1>1. /\ Len(f) \in Nat /\ b.low \in 0 .. Len(f) - 1 /\ b.high \in 0 .. Len(f) - 1
        /\ b = [low |-> b.low, high |-> b.high]
    BY LenProperties DEF Bounds
  <1>2. Mid(b) \in b.low .. b.high - 1
    BY <1>1 DEF Mid
  <1>3. Mid(b) + 1 \in 0 .. Len(f) - 1 /\ Mid(b) \in 0 .. Len(f) - 1 /\ Mid(b) + 1 \in 1 .. Len(f)
    BY <1>1, <1>2
  <1>4. QED
    BY <1>1, <1>2, <1>3 DEF Bounds

LEMMA BisectExists ==
  ASSUME NEW f \in Seq(Key), Len(f) # 0, NEW c \in Key, NEW mode,
         \A i \in 1 .. Len(f) : Cmp(f, c, mode, i) \in Int
  PROVE  \E g : IsBisect(f, c, mode, g)
  <1> DEFINE T(g, b) == Turn(f, c, mode, g, b)
             Upto(g, n) == \A b \in Bounds(f) : b.high - b.low <= n => g[b] = T(g, b)
             S == {n \in Nat : \E g : Upto(g, n) /\ g = [b \in Bounds(f) |-> g[b]]}
             up(b) == [b EXCEPT !.low = Mid(b) + 1]
             down(b) == [b EXCEPT !.high = Mid(b)]
  <1>1. \A b \in Bounds(f) : b.low \in 0 .. Len(f) - 1 /\ b.high \in 0 .. Len(f) - 1
    BY DEF Bounds
  <1>2. Len(f) \in Nat
    BY LenProperties
  <1>3. ASSUME NEW b \in Bounds(f), b.low < b.high
        PROVE  /\ up(b) \in Bounds(f) /\ up(b).high - up(b).low <= b.high - b.low - 1
               /\ down(b) \in Bounds(f) /\ down(b).high - down(b).low <= b.high - b.low - 1
    <2>1. /\ Mid(b) \in b.low .. b.high - 1 /\ b.low \in Int /\ b.high \in Int
          /\ up(b) \in Bounds(f) /\ up(b).low = Mid(b) + 1 /\ up(b).high = b.high
          /\ down(b) \in Bounds(f) /\ down(b).low = b.low /\ down(b).high = Mid(b)
      BY <1>3, TurnFacts
    <2> HIDE DEF up, down
    <2>2. QED
      BY <2>1
  <1>4. ASSUME NEW g, NEW h, NEW b \in Bounds(f),
               b.low < b.high => g[up(b)] = h[up(b)] /\ g[down(b)] = h[down(b)]
        PROVE  T(g, b) = T(h, b)
    <2>1. CASE b.low < b.high
      BY <1>4, <2>1 DEF Turn
    <2>2. CASE ~ (b.low < b.high)
      <3>1. b.low >= b.high
        BY <2>2, <1>1
      <3>2. QED
        BY <3>1 DEF Turn
    <2>3. QED
      BY <2>1, <2>2
  <1> HIDE DEF T, up, down
  <1>5. 0 \in S
    <2> DEFINE g == [b \in Bounds(f) |-> T(f, b)]
    <2>1. ASSUME NEW b \in Bounds(f), b.high - b.low <= 0
          PROVE  g[b] = T(g, b)
      <3>1. ~ (b.low < b.high)
        BY <1>1, <2>1
      <3>2. T(f, b) = T(g, b)
        BY <3>1, <1>4
      <3>3. QED
        BY <3>2
    <2>2. g = [b \in Bounds(f) |-> g[b]]
      OBVIOUS
    <2>3. QED
      BY <2>1, <2>2
  <1>6. ASSUME NEW n \in Nat, n \in S PROVE n + 1 \in S
    <2>1. PICK g : Upto(g, n) /\ g = [b \in Bounds(f) |-> g[b]]
      BY <1>6
    <2> DEFINE h == [b \in Bounds(f) |-> IF b.high - b.low <= n THEN g[b] ELSE T(g, b)]
    <2>2. ASSUME NEW b \in Bounds(f), b.high - b.low <= n + 1
          PROVE  h[b] = T(h, b)
      <3>1. b.low < b.high => g[up(b)] = h[up(b)] /\ g[down(b)] = h[down(b)]
        <4>1. SUFFICES ASSUME b.low < b.high
                       PROVE  g[up(b)] = h[up(b)] /\ g[down(b)] = h[down(b)]
          OBVIOUS
        <4>2. /\ up(b) \in Bounds(f) /\ up(b).high - up(b).low <= n
              /\ down(b) \in Bounds(f) /\ down(b).high - down(b).low <= n
          <5>1. /\ up(b) \in Bounds(f) /\ up(b).high - up(b).low <= b.high - b.low - 1
                /\ down(b) \in Bounds(f) /\ down(b).high - down(b).low <= b.high - b.low - 1
            BY <4>1, <1>3
          <5>2. QED
            BY <5>1, <2>2, <1>1, SMTT(30)
        <4>3. QED
          BY <4>2
      <3>2. T(g, b) = T(h, b)
        BY <3>1, <1>4
      <3>3. g[b] = T(g, b) \/ ~ (b.high - b.low <= n)
        BY <2>1
      <3>4. QED
        BY <3>2, <3>3
    <2>3. h = [b \in Bounds(f) |-> h[b]]
      OBVIOUS
    <2> HIDE DEF h
    <2>4. Upto(h, n + 1)
      BY <2>2
    <2>5. QED
      BY <2>3, <2>4
  <1>7. Len(f) \in S
    <2> HIDE DEF S
    <2>1. Nat \subseteq S
      BY <1>5, <1>6, SetInduction
    <2>2. QED
      BY <2>1, <1>2
  <1>8. PICK g : Upto(g, Len(f)) /\ g = [b \in Bounds(f) |-> g[b]]
    BY <1>7
  <1>9. \A b \in Bounds(f) : b.high - b.low <= Len(f)
    BY <1>1, <1>2
  <1>10. \A b \in Bounds(f) : g[b] = T(g, b)
    BY <1>8, <1>9
  <1>11. g = [b \in Bounds(f) |-> T(g, b)]
    BY <1>8, <1>10
  <1>12. QED
    BY <1>11 DEF IsBisect, T

(* Where the search stops: at a line that compares equal, or between the     *)
(* lines that compare less and those that compare greater.  Nothing is       *)
(* assumed of the order of the file.                                         *)
Stops(f, c, mode, r) ==
  /\ r \in 0 .. Len(f) - 1
  /\ \/ Cmp(f, c, mode, r + 1) = 0
     \/ /\ r = 0 \/ Cmp(f, c, mode, r) < 0
        /\ r = Len(f) - 1 \/ Cmp(f, c, mode, r + 1) > 0

LEMMA BisectStops ==
  ASSUME NEW f \in Seq(Key), Len(f) # 0, NEW c \in Key, NEW mode,
         \A i \in 1 .. Len(f) : Cmp(f, c, mode, i) \in Int,
         NEW g, IsBisect(f, c, mode, g)
  PROVE  Stops(f, c, mode, g[Whole(f)])
  <1> DEFINE L == Len(f)
             C(i) == Cmp(f, c, mode, i)
             Between(b) == /\ b.low <= b.high /\ (b.low = 0 \/ C(b.low) < 0)
                           /\ b.high = L - 1 \/ C(b.high + 1) > 0
             S == {n \in Nat : \A b \in Bounds(f) :
                     Between(b) /\ b.high - b.low <= n => Stops(f, c, mode, g[b])}
  <1>1. L \in Nat /\ \A b \in Bounds(f) : b.low \in 0 .. L - 1 /\ b.high \in 0 .. L - 1
    BY LenProperties DEF Bounds
  <1>2. \A b \in Bounds(f) : g[b] = Turn(f, c, mode, g, b)
    BY DEF IsBisect
  <1>3. ASSUME NEW b \in Bounds(f), Between(b), b.low = b.high
        PROVE  Stops(f, c, mode, g[b])
    <2>1. Mid(b) = b.low
      BY <1>1, <1>3 DEF Mid
    <2>2. g[b] = b.low
      BY <2>1, <1>1, <1>2, <1>3 DEF Turn
    <2>3. QED
      BY <2>2, <1>1, <1>3 DEF Stops
  <1>4. ASSUME NEW b \in Bounds(f), C(Mid(b) + 1) = 0, Mid(b) \in 0 .. L - 1
        PROVE  Stops(f, c, mode, g[b])
    BY <1>2, <1>4 DEF Turn, Stops
  <1>5. 0 \in S
    BY <1>1, <1>3
  <1>6. ASSUME NEW n \in Nat, n \in S PROVE n + 1 \in S
    <2>1. SUFFICES ASSUME NEW b \in Bounds(f), Between(b), b.high - b.low <= n + 1
                   PROVE  Stops(f, c, mode, g[b])
      OBVIOUS
    <2>2. CASE b.low = b.high
      BY <2>1, <2>2, <1>3
    <2>3. CASE b.low # b.high
      <3> DEFINE up == [b EXCEPT !.low = Mid(b) + 1]
                 down == [b EXCEPT !.high = Mid(b)]
      <3>1. b.low < b.high
        BY <2>1, <2>3, <1>1
      <3>2. /\ Mid(b) \in b.low .. b.high - 1 /\ Mid(b) + 1 \in 1 .. L
            /\ up \in Bounds(f) /\ up.low = Mid(b) + 1 /\ up.high = b.high
            /\ down \in Bounds(f) /\ down.low = b.low /\ down.high = Mid(b)
        BY <3>1, TurnFacts
      <3>3. C(Mid(b) + 1) \in Int
        BY <3>2
      <3>4. g[b] = IF C(Mid(b) + 1) = 0 THEN Mid(b)
                   ELSE g[IF C(Mid(b) + 1) < 0 THEN up ELSE down]
        BY <3>1, <1>1, <1>2 DEF Turn
      <3> HIDE DEF up, down, C
      <3>5. CASE C(Mid(b) + 1) = 0
        BY <3>2, <3>5, <1>1, <1>4
      <3>6. CASE C(Mid(b) + 1) < 0
        <4>1. Between(up)
          BY <3>2, <3>6, <2>1, <1>1
        <4>2. up.high - up.low <= n
          BY <3>2, <2>1, <1>1, SMTT(30)
        <4>3. Stops(f, c, mode, g[up])
          BY <4>1, <4>2, <3>2, <1>6
        <4>4. QED
          BY <4>3, <3>4, <3>6
      <3>7. CASE C(Mid(b) + 1) > 0
        <4>1. Between(down)
          BY <3>2, <3>7, <2>1, <1>1
        <4>2. down.high - down.low <= n
          BY <3>2, <2>1, <1>1, SMTT(30)
        <4>3. Stops(f, c, mode, g[down])
          BY <4>1, <4>2, <3>2, <1>6
        <4>4. g[b] = g[down]
          <5>1. C(Mid(b) + 1) # 0 /\ ~ (C(Mid(b) + 1) < 0)
            BY <3>3, <3>7
          <5>2. QED
            BY <5>1, <3>4
        <4>5. QED
          BY <4>3, <4>4
      <3>8. QED
        BY <3>3, <3>5, <3>6, <3>7
    <2>4. QED
      BY <2>2, <2>3
  <1>7. L \in S
    <2> HIDE DEF S
    <2>1. Nat \subseteq S
      BY <1>5, <1>6, SetInduction
    <2>2. QED
      BY <2>1, <1>1
  <1>8. /\ Whole(f) \in Bounds(f) /\ Whole(f).low = 0 /\ Whole(f).high = L - 1
    BY <1>1 DEF Whole, Bounds
  <1>9. Between(Whole(f)) /\ Whole(f).high - Whole(f).low <= L
    BY <1>8, <1>1
  <1>10. QED
    BY <1>7, <1>8, <1>9

(* In any file, a search by name and date that does not meet its course and  *)
(* date ends where a search by name, date and grade does: up to there the    *)
(* grade was never looked at.                                                *)
LEMMA SamePath ==
  ASSUME NEW f \in Seq(Key), Len(f) # 0, NEW c \in Key,
         NEW g, IsBisect(f, c, {"NAME", "DATE"}, g), NEW h, IsBisect(f, c, All, h),
         Cmp(f, c, {"NAME", "DATE"}, g[Whole(f)] + 1) # 0
  PROVE  h[Whole(f)] = g[Whole(f)]
  <1> DEFINE L == Len(f)
             C(i) == Cmp(f, c, {"NAME", "DATE"}, i)
             A(i) == Cmp(f, c, All, i)
             S == {n \in Nat : \A b \in Bounds(f) :
                     b.low <= b.high /\ b.high - b.low <= n /\ C(g[b] + 1) # 0 => h[b] = g[b]}
  <1>1. L \in Nat /\ \A b \in Bounds(f) : b.low \in 0 .. L - 1 /\ b.high \in 0 .. L - 1
    BY LenProperties DEF Bounds
  <1>2. \A b \in Bounds(f) : /\ g[b] = Turn(f, c, {"NAME", "DATE"}, g, b)
                             /\ h[b] = Turn(f, c, All, h, b)
    BY DEF IsBisect
  <1>3. \A i \in 1 .. L : f[i] \in Key
    BY ElementOfSeq
  <1>4. \A i \in 1 .. L : /\ C(i) \in Int /\ A(i) \in Int
                          /\ C(i) < 0 => A(i) < 0
                          /\ C(i) > 0 => A(i) > 0
    BY <1>3, CmpNameDate, CmpAll DEF Cmp
  <1>5. ASSUME NEW b \in Bounds(f), b.low = b.high
        PROVE  h[b] = g[b]
    <2>1. b.low >= b.high
      BY <1>1, <1>5
    <2>2. g[b] = Mid(b) /\ h[b] = Mid(b)
      BY <2>1, <1>2 DEF Turn
    <2>3. QED
      BY <2>2
  <1>6. 0 \in S
    BY <1>1, <1>5
  <1>7. ASSUME NEW n \in Nat, n \in S PROVE n + 1 \in S
    <2>1. SUFFICES ASSUME NEW b \in Bounds(f), b.low <= b.high, b.high - b.low <= n + 1,
                          C(g[b] + 1) # 0
                   PROVE  h[b] = g[b]
      OBVIOUS
    <2>2. CASE b.low = b.high
      BY <2>2, <1>5
    <2>3. CASE b.low # b.high
      <3> DEFINE up == [b EXCEPT !.low = Mid(b) + 1]
                 down == [b EXCEPT !.high = Mid(b)]
      <3>1. b.low < b.high
        BY <2>1, <2>3, <1>1
      <3>2. /\ Mid(b) \in b.low .. b.high - 1 /\ Mid(b) + 1 \in 1 .. L
            /\ up \in Bounds(f) /\ up.low = Mid(b) + 1 /\ up.high = b.high
            /\ down \in Bounds(f) /\ down.low = b.low /\ down.high = Mid(b)
        BY <3>1, <1>4, TurnFacts
      <3>3. /\ g[b] = IF C(Mid(b) + 1) = 0 THEN Mid(b)
                      ELSE g[IF C(Mid(b) + 1) < 0 THEN up ELSE down]
            /\ h[b] = IF A(Mid(b) + 1) = 0 THEN Mid(b)
                      ELSE h[IF A(Mid(b) + 1) < 0 THEN up ELSE down]
        BY <3>1, <1>1, <1>2 DEF Turn
      <3>4. /\ C(Mid(b) + 1) \in Int /\ A(Mid(b) + 1) \in Int
            /\ C(Mid(b) + 1) < 0 => A(Mid(b) + 1) < 0
            /\ C(Mid(b) + 1) > 0 => A(Mid(b) + 1) > 0
        BY <3>2, <1>4
      <3> HIDE DEF up, down, C, A
      <3>5. C(Mid(b) + 1) # 0
        BY <3>3, <2>1
      <3>6. CASE C(Mid(b) + 1) < 0
        <4>1. g[b] = g[up] /\ h[b] = h[up]
          BY <3>3, <3>4, <3>6
        <4>2. up.low <= up.high /\ up.high - up.low <= n
          BY <3>2, <2>1, <1>1
        <4>3. QED
          BY <4>1, <4>2, <3>2, <2>1, <1>7
      <3>7. CASE C(Mid(b) + 1) > 0
        <4>1. g[b] = g[down] /\ h[b] = h[down]
          BY <3>3, <3>4, <3>7
        <4>2. down.low <= down.high /\ down.high - down.low <= n
          BY <3>2, <2>1, <1>1
        <4>3. QED
          BY <4>1, <4>2, <3>2, <2>1, <1>7
      <3>8. QED
        BY <3>4, <3>5, <3>6, <3>7
    <2>4. QED
      BY <2>2, <2>3
  <1>8. L \in S
    <2> HIDE DEF S
    <2>1. Nat \subseteq S
      BY <1>6, <1>7, SetInduction
    <2>2. QED
      BY <2>1, <1>1
  <1>9. /\ Whole(f) \in Bounds(f) /\ Whole(f).low = 0 /\ Whole(f).high = L - 1
    BY <1>1 DEF Whole, Bounds
  <1>10. Whole(f).low <= Whole(f).high /\ Whole(f).high - Whole(f).low <= L
    BY <1>1, <1>9
  <1>11. QED
    BY <1>8, <1>9, <1>10

(* The searches the program makes. *)
LEMMA SearchStops ==
  ASSUME NEW f \in Seq(Key), Len(f) # 0, NEW c \in Key,
         NEW mode \in {{"NAME", "DATE"}, {"NAME", "GRADE"}, All}
  PROVE  Stops(f, c, mode, SearchCourse(f, c, mode))
  <1>1. \A i \in 1 .. Len(f) : f[i] \in Key
    BY ElementOfSeq
  <1>2. \A i \in 1 .. Len(f) : Cmp(f, c, mode, i) \in Int
    BY <1>1, CmpNameDate, CmpNameGrade, CmpAll DEF Cmp
  <1>3. QED
    BY <1>2, BisectExists, SearchIsBisect, BisectStops

LEMMA SearchesAgree ==
  ASSUME NEW f \in Seq(Key), Len(f) # 0, NEW c \in Key,
         Cmp(f, c, {"NAME", "DATE"}, SearchCourse(f, c, {"NAME", "DATE"}) + 1) # 0
  PROVE  SearchCourse(f, c, All) = SearchCourse(f, c, {"NAME", "DATE"})
  <1>1. \A i \in 1 .. Len(f) : f[i] \in Key
    BY ElementOfSeq
  <1>2. \A i \in 1 .. Len(f) : Cmp(f, c, {"NAME", "DATE"}, i) \in Int /\ Cmp(f, c, All, i) \in Int
    BY <1>1, CmpNameDate, CmpAll DEF Cmp
  <1>3. PICK g : /\ IsBisect(f, c, {"NAME", "DATE"}, g)
                 /\ SearchCourse(f, c, {"NAME", "DATE"}) = g[Whole(f)]
    BY <1>2, BisectExists, SearchIsBisect
  <1>4. PICK h : IsBisect(f, c, All, h) /\ SearchCourse(f, c, All) = h[Whole(f)]
    BY <1>2, BisectExists, SearchIsBisect
  <1>5. QED
    BY <1>3, <1>4, SamePath

--------------------------------------------------------------------------------
(* Lines *)

LEMMA KeyFacts ==
  /\ Entries(Typed) \subseteq Key /\ Lines \subseteq Key
  /\ \A e \in Entries(Typed) :
       /\ Stored(e) \in Lines /\ Stored(e).name = e.name /\ Stored(e).date = e.date
       /\ e.name \in Names /\ e.date \in 1 .. Today
  /\ \A l \in Lines : l.name \in Names /\ l.date \in 1 .. Today /\ l.grade \in Int
  /\ \A n \in Names : Newest(n) \in Key /\ Newest(n).name = n /\ Newest(n).date = Today + 1
  <1>1. /\ Names \subseteq Int /\ Typed \subseteq Int /\ Today \in Int
        /\ \A g \in Typed : ((g + 5) \div 10) * 10 \in Int
    BY NameAssumption, GradeAssumption, DateAssumption
  <1>2. ASSUME NEW e \in Entries(Typed)
        PROVE  /\ e.name \in Names /\ e.date \in 1 .. Today /\ e.grade \in Typed
               /\ e \in Key
    <2>1. /\ e = [name |-> e.name, date |-> e.date, grade |-> e.grade]
          /\ e.name \in Names /\ e.date \in 1 .. Today /\ e.grade \in Typed
      BY DEF Entries
    <2>2. e.name \in Int /\ e.date \in Int /\ e.grade \in Int
      BY <2>1, <1>1
    <2>3. QED
      BY <2>1, <2>2 DEF Key
  <1>3. \A e \in Entries(Typed) :
          /\ Stored(e) = [name |-> e.name, date |-> e.date,
                          grade |-> ((e.grade + 5) \div 10) * 10]
    BY <1>2 DEF Stored, Entries
  <1>4. \A e \in Entries(Typed) :
          /\ Stored(e).name = e.name /\ Stored(e).date = e.date
          /\ Stored(e) \in Key /\ Stored(e).grade \in Int
    BY <1>1, <1>2, <1>3 DEF Key
  <1>5. \A n \in Names : Newest(n) \in Key /\ Newest(n).name = n /\ Newest(n).date = Today + 1
    BY <1>1 DEF Newest, Key
  <1>6. QED
    BY <1>2, <1>4, <1>5 DEF Lines

LEMMA GradeBound == \A l \in Lines : l.grade \in 0 .. 1000
  <1> DEFINE R == 0 .. 1000
  <1>1. SUFFICES ASSUME NEW e \in Entries(Typed) PROVE Stored(e).grade \in R
    BY DEF Lines
  <1>2. e.grade \in Typed
    BY DEF Entries
  <1>3. Typed \subseteq R
    BY GradeAssumption
  <1>4. Stored(e).grade = ((e.grade + 5) \div 10) * 10
    BY DEF Stored, Entries
  <1>5. \A g \in R : ((g + 5) \div 10) * 10 \in R
    OBVIOUS
  <1> HIDE DEF R
  <1>6. QED
    BY <1>2, <1>3, <1>4, <1>5

LEMMA KeyOrder ==
  /\ \A a, b, c \in Key : Before(a, b) /\ Before(b, c) => Before(a, c)
  /\ \A a, b \in Key : ~ (Before(a, b) /\ Before(b, a))
  BY DEF Key, Before

LEMMA WriteLineFacts ==
  ASSUME NEW S, NEW f \in Seq(S), NEW at \in 0 .. Len(f), NEW l \in S
  PROVE  /\ WriteLine(f, at, l) \in Seq(S)
         /\ Len(WriteLine(f, at, l)) = IF at = Len(f) THEN Len(f) + 1 ELSE Len(f)
         /\ WriteLine(f, at, l)[at + 1] = l
         /\ \A i \in 1 .. Len(f) : i # at + 1 => WriteLine(f, at, l)[i] = f[i]
  <1>1. Len(f) \in Nat
    OBVIOUS
  <1>2. CASE at = Len(f)
    <2>1. WriteLine(f, at, l) = Append(f, l)
      BY <1>2 DEF WriteLine
    <2>2. QED
      BY <2>1, <1>2
  <1>3. CASE at # Len(f)
    <2>1. WriteLine(f, at, l) = [f EXCEPT ![at + 1] = l] /\ at + 1 \in 1 .. Len(f)
      BY <1>1, <1>3 DEF WriteLine
    <2>2. QED
      BY <2>1, <1>3, ExceptSeq
  <1>4. QED
    BY <1>2, <1>3

--------------------------------------------------------------------------------
(* While lines are moved, one line of the file is free: it is a copy of its  *)
(* neighbour, or the line that is being deleted.                             *)
Hole == CASE pc \in {"push", "insert"}   -> pos + 1
          [] pc \in {"pull", "truncate"} -> pos
          [] pc = "menu"                 -> 0
Kept == (1 .. Len(file)) \ {Hole}

Shape ==
  /\ pc \in {"push", "insert"} =>
       /\ course \in Entries(Typed) /\ pos <= Len(file)
       /\ IF pos = Len(file) THEN Len(file) < MaxLines
          ELSE pos + 2 <= Len(file) /\ file[pos + 1] = file[pos + 2]
  /\ pc = "push" => \E k \in 1 .. pos : file[k] = sline
  /\ pc \in {"pull", "truncate"} => pos \in 1 .. Len(file) /\ line \in Lines
  /\ pc = "truncate" => pos = Len(file)

Keeps == \A e \in present : \E i \in Kept : file[i] = e

(* What holds of the other lines as long as the program was not killed. *)
Ordered(f, K) == \A i, j \in K : i < j => Before(f[i], f[j])
PassFirst(f, K, r) ==
  \A i, j \in K : i < j /\ f[i].name = f[j].name /\ f[i].name \notin r => ~ Passes(f[j])
Within(f, K, p) == \A i \in K : f[i] \in p

(* Where the new entry belongs, and what AddCourse has made sure of. *)
PushPlace ==
  Before(course, sline) /\ \A i \in Kept : Before(file[i], sline) => Before(file[i], course)
InsertPlace ==
  \A i \in Kept : IF i <= pos THEN Before(file[i], course) ELSE Before(course, file[i])
Accepted(f, K, c, r) ==
  c.name \notin r =>
    \A i \in K : f[i].name = c.name => ~ Passes(f[i]) /\ (Passes(c) => c.date > f[i].date)

Clean ==
  crashes = 0 =>
    /\ Ordered(file, Kept) /\ PassFirst(file, Kept, raised) /\ Within(file, Kept, present)
    /\ pc = "push" => PushPlace
    /\ pc = "insert" => InsertPlace
    /\ pc \in {"push", "insert"} => Accepted(file, Kept, course, raised)

FileInv == TypeOK /\ Shape /\ Keeps /\ Clean

LEMMA FileFacts ==
  ASSUME TypeOK
  PROVE  /\ file \in Seq(Lines) /\ Len(file) \in Nat /\ DOMAIN file = 1 .. Len(file)
         /\ file \in Seq(Key) /\ pos \in Nat
         /\ \A i \in 1 .. Len(file) : file[i] \in Lines /\ file[i] \in Key
  <1>1. file \in Seq(Lines) /\ pos \in Nat
    BY BoundAssumption DEF TypeOK
  <1>2. Lines \subseteq Key
    BY KeyFacts
  <1>3. file \in Seq(Key)
    BY <1>1, <1>2, SeqMonotonic
  <1>4. \A i \in 1 .. Len(file) : file[i] \in Lines
    BY <1>1, ElementOfSeq
  <1>5. QED
    BY <1>1, <1>2, <1>3, <1>4, LenProperties

LEMMA InitFileInv == Init => FileInv
  <1> SUFFICES ASSUME Init PROVE FileInv
    OBVIOUS
  <1>1. file \in Seq(Lines) /\ Len(file) = 0 /\ Len(file) <= MaxLines
    BY BoundAssumption DEF Init
  <1>2. TypeOK
    BY <1>1, BoundAssumption DEF Init, TypeOK
  <1>3. Kept = {}
    BY <1>1 DEF Kept
  <1>4. QED
    BY <1>2, <1>3
    DEF Init, FileInv, Shape, Keeps, Clean, Ordered, PassFirst, Within

(* Lines that are moved without changing their order stay in order. *)
LEMMA MovedLines ==
  ASSUME NEW f, NEW g, NEW K, NEW J, NEW o \in [J -> K],
         \A i \in J : g[i] = f[o[i]],
         \A i, j \in J : i < j => o[i] < o[j]
  PROVE  /\ Ordered(f, K) => Ordered(g, J)
         /\ \A r : PassFirst(f, K, r) => PassFirst(g, J, r)
         /\ \A p : Within(f, K, p) => Within(g, J, p)
         /\ \A c, r : Accepted(f, K, c, r) => Accepted(g, J, c, r)
  <1>1. Ordered(f, K) => Ordered(g, J)
    BY DEF Ordered
  <1>2. ASSUME NEW r, PassFirst(f, K, r) PROVE PassFirst(g, J, r)
    BY <1>2 DEF PassFirst
  <1>3. ASSUME NEW p, Within(f, K, p) PROVE Within(g, J, p)
    BY <1>3 DEF Within
  <1>4. ASSUME NEW c, NEW r, Accepted(f, K, c, r) PROVE Accepted(g, J, c, r)
    BY <1>4 DEF Accepted
  <1>5. QED
    BY <1>1, <1>2, <1>3, <1>4

--------------------------------------------------------------------------------
(* What the searches find in a file that is in order. *)

(* An entry whose course and date the search did not meet belongs next to    *)
(* the line where the search stopped.                                        *)
LEMMA SearchPlaces ==
  ASSUME NEW f \in Seq(Key), Len(f) # 0, Ordered(f, 1 .. Len(f)), NEW c \in Key,
         NEW r, r = SearchCourse(f, c, {"NAME", "DATE"}),
         CourseCmp(f[r + 1], c, {"NAME", "DATE"}) # 0
  PROVE  /\ r \in 0 .. Len(f) - 1
         /\ \A i \in 1 .. Len(f) : /\ i <= r => Before(f[i], c)
                                   /\ i > r + 1 => Before(c, f[i])
         /\ Before(f[r + 1], c) => r = Len(f) - 1
         /\ Before(f[r + 1], c) \/ Before(c, f[r + 1])
  <1>1. Stops(f, c, {"NAME", "DATE"}, r)
    BY SearchStops
  <1>2. Len(f) \in Nat /\ r \in 0 .. Len(f) - 1 /\ r + 1 \in 1 .. Len(f)
    BY <1>1, LenProperties DEF Stops
  <1>3. \A i \in 1 .. Len(f) : f[i] \in Key
    BY ElementOfSeq
  <1>4. /\ f[r + 1] \in Key /\ CourseCmp(f[r + 1], c, {"NAME", "DATE"}) \in Int
        /\ CourseCmp(f[r + 1], c, {"NAME", "DATE"}) < 0 <=> Before(f[r + 1], c)
        /\ CourseCmp(f[r + 1], c, {"NAME", "DATE"}) > 0 <=> Before(c, f[r + 1])
    BY <1>2, <1>3, CmpNameDate
  <1>5. r # 0 => r \in 1 .. Len(f) /\ f[r] \in Key /\ Before(f[r], c)
    <2>1. SUFFICES ASSUME r # 0 PROVE r \in 1 .. Len(f) /\ f[r] \in Key /\ Before(f[r], c)
      OBVIOUS
    <2>2. r \in 1 .. Len(f) /\ f[r] \in Key
      BY <2>1, <1>2, <1>3
    <2>3. CourseCmp(f[r], c, {"NAME", "DATE"}) < 0
      BY <2>1, <1>1, <1>4 DEF Stops, Cmp
    <2>4. QED
      BY <2>2, <2>3, CmpNameDate
  <1>6. r # Len(f) - 1 => Before(c, f[r + 1])
    BY <1>1, <1>4 DEF Stops, Cmp
  <1>7. ~ (Before(f[r + 1], c) /\ Before(c, f[r + 1]))
    BY <1>4, KeyOrder
  <1>8. Before(f[r + 1], c) \/ Before(c, f[r + 1])
    BY <1>4
  <1>9. ASSUME NEW i \in 1 .. Len(f), i <= r PROVE Before(f[i], c)
    <2>1. r # 0 /\ i \in Int /\ r \in Int
      BY <1>9, <1>2
    <2>2. CASE i = r
      BY <2>1, <2>2, <1>5
    <2>3. CASE i < r
      <3>1. Before(f[i], f[r])
        BY <2>1, <2>3, <1>5 DEF Ordered
      <3>2. QED
        BY <3>1, <2>1, <1>3, <1>5, KeyOrder
    <2>4. QED
      BY <2>1, <2>2, <2>3, <1>9
  <1>10. ASSUME NEW i \in 1 .. Len(f), i > r + 1 PROVE Before(c, f[i])
    <2>1. r # Len(f) - 1
      BY <1>10, <1>2
    <2>2. Before(f[r + 1], f[i])
      BY <1>10, <1>2 DEF Ordered
    <2>3. QED
      BY <2>1, <2>2, <1>3, <1>4, <1>6, KeyOrder
  <1>11. QED
    BY <1>2, <1>6, <1>7, <1>8, <1>9, <1>10

(* The search for an entry newer than all of a course stops at the first     *)
(* entry of the course, if there is one.                                     *)
LEMMA NewestFindsFirst ==
  ASSUME NEW f \in Seq(Lines), Len(f) # 0, Ordered(f, 1 .. Len(f)), NEW n \in Names,
         NEW r, r = SearchCourse(f, Newest(n), All)
  PROVE  /\ r \in 0 .. Len(f) - 1
         /\ \A i \in 1 .. Len(f) : f[i].name = n => i >= r + 1 /\ f[r + 1].name = n
         /\ \A i \in 1 .. r : f[i].name < n
  <1>1. /\ \A i \in 1 .. Len(f) : f[i] \in Key /\ f[i].date \in 1 .. Today /\ f[i].name \in Int
        /\ Newest(n) \in Key /\ Newest(n).name = n /\ Newest(n).date = Today + 1
        /\ f \in Seq(Key) /\ Today \in Int /\ n \in Int
    <2>1. \A i \in 1 .. Len(f) : f[i] \in Lines
      BY ElementOfSeq
    <2>2. f \in Seq(Key)
      BY KeyFacts, SeqMonotonic
    <2>3. QED
      BY <2>1, <2>2, KeyFacts, DateAssumption, NameAssumption DEF Key
  <1>2. \A i \in 1 .. Len(f) : CourseCmp(f[i], Newest(n), {"NAME", "DATE"}) # 0
    <2>1. \A i \in 1 .. Len(f) : f[i].date # Newest(n).date
      BY <1>1
    <2>2. QED
      BY <2>1, <1>1, CmpNameDate
  <1> DEFINE q == SearchCourse(f, Newest(n), {"NAME", "DATE"})
  <1>3. q \in 0 .. Len(f) - 1
    BY <1>1, SearchStops DEF Stops
  <1>4. Len(f) \in Nat /\ q + 1 \in 1 .. Len(f)
    BY <1>3, LenProperties
  <1>5. r = q
    BY <1>1, <1>2, <1>4, SearchesAgree DEF Cmp
  <1>6. /\ \A i \in 1 .. Len(f) : /\ i <= r => Before(f[i], Newest(n))
                                  /\ i > r + 1 => Before(Newest(n), f[i])
        /\ Before(f[r + 1], Newest(n)) => r = Len(f) - 1
        /\ Before(f[r + 1], Newest(n)) \/ Before(Newest(n), f[r + 1])
    BY <1>1, <1>2, <1>4, <1>5, SearchPlaces
  <1>7. \A i \in 1 .. Len(f) : /\ Before(f[i], Newest(n)) <=> f[i].name < n
                               /\ Before(Newest(n), f[i]) <=> f[i].name >= n
    BY <1>1 DEF Before
  <1>8. r \in 0 .. Len(f) - 1 /\ r + 1 \in 1 .. Len(f)
    BY <1>3, <1>4, <1>5
  <1> HIDE DEF q
  <1>9. ASSUME NEW i \in 1 .. Len(f), f[i].name = n
        PROVE  i >= r + 1 /\ f[r + 1].name = n
    <2>1. ~ (i <= r)
      BY <1>1, <1>6, <1>7, <1>9
    <2>2. i >= r + 1
      BY <2>1, <1>8
    <2>3. f[r + 1].name >= n
      <3>1. CASE i = r + 1
        BY <3>1, <1>1, <1>9
      <3>2. CASE i # r + 1
        <4>1. r # Len(f) - 1
          BY <3>2, <2>2, <1>4, <1>8
        <4>2. QED
          BY <4>1, <1>6, <1>7, <1>8
      <3>3. QED
        BY <3>1, <3>2
    <2>4. f[r + 1].name <= n
      <3>1. CASE i = r + 1
        BY <3>1, <1>1, <1>9
      <3>2. CASE i # r + 1
        <4>1. Before(f[r + 1], f[i])
          BY <3>2, <2>2, <1>8 DEF Ordered
        <4>2. QED
          BY <4>1, <1>1, <1>8, <1>9 DEF Before
      <3>3. QED
        BY <3>1, <3>2
    <2>5. QED
      BY <2>2, <2>3, <2>4, <1>1, <1>8
  <1>10. \A i \in 1 .. r : f[i].name < n
    <2>1. \A i \in 1 .. r : i \in 1 .. Len(f) /\ i <= r
      BY <1>4, <1>8
    <2>2. QED
      BY <2>1, <1>6, <1>7
  <1>11. QED
    BY <1>8, <1>9, <1>10

--------------------------------------------------------------------------------
(* AddCourse *)

LEMMA KeptAtMenu == ASSUME TypeOK, pc = "menu" PROVE Kept = 1 .. Len(file)
  BY FileFacts DEF Kept, Hole

(* An entry that was not refused is accepted in the sense of Accepted. *)
LEMMA NotRefused ==
  ASSUME FileInv, pc = "menu", crashes = 0, file # <<>>,
         NEW c \in Entries(Typed), NEW garbage, ~ Refused(c, garbage)
  PROVE  Accepted(file, 1 .. Len(file), c, raised)
  <1> DEFINE r == SearchCourse(file, Newest(c.name), All)
             q == SearchCourse(file, c, {"NAME", "DATE"})
             l == file[r + 1]
  <1>1. /\ file \in Seq(Lines) /\ file \in Seq(Key) /\ Len(file) # 0 /\ Len(file) \in Nat
        /\ \A i \in 1 .. Len(file) : file[i] \in Key /\ file[i].date \in Int
        /\ c \in Key /\ c.name \in Names /\ c.date \in Int
    <2>1. file \in Seq(Lines) /\ file \in Seq(Key) /\ Len(file) # 0 /\ Len(file) \in Nat
      BY FileFacts DEF FileInv
    <2>2. \A i \in 1 .. Len(file) : file[i] \in Key
      BY FileFacts DEF FileInv
    <2>3. c \in Key /\ c.name \in Names
      BY KeyFacts
    <2>4. QED
      BY <2>1, <2>2, <2>3 DEF Key
  <1>2. Ordered(file, 1 .. Len(file)) /\ PassFirst(file, 1 .. Len(file), raised)
    BY KeptAtMenu DEF FileInv, Clean
  <1>3. /\ r \in 0 .. Len(file) - 1
        /\ \A i \in 1 .. Len(file) : file[i].name = c.name => i >= r + 1 /\ l.name = c.name
    BY <1>1, <1>2, NewestFindsFirst
  <1>4. q \in 0 .. Len(file) - 1
    BY <1>1, SearchStops DEF Stops
  <1>5. /\ CourseCmp(file[q + 1], c, {"NAME", "DATE"}) # 0
        /\ c.name = l.name => ~ Passes(l) /\ ~ (Passes(c) /\ l.date - c.date > 0)
    BY DEF Refused, Duplicate, Late, Found, DateCmp
  <1>6. \A i \in 1 .. Len(file) : ~ (file[i].name = c.name /\ file[i].date = c.date)
    <2>1. SUFFICES ASSUME NEW i \in 1 .. Len(file), file[i].name = c.name, file[i].date = c.date
                   PROVE  FALSE
      OBVIOUS
    <2>2. ~ Before(file[i], c) /\ ~ Before(c, file[i])
      <3>1. file[i].name \in Int /\ file[i].date \in Int
        BY <2>1, <1>1 DEF Key
      <3>2. QED
        BY <3>1, <2>1 DEF Before
    <2>3. /\ \A j \in 1 .. Len(file) : /\ j <= q => Before(file[j], c)
                                       /\ j > q + 1 => Before(c, file[j])
          /\ Before(file[q + 1], c) \/ Before(c, file[q + 1])
      BY <1>1, <1>2, <1>5, SearchPlaces
    <2> HIDE DEF q
    <2>4. i <= q \/ i > q + 1 \/ i = q + 1
      BY <1>4
    <2>5. QED
      BY <2>2, <2>3, <2>4
  <1>7. r + 1 \in 1 .. Len(file)
    BY <1>1, <1>3
  <1> HIDE DEF r, q
  <1>8. SUFFICES ASSUME c.name \notin raised, NEW i \in 1 .. Len(file), file[i].name = c.name
                 PROVE  ~ Passes(file[i]) /\ (Passes(c) => c.date > file[i].date)
    BY DEF Accepted
  <1>9. i >= r + 1 /\ l.name = c.name /\ ~ Passes(l) /\ (Passes(c) => c.date > l.date)
    <2>1. i >= r + 1 /\ l.name = c.name
      BY <1>3, <1>8
    <2>2. l.date # c.date /\ l.date \in Int
      BY <2>1, <1>1, <1>6, <1>7
    <2>3. QED
      BY <2>1, <2>2, <1>1, <1>5
  <1>10. CASE i = r + 1
    BY <1>9, <1>10
  <1>11. CASE i # r + 1
    <2>1. r + 1 < i
      BY <1>9, <1>11, <1>7
    <2>2. Before(l, file[i])
      BY <2>1, <1>2, <1>7 DEF Ordered
    <2>3. file[i].date < l.date
      BY <2>2, <1>1, <1>7, <1>8, <1>9 DEF Before, Key
    <2>4. ~ Passes(file[i])
      BY <2>1, <1>2, <1>7, <1>8, <1>9 DEF PassFirst
    <2>5. l.date \in Int /\ file[i].date \in Int
      BY <1>1, <1>7
    <2>6. QED
      BY <2>3, <2>4, <2>5, <1>1, <1>9
  <1>12. QED
    BY <1>10, <1>11

(* Where AddCourse sends an entry it accepts. *)
LEMMA AddPlaces ==
  ASSUME FileInv, pc = "menu", file # <<>>, NEW c \in Entries(Typed), NEW garbage,
         ~ Refused(c, garbage), NEW at, at = SearchCourse(file, c, All)
  PROVE  /\ at \in 0 .. Len(file) - 1
         /\ CourseCmp(c, file[at + 1], All) < 0 => Before(c, file[at + 1])
         /\ CourseCmp(c, file[at + 1], All) >= 0 => at = Len(file) - 1
         /\ crashes = 0 =>
              \A i \in 1 .. Len(file) :
                /\ i <= at => Before(file[i], c)
                /\ CourseCmp(c, file[at + 1], All) >= 0 => Before(file[i], c)
  <1> DEFINE q == SearchCourse(file, c, {"NAME", "DATE"})
  <1>1. /\ file \in Seq(Key) /\ Len(file) # 0 /\ Len(file) \in Nat /\ c \in Key
        /\ \A i \in 1 .. Len(file) : file[i] \in Key
    BY FileFacts, KeyFacts DEF FileInv
  <1>2. CourseCmp(file[q + 1], c, {"NAME", "DATE"}) # 0
    BY DEF Refused, Duplicate, Found
  <1>3. at = q
    BY <1>1, <1>2, SearchesAgree DEF Cmp
  <1> HIDE DEF q
  <1>4. Stops(file, c, {"NAME", "DATE"}, at)
    BY <1>1, <1>3, SearchStops DEF q
  <1>5. at \in 0 .. Len(file) - 1 /\ at + 1 \in 1 .. Len(file) /\ file[at + 1] \in Key
    BY <1>1, <1>4 DEF Stops
  <1>6. Before(c, file[at + 1]) \/ Before(file[at + 1], c)
    <2>1. CourseCmp(file[at + 1], c, {"NAME", "DATE"}) \in Int
      BY <1>1, <1>5, CmpNameDate
    <2>2. QED
      BY <2>1, <1>1, <1>2, <1>3, <1>5, CmpNameDate, SMTT(30)
  <1>7. /\ CourseCmp(c, file[at + 1], All) \in Int
        /\ Before(c, file[at + 1]) => CourseCmp(c, file[at + 1], All) < 0
        /\ Before(file[at + 1], c) => CourseCmp(c, file[at + 1], All) > 0
    BY <1>1, <1>5, CmpAll
  <1>8. CourseCmp(c, file[at + 1], All) < 0 => Before(c, file[at + 1])
    BY <1>6, <1>7
  <1>9. CourseCmp(c, file[at + 1], All) >= 0 => Before(file[at + 1], c)
    BY <1>6, <1>7
  <1>10. Before(file[at + 1], c) => at = Len(file) - 1
    <2>1. SUFFICES ASSUME Before(file[at + 1], c), at # Len(file) - 1 PROVE FALSE
      OBVIOUS
    <2>2. CourseCmp(file[at + 1], c, {"NAME", "DATE"}) > 0
      BY <2>1, <1>2, <1>3, <1>4 DEF Stops, Cmp
    <2>3. Before(c, file[at + 1])
      BY <2>2, <1>1, <1>5, CmpNameDate
    <2>4. QED
      BY <2>1, <2>3, <1>1, <1>5, KeyOrder
  <1>11. ASSUME crashes = 0, NEW i \in 1 .. Len(file)
         PROVE  /\ i <= at => Before(file[i], c)
                /\ CourseCmp(c, file[at + 1], All) >= 0 => Before(file[i], c)
    <2>1. Ordered(file, 1 .. Len(file))
      BY <1>11, KeptAtMenu DEF FileInv, Clean
    <2>2. i <= at => Before(file[i], c)
      BY <2>1, <1>1, <1>2, <1>3, SearchPlaces DEF q
    <2>3. at = Len(file) - 1 => i <= at \/ i = at + 1
      BY <1>1, <1>5
    <2>4. QED
      BY <2>2, <2>3, <1>9, <1>10
  <1>12. QED
    BY <1>5, <1>8, <1>9, <1>10, <1>11

(* An entry is accepted: AddCourse begins to write. *)
LEMMA AddBegins ==
  ASSUME FileInv, pc = "menu", Len(file) < MaxLines, NEW c \in Entries(Typed),
         NEW garbage, ~ Refused(c, garbage), course' = c,
         UNCHANGED <<file, line, crashes, present, raised>>,
         \/ file = <<>> /\ pc' = "insert" /\ pos' = 0 /\ UNCHANGED sline
         \/ /\ file # <<>>
            /\ LET at == SearchCourse(file, c, All)
               IN \/ /\ CourseCmp(c, file[at + 1], All) < 0
                     /\ pc' = "push" /\ pos' = Len(file) /\ sline' = file[at + 1]
                  \/ /\ CourseCmp(c, file[at + 1], All) >= 0
                     /\ pc' = "insert" /\ pos' = at + 1 /\ UNCHANGED sline
  PROVE  FileInv'
  <1> DEFINE at == SearchCourse(file, c, All)
             L == Len(file)
  <1>1. /\ L \in Nat /\ L <= MaxLines /\ MaxLines \in Nat /\ file \in Seq(Lines)
        /\ \A i \in 1 .. L : file[i] \in Lines /\ file[i] \in Key
        /\ c \in Key /\ Kept = 1 .. L
    BY FileFacts, KeyFacts, KeptAtMenu, BoundAssumption DEF FileInv, TypeOK
  <1>2. file = <<>> <=> L = 0
    BY <1>1, EmptySeq
  <1>3. file # <<>> => /\ at \in 0 .. L - 1
                       /\ CourseCmp(c, file[at + 1], All) \in Int
    <2>1. SUFFICES ASSUME file # <<>> PROVE at \in 0 .. L - 1 /\ CourseCmp(c, file[at + 1], All) \in Int
      OBVIOUS
    <2>2. at \in 0 .. L - 1
      BY <2>1, AddPlaces
    <2>3. at + 1 \in 1 .. L
      BY <2>2, <1>1
    <2>4. QED
      BY <2>2, <2>3, <1>1, CmpAll
  <1>4. \/ pc' = "push" /\ pos' = L /\ sline' = file[at + 1] /\ file # <<>>
             /\ CourseCmp(c, file[at + 1], All) < 0
        \/ pc' = "insert" /\ pos' = L /\ sline' = sline
             /\ (file # <<>> => CourseCmp(c, file[at + 1], All) >= 0)
    <2>1. CASE file = <<>>
      BY <2>1, <1>2
    <2>2. CASE file # <<>>
      <3>1. CourseCmp(c, file[at + 1], All) >= 0 => at + 1 = L
        BY <2>2, <1>1, <1>3, AddPlaces
      <3>2. QED
        BY <2>2, <3>1
    <2>3. QED
      BY <2>1, <2>2
  <1>5. /\ file # <<>> /\ CourseCmp(c, file[at + 1], All) < 0 => Before(c, file[at + 1])
        /\ crashes = 0 /\ file # <<>> =>
              \A i \in 1 .. L :
                /\ i <= at => Before(file[i], c)
                /\ CourseCmp(c, file[at + 1], All) >= 0 => Before(file[i], c)
    BY AddPlaces
  <1>6. Kept' = 1 .. L
    BY <1>1, <1>4 DEF Kept, Hole
  <1> HIDE DEF at, L
  <1>7. TypeOK'
    <2>1. sline' \in Lines \cup {Blank}
      <3>1. CASE sline' = sline
        BY <3>1 DEF FileInv, TypeOK
      <3>2. CASE sline' = file[at + 1] /\ file # <<>>
        BY <3>2, <1>1, <1>3
      <3>3. QED
        BY <3>1, <3>2, <1>4
    <2>2. pos' \in 0 .. MaxLines /\ pc' \in {"push", "insert"}
      BY <1>1, <1>4
    <2>3. QED
      BY <2>1, <2>2 DEF FileInv, TypeOK
  <1>8. Shape'
    <2>1. pos' = L /\ pc' \in {"push", "insert"} /\ Len(file') = L
      BY <1>4 DEF L
    <2>2. ASSUME pc' = "push" PROVE \E k \in 1 .. pos' : file'[k] = sline'
      <3>1. at + 1 \in 1 .. L /\ sline' = file[at + 1]
        BY <2>2, <1>1, <1>3, <1>4
      <3>2. QED
        BY <3>1, <2>1
    <2>3. QED
      BY <2>1, <2>2 DEF Shape, L
  <1>9. Keeps'
    BY <1>1, <1>6 DEF FileInv, Keeps
  <1>10. ASSUME crashes = 0
         PROVE  /\ Ordered(file, 1 .. L) /\ PassFirst(file, 1 .. L, raised)
                /\ Within(file, 1 .. L, present)
                /\ pc' = "push" => PushPlace'
                /\ pc' = "insert" => InsertPlace'
                /\ Accepted(file, 1 .. L, c, raised)
    <2>1. /\ Ordered(file, 1 .. L) /\ PassFirst(file, 1 .. L, raised)
          /\ Within(file, 1 .. L, present)
      BY <1>1, <1>10 DEF FileInv, Clean
    <2>2. Accepted(file, 1 .. L, c, raised)
      <3>1. CASE file = <<>>
        BY <3>1, <1>2 DEF Accepted
      <3>2. CASE file # <<>>
        BY <3>2, <1>10, NotRefused DEF L
      <3>3. QED
        BY <3>1, <3>2
    <2>3. ASSUME pc' = "push" PROVE PushPlace'
      <3>1. /\ file # <<>> /\ CourseCmp(c, file[at + 1], All) < 0 /\ sline' = file[at + 1]
            /\ at \in 0 .. L - 1 /\ at + 1 \in 1 .. L
        BY <2>3, <1>1, <1>3, <1>4
      <3>2. ASSUME NEW i \in 1 .. L, Before(file[i], file[at + 1]) PROVE Before(file[i], c)
        <4>1. ~ (at + 1 < i)
          BY <3>1, <3>2, <2>1, <1>1, KeyOrder DEF Ordered
        <4>2. i # at + 1
          BY <3>1, <3>2, <1>1, KeyOrder
        <4>3. i <= at
          BY <4>1, <4>2, <3>1, <1>1
        <4>4. QED
          BY <4>3, <3>1, <1>5, <1>10
      <3>3. QED
        BY <3>1, <3>2, <1>5, <1>6 DEF PushPlace
    <2>4. ASSUME pc' = "insert" PROVE InsertPlace'
      <3>1. \A i \in 1 .. L : i <= pos' /\ Before(file[i], c)
        <4>1. SUFFICES ASSUME NEW i \in 1 .. L PROVE i <= pos' /\ Before(file[i], c)
          OBVIOUS
        <4>2. file # <<>>
          BY <1>2
        <4>3. CourseCmp(c, file[at + 1], All) >= 0 /\ pos' = L
          BY <4>2, <2>4, <1>4
        <4>4. QED
          BY <4>2, <4>3, <1>5, <1>10
      <3>2. QED
        BY <3>1, <1>6 DEF InsertPlace
    <2>5. QED
      BY <2>1, <2>2, <2>3, <2>4
  <1>11. Clean'
    BY <1>4, <1>6, <1>10 DEF Clean
  <1>12. QED
    BY <1>7, <1>8, <1>9, <1>11 DEF FileInv

LEMMA AddCourseKeeps == FileInv /\ AddCourse => FileInv'
  <1> SUFFICES ASSUME FileInv, AddCourse PROVE FileInv'
    OBVIOUS
  <1>1. CASE UNCHANGED vars
    BY <1>1 DEF vars, FileInv, TypeOK, Shape, Keeps, Clean, Kept, Hole, PushPlace, InsertPlace
  <1>2. CASE ~ UNCHANGED vars
    <2>1. PICK c \in Entries(Typed), garbage \in Lines :
            \/ Refused(c, garbage) /\ UNCHANGED <<pc, course, pos, sline>>
            \/ /\ ~ Refused(c, garbage) /\ course' = c
               /\ \/ file = <<>> /\ pc' = "insert" /\ pos' = 0 /\ UNCHANGED sline
                  \/ /\ file # <<>>
                     /\ LET at == SearchCourse(file, c, All)
                        IN \/ /\ CourseCmp(c, file[at + 1], All) < 0
                              /\ pc' = "push" /\ pos' = Len(file) /\ sline' = file[at + 1]
                           \/ /\ CourseCmp(c, file[at + 1], All) >= 0
                              /\ pc' = "insert" /\ pos' = at + 1 /\ UNCHANGED sline
      BY DEF AddCourse
    <2>2. /\ pc = "menu" /\ Len(file) < MaxLines
          /\ UNCHANGED <<file, line, crashes, present, raised>>
      BY DEF AddCourse
    <2>3. ~ (Refused(c, garbage) /\ UNCHANGED <<pc, course, pos, sline>>)
      BY <2>2, <1>2 DEF vars
    <2>4. QED
      BY <2>1, <2>2, <2>3, AddBegins
  <1>3. QED
    BY <1>1, <1>2

LEMMA PushKeeps == FileInv /\ Push => FileInv'
  <1> SUFFICES ASSUME FileInv, Push PROVE FileInv'
    OBVIOUS
  <1> DEFINE L == Len(file)
             o == [i \in Kept' |-> IF i = pos + 1 THEN pos ELSE i]
  <1>1. /\ pc = "push" /\ pos > 0 /\ file' = WriteLine(file, pos, file[pos]) /\ pos' = pos - 1
        /\ pc' = IF file[pos] = sline THEN "insert" ELSE "push"
        /\ UNCHANGED <<course, sline, line, crashes, present, raised>>
    BY DEF Push
  <1>2. /\ L \in Nat /\ L <= MaxLines /\ MaxLines \in Nat /\ file \in Seq(Lines)
        /\ \A i \in 1 .. L : file[i] \in Lines /\ file[i] \in Key
        /\ pos \in 1 .. L /\ course \in Entries(Typed) /\ course \in Key
        /\ IF pos = L THEN L < MaxLines ELSE pos + 2 <= L /\ file[pos + 1] = file[pos + 2]
    BY <1>1, FileFacts, KeyFacts, BoundAssumption DEF FileInv, TypeOK, Shape
  <1>3. /\ file' \in Seq(Lines) /\ Len(file') = IF pos = L THEN L + 1 ELSE L
        /\ file'[pos + 1] = file[pos]
        /\ \A i \in 1 .. L : i # pos + 1 => file'[i] = file[i]
    <2> DEFINE l == file[pos]
               w == WriteLine(file, pos, l)
    <2>1. file \in Seq(Lines) /\ pos \in 0 .. Len(file) /\ l \in Lines
      BY <1>2
    <2>2. file' = w /\ l = file[pos]
      BY <1>1
    <2> HIDE DEF l
    <2>3. /\ w \in Seq(Lines) /\ Len(w) = IF pos = Len(file) THEN Len(file) + 1 ELSE Len(file)
          /\ w[pos + 1] = l
          /\ \A i \in 1 .. Len(file) : i # pos + 1 => w[i] = file[i]
      BY <2>1, WriteLineFacts
    <2> HIDE DEF w
    <2>4. QED
      BY <2>2, <2>3
  <1>4. Kept = (1 .. L) \ {pos + 1} /\ Kept' = (1 .. Len(file')) \ {pos}
    BY <1>1, <1>2 DEF Kept, Hole
  <1>5. Len(file') \in Nat /\ pos + 1 \in 1 .. Len(file') /\ L <= Len(file') /\ Len(file') <= MaxLines
    BY <1>2, <1>3
  <1>6. /\ o \in [Kept' -> Kept]
        /\ \A i \in Kept' : file'[i] = file[o[i]]
        /\ \A i, j \in Kept' : i < j => o[i] < o[j]
    <2>1. ASSUME NEW i \in Kept'
          PROVE  o[i] \in Kept /\ file'[i] = file[o[i]]
      <3>1. CASE i = pos + 1
        BY <3>1, <1>2, <1>3, <1>4
      <3>2. CASE i # pos + 1
        <4>1. i \in 1 .. L
          BY <3>2, <1>2, <1>3, <1>4
        <4>2. QED
          BY <4>1, <3>2, <1>3, <1>4
      <3>3. QED
        BY <3>1, <3>2
    <2>2. \A i, j \in Kept' : i < j => o[i] < o[j]
      BY <1>2, <1>4
    <2>3. QED
      BY <2>1, <2>2
  <1>7. TypeOK'
    <2>1. pos' \in 0 .. MaxLines /\ pc' \in {"push", "insert"}
      BY <1>1, <1>2
    <2>2. QED
      BY <2>1, <1>1, <1>3, <1>5 DEF FileInv, TypeOK
  <1>8. Shape'
    <2>1. pc' \in {"push", "insert"} /\ pos' = pos - 1 /\ pos' # Len(file') /\ pos' <= Len(file')
      BY <1>1, <1>2, <1>5
    <2>2. pos' + 2 <= Len(file') /\ file'[pos' + 1] = file'[pos' + 2]
      <3>1. pos' + 1 = pos /\ pos' + 2 = pos + 1 /\ pos # pos + 1
        BY <1>1, <1>2
      <3>2. QED
        BY <3>1, <1>2, <1>3, <1>5
    <2>3. ASSUME pc' = "push" PROVE \E k \in 1 .. pos' : file'[k] = sline'
      <3>1. PICK k \in 1 .. pos : file[k] = sline
        BY <1>1 DEF FileInv, Shape
      <3>2. k # pos
        BY <3>1, <2>3, <1>1
      <3>3. k \in 1 .. pos' /\ k \in 1 .. L /\ k # pos + 1
        BY <3>2, <1>1, <1>2
      <3>4. QED
        BY <3>1, <3>3, <1>1, <1>3
    <2>4. QED
      BY <2>1, <2>2, <2>3, <1>1, <1>2 DEF Shape
  <1>9. Keeps'
    <2>1. SUFFICES ASSUME NEW e \in present PROVE \E i \in Kept' : file'[i] = e
      BY <1>1 DEF Keeps
    <2>2. PICK i \in Kept : file[i] = e
      BY DEF FileInv, Keeps
    <2>3. CASE i = pos
      <3>1. pos + 1 \in Kept'
        BY <1>2, <1>4, <1>5
      <3>2. QED
        BY <3>1, <2>2, <2>3, <1>3
    <2>4. CASE i # pos
      <3>1. i \in Kept' /\ i \in 1 .. L /\ i # pos + 1
        BY <2>4, <1>2, <1>4, <1>5
      <3>2. QED
        BY <3>1, <2>2, <1>3
    <2>5. QED
      BY <2>3, <2>4
  <1>10. ASSUME crashes = 0 PROVE
           /\ Ordered(file', Kept') /\ PassFirst(file', Kept', raised)
           /\ Within(file', Kept', present) /\ Accepted(file', Kept', course, raised)
           /\ pc' = "push" => PushPlace'
           /\ pc' = "insert" => InsertPlace'
    <2>1. /\ Ordered(file, Kept) /\ PassFirst(file, Kept, raised)
          /\ Within(file, Kept, present) /\ Accepted(file, Kept, course, raised) /\ PushPlace
      BY <1>1, <1>10 DEF FileInv, Clean
    <2>2. /\ Ordered(file', Kept') /\ PassFirst(file', Kept', raised)
          /\ Within(file', Kept', present) /\ Accepted(file', Kept', course, raised)
      BY <2>1, <1>6, MovedLines
    <2>3. PushPlace'
      BY <2>1, <1>1, <1>6 DEF PushPlace
    <2>4. ASSUME pc' = "insert", NEW i \in Kept'
          PROVE  IF i <= pos' THEN Before(file'[i], course) ELSE Before(course, file'[i])
      <3>1. /\ file[pos] = sline /\ pos \in Kept /\ o[i] \in Kept /\ file'[i] = file[o[i]]
            /\ o[i] \in Int /\ i \in Int
            /\ Before(course, sline)
        BY <2>1, <2>4, <1>1, <1>2, <1>4, <1>6 DEF PushPlace
      <3>2. CASE i <= pos'
        <4>1. o[i] < pos
          BY <3>1, <3>2, <1>1, <1>2
        <4>2. Before(file[o[i]], sline)
          BY <4>1, <3>1, <2>1 DEF Ordered
        <4>3. QED
          BY <4>2, <3>1, <3>2, <2>1 DEF PushPlace
      <3>3. CASE ~ (i <= pos')
        <4>1. o[i] = pos \/ pos < o[i]
          BY <3>1, <3>3, <1>1, <1>2
        <4>2. file[o[i]] \in Key /\ file[pos] \in Key
          BY <3>1, <1>2, <1>4
        <4>3. Before(course, file[o[i]])
          <5>1. CASE o[i] = pos
            BY <5>1, <3>1
          <5>2. CASE pos < o[i]
            <6>1. Before(file[pos], file[o[i]])
              BY <5>2, <3>1, <2>1 DEF Ordered
            <6>2. QED
              BY <6>1, <4>2, <3>1, <1>2, KeyOrder
          <5>3. QED
            BY <4>1, <5>1, <5>2
        <4>4. QED
          BY <4>3, <3>1, <3>3
      <3>4. QED
        BY <3>2, <3>3
    <2>5. QED
      BY <2>2, <2>3, <2>4, <1>1 DEF InsertPlace
  <1>11. Clean'
    BY <1>1, <1>10 DEF Clean
  <1>12. QED
    BY <1>7, <1>8, <1>9, <1>11 DEF FileInv

LEMMA InsertKeeps == FileInv /\ Insert => FileInv'
  <1> SUFFICES ASSUME FileInv, Insert PROVE FileInv'
    OBVIOUS
  <1> DEFINE L == Len(file)
             new == Stored(course)
  <1>1. /\ pc = "insert" /\ file' = WriteLine(file, pos, new) /\ present' = present \cup {new}
        /\ raised' = IF Passes(new) /\ ~ Passes(course)
                       THEN raised \cup {course.name} ELSE raised
        /\ pc' = "menu" /\ course' = Blank /\ pos' = 0 /\ sline' = Blank /\ line' = Blank
        /\ crashes' = crashes
    BY DEF Insert, Return
  <1>2. /\ L \in Nat /\ L <= MaxLines /\ MaxLines \in Nat /\ file \in Seq(Lines)
        /\ \A i \in 1 .. L : file[i] \in Lines /\ file[i] \in Key
        /\ pos \in 0 .. L /\ course \in Entries(Typed) /\ course \in Key
        /\ pos = L => L < MaxLines
        /\ new \in Lines /\ new \in Key /\ new.name = course.name /\ new.date = course.date
        /\ course.name \in Names
    BY <1>1, FileFacts, KeyFacts, BoundAssumption DEF FileInv, TypeOK, Shape
  <1>3. /\ file' \in Seq(Lines) /\ Len(file') = IF pos = L THEN L + 1 ELSE L
        /\ file'[pos + 1] = new
        /\ \A i \in 1 .. L : i # pos + 1 => file'[i] = file[i]
    <2> DEFINE w == WriteLine(file, pos, new)
    <2>1. /\ w \in Seq(Lines) /\ Len(w) = IF pos = Len(file) THEN Len(file) + 1 ELSE Len(file)
          /\ w[pos + 1] = new
          /\ \A i \in 1 .. Len(file) : i # pos + 1 => w[i] = file[i]
      BY <1>2, WriteLineFacts
    <2>2. file' = w
      BY <1>1
    <2> HIDE DEF w
    <2>3. QED
      BY <2>1, <2>2
  <1> HIDE DEF new
  <1>4. Kept = (1 .. L) \ {pos + 1} /\ Kept' = 1 .. Len(file')
    BY <1>1, <1>3, <1>2 DEF Kept, Hole
  <1>5. /\ Len(file') \in Nat /\ pos + 1 \in 1 .. Len(file') /\ L <= Len(file')
        /\ Len(file') <= MaxLines
    BY <1>2, <1>3
  <1>6. \A i \in Kept' : i = pos + 1 \/ (i \in Kept /\ file'[i] = file[i])
    BY <1>2, <1>3, <1>4
  <1>7. TypeOK'
    BY <1>1, <1>2, <1>3, <1>5 DEF FileInv, TypeOK
  <1>8. Shape'
    BY <1>1 DEF Shape
  <1>9. Keeps'
    <2>1. SUFFICES ASSUME NEW e \in present \cup {new} PROVE \E i \in Kept' : file'[i] = e
      BY <1>1 DEF Keeps
    <2>2. CASE e = new
      BY <2>2, <1>3, <1>4, <1>5
    <2>3. CASE e # new
      <3>1. PICK i \in Kept : file[i] = e
        BY <2>1, <2>3 DEF FileInv, Keeps
      <3>2. i \in 1 .. L /\ i # pos + 1 /\ i \in Kept'
        BY <1>2, <1>4, <1>5
      <3>3. QED
        BY <3>1, <3>2, <1>3
    <2>4. QED
      BY <2>2, <2>3
  <1>10. ASSUME crashes = 0
         PROVE  /\ Ordered(file', Kept') /\ PassFirst(file', Kept', raised')
                /\ Within(file', Kept', present')
    <2>1. /\ Ordered(file, Kept) /\ PassFirst(file, Kept, raised)
          /\ Within(file, Kept, present) /\ Accepted(file, Kept, course, raised) /\ InsertPlace
      BY <1>1, <1>10 DEF FileInv, Clean
    <2>2. \A i \in Kept : /\ i <= pos => Before(file[i], new)
                          /\ i > pos => Before(new, file[i])
      <3>1. SUFFICES ASSUME NEW i \in Kept
                     PROVE  /\ i <= pos => Before(file[i], new)
                            /\ i > pos => Before(new, file[i])
        OBVIOUS
      <3>2. IF i <= pos THEN Before(file[i], course) ELSE Before(course, file[i])
        BY <2>1 DEF InsertPlace
      <3>3. i \in Int /\ pos \in Int
        BY <1>2, <1>4
      <3>4. QED
        BY <3>2, <3>3, <1>2 DEF Before
    <2>3. Ordered(file', Kept')
      <3>1. SUFFICES ASSUME NEW i \in Kept', NEW j \in Kept', i < j
                     PROVE  Before(file'[i], file'[j])
        BY DEF Ordered
      <3>2. i \in Int /\ j \in Int /\ pos \in Int
        BY <1>2, <1>4
      <3>3. CASE i = pos + 1
        <4>1. j \in Kept /\ file'[j] = file[j] /\ j > pos
          BY <3>1, <3>2, <3>3, <1>6
        <4>2. QED
          BY <4>1, <3>3, <2>2, <1>3
      <3>4. CASE j = pos + 1
        <4>1. i \in Kept /\ file'[i] = file[i] /\ i <= pos
          BY <3>1, <3>2, <3>4, <1>6
        <4>2. QED
          BY <4>1, <3>4, <2>2, <1>3
      <3>5. CASE i # pos + 1 /\ j # pos + 1
        BY <3>1, <3>5, <2>1, <1>6 DEF Ordered
      <3>6. QED
        BY <3>3, <3>4, <3>5
    <2>4. PassFirst(file', Kept', raised')
      <3>1. SUFFICES ASSUME NEW i \in Kept', NEW j \in Kept', i < j,
                            file'[i].name = file'[j].name, file'[i].name \notin raised'
                     PROVE  ~ Passes(file'[j])
        BY DEF PassFirst
      <3>2. file'[i].name \notin raised
        BY <3>1, <1>1
      <3>3. i \in Int /\ j \in Int /\ pos \in Int
        BY <1>2, <1>4
      <3>4. CASE i = pos + 1
        <4>1. j \in Kept /\ file'[j] = file[j] /\ file'[i].name = course.name
          BY <3>1, <3>4, <1>2, <1>3, <1>6
        <4>2. QED
          BY <4>1, <3>1, <3>2, <2>1 DEF Accepted
      <3>5. CASE j = pos + 1
        <4>1. /\ i \in Kept /\ file'[i] = file[i] /\ i <= pos /\ file'[j] = new
              /\ file[i].name = course.name /\ file[i] \in Key
          BY <3>1, <3>3, <3>5, <1>2, <1>3, <1>4, <1>6
        <4>2. ~ (course.date > file[i].date)
          <5>1. Before(file[i], course)
            BY <4>1, <2>1 DEF InsertPlace
          <5>2. QED
            BY <5>1, <4>1, <1>2 DEF Before, Key
        <4>3. ~ Passes(course)
          BY <4>1, <4>2, <3>2, <2>1 DEF Accepted
        <4>4. course.name \notin raised'
          BY <3>1, <4>1
        <4>5. ~ Passes(new)
          BY <4>3, <4>4, <1>1
        <4>6. QED
          BY <4>1, <4>5
      <3>6. CASE i # pos + 1 /\ j # pos + 1
        BY <3>1, <3>2, <3>6, <2>1, <1>6 DEF PassFirst
      <3>7. QED
        BY <3>4, <3>5, <3>6
    <2>5. Within(file', Kept', present')
      BY <2>1, <1>1, <1>3, <1>6 DEF Within
    <2>6. QED
      BY <2>3, <2>4, <2>5
  <1>11. Clean'
    BY <1>1, <1>10 DEF Clean
  <1>12. QED
    BY <1>7, <1>8, <1>9, <1>11 DEF FileInv

--------------------------------------------------------------------------------
(* DeleteCourse *)

LEMMA DeleteCourseKeeps == FileInv /\ DeleteCourse => FileInv'
  <1> SUFFICES ASSUME FileInv, DeleteCourse PROVE FileInv'
    OBVIOUS
  <1> DEFINE L == Len(file)
  <1>1. /\ L \in Nat /\ L <= MaxLines /\ MaxLines \in Nat /\ file \in Seq(Lines)
        /\ file \in Seq(Key)
        /\ \A i \in 1 .. L : file[i] \in Lines /\ file[i] \in Key
        /\ pc = "menu" /\ file # <<>> /\ L # 0 /\ Kept = 1 .. L
    BY FileFacts, KeptAtMenu, BoundAssumption DEF DeleteCourse, FileInv, TypeOK
  <1>2. CASE UNCHANGED vars
    BY <1>2 DEF vars, FileInv, TypeOK, Shape, Keeps, Clean, Kept, Hole, PushPlace, InsertPlace
  <1>3. ASSUME NEW c \in Entries({0}), NEW garbage \in Lines, NEW at,
               at = SearchCourse(file, c, {"NAME", "DATE"}),
               pc' = "pull", pos' = at + 1, line' = garbage,
               present' = present \ {file[at + 1]},
               UNCHANGED <<file, course, sline, crashes, raised>>
        PROVE  FileInv'
    <2>1. c \in Key
      <3>1. /\ c = [name |-> c.name, date |-> c.date, grade |-> c.grade]
            /\ c.name \in Names /\ c.date \in 1 .. Today /\ c.grade \in {0}
        BY DEF Entries
      <3>2. c.name \in Int /\ c.date \in Int /\ c.grade \in Int
        BY <3>1, NameAssumption, DateAssumption
      <3>3. QED
        BY <3>1, <3>2 DEF Key
    <2>2. at \in 0 .. L - 1 /\ at + 1 \in 1 .. L
      <3>1. Stops(file, c, {"NAME", "DATE"}, at)
        BY <2>1, <1>1, <1>3, SearchStops
      <3>2. QED
        BY <3>1, <1>1 DEF Stops
    <2>3. Kept' = (1 .. L) \ {at + 1}
      BY <1>3 DEF Kept, Hole
    <2>4. TypeOK'
      <3>1. pos' \in 0 .. MaxLines
        BY <2>2, <1>1, <1>3
      <3>2. QED
        BY <3>1, <1>3 DEF FileInv, TypeOK
    <2>5. Shape'
      BY <2>2, <1>3 DEF Shape
    <2>6. Keeps'
      <3>1. SUFFICES ASSUME NEW e \in present, e # file[at + 1]
                     PROVE  \E i \in Kept' : file[i] = e
        BY <1>3 DEF Keeps
      <3>2. PICK i \in 1 .. L : file[i] = e
        BY <1>1 DEF FileInv, Keeps
      <3>3. QED
        BY <3>1, <3>2, <2>3
    <2>7. ASSUME crashes = 0
          PROVE  /\ Ordered(file, Kept') /\ PassFirst(file, Kept', raised)
                 /\ Within(file, Kept', present')
      <3>1. /\ Ordered(file, 1 .. L) /\ PassFirst(file, 1 .. L, raised)
            /\ Within(file, 1 .. L, present)
        BY <2>7, <1>1 DEF FileInv, Clean
      <3>2. \A i \in Kept' : file[i] # file[at + 1]
        <4>1. SUFFICES ASSUME NEW i \in 1 .. L, i # at + 1, file[i] = file[at + 1] PROVE FALSE
          BY <2>3
        <4>2. i < at + 1 \/ at + 1 < i
          BY <4>1, <2>2
        <4>3. Before(file[i], file[i])
          BY <4>1, <4>2, <3>1, <2>2 DEF Ordered
        <4>4. QED
          BY <4>3, <1>1, KeyOrder
      <3>3. QED
        BY <3>1, <3>2, <2>3, <1>3 DEF Ordered, PassFirst, Within
    <2>8. Clean'
      BY <2>7, <1>3 DEF Clean
    <2>9. QED
      BY <2>4, <2>5, <2>6, <2>8 DEF FileInv
  <1>4. QED
    BY <1>2, <1>3 DEF DeleteCourse

LEMMA PullKeeps == FileInv /\ Pull => FileInv'
  <1> SUFFICES ASSUME FileInv, Pull PROVE FileInv'
    OBVIOUS
  <1> DEFINE L == Len(file)
  <1>1. /\ L \in Nat /\ L <= MaxLines /\ MaxLines \in Nat /\ file \in Seq(Lines)
        /\ \A i \in 1 .. L : file[i] \in Lines
        /\ pos \in 1 .. L /\ line \in Lines /\ pc = "pull"
        /\ UNCHANGED <<course, sline, crashes, present, raised>>
        /\ Kept = (1 .. L) \ {pos}
    BY FileFacts, BoundAssumption DEF Pull, FileInv, TypeOK, Shape, Kept, Hole
  <1>2. ASSUME NEW l \in Lines, file' = WriteLine(file, pos - 1, l)
        PROVE  /\ file' \in Seq(Lines) /\ Len(file') = L /\ file'[pos] = l
               /\ \A i \in 1 .. L : i # pos => file'[i] = file[i]
    <2>1. PICK p : p = pos - 1
      OBVIOUS
    <2> DEFINE w == WriteLine(file, p, l)
    <2>2. file \in Seq(Lines) /\ p \in 0 .. Len(file) /\ l \in Lines
      BY <2>1, <1>1
    <2>3. file' = w /\ p + 1 = pos /\ p # Len(file)
      BY <2>1, <1>1, <1>2
    <2>4. /\ w \in Seq(Lines) /\ Len(w) = IF p = Len(file) THEN Len(file) + 1 ELSE Len(file)
          /\ w[p + 1] = l
          /\ \A i \in 1 .. Len(file) : i # p + 1 => w[i] = file[i]
      BY <2>2, WriteLineFacts
    <2> HIDE DEF w
    <2>5. QED
      BY <2>3, <2>4
  <1>3. CASE /\ pos < L /\ line' = file[pos + 1] /\ file' = WriteLine(file, pos - 1, line')
             /\ pos' = pos + 1 /\ pc' = pc
    <2> DEFINE o == [i \in Kept' |-> IF i = pos THEN pos + 1 ELSE i]
    <2>1. pos + 1 \in 1 .. L /\ line' \in Lines
      BY <1>1, <1>3
    <2>2. /\ file' \in Seq(Lines) /\ Len(file') = L /\ file'[pos] = file[pos + 1]
          /\ \A i \in 1 .. L : i # pos => file'[i] = file[i]
      BY <2>1, <1>2, <1>3
    <2>3. Kept' = (1 .. L) \ {pos + 1}
      BY <2>2, <1>1, <1>3 DEF Kept, Hole
    <2>4. /\ o \in [Kept' -> Kept]
          /\ \A i \in Kept' : file'[i] = file[o[i]]
          /\ \A i, j \in Kept' : i < j => o[i] < o[j]
      BY <2>1, <2>2, <2>3, <1>1
    <2>5. TypeOK'
      <3>1. pos' \in 0 .. MaxLines
        BY <2>1, <1>1, <1>3
      <3>2. QED
        BY <3>1, <2>1, <2>2, <1>1, <1>3 DEF FileInv, TypeOK
    <2>6. Shape'
      BY <2>1, <2>2, <1>1, <1>3 DEF Shape
    <2>7. Keeps'
      <3>1. SUFFICES ASSUME NEW e \in present PROVE \E i \in Kept' : file'[i] = e
        BY <1>1 DEF Keeps
      <3>2. PICK i \in Kept : file[i] = e
        BY DEF FileInv, Keeps
      <3>3. CASE i = pos + 1
        <4>1. pos \in Kept' /\ file'[pos] = e
          BY <3>2, <3>3, <2>2, <2>3, <1>1
        <4>2. QED
          BY <4>1
      <3>4. CASE i # pos + 1
        BY <3>2, <3>4, <2>2, <2>3, <1>1
      <3>5. QED
        BY <3>3, <3>4
    <2>8. Clean'
      <3>1. SUFFICES ASSUME crashes = 0
                     PROVE  /\ Ordered(file', Kept') /\ PassFirst(file', Kept', raised)
                            /\ Within(file', Kept', present)
        BY <1>1, <1>3 DEF Clean
      <3>2. /\ Ordered(file, Kept) /\ PassFirst(file, Kept, raised)
            /\ Within(file, Kept, present)
        BY <3>1 DEF FileInv, Clean
      <3> HIDE DEF o
      <3>3. QED
        BY <3>2, <2>4, MovedLines
    <2>9. QED
      BY <2>5, <2>6, <2>7, <2>8 DEF FileInv
  <1>4. CASE /\ pos = L /\ file' = WriteLine(file, pos - 1, line)
             /\ pc' = "truncate" /\ UNCHANGED <<line, pos>>
    <2>1. /\ file' \in Seq(Lines) /\ Len(file') = L
          /\ \A i \in 1 .. L : i # pos => file'[i] = file[i]
      BY <1>1, <1>2, <1>4
    <2>2. Kept' = Kept
      BY <2>1, <1>1, <1>4 DEF Kept, Hole
    <2>3. \A i \in Kept : file'[i] = file[i]
      BY <2>1, <1>1
    <2>4. TypeOK'
      BY <2>1, <1>1, <1>4 DEF FileInv, TypeOK
    <2>5. Shape'
      BY <2>1, <1>1, <1>4 DEF Shape
    <2>6. Keeps'
      BY <2>2, <2>3, <1>1 DEF FileInv, Keeps
    <2>7. Clean'
      BY <2>2, <2>3, <1>1, <1>4 DEF FileInv, Clean, Ordered, PassFirst, Within
    <2>8. QED
      BY <2>4, <2>5, <2>6, <2>7 DEF FileInv
  <1>5. QED
    BY <1>3, <1>4 DEF Pull

LEMMA FileTruncateKeeps == FileInv /\ FileTruncate => FileInv'
  <1> SUFFICES ASSUME FileInv, FileTruncate PROVE FileInv'
    OBVIOUS
  <1> DEFINE L == Len(file)
  <1>1. /\ L \in Nat /\ L <= MaxLines /\ MaxLines \in Nat /\ file \in Seq(Lines)
        /\ \A i \in 1 .. L : file[i] \in Lines
        /\ pos = L /\ L >= 1 /\ pc = "truncate"
        /\ Kept = (1 .. L) \ {L}
    BY FileFacts, BoundAssumption DEF FileTruncate, FileInv, TypeOK, Shape, Kept, Hole
  <1>2. /\ file' = Front(file) /\ UNCHANGED <<crashes, present, raised>>
        /\ pc' = "menu" /\ course' = Blank /\ pos' = 0 /\ sline' = Blank /\ line' = Blank
    BY DEF FileTruncate, Return
  <1>3. /\ file' \in Seq(Lines) /\ Len(file') = L - 1
        /\ \A i \in 1 .. L - 1 : file'[i] = file[i]
    <2>1. Front(file) = SubSeq(file, 1, L - 1)
      BY DEF Front
    <2>2. \A i \in 1 .. L - 1 : file[i] \in Lines
      BY <1>1
    <2>3. QED
      BY <2>1, <2>2, <1>1, <1>2
  <1>4. Kept' = Kept
    BY <1>1, <1>2, <1>3 DEF Kept, Hole
  <1>5. \A i \in Kept : file'[i] = file[i]
    BY <1>1, <1>3
  <1>6. TypeOK'
    BY <1>1, <1>2, <1>3 DEF FileInv, TypeOK
  <1>7. Shape'
    BY <1>2 DEF Shape
  <1>8. Keeps'
    BY <1>2, <1>4, <1>5 DEF FileInv, Keeps
  <1>9. Clean'
    BY <1>2, <1>4, <1>5 DEF FileInv, Clean, Ordered, PassFirst, Within
  <1>10. QED
    BY <1>6, <1>7, <1>8, <1>9 DEF FileInv

LEMMA CrashKeeps == FileInv /\ Crash => FileInv'
  <1> SUFFICES ASSUME FileInv, Crash PROVE FileInv'
    OBVIOUS
  <1>1. /\ UNCHANGED <<file, present, raised>> /\ crashes' = crashes + 1
        /\ crashes' \in 0 .. MaxCrashes /\ crashes' # 0
        /\ pc' = "menu" /\ course' = Blank /\ pos' = 0 /\ sline' = Blank /\ line' = Blank
    BY BoundAssumption DEF Crash, Return, FileInv, TypeOK
  <1>2. TypeOK'
    BY <1>1, BoundAssumption DEF FileInv, TypeOK
  <1>3. Kept' = 1 .. Len(file)
    BY <1>1, FileFacts DEF Kept, Hole, FileInv
  <1>4. Keeps'
    BY <1>1, <1>3 DEF FileInv, Keeps, Kept
  <1>5. QED
    BY <1>1, <1>2, <1>4 DEF FileInv, Shape, Clean

LEMMA StepFileInv == FileInv /\ [Next]_vars => FileInv'
  <1> SUFFICES ASSUME FileInv, [Next]_vars PROVE FileInv'
    OBVIOUS
  <1>1. CASE UNCHANGED vars
    BY <1>1 DEF vars, FileInv, TypeOK, Shape, Keeps, Clean, Kept, Hole, PushPlace, InsertPlace
  <1>2. QED
    BY <1>1, AddCourseKeeps, PushKeeps, InsertKeeps, DeleteCourseKeeps, PullKeeps,
       FileTruncateKeeps, CrashKeeps
    DEF Next, Step

LEMMA FileInvAlways == Spec => []FileInv
  BY InitFileInv, StepFileInv, PTL DEF Spec
--------------------------------------------------------------------------------
(* Theorems *)

(* Every variable has a value of its kind in every reachable state. *)
THEOREM TypeCorrect == Spec => []TypeOK
  BY FileInvAlways, PTL DEF FileInv

(* NothingLost: an entry that was added and not deleted is in the file at    *)
(* every moment, whatever operations are under way, however often the        *)
(* program is killed in one and whatever order that leaves the file in.      *)
THEOREM EntriesKept == Spec => []NothingLost
  <1>1. FileInv => NothingLost
    <2>1. SUFFICES ASSUME FileInv, NEW e \in present PROVE \E i \in DOMAIN file : file[i] = e
      BY DEF NothingLost
    <2>2. PICK i \in Kept : file[i] = e
      BY <2>1 DEF FileInv, Keeps
    <2>3. i \in DOMAIN file
      BY <2>1, FileFacts DEF FileInv, Kept
    <2>4. QED
      BY <2>2, <2>3
  <1>2. QED
    BY <1>1, FileInvAlways, PTL

(* SortedAtMenu: between the operations of a program that was not killed the *)
(* file is in order and holds no entry that was not added.                   *)
THEOREM FileSorted == Spec => []SortedAtMenu
  <1>1. FileInv => SortedAtMenu
    <2>1. SUFFICES ASSUME FileInv, pc = "menu", crashes = 0
                   PROVE  /\ \A i \in DOMAIN file : file[i] \in present
                          /\ \A i, j \in DOMAIN file :
                               i < j => CourseCmp(file[i], file[j], {"NAME", "DATE"}) < 0
      BY DEF SortedAtMenu
    <2>2. /\ Kept = 1 .. Len(file) /\ DOMAIN file = 1 .. Len(file)
          /\ \A i \in DOMAIN file : file[i] \in Key
      BY <2>1, KeptAtMenu, FileFacts DEF FileInv
    <2>3. Ordered(file, DOMAIN file) /\ Within(file, DOMAIN file, present)
      BY <2>1, <2>2 DEF FileInv, Clean
    <2>4. ASSUME NEW i \in DOMAIN file, NEW j \in DOMAIN file, i < j
          PROVE  CourseCmp(file[i], file[j], {"NAME", "DATE"}) < 0
      BY <2>2, <2>3, <2>4, CmpNameDate DEF Ordered
    <2>5. QED
      BY <2>3, <2>4 DEF Within
  <1>2. QED
    BY <1>1, FileInvAlways, PTL

--------------------------------------------------------------------------------
(* What the two functions that read find at the menu. *)

LEMMA MenuFacts ==
  ASSUME FileInv, pc = "menu", crashes = 0
  PROVE  /\ file \in Seq(Lines) /\ file \in Seq(Key) /\ Len(file) \in Nat
         /\ DOMAIN file = 1 .. Len(file)
         /\ file # <<>> => Len(file) # 0
         /\ Ordered(file, 1 .. Len(file)) /\ PassFirst(file, 1 .. Len(file), raised)
         /\ \A i \in 1 .. Len(file) : /\ file[i] \in Lines /\ file[i] \in Key
                                      /\ file[i].name \in Int /\ file[i].date \in Int
                                      /\ file[i].grade \in Int
  <1>1. Kept = 1 .. Len(file)
    BY KeptAtMenu DEF FileInv
  <1>2. Ordered(file, 1 .. Len(file)) /\ PassFirst(file, 1 .. Len(file), raised)
    BY <1>1 DEF FileInv, Clean
  <1>3. /\ file \in Seq(Lines) /\ file \in Seq(Key) /\ Len(file) \in Nat
        /\ DOMAIN file = 1 .. Len(file)
        /\ \A i \in 1 .. Len(file) : file[i] \in Lines /\ file[i] \in Key
    BY FileFacts DEF FileInv
  <1>4. file # <<>> => Len(file) # 0
    BY <1>3
  <1>5. \A i \in 1 .. Len(file) : /\ file[i].name \in Int /\ file[i].date \in Int
                                  /\ file[i].grade \in Int
    BY <1>3 DEF Key
  <1>6. QED
    BY <1>2, <1>3, <1>4, <1>5

(* Names do not decrease along a file that is in order. *)
LEMMA NamesAscend ==
  ASSUME FileInv, pc = "menu", crashes = 0,
         NEW i \in 1 .. Len(file), NEW j \in 1 .. Len(file), i < j
  PROVE  /\ file[i].name <= file[j].name
         /\ file[i].name = file[j].name => file[i].date > file[j].date
  BY MenuFacts DEF Ordered, Before

(* The entries of a course lie together, from at + 1 to last. *)
LEMMA CourseRun ==
  ASSUME FileInv, pc = "menu", crashes = 0, file # <<>>, NEW n \in Names,
         NEW at, at = SearchCourse(file, Newest(n), All),
         NEW last \in at .. Len(file),
         \A i \in at + 1 .. last : file[i].name = n,
         last < Len(file) => ~ \A i \in at + 1 .. last + 1 : file[i].name = n
  PROVE  /\ at \in 0 .. Len(file) - 1
         /\ \A i \in 1 .. Len(file) : file[i].name = n => i \in at + 1 .. last
  <1>1. /\ at \in 0 .. Len(file) - 1 /\ Len(file) \in Nat /\ n \in Int
        /\ \A i \in 1 .. Len(file) : file[i].name = n => i >= at + 1 /\ file[at + 1].name = n
    BY MenuFacts, NewestFindsFirst, NameAssumption
  <1>2. last \in Int /\ at \in Int /\ last + 1 \in Int
    BY <1>1
  <1>3. ASSUME NEW i \in 1 .. Len(file), file[i].name = n, ~ (i <= last) PROVE FALSE
    <2>1. last < Len(file) /\ last + 1 \in 1 .. Len(file) /\ at + 1 \in 1 .. Len(file)
      BY <1>1, <1>2, <1>3
    <2>2. PICK j \in at + 1 .. last + 1 : file[j].name # n
      BY <2>1
    <2>3. j = last + 1
      BY <2>2, <1>2
    <2>4. file[last + 1].name # n
      BY <2>2, <2>3
    <2>5. i > last + 1 /\ last + 1 > at + 1
      <3>1. i # last + 1 /\ at + 1 # last + 1
        BY <2>4, <1>1, <1>3
      <3>2. QED
        BY <3>1, <1>1, <1>2, <1>3
    <2>6. file[last + 1].name <= n
      BY <2>1, <2>5, <1>3, NamesAscend
    <2>7. n <= file[last + 1].name
      BY <2>1, <2>5, <1>1, <1>3, NamesAscend
    <2>8. file[last + 1].name \in Int
      BY <2>1, MenuFacts
    <2>9. QED
      BY <2>4, <2>6, <2>7, <2>8, <1>1
  <1>4. QED
    BY <1>1, <1>2, <1>3

(* PrintAllCourses prints the lines from at + 1 to last. *)
LEMMA PrintsRun ==
  ASSUME FileInv, pc = "menu", crashes = 0, file # <<>>, NEW n \in Names,
         NEW at, at = SearchCourse(file, Newest(n), All)
  PROVE  \E last \in at .. Len(file) :
           /\ \A i \in at + 1 .. last : file[i].name = n
           /\ last < Len(file) => ~ \A i \in at + 1 .. last + 1 : file[i].name = n
           /\ PrintAllCourses(n) = SubSeq(file, at + 1, last)
  <1> DEFINE Of(k) == \A i \in at + 1 .. k : file[i].name = n
             Stop(k) == Of(k) /\ (k < Len(file) => ~ Of(k + 1))
             T == {k \in at .. Len(file) : k < Len(file) => ~ Of(k + 1)}
  <1>1. at \in 0 .. Len(file) - 1 /\ Len(file) \in Nat
    BY MenuFacts, NewestFindsFirst
  <1>2. PICK k \in T : \A m \in T : k <= m
    <2>1. T \subseteq Nat /\ Len(file) \in T
      BY <1>1
    <2> HIDE DEF T
    <2>2. QED
      BY <2>1, Smallest
  <1>3. Of(k)
    <2>1. CASE k = at
      BY <2>1, <1>1
    <2>2. CASE k # at
      <3>1. k - 1 \in at .. Len(file) /\ k - 1 < Len(file) /\ k - 1 + 1 = k /\ ~ (k <= k - 1)
        BY <2>2, <1>1, <1>2
      <3> HIDE DEF Of
      <3>2. k - 1 \notin T
        BY <3>1, <1>2
      <3>3. Of(k - 1 + 1)
        BY <3>1, <3>2
      <3>4. QED
        BY <3>1, <3>3
    <2>3. QED
      BY <2>1, <2>2
  <1>4. k \in at .. Len(file) /\ Stop(k)
    BY <1>2, <1>3
  <1> DEFINE last == CHOOSE m \in at .. Len(file) : Stop(m)
  <1>5. PrintAllCourses(n) = SubSeq(file, at + 1, last)
    BY DEF PrintAllCourses
  <1>6. last \in at .. Len(file) /\ Stop(last)
    <2> HIDE DEF Stop
    <2>1. QED
      BY <1>4
  <1> HIDE DEF last
  <1>7. QED
    BY <1>5, <1>6

(* PrintsAll: PrintAllCourses prints the entries of a course, each of them   *)
(* once, the newest first, and nothing else.                                 *)
THEOREM AllPrinted == Spec => []PrintsAll
  <1>1. FileInv => PrintsAll
    <2>1. SUFFICES ASSUME FileInv, pc = "menu", crashes = 0, NEW n \in Names
                   PROVE  /\ EntriesOf(n) = {PrintAllCourses(n)[i] : i \in DOMAIN PrintAllCourses(n)}
                          /\ \A i, j \in DOMAIN PrintAllCourses(n) :
                               i < j => PrintAllCourses(n)[i].date > PrintAllCourses(n)[j].date
      BY DEF PrintsAll
    <2> DEFINE printed == PrintAllCourses(n)
               at == SearchCourse(file, Newest(n), All)
    <2>2. CASE file = <<>>
      <3>1. printed = <<>>
        BY <2>2 DEF PrintAllCourses
      <3>2. EntriesOf(n) = {}
        BY <2>2 DEF EntriesOf
      <3> HIDE DEF printed
      <3>3. QED
        BY <3>1, <3>2 DEF printed
    <2>3. CASE file # <<>>
      <3>1. PICK last \in at .. Len(file) :
              /\ \A i \in at + 1 .. last : file[i].name = n
              /\ last < Len(file) => ~ \A i \in at + 1 .. last + 1 : file[i].name = n
              /\ printed = SubSeq(file, at + 1, last)
        BY <2>1, <2>3, PrintsRun
      <3>2. /\ at \in 0 .. Len(file) - 1
            /\ \A i \in 1 .. Len(file) : file[i].name = n => i \in at + 1 .. last
        BY <2>1, <2>3, <3>1, CourseRun
      <3> HIDE DEF at
      <3>3. Len(file) \in Nat /\ at \in Int /\ last \in Int /\ at + 1 \in Int
        BY <2>1, <3>2, MenuFacts
      <3>4. \A i \in at + 1 .. last : /\ i \in 1 .. Len(file) /\ file[i] \in Lines
                                      /\ file[i].name = n
        <4>1. \A i \in at + 1 .. last : i \in 1 .. Len(file)
          BY <3>1, <3>2, <3>3
        <4>2. QED
          BY <4>1, <3>1, <2>1, MenuFacts
      <3>5. /\ DOMAIN printed = 1 .. last - at
            /\ \A i \in 1 .. last - at : printed[i] = file[at + i]
        <4>1. /\ SubSeq(file, at + 1, last) \in Seq(Lines)
              /\ Len(SubSeq(file, at + 1, last)) =
                   IF at + 1 <= last THEN last - (at + 1) + 1 ELSE 0
              /\ \A i \in 1 .. last - (at + 1) + 1 :
                   SubSeq(file, at + 1, last)[i] = file[at + 1 + i - 1]
          BY <3>3, <3>4, SubSeqProperties
        <4>2. Len(SubSeq(file, at + 1, last)) = last - at
          BY <4>1, <3>1, <3>3
        <4>3. \A i \in 1 .. last - at : i \in 1 .. last - (at + 1) + 1 /\ at + 1 + i - 1 = at + i
          BY <3>3
        <4>4. DOMAIN SubSeq(file, at + 1, last) = 1 .. last - at
          BY <4>1, <4>2, LenProperties
        <4>5. QED
          BY <4>1, <4>3, <4>4, <3>1
      <3> HIDE DEF printed
      <3>6. ASSUME NEW e \in EntriesOf(n)
            PROVE  \E i \in 1 .. last - at : printed[i] = e
        <4>1. PICK i \in 1 .. Len(file) : file[i] = e /\ file[i].name = n
          BY <2>1, <3>6, MenuFacts DEF EntriesOf
        <4>2. i \in at + 1 .. last
          BY <4>1, <3>2
        <4>3. i - at \in 1 .. last - at /\ at + (i - at) = i
          BY <4>2, <3>3
        <4>4. printed[i - at] = file[i]
          BY <4>3, <3>5
        <4>5. QED
          BY <4>1, <4>3, <4>4
      <3>7. ASSUME NEW i \in 1 .. last - at
            PROVE  at + i \in at + 1 .. last /\ at + i \in 1 .. Len(file)
        <4>1. at + i \in at + 1 .. last
          BY <3>3
        <4>2. QED
          BY <4>1, <3>4
      <3>8. ASSUME NEW i \in 1 .. last - at
            PROVE  printed[i] \in EntriesOf(n)
        <4>1. file[at + i] \in Lines /\ file[at + i].name = n /\ at + i \in DOMAIN file
          BY <3>4, <3>7, <2>1, MenuFacts
        <4>2. QED
          BY <4>1, <3>5 DEF EntriesOf
      <3>9. ASSUME NEW i \in 1 .. last - at, NEW j \in 1 .. last - at, i < j
            PROVE  printed[i].date > printed[j].date
        <4>1. /\ at + i \in 1 .. Len(file) /\ at + j \in 1 .. Len(file) /\ at + i < at + j
              /\ file[at + i].name = file[at + j].name
          BY <3>3, <3>4, <3>7, <3>9
        <4>2. file[at + i].date > file[at + j].date
          BY <4>1, <2>1, NamesAscend
        <4>3. QED
          BY <4>2, <3>5
      <3>10. EntriesOf(n) = {printed[i] : i \in DOMAIN printed}
        BY <3>5, <3>6, <3>8
      <3>11. QED
        BY <3>5, <3>9, <3>10 DEF printed
    <2>4. QED
      BY <2>2, <2>3
  <1>2. QED
    BY <1>1, FileInvAlways, PTL

(* The entry CalculateAverage looks at is the first of its course, although  *)
(* the entries of a course are not in the order it searches by.              *)
LEMMA BestIsFirst ==
  ASSUME FileInv, pc = "menu", crashes = 0, file # <<>>, NEW n \in Names \ raised,
         NEW r, r = SearchCourse(file, [name |-> n, date |-> 0, grade |-> 1000], {"NAME", "GRADE"})
  PROVE  /\ r \in 0 .. Len(file) - 1
         /\ \A i \in 1 .. Len(file) : file[i].name = n => i >= r + 1 /\ file[r + 1].name = n
  <1> DEFINE top == [name |-> n, date |-> 0, grade |-> 1000]
             C(i) == CourseCmp(file[i], top, {"NAME", "GRADE"})
  <1>1. n \in Int /\ top \in Key /\ top.name = n /\ top.grade = 1000
    BY NameAssumption DEF Key
  <1>2. Len(file) \in Nat /\ Stops(file, top, {"NAME", "GRADE"}, r)
    BY <1>1, MenuFacts, SearchStops
  <1>3. r \in 0 .. Len(file) - 1 /\ r + 1 \in 1 .. Len(file)
    BY <1>2 DEF Stops
  <1> HIDE DEF top
  <1>4. ASSUME NEW i \in 1 .. Len(file)
        PROVE  /\ C(i) \in Int /\ file[i].name \in Int
               /\ C(i) = 0 => file[i].name = n /\ Passes(file[i])
               /\ C(i) < 0 => file[i].name < n
               /\ C(i) > 0 => file[i].name >= n
    <2>1. file[i] \in Key /\ file[i].name \in Int /\ file[i].grade \in Int
      BY MenuFacts
    <2>2. /\ C(i) \in Int
          /\ file[i].name < n => C(i) < 0
          /\ file[i].name > n => C(i) > 0
          /\ file[i].name = n => C(i) = GradeCmp(file[i].grade, 1000)
      BY <1>1, <2>1, CmpNameGrade
    <2> DEFINE R == 0 .. 1000
    <2>3. \A g \in R : GradeCmp(g, 1000) >= 0 /\ (g <= 500 => GradeCmp(g, 1000) > 0)
      BY DEF GradeCmp
    <2>4. file[i].grade \in R
      <3> HIDE DEF R
      <3>1. file[i] \in Lines
        BY MenuFacts
      <3>2. \A l \in Lines : l.grade \in R
        BY GradeBound DEF R
      <3>3. QED
        BY <3>1, <3>2
    <2> HIDE DEF R
    <2> HIDE DEF C
    <2>5. C(i) = 0 => file[i].name = n /\ ~ (file[i].grade <= 500)
      BY <2>1, <2>2, <2>3, <2>4, <1>1
    <2>6. QED
      BY <2>1, <2>2, <2>3, <2>4, <2>5, <1>1 DEF Passes
  <1>5. ASSUME NEW i \in 1 .. Len(file), file[i].name = n
        PROVE  i >= r + 1 /\ file[r + 1].name = n
    <2>1. CASE C(r + 1) = 0
      <3>1. file[r + 1].name = n /\ Passes(file[r + 1])
        BY <2>1, <1>3, <1>4
      <3>2. ~ (i < r + 1)
        BY <3>1, <1>3, <1>5, MenuFacts, SMTT(30) DEF PassFirst
      <3>3. QED
        BY <3>1, <3>2, <1>3
    <2>2. CASE /\ r = 0 \/ C(r) < 0
               /\ r = Len(file) - 1 \/ C(r + 1) > 0
      <3>1. i >= r + 1
        <4>1. SUFFICES ASSUME i <= r PROVE FALSE
          BY <1>3
        <4>2. r \in 1 .. Len(file) /\ r # 0
          BY <4>1, <1>2, <1>3
        <4>3. file[r].name < n
          BY <4>2, <2>2, <1>4
        <4>4. i = r \/ i < r
          BY <4>1, <1>3
        <4>5. file[i].name <= file[r].name
          <5>1. file[r].name \in Int
            BY <4>2, <1>4
          <5>2. CASE i = r
            BY <5>1, <5>2
          <5>3. CASE i < r
            BY <4>2, <5>3, NamesAscend
          <5>4. QED
            BY <4>4, <5>2, <5>3
        <4>6. file[r].name \in Int
          BY <4>2, <1>4
        <4>7. QED
          BY <4>3, <4>5, <4>6, <1>1, <1>5
      <3>2. CASE i = r + 1
        BY <3>1, <3>2, <1>5
      <3>3. CASE i # r + 1
        <4>1. r + 1 < i /\ r # Len(file) - 1
          BY <3>1, <3>3, <1>2, <1>3
        <4>2. file[r + 1].name >= n /\ file[r + 1].name \in Int
          BY <4>1, <2>2, <1>3, <1>4
        <4>3. file[r + 1].name <= n
          BY <4>1, <1>3, <1>5, NamesAscend
        <4>4. QED
          BY <3>1, <4>2, <4>3, <1>1
      <3>4. QED
        BY <3>2, <3>3
    <2>3. QED
      BY <2>1, <2>2, <1>2 DEF Stops, Cmp
  <1>6. QED
    BY <1>3, <1>5

(* AverageCountsPassed: CalculateAverage counts the courses with an entry    *)
(* that passes and takes the best entry of each.                             *)
THEOREM AverageRight == Spec => []AverageCountsPassed
  <1>1. FileInv => AverageCountsPassed
    <2>1. SUFFICES ASSUME FileInv, pc = "menu", crashes = 0, NEW n \in Names \ raised
                   PROVE  /\ Counts(n) <=> \E e \in EntriesOf(n) : Passes(e)
                          /\ Counts(n) => \A e \in EntriesOf(n) : e.grade <= Best(n).grade
      BY DEF AverageCountsPassed
    <2>2. CASE file = <<>>
      BY <2>2 DEF Counts, EntriesOf
    <2>3. CASE file # <<>>
      <3> DEFINE r == SearchCourse(file, [name |-> n, date |-> 0, grade |-> 1000],
                                   {"NAME", "GRADE"})
      <3>1. /\ r \in 0 .. Len(file) - 1
            /\ \A i \in 1 .. Len(file) :
                 file[i].name = n => i >= r + 1 /\ file[r + 1].name = n
        BY <2>1, <2>3, BestIsFirst
      <3>2. Best(n) = file[r + 1]
        BY DEF Best
      <3> HIDE DEF r
      <3>3. Len(file) \in Nat /\ r + 1 \in 1 .. Len(file) /\ r \in Int
        BY <2>1, <3>1, MenuFacts
      <3>4. Best(n) \in Lines /\ Best(n).grade \in Int
        BY <2>1, <3>2, <3>3, MenuFacts
      <3>5. ASSUME NEW e \in EntriesOf(n)
            PROVE  /\ Best(n).name = n /\ e.grade \in Int
                   /\ e = Best(n) \/ ~ Passes(e)
        <4>1. PICK i \in 1 .. Len(file) : file[i] = e /\ file[i].name = n
          BY <2>1, <3>5, MenuFacts DEF EntriesOf
        <4>2. Best(n).name = n /\ i >= r + 1
          BY <4>1, <3>1, <3>2
        <4>3. CASE i = r + 1
          BY <4>1, <4>2, <4>3, <3>2, <3>4
        <4>4. CASE i # r + 1
          <5>1. r + 1 < i
            BY <4>2, <4>4, <3>3
          <5>2. ~ Passes(e)
            BY <5>1, <4>1, <4>2, <3>2, <3>3, <2>1, MenuFacts DEF PassFirst
          <5>3. QED
            BY <5>2, <4>1, <4>2, <2>1, MenuFacts
        <4>5. QED
          BY <4>3, <4>4
      <3>6. ASSUME Counts(n) PROVE Best(n) \in EntriesOf(n) /\ Passes(Best(n))
        BY <3>2, <3>3, <3>4, <3>6, <2>1, MenuFacts DEF Counts, EntriesOf
      <3>7. ASSUME NEW e \in EntriesOf(n), Passes(e) PROVE Counts(n)
        BY <3>5, <3>7, <2>3 DEF Counts
      <3>8. ASSUME Counts(n), NEW e \in EntriesOf(n) PROVE e.grade <= Best(n).grade
        <4>1. CASE e = Best(n)
          BY <4>1, <3>4
        <4>2. CASE ~ Passes(e)
          BY <4>2, <3>4, <3>5, <3>6, <3>8 DEF Passes
        <4>3. QED
          BY <4>1, <4>2, <3>5
      <3>9. QED
        BY <3>6, <3>7, <3>8
    <2>4. QED
      BY <2>2, <2>3
  <1>2. QED
    BY <1>1, FileInvAlways, PTL
================================================================================
