------------------------------- MODULE GradeFile -------------------------------
(***************************************************************************)
(* hw1: the grade file, kept sorted by course name and then newest date    *)
(* first, one entry per fixed-size line.  Entries are inserted by pushing  *)
(* lines down and deleted by pulling lines up; the program may be killed   *)
(* between any two writes and started again on what it left in the file.   *)
(* A line is written and read as a whole.                                  *)
(***************************************************************************)
EXTENDS Integers, Sequences, SequencesExt

CONSTANTS
  Names,       \* courses of the courses file: integers, ordered as strcmp orders them
  Today,       \* the newest valid date; dates are 1 .. Today
  Typed,       \* grades a user types, in hundredths
  MaxLines,    \* bound on the length of the file
  MaxCrashes   \* bound on the number of times the program is killed

ASSUME DateAssumption == Today \in Nat \ {0}
ASSUME NameAssumption == Names \subseteq Int
ASSUME GradeAssumption == Typed \subseteq 0 .. 1000
ASSUME BoundAssumption == MaxLines \in Nat /\ MaxCrashes \in Nat

VARIABLES
  file,      \* the lines, as entries
  pc,        \* the write the program is about to do, "menu" outside an operation
  course,    \* parameter of AddCourse
  pos,       \* file position, in lines
  sline,     \* AddCourse: the line the new entry goes before
  line,      \* DeleteCourse: the line read last
  crashes,
  present,   \* history: entries added and not deleted
  raised     \* history: courses with a failing grade that was stored as a pass

vars == <<file, pc, course, pos, sline, line, crashes, present, raised>>

Entries(grades) == [name : Names, date : 1 .. Today, grade : grades]
Passes(e) == e.grade >= 500

(* CourseToString prints the grade with one decimal.  A grade half way between *)
(* two tenths is not typed.                                                    *)
Stored(c) == [c EXCEPT !.grade = ((@ + 5) \div 10) * 10]
Lines == {Stored(e) : e \in Entries(Typed)}

(* A local that is not in use. *)
Blank == [name |-> 0, date |-> 0, grade |-> 0]

Init ==
  /\ file = <<>> /\ pc = "menu"
  /\ course = Blank /\ pos = 0 /\ sline = Blank /\ line = Blank
  /\ crashes = 0 /\ present = {} /\ raised = {}

--------------------------------------------------------------------------------
(* Comparators *)

(* -(grade1 - grade2) is a float, and compare an int: the fraction is cut off. *)
GradeCmp(g1, g2) == IF g2 >= g1 THEN (g2 - g1) \div 100 ELSE -((g1 - g2) \div 100)

(* Newer dates come first. *)
DateCmp(d1, d2) == d2 - d1

FirstNonZero(x, y) == IF x # 0 THEN x ELSE y

CourseCmp(c1, c2, mode) ==
  FirstNonZero(IF "NAME" \in mode THEN c1.name - c2.name ELSE 0,
  FirstNonZero(IF "DATE" \in mode THEN DateCmp(c1.date, c2.date) ELSE 0,
               IF "GRADE" \in mode THEN GradeCmp(c1.grade, c2.grade) ELSE 0))

All == {"NAME", "DATE", "GRADE"}

--------------------------------------------------------------------------------
(* SearchCourse: the position, from 0, of the line it stops at.              *)
Bounds(f) == [low : 0 .. Len(f) - 1, high : 0 .. Len(f) - 1]
SearchCourse(f, c, mode) ==
  LET Bisect[b \in Bounds(f)] ==
        LET mid == (b.low + b.high) \div 2
            compare == CourseCmp(f[mid + 1], c, mode)
        IN  IF b.low >= b.high \/ compare = 0 THEN mid
            ELSE Bisect[IF compare < 0 THEN [b EXCEPT !.low = mid + 1]
                                       ELSE [b EXCEPT !.high = mid]]
  IN Bisect[[low |-> 0, high |-> Len(f) - 1]]

(* What SearchCourse leaves in *lcourse; on an empty file it leaves the      *)
(* variable as it was, which no caller has set.                              *)
Found(f, c, mode, garbage) == IF f = <<>> THEN garbage ELSE f[SearchCourse(f, c, mode) + 1]

(* Mutant: the date searched for is today's. *)
NewestToday(name) == [name |-> name, date |-> Today, grade |-> 0]

(* "Set the lower bound to maximum date": an entry before all of its course. *)
Newest(name) == [name |-> name, date |-> Today + 1, grade |-> 0]

WriteLine(f, at, l) == IF at = Len(f) THEN Append(f, l) ELSE [f EXCEPT ![at + 1] = l]

--------------------------------------------------------------------------------
(* AddCourse *)

(* The checks that make it return without writing. *)
Duplicate(c, l) == CourseCmp(l, c, {"NAME", "DATE"}) = 0
Late(c, l) ==
  /\ c.name = l.name
  /\ Passes(l) \/ (Passes(c) /\ DateCmp(c.date, l.date) > 0)

(* Mutant: a pass is accepted before a failure at a later date. *)
RefusedPassedOnly(c, garbage) ==
  \/ Duplicate(c, Found(file, c, {"NAME", "DATE"}, garbage))
  \/ LET l == Found(file, Newest(c.name), All, garbage) IN c.name = l.name /\ Passes(l)

Refused(c, garbage) ==
  \/ Duplicate(c, Found(file, c, {"NAME", "DATE"}, garbage))
  \/ Late(c, Found(file, Newest(c.name), All, garbage))

AddCourse ==
  /\ pc = "menu" /\ Len(file) < MaxLines
  /\ \E c \in Entries(Typed), garbage \in Lines :
       \/ Refused(c, garbage) /\ UNCHANGED <<pc, course, pos, sline>>
       \/ /\ ~ Refused(c, garbage) /\ course' = c
          /\ \/ file = <<>> /\ pc' = "insert" /\ pos' = 0 /\ UNCHANGED sline
             \/ /\ file # <<>>
                /\ LET at == SearchCourse(file, c, All)
                   IN \/ /\ CourseCmp(c, file[at + 1], All) < 0
                         /\ pc' = "push" /\ pos' = Len(file) /\ sline' = file[at + 1]
                      \/ /\ CourseCmp(c, file[at + 1], All) >= 0
                         /\ pc' = "insert" /\ pos' = at + 1 /\ UNCHANGED sline
  /\ UNCHANGED <<file, line, crashes, present, raised>>

(* Mutant: the loop looks for a line equal to the new entry. *)
PushLooksForEntry ==
  /\ pc = "push" /\ pos > 0
  /\ file' = WriteLine(file, pos, file[pos])
  /\ pos' = pos - 1
  /\ pc' = IF file[pos] = Stored(course) THEN "insert" ELSE "push"
  /\ UNCHANGED <<course, sline, line, crashes, present, raised>>

(* One turn of the loop that pushes lines down, from the end of the file. *)
Push ==
  /\ pc = "push" /\ pos > 0
  /\ file' = WriteLine(file, pos, file[pos])
  /\ pos' = pos - 1
  /\ pc' = IF file[pos] = sline THEN "insert" ELSE "push"
  /\ UNCHANGED <<course, sline, line, crashes, present, raised>>

(* The functions' locals are gone when they return. *)
Return == pc' = "menu" /\ course' = Blank /\ pos' = 0 /\ sline' = Blank /\ line' = Blank

(* Mutant: the grade is stored as it was typed. *)
InsertAsTyped ==
  /\ pc = "insert"
  /\ file' = WriteLine(file, pos, course)
  /\ present' = present \cup {course}
  /\ Return /\ UNCHANGED <<crashes, raised>>

(* CourseToString and the last WriteLine of AddCourse. *)
Insert ==
  /\ pc = "insert"
  /\ file' = WriteLine(file, pos, Stored(course))
  /\ present' = present \cup {Stored(course)}
  /\ raised' = IF Passes(Stored(course)) /\ ~ Passes(course)
                 THEN raised \cup {course.name} ELSE raised
  /\ Return /\ UNCHANGED crashes

--------------------------------------------------------------------------------
(* DeleteCourse.  line is not set before the first ReadLine that reads one.  *)
DeleteCourse ==
  /\ pc = "menu" /\ file # <<>>
  /\ \E c \in Entries({0}), garbage \in Lines :
       LET at == SearchCourse(file, c, {"NAME", "DATE"})
       IN \/ CourseCmp(c, file[at + 1], {"NAME", "DATE"}) # 0 /\ UNCHANGED vars
          \/ /\ CourseCmp(c, file[at + 1], {"NAME", "DATE"}) = 0
             /\ pc' = "pull" /\ pos' = at + 1 /\ line' = garbage
             /\ present' = present \ {file[at + 1]}
             /\ UNCHANGED <<file, course, sline, crashes, raised>>

(* Mutant: at the end of the file, too, the position goes back two lines. *)
PullTwoBack ==
  /\ pc = "pull"
  /\ \/ /\ pos < Len(file)
        /\ line' = file[pos + 1] /\ file' = WriteLine(file, pos - 1, line')
        /\ pos' = pos + 1 /\ UNCHANGED pc
     \/ /\ pos = Len(file) /\ pos > 1
        /\ file' = WriteLine(file, pos - 2, line)
        /\ pc' = "truncate" /\ UNCHANGED <<line, pos>>
  /\ UNCHANGED <<course, sline, crashes, present, raised>>

(* One turn of the loop that pulls lines up; at the end of the file the line *)
(* read last is written once more.                                           *)
Pull ==
  /\ pc = "pull"
  /\ \/ /\ pos < Len(file)
        /\ line' = file[pos + 1] /\ file' = WriteLine(file, pos - 1, line')
        /\ pos' = pos + 1 /\ UNCHANGED pc
     \/ /\ pos = Len(file)
        /\ file' = WriteLine(file, pos - 1, line)
        /\ pc' = "truncate" /\ UNCHANGED <<line, pos>>
  /\ UNCHANGED <<course, sline, crashes, present, raised>>

(* Mutant: the last line is left. *)
FileTruncateForgotten ==
  /\ pc = "truncate"
  /\ Return /\ UNCHANGED <<file, crashes, present, raised>>

FileTruncate ==
  /\ pc = "truncate"
  /\ file' = Front(file)
  /\ Return /\ UNCHANGED <<crashes, present, raised>>

--------------------------------------------------------------------------------
(* The program is killed between two writes and started again. *)
Crash ==
  /\ pc # "menu" /\ crashes < MaxCrashes
  /\ crashes' = crashes + 1
  /\ Return /\ UNCHANGED <<file, present, raised>>

Step == AddCourse \/ Push \/ Insert \/ DeleteCourse \/ Pull \/ FileTruncate
Next == Step \/ Crash

Spec == Init /\ [][Next]_vars

(* A program that is not killed goes on with the operation it is in. *)
FairSpec == Spec /\ WF_vars(pc # "menu" /\ Step)

--------------------------------------------------------------------------------
(* PrintAllCourses and CalculateAverage only read. *)

(* The entries PrintAllCourses prints for a course: those from the position  *)
(* SearchCourse stops at to the first of another course.                     *)
PrintAllCourses(n) ==
  IF file = <<>> THEN <<>>
  ELSE LET at == SearchCourse(file, Newest(n), All)
           Of(k) == \A i \in at + 1 .. k : file[i].name = n
           last == CHOOSE k \in at .. Len(file) :
                     Of(k) /\ (k < Len(file) => ~ Of(k + 1))
       IN SubSeq(file, at + 1, last)

(* CalculateAverage: the entry looked at for a course, and whether it counts. *)
Best(n) == file[SearchCourse(file, [name |-> n, date |-> 0, grade |-> 1000],
                             {"NAME", "GRADE"}) + 1]
Counts(n) == file # <<>> /\ Best(n).name = n /\ Passes(Best(n))

EntriesOf(n) == {e \in Lines : e.name = n /\ \E i \in DOMAIN file : file[i] = e}

--------------------------------------------------------------------------------
(* Every variable has a value of its kind. *)
TypeOK ==
  /\ file \in Seq(Lines) /\ Len(file) <= MaxLines
  /\ pc \in {"menu", "push", "insert", "pull", "truncate"}
  /\ course \in Entries(Typed) \cup {Blank}
  /\ pos \in 0 .. MaxLines
  /\ {sline, line} \subseteq Lines \cup {Blank}
  /\ crashes \in 0 .. MaxCrashes
  /\ present \subseteq Lines /\ raised \subseteq Names

(* An entry that was added and not deleted is in the file at every moment,   *)
(* also in the middle of an insertion or a deletion, also when that was cut  *)
(* short and the program went on with the file it had left: lines are pushed *)
(* down and pulled up in an order that copies each before it is overwritten. *)
NothingLost == \A e \in present : \E i \in DOMAIN file : file[i] = e

(* hw1.c:9-15: between operations the file holds the entries added and not   *)
(* deleted, each once, by course and then newest first, and no two of one    *)
(* course and date, as long as the program was never killed in an operation. *)
SortedAtMenu ==
  pc = "menu" /\ crashes = 0 =>
    /\ \A i \in DOMAIN file : file[i] \in present
    /\ \A i, j \in DOMAIN file :
         i < j => CourseCmp(file[i], file[j], {"NAME", "DATE"}) < 0

(* PrintAllCourses prints the entries of a course, each once and the newest  *)
(* first, and no others, although it looks for an entry that is not there    *)
(* and stops at the first other course.                                      *)
PrintsAll ==
  pc = "menu" /\ crashes = 0 =>
    \A n \in Names :
      LET printed == PrintAllCourses(n)
      IN  /\ EntriesOf(n) = {printed[i] : i \in DOMAIN printed}
          /\ \A i, j \in DOMAIN printed : i < j => printed[i].date > printed[j].date

(* CalculateAverage counts a course exactly when the course has an entry     *)
(* that passes, and looks at the best of them, although it searches by grade *)
(* a file that is not sorted by grade: what AddCourse refuses sees to it,    *)
(* unless a failing grade was stored as a pass.                              *)
AverageCountsPassed ==
  pc = "menu" /\ crashes = 0 =>
    \A n \in Names \ raised :
      /\ Counts(n) <=> \E e \in EntriesOf(n) : Passes(e)
      /\ Counts(n) => \A e \in EntriesOf(n) : e.grade <= Best(n).grade

(* hw1.c:363, "We always search for the greatest grade": the same of every   *)
(* course.                                                                   *)
AverageTakesGreatest ==
  pc = "menu" /\ crashes = 0 =>
    \A n \in Names :
      Counts(n) <=> \E e \in EntriesOf(n) : Passes(e)

(* An operation on whatever file there is comes to its end: the loop that    *)
(* pushes lines down stops at a line equal to one it read before, not at a   *)
(* position, and finds one also when the file holds lines twice.             *)
OperationEnds == pc # "menu" ~> pc = "menu"
================================================================================
