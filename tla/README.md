# TLA+ models of CE121-homework

The repository holds four homeworks in C. This directory models the parts of
them that have a protocol in them: processes that share memory, files, signals
or a file that must stay sorted. Paths below are relative to the repository.

## 1. The system

| Part | State | Operations | What makes it hard |
|---|---|---|---|
| `src/hw4/semaph/library.c` with `sender.c`, `receiver.c` | a System V shared-memory segment (`size`, `in`, `out`, `nproc`, `buf`), three System V semaphores `free`, `full`, `mutex`; per process `shmid`, `free_sem`, `full_sem`, `mutex` | `buf_init`, `buf_put`, `buf_get`, `buf_destroy` | any number of processes, found by key, that start, leave and are killed at any time; two counting semaphores and a mutex; `nproc` without a lock; `sem_flg` never assigned |
| `src/hw4/active/library.c` with `sender.c`, `receiver.c` | the same segment with a flag `mutex` instead of semaphores | the same four | busy waiting; test and set of the flag are two accesses |
| `src/hw3/main.c`, `list.c` | a circular list of children with a recorded status | `exec`, `list`, `stop`, `cont`, `kill`, `info`, `exit`; `refresh_all` before each | children stop, die and are signalled by others at any moment; `waitpid` reports the latest change only; bounded waits; a signal may be refused |
| `src/hw2/files` (`main.c`, `P1.c`-`P3.c`, `util.c`) | four files `.com0`-`.com3` that hold one message each | send, receive, evaluate one level of an expression | hand-over through "is the file empty"; files outlive processes; fork, exec and interrupts |
| `src/hw2/pipes` (`main.c`, `P1.c`-`P3.c`, `util.c`) | four pipes and who has which end open | the same stages over pipes | the end of a file, of which no reader takes notice; writers without readers; inherited descriptors; failed forks |
| `src/hw1/hw1.c` | a file of fixed-size lines, sorted by course and then newest date | add, delete, search, average | insertion and deletion by moving lines, a kill between two writes, bisection over an order that the operations must keep |

The parts do not call each other. Within `hw4` two programs meet only in kernel
objects; within `hw3` the shell and its children meet in signals and `waitpid`;
within `hw2` the four processes meet only in the files or the pipes.

What makes each part correct:

* ring (`hw4`): what is fetched is what was put, in order, nothing lost or twice;
  every call returns; no two processes in one critical section;
* life cycle (`hw4`): nobody uses an object that is gone or not initialised; a
  receiver that stops has everything; both programs end;
* shell: recorded statuses agree with the children, no child becomes
  unreachable, every command ends, `exit` leaves nobody alive that it may signal,
  signals go to the shell's own children;
* pipelines: each answer is the value of its own expression and comes before the
  next question; sessions end. Over files: no message is overwritten, and what is
  removed is used by nobody. Over pipes: no process outlives the others for ever;
* grade file: sorted and without duplicates between operations, nothing lost
  even by a kill, searches that rely on the order find what there is.

## 2. Modules

| Module | What it is |
|---|---|
| `BoundedFifo` | abstract: a FIFO channel of bounded capacity, `sent` and `received` |
| `SemRing` | `buf_put` and `buf_get` of `hw4/semaph` on an initialised segment |
| `SemRingProofs` | theorems about `SemRing` |
| `SemSession` | `hw4/semaph` from the launch of each program to its exit, kernel objects included |
| `SemSessionProofs` | theorems about `SemSession` |
| `ActiveRing` | `buf_put` and `buf_get` of `hw4/active`, one sender and one receiver |
| `ActiveSession` | `hw4/active` from the launch of each program to its exit |
| `ActiveProofs` | theorems about `ActiveRing` and `ActiveSession` |
| `ChildShell` | `hw3`: command loop, commands, list, signals, `waitpid` |
| `ChildShellProofs` | theorems about `ChildShell` |
| `Calculator` | abstract: a session of questions, answers and an end |
| `Expressions` | `hw2`: what a child makes of an expression, and a reference for the value of an expression |
| `ExpressionsProofs` | the theorem that three passes compute the value of an expression of any length |
| `FilePipeline` | `hw2/files`: main and its three children over files, start, interrupt, clean-up |
| `FilePipelineProofs` | theorems about `FilePipeline` |
| `PipePipeline` | `hw2/pipes`: the same over pipes, with the ends each process has open, the end of a file, and processes that die |
| `PipePipelineProofs` | theorems about `PipePipeline` |
| `GradeFile` | `hw1`: additions, deletions, searches and kills on the sorted file |
| `GradeFileProofs` | theorems about `GradeFile` and its bisection |
| `MC...` | the model values and constant definitions of the instances that TLC checks |

`SemRing` and `ActiveRing` each implement `BoundedFifo` (`Fifo == INSTANCE
BoundedFifo WITH ...`, checked as the property `ImplementsFifo`). `ActiveSession`
runs `ActiveRing` on the segment that its processes find (`RunsTheRing`).
`FilePipeline` and `PipePipeline` both extend `Expressions` and each implement
`Calculator` (`ImplementsCalculator`).

Operators whose comment begins with "Mutant" are wrong versions of the
definition that follows them. `PROJECT.json` says which property fails when the
definition is replaced by the mutant; no specification uses them.

### SemRing
One action per `semop` and per group of accesses to the struct that nothing can
come between: `PutFree` (line 151), `PutNext` (155), `PutLock` (163), `PutStore`
(167), `PutIn` (171), `PutUnlock` (180), `PutFull` (184), and the same for
`buf_get`. `pc[p]` says which of them process `p` does next. `_semdown` has a
failing branch: `sem_flg` is never assigned (lines 274, 288), so a call may see
`IPC_NOWAIT`. `SemFlags` is the set of flag sets that a build may leave there.
A failing call returns at once and keeps what it took before (lines 163, 208).
The history variable `refused` remembers the processes this happened to. Two
safety invariants are told apart by it: `SemaphoresCountSlots` holds in any
case, `NoUnitLost` as long as it happened to nobody; so does
`EveryCharDelivered`. All the others hold in any case.

### SemSession
Every system call and every access to the struct of `buf_init` and
`buf_destroy`, the loops of `sender.c` and `receiver.c`, and the kernel's side:
segments that are found by key, marked for removal (and not found any more) by
`IPC_RMID` and freed when the last process detaches; semaphores that vanish
under sleepers (`EIDRM`), `SEM_UNDO` adjustments at exit. `nproc++` and
`--nproc` are a load and a store, and `InitStruct` writes the four fields that
`buf_init` fills in one after the other. A behaviour begins with no kernel object
under the key.

The users start and quit the programs when they like, a process may be killed
anywhere, and `semop` may see `IPC_NOWAIT`: all of it is in every behaviour. The
history variable `breaches` notes what was not orderly: `"racing_launch"`, a
program started while another is in `buf_init`; `"early_quit"`, a `q` typed before
all programs run; `"flags"`, a call that a garbage flag made fail or be undone. The
code has no defence against any of them. `NoFault` holds all the same (which is why
there is no action for a division by zero, as there is in `ActiveSession`), the prefix
half of `AllDelivered` holds under racing launches and kills, and the other
properties are about `Orderly` sessions, those without a breach or a kill.

### ActiveRing
One action per access to shared memory. A polling loop is one action that waits
for the exit condition of the loop, and is preceded by what the code computes
before it (`nextPos`). The flag is tested (`PutTest`) and set (`PutSet`) in two
steps, so both sides are inside their "critical sections" together, as the
comment in line 99 concedes. With one sender and one receiver the ring is
right all the same, and that is the theorem.

### ActiveSession
The same level of detail for `hw4/active`, with the loops of `ActiveRing` on a segment
that processes create, find, fill in field by field (lines 65-67), mark for removal
without a count, and leave. `breaches` has `"early_quit"` (`q` typed before the receiver
is attached) and `"half_made_ring"`: the sender attached while the receiver that made
the segment was still in `buf_init`. The other launch race, a receiver that attaches
while the sender is still in `buf_init`, is part of an orderly session and does no harm,
because an unwritten struct is an empty ring. `RunsTheRing` maps the first segment, the
program counters of the two programs and what they typed and fetched to `ActiveRing`'s
variables, and says that every step that leaves the session orderly is one of
`ActiveRing` or a stutter. The ring theorems so apply to the programs. `FaultsExplained`
is about the sessions that are not orderly: who divides by zero is a sender, and it came
upon a ring half made, by a receiver that still was in `buf_init` or that was killed
there. `Size` of the ring is `Room + 1`, the `n++` of line 24. `ActiveProofs` extends
both modules, so their definitions have different names: `put_wait` of the session is
`PutWait` of the ring, `position` is `nextPos`, `char` is `c`.

### ChildShell
The list is a sequence of `[pid, status]`, newest first. `cur` is the node a pointer
refers to. A child has a state, what `waitpid` has to report of it, and its pending
signals. The shell's actions stop at each `kill` and each `waitpid`, so children move
between any two of them. `refresh_all`'s loop is `RefreshNode`, with its skip of the
node behind a dead one. `wait_status` is `WaitSeen`, `WaitAgain` and `WaitTimesOut`.
`Outsider` is a signal by somebody else. The pid of a reaped child may be given to a
stranger (`Stranger`), of the shell's user or of another, or to the next child (`Exec`),
also while a dead node with that pid is still in the list. With a `fork` two nodes then
share a child, and either of them takes reports that the other needs, so that the one
which remains can be wrong for good. The history variable `doubled` has the pids whose
latest `fork` found a node with that pid, until no node has them. `StatusTracksState` is
about the others: what the list says of them is true as soon as `waitpid` has nothing to
report, and a node is `DEAD` exactly when its child was waited for. `SignalsOwnChildren`
excepts `exit` for a pid in `doubled`, because `exit` does not look before it signals.
`NoChildForgotten` holds for all.

A child may come to belong to another user (`ChangeUser`). `kill` of such a process
fails with `EPERM`, but for `SIGCONT`, which may pass within the session, and
`send_signal` then ends the shell wherever it is (`SignalRefused`, lines 116-119), also
half way through `exit`. `ESRCH` is passed over. `ExitLeavesNobody` says what `exit`
then owes: the children in front of that one are dead.

### FilePipeline
Process 0 is main and 1 to 3 are `P1` to `P3`. `SendMessage` is `SendWait` (the
file is empty) and `SendWrite`. `ReceiveMessage` is `ReceiveRead` (the first
line) and `TruncateFile`, after which the process goes on with what it received:
children evaluate it with `ParseExpression`, main prints it. Main's messages
have a second, blank line (its string already ends in a line feed and
`SendMessage` adds another). `Interrupt`, `ForkFails` and `ExecFails` are the
failures. The files keep their content over an interrupt, and `Start` does not
empty them. `StateNow` says what the session has promised, to its end. A session
that found a message or lacks a child is `"off"` from its first step to its last:
neither its answers nor its end are promised, and it keeps neither (section 3).
`NoMessageOverwritten` and the first half of `RemovesUnused` are about all sessions.

### Expressions and Calculator
An expression is a sequence of numbers with the operator before each. `Symbols`,
`AnyTerm` and `WellFormed` say what a user may type, and `ExprsAssumption` that the
expressions of an instance are of this form.
`ParseExpression` is one pass of a child (a fold), `Value` is the reference: the
value by precedence, written from the grammar and not from the code. `Calculator`
is what a user may rely on: each question is answered by its own value, before the
next one, and the session ends after `q`. Its fairness (`Answer`, `End`) is part of
what the pipelines are shown to implement.

### PipePipeline
A pipe is a sequence of lines, `ends` is the set of pipe ends each process has
open. `Fork` copies main's, `CloseUnused` keeps two. `Write` needs room and a
reader, `WriteBroken` is SIGPIPE. `ReadEnd` is what `ReadLine` (children) and `Read`
(main) do at the end of a file: they take no notice of it, so a child finds its
last line again, and main its last line or whatever is in the memory behind it.
`Garbage` is what memory that was never written may hold. `WaitForPipe` is called
in `main.c:115,119` and defined nowhere. It is taken for what its name and its
places say, a wait for the pipe, which the blocking `write` and `read` behind it do
as well. `ExecFails` is the exit behind a failed `execlp` (`main.c:62-64`), `Die` is a
kill from outside. `Read` takes one line; the `scanf` of a child may take all that the
pipe has into its stdio buffer at once, to which its pipe is only larger. Text is
abstracted as in `FilePipeline`.

### GradeFile
`file` is the sequence of lines, and an entry has a course, a date (a number of
months) and a grade in hundredths. `SearchCourse` is the bisection of lines
403-454 as a recursive function. `CourseCmp` compares with the truncation of the
grade difference to an `int`, and `Stored` is the rounding of `%04.1f`.
`Bounds` is the record of its two ends. `PrintsAll` says that the entries which
`PrintAllCourses` prints for a course are all of that course, each once, newest
first. `AddCourse` makes all its decisions, which only read, in one step. Each write is
then a step of its own: `Push` (one line moved down), `Insert`, `Pull` (one line
moved up), `FileTruncate`. `Crash` ends the program between two of them and it
starts again with what is in the file. What a function reads before it is set
(`lcourse` on an empty file, `line` when the last entry is deleted) is any line that an
entry can have.

## 3. Runs

All runs use TLC's breadth-first search over the whole state space of the
instance. `expect: violation` runs are listed at the end.

| Run | Instance | Shows |
|---|---|---|
| `SemRing_fifo` | 1 producer, 2 consumers, 2 slots, 4 puts of two characters, every flag set | FIFO refinement, mutual exclusion, exact and bounded semaphore counts, the inductive invariant `RingInv`, every put returns and every character arrives |
| `SemSession_session` | 1 sender, 1 receiver, 2 slots, 4 characters typed, launches and quits at any time, one kill anywhere, `semop` waiting or not | no division by zero; a prefix is received; orderly sessions deliver all, keep the semaphores and end |
| `ActiveRing_fifo` | 3 slots (capacity 2), 5 puts of two characters | FIFO refinement, `RingInv`, liveness under weak fairness |
| `ActiveSession_session` | 1 sender, 1 receiver, 3 slots, 5 characters typed, launches and quits at any time, one kill anywhere | a prefix is received; orderly sessions run `ActiveRing`, deliver all and end; who divides by zero, and why |
| `ChildShell_commands` | 2 children, 2 looks per wait, 1 signal from outside or process that comes to belong to another user | statuses, reachability, signals to own children, every command ends, `exit` ends all unless a signal is refused |
| `FilePipeline_answers` | 13 expressions of up to three numbers with `-`, `<`, `&&`; two failures | the sound sessions implement `Calculator`; no overwriting in any session, clean end |
| `PipePipeline_answers` | 2 expressions, pipes of two lines, one fault (failed fork or exec, a kill anywhere) | the sessions implement `Calculator`; without main its children end; every question settles |
| `GradeFile_edits` | 2 courses, 2 dates, grades 3.0, 4.96, 9.4, 3 lines, one kill | nothing lost, sorted, searches right, every operation ends |

Bounds, and why they do:

* the rings wrap around at least once: `MaxPuts` is larger than `Size`, and both
  full and empty rings with `in = out` occur. The theorems cover every size;
* two consumers, because `SemRing`'s consumers interfere through `mutex` and
  `full`; a third adds no new pair. Two different characters are enough to tell
  an order or a duplicate, as the code never looks at them;
* `SemSession` types four characters over two slots, so that the ring wraps and
  the sender blocks; `ActiveSession` types five over two. An early quit already
  gives a second generation of segment and semaphores with one process of each
  kind. `SEM_UNDO` in `sem_flg` is left to `SemRing`'s flag sets and to the notes
  below: with it the state space is too large for the run (two characters and one
  kill have 4 million states; `NoFault` holds there too);
* two children give "the node behind a dead one" and "the last node". `Tries` = 2
  gives a look that is not the last and one that is. A timeout may come at any
  moment (the interval of a look is not modelled), which is more than the code
  allows and includes it;
* one external event is a signal, a child that changes its user, or a pid that
  another user gets. Strangers of the shell's own user are not counted;
* three numbers give each pair of precedence levels in both orders; the first is 2 and
  the others 1, so that `-` shows whether it was done from the left. Two failures leave
  messages in two files for the session after them. The number of questions in a session
  is not bounded. `PipePipeline` has two of these expressions, enough to tell an answer
  from the one before; two lines per pipe make a child block that repeats a line. With
  two faults and one expression `OrphansEnd` and `QuestionSettles` hold as well (48
  thousand states);
* three lines give an insertion before, between and after others, and a file
  with a line twice (after a kill) into which something is inserted. The number
  of operations is not bounded.

`CHECK_DEADLOCK FALSE` is set where the system may stop: bounded puts, programs
that ended, a user who types no more, a receiver that waits for nobody.
`GradeFile_edits` checks deadlock.

### Fairness
* `SemRing`, `SemSession`: strong fairness of each process's next step. A
  process that runs is scheduled, and the kernel wakes the sleepers of a
  semaphore in the order they came, so a `semop` that can succeed again and
  again succeeds. No call has to fail (the fairness of `SemRing` is about steps
  that leave `refused` as it is, that of `SemSession` about steps that leave
  `breaches` as it is). Nobody has to put a character. In `SemSession` programs are
  started and users type on up to their `q`.
* `ActiveRing`, `ActiveSession`: weak fairness only (in `ActiveSession` of steps
  that leave `breaches` as it is). A look may come at the wrong moment every
  time, so only a condition that stays true has to be noticed.
* `ChildShell`: weak fairness of the shell and of the delivery of each child's
  pending signals. No child has to die by itself and nobody has to type.
* `FilePipeline`, `PipePipeline`: weak fairness of each process. Nobody has to
  type or to start.
* `GradeFile`: weak fairness of the operation under way. The user may stay in
  the menu.

### Violations
* `SemRing_two_senders` (`SlotsHold`): `nextPos` is computed in line 155, the mutex
  taken in line 163. Two senders compute the same one. Each stores in the slot that
  `in` shows under the lock (line 167), so neither store hits the other. But the second
  sets `in` to the `nextPos` it has already, its character stays behind `in`, and the
  next put stores over it. Where the trace ends, the slots between `out` and `in` are not
  the characters put and not fetched. This is why the FIFO theorem is about one sender.
* `SemSession_last_leaves` (`LastRemovesSemaphores`): sender and receiver leave
  together, both read `nproc` = 2, and the semaphores stay.
* `ChildShell_refresh` (`NoDeadAfterRefresh`): two children die, a command finds the
  second one dead and marks it, and the next `refresh_all` unlinks the first and steps
  over the second. A `refresh_all` that looked at every node would leave none that is
  known to be dead, whenever children die.
* `GradeFile_rounding` (`AverageTakesGreatest`): 4.96 is checked as a failure,
  accepted before a later failure, and stored as 05.0. The course then has a
  pass that the average does not find.

### Known limits of what holds
Found with TLC on other instances (what is said of old semaphores and of the end of the
input, by reading the code), and the reason for the conditions above:
* overlapping launches break `SemaphoresOutliveUsers` (the creator sets `nproc`
  to 1 after the other has counted itself, `library.c:77-84`);
* an early quit breaks the prefix half of `AllDelivered`, and with a third process
  `NoFault`: every `buf_destroy` removes the segment, whatever `nproc` says, and
  two generations of segments share the semaphores;
* a call that does not wait, or `SEM_UNDO` with a kill, breaks the prefix half of
  `AllDelivered`: a unit is lost half way, or given back though a character stands
  for it;
* in `hw4/active` a sender that attaches between the receiver's `shmget` and its
  line 65 divides by a size of zero, and one that puts before line 66 has its
  character forgotten. A receiver killed before line 65 leaves a segment that is never
  initialised, because the next `buf_init` finds it existing: that sender and all
  later ones die in the same way until somebody removes the segment.
  `FaultsExplained` says that these are all the ways. In
  `hw4/semaph` the semaphores prevent both (`NoFault`), if they are new;
* semaphores that an earlier session left, by the race of `SemSession_last_leaves`,
  are found by the next one with the units they had. `SemSession` does not begin with
  them. A sender that attaches before the segment is filled in would pass a `free`
  that still has a unit and divide by a size of zero, and what the counts promise
  of the ring would be wrong from the start;
* at the end of its input `scanf` leaves `buf` as it is, so a sender whose input
  ends without `q` puts its last character for ever. To the ring that is a user who
  types on. The bound `MaxTyped` ends each session of the models with a `q`;
* the shell signals a pid right after it was told that the child is dead (lines
  244, 304, 380): in these places a stranger may be hit;
* in `hw2/pipes`, when a child has died, `q` may leave main in `waitpid` for ever:
  main keeps its end of the last pipe open, so a third child that repeats a stale
  line fills the pipe and sleeps. `Calculator`'s end is promised only for sessions
  in which nobody died;
* a signal that is refused in the middle of `exit` ends the shell, and the children
  behind that one in the list live on, though the shell might have signalled them
  (`main.c:90-91` says "Killing all processes");
* in `hw2/files` a session that finds a message of an interrupted one takes it for its
  own: from then on each result is that of the expression before. With messages left in
  two files, which takes two interrupts, main takes the stale answer for the answer to
  its `q` and goes to `waitpid` (`main.c:105-109`). The child that receives the next
  message waits for its file to become empty (`util.c:145`), which nobody reads any
  more, and main waits for that child for ever;
* after a kill `GradeFile` keeps all entries (`NothingLost`) but not the order:
  the next insertion stops pushing at the second copy of a line;
* `guide.txt:7` says TERM and then CONT for a stopped child, the code does the reverse;
  `exit` may signal a stranger through the one of two nodes with a pid that was not told
  that the child is dead; after SIGKILL `_kill` removes the node although the child may
  still live, in spite of "Remove dead process" (`main.c:313`).

## 4. Proofs

All proofs are checked by TLAPS, for every value of the constants that satisfies the
named assumptions of the modules:

* `hw4`: senders and receivers are finite disjoint sets, a ring has a slot (two in
  `ActiveRing`, where one stays empty), the content of an unwritten slot is no
  character, `q` is no other letter;
* `ChildShell`: `wait_status` looks at least once (`TRIES_MAX`);
* `GradeFile`: names and grades are numbers, a grade is at most 10.00 (`0 .. 1000`
  hundredths, what `GetCourseInfo` accepts), `Today` is not month 0;
* pipelines: what the user types is `WellFormed`, a pipe has room for a line, and
  memory that was never written holds symbols of expressions;
* every bound (`MaxPuts`, `MaxTyped`, `MaxExternal`, `MaxLines`, `MaxCrashes`, `MaxFaults`) is a
  natural number, so the theorems hold for behaviours of every length.

Each proof module defines its inductive invariant, with one lemma per action or group
of actions. TLC checked the invariants on small instances before they were proved,
`FilePipelineProofs!FInv` with two faults, `PipePipelineProofs!PInv` with two faults
and pipes of three lines, `ActiveProofs!PairInv` with two kills.

`SemRingProofs`
* `TypeCorrect`: `TypeOK` is inductive.
* `CriticalSectionsExclude`: by `MutexInv`. Exclusion alone is not inductive: one
  has to know that the semaphore is 0 or 1, and that nobody is inside while it
  is 1. The lemmas `MutexKept`, `MutexTaken`, `MutexReleased` and `MutexAside`
  say what the four kinds of step do to it.
* `PromisesAreKept`: the units of `free` and `full`, those that processes hold
  and those they owe, never exceed the slots and the characters there are.
  `CountMoved` says how the number of processes at a set of labels changes when
  one of them moves, and `ProducerKeepsCounts` and `ConsumerKeepsCounts` are the
  steps. Inequalities, because a call that fails half way leaks a unit.
* `UnitsAccounted` (`NoUnitLost`): equalities as long as no call has failed, so a call
  sleeps on `free` or `full` only when the ring is really full or empty.
* `RingHoldsChars` (`RingInv`) and `RingImplementsFifo` (`ImplementsFifo`) assume
  `SoleProducer`, that there is one sender; the run `SemRing_two_senders` shows that
  both fail with two. The indices and the content of the slots follow from exclusion
  (`AloneInside`) and from the counts (`OccupiedBounds`: a process that may store finds
  a free slot, one that may fetch a character). Any number of receivers, and calls that
  fail half way, are included.

`SemSessionProofs`: both programs of `hw4/semaph` from launch to exit, for any number of
senders and receivers.
* `TypeCorrect`. `TypeInv` is inductive. Two parts of `TypeOK` need counting: that there
  are no more segments than programs, and no more generations of a semaphore. A segment
  has its maker (`Makers`), and who makes a generation of `s` is one more program past
  its `semget` (`Past(s)`). `Place` says that who uses a segment has it mapped.
* `SemaphoresStay` (`SemaphoresOutliveUsers`), with `OrderlyInv`. While a program is still
  to come no Quit is under way (`NoQuitYet`), so launching and leaving do not overlap; one
  program at a time is inside `buf_init` (`OneStarts`), so there is one segment and one
  generation of each semaphore (`OneSegment`, `OneSemaphore`). What remains is the race of
  the unlocked decrements of `nproc`. `NprocCounts` is the reason it does no harm:
  `nproc`, and what a process has read of it and will write back, is never below the
  number of users that will be left, so zero is read only by the last. An equality would be
  false, since a lost decrement leaves `nproc` too large; that is the finding of
  `SemSession_last_leaves`.
* `NoFaultOfTwo` (`NoFault`) assumes `TwoPrograms`, that there are at most two, as the
  code intends; kills, racing launches, early quits and every `sem_flg` are included. The
  invariant is `FaultInv`. `Filled`: who has passed a semaphore has a segment with a size.
  It is kept because of `Unset`: until somebody fills a segment in, every semaphore is at
  zero and notes nothing for `SEM_UNDO` (`Zero`), so nobody passes one. After that a
  second program may be `Young`, in a new segment that is not filled in, while the first
  is removing what it leaves (`Keys`: of two programs that made a segment one is over).
  `Old` says that the semaphores the young one can still find are at zero too, because
  `buf_destroy` removes `free` before `full` and `full` before `mutex`, the order in which
  `buf_init` gets them. Section 3 has what happens with a third program.
* `DeliveredToOne` (`AllDelivered`) assumes `Pair`, that there is one sender and one
  receiver; kills anywhere and racing launches are included in the prefix half. The
  invariant is `CalmInv`, for sessions without an early quit or a garbage flag. `Life` says
  that there is one segment and one generation of each semaphore as long as either program
  has use for it, `Quits` where a `q` may be, `Opening` that nothing was stored before the
  maker is out of `buf_init`, whichever semaphore the other already passed. `RingAt(m)`
  is the ring after `m` characters: `Counts` bounds the units of the semaphores, again by
  inequalities because who is killed keeps its units; `Slots` gives the indices as
  remainders of `m` and of the number of characters fetched, and the content between them.
  `m` is under an existential quantifier since a sender that was killed no longer shows
  whether its last character is in the ring. The orderly half needs `StoppedAfterQuit`
  besides, that a receiver leaves its loop only after a `q`. `ModNext` and `ModApart` are
  the index arithmetic, from the division theorem.

`ActiveProofs`, the ring:
* `RingTypeCorrect` (`RingTypeOK`, which no run checks: the other properties rest on it).
* `RingHoldsChars`: the inductive invariant `RingInv`. `IndicesShow` relates the
  indices to the number of characters, corrected by a character that is stored
  while `in` has not moved or fetched while `out` has not. `SlotSeen` and
  `CharSeen` say that what one side has seen of the other's index stays true.
  That replaces mutual exclusion, which does not hold. `SlotsHold` is about the
  content of the slots.
* `RingImplementsFifo`: every step is a step of `BoundedFifo` or leaves
  `sent` and `received` as they are.

`ActiveProofs`, both programs of `hw4/active` from launch to exit:
* `SessionTypeCorrect` (`TypeOK`), for any numbers of senders and receivers. `TypeInv` is
  inductive: besides the types it has that every segment has its maker (`Makers`, so there
  are no more segments than programs), and what a label says of the segment (`Place`: who
  works on the struct has it attached, and it is the one its `shmget` found).
* `SessionDelivers` (`AllDelivered`) and `SessionRunsTheRing` (`RunsTheRing`) assume `Pair`,
  that there is one sender and one receiver. Kills anywhere, early quits and
  every order of launches but a `"half_made_ring"` are included in the prefix half of
  `AllDelivered`. The invariant is
  `PairInv`, in three layers. `TypeInv` always holds. `FilledInv` is for sessions in which
  no sender came upon a ring that was still being made: `Keys` says that the first segment
  is the only one until the sender gives its key away, and that a second one, which a
  receiver makes that comes after that, is never put into; `Opening`, that nobody has used
  the ring while `buf_init` still writes its zeros, so that these writes change nothing;
  `Quits`, where a `q` may be; `RingAt(m)` is the ring after `m` characters, with `Sent`
  and `Fetched` for the two indices and `Between` for the content. As for the semaphores,
  `m` is under an existential quantifier, since a sender that was killed no longer shows
  whether its last character is in the ring. Nothing in `RingAt` is about the
  flag, which excludes nobody: what a poll has seen of the other's index stays true, as in
  `RingInv`. `OrderlyInv` is for orderly sessions: there is one segment, both
  programs come to it, as long as it has no size its maker has still to write it, and who
  leaves its loop has put or fetched the `q`. Hence nobody divides by zero (`NoFault`),
  and the receiver's last character is the sender's last.
* `HalfMadeRingsExplain` (`FaultsExplained`), for one sender and any number of receivers,
  kills and every order of launches included. The invariant `HalfMadeInv` says that a
  segment has a size once its maker has left `buf_init`, unless the maker was killed
  there, and that only the sender divides by a size.
* For `SessionRunsTheRing` there is one lemma per call, or part of a call: `TypeCalls`,
  `PutNextRuns`, `PutPollRuns`, `PutWriteRuns`, `GetPollRuns`, `GetFetchRuns` and
  `GetWriteRuns` map it to the ring's step, and `RingLeftAlone` says that `buf_init`,
  `buf_destroy` and the exits are stutters.

`ChildShellProofs`: one invariant, `ShellInv`, for everything. `Agree` relates the list
to the children: what the properties say of a node, and besides that what `waitpid` may
report of a child in a state (`KernelOK`), that nodes outside `doubled` have different
pids, and that the newest node of a pid is not `DEAD` while its child lives. `Place`
says where `cur` points at each label, `ExitDone` that `exit` has dealt with the
children it has passed, `CurSeen` that a command which is about to signal has looked
at its child. `Evolves` sums up what the kernel and a signal may do to a child;
`EvolvesKeeps`, `LookKeeps`, `AddKeeps` and `RemoveKeeps` say what keeps `Agree`.
* `TypeCorrect`, with `l_search` finding the node that a command needs.
* `StatusesTrue` (`StatusTracksState`), `ChildrenReachable` (`NoChildForgotten`),
  `SignalsReachChildren` (`SignalsOwnChildren`).

`GradeFileProofs`: `FileInv` is `TypeOK`, `Shape`, `Keeps` and `Clean`. While lines are
being moved one line of the file is free, the `Hole`: a copy of its neighbour, or the
line being deleted. The entries are in the other lines, `Kept`, whatever step a kill
comes after (`Keeps`), and these are in order if the program was never killed (`Clean`).
* `TypeCorrect`, `EntriesKept` (`NothingLost`, kills included) and `FileSorted`
  (`SortedAtMenu`) follow from it.
* `AllPrinted` (`PrintsAll`) and `AverageRight` (`AverageCountsPassed`) are about files
  of every length. `SearchCourse` is a recursive function: `BisectExists` proves that
  its definition has a solution, `BisectStops` that on an ordered file it ends at
  neighbouring lines around its key, and `SearchesAgree` that the searches of a course
  with different dates or grades meet where they should.

`ExpressionsProofs`
* `ThreePasses`: for every well-formed expression of every length, the passes of `P1`,
  `P2` and `P3` leave `<<Number(Value(expr))>>`. `ParseIsFold` and `FoldExists` unfold the
  fold of the community modules, `PassPutsTogether` says that pass `k` puts together
  the terms between which no operator of a lower level stands, and
  `ValueOfOperator`, `ValueBelow` and `ValueExists` the same of the reference.

`FilePipelineProofs`: `FInv` is `TypeOK`, `Sessions` (true of every session, also one that
lost a child or found a message) and `Sound`: a sound session is `Forking`, `Asking`,
`InFlight(s)`, `Answered` or `Closed`. `InFlight(s)` says that the one message has passed
`s - 1` stages, where it is, and that all other files are empty.
* `TypeCorrect`, `MessagesKept` (`NoMessageOverwritten`), `CleanUpSafe` (`RemovesUnused`).
* `PipelineCalculates`: the initial states and the steps of the pipeline are those of
  `Calculator`, by `ThreePasses`. That is the safety part of `ImplementsCalculator`.

`PipePipelineProofs`: `PInv` is `TypeOK`, `Descriptors` (who is alive has its own two
ends, and only those once it runs its program), `Messages` (a blank line follows a `q`
and nothing else) and `Whole`, which divides a session without a fault as `Sound` does.
`NobodyMissing` shows that such a session meets neither SIGPIPE nor the end of a file.
* `TypeCorrect`, which also bounds what is in a pipe, and `PipelineCalculates`.

Induction: the induction theorems of the library take a predicate as a parameter, which
cannot be instantiated here. `SetInduction` and `InductionUpTo` take the set of the
numbers that satisfy it, and follow from `Smallest`, which follows from the library's
theorem on well-founded relations. Everything about folds, recursive functions, files
and expressions of every length rests on them.

Only model-checked:
* liveness: `EveryCharDelivered`, `SessionEnds`, `EveryCommandEnds`,
  `ExitLeavesNobody`, `OperationEnds`, `OrphansEnd`, `QuestionSettles`, and the fairness
  of `Calculator` in `ImplementsCalculator`. TLAPS does no reasoning about fairness and
  ENABLED.

## 5. Not modelled

* `hw2`'s `GetExpresssion` and `AddSpaces`, `hw3`'s `parse_args`, `hw1`'s input
  and output: text, at the level of single characters and buffers.
* `hw1_test.c`, `main_old.c`, `l_test.c`, `prog1.c`-`prog4.c`, `data.c`, the
  logging macros: prototypes, programs to be started by the shell, test data.
* The compiled programs in the tree are older than the source beside them.
* Memory is sequentially consistent in all models, and an access to an `int` or a
  `char` is atomic. Errors of system calls that only a full disk or a broken
  kernel object gives are left out, and so is signed overflow. A failing `fork`,
  `exec`, `kill` or `semop` is modelled.

## 6. Plan

Done in this order: the semaphore ring and its proofs, the life cycle, the
busy-waiting ring and its proofs, the shell, the grade file, the file pipeline; then
the pipes and the abstract calculator of both pipelines, the life cycle of
`hw4/active` and its refinement to the ring, and pids that return; then the theorems
about the shell, the grade file, the expressions, both pipelines, and the refinement of
`SemRing`, and the safety of `SemSession` and of `ActiveSession` with its refinement.
Every invariant that a run checks is now a theorem. Left:

1. `SemSession`: that an orderly session runs `SemRing`, as `ActiveSession` runs
   `ActiveRing`. Its `AllDelivered` and its semaphores are proved directly.
2. `SemSession` with `SEM_UNDO` in `sem_flg`, which has too many states for a run.
