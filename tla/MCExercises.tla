----------------------------- MODULE MCExercises -----------------------------
(***************************************************************************)
(* The programs of the exercises on threads and processes, for one run of  *)
(* TLC: the initial state picks a program, and what it does not use stays  *)
(* put.  Five of them implement OneTwo.                                    *)
(***************************************************************************)
EXTENDS OneTwo

CONSTANTS MaxRuns, Threads, Arguments, NUM_STEP, MaxLines, Lengths, MaxStart

ASSUME BoundsAssumption ==
  /\ MaxRuns \in Nat
  /\ Arguments \subseteq Nat \ {0} /\ NUM_STEP \in Nat
  /\ MaxLines \in Nat \ {0} /\ Lengths \subseteq Nat /\ MaxStart \in Nat

VARIABLES
  program, main, pc,
  holder, who, asleep, mutexes,                  \* lab11, lab13
  semaphore, names, opened,                      \* lab14, lab16
  lines, runs, half,                             \* lab16, started again
  stop, exit_next, rounds,                       \* lab9
  num_of_threads, term, result, sum,             \* lab8
  stdin, strings, total, clock, due, output,     \* lab6
  build, created, said,                          \* lab1, lab3
  requested, pushed, begun                       \* lab4

locks  == <<holder, who, asleep, mutexes>>
sems   == <<semaphore, names, opened>>
again  == <<lines, runs, half>>
rest9  == <<stop, exit_next, rounds>>
rest8  == <<num_of_threads, term, result, sum>>
rest6  == <<stdin, strings, total, clock, due, output>>
rest1  == <<created, said>>
rest4  == <<requested, pushed, begun>>

\* What only the exercises without a turn to keep change.
others == <<main, again, rest9, rest8, rest6, build, rest1, rest4>>

all == <<program, printed, pc, locks, sems, others>>

Lab1    == INSTANCE FirstThreads
Lab4    == INSTANCE Cancellation
Lab6    == INSTANCE SleepSort
Lab8    == INSTANCE FixedSeries
Lab9    == INSTANCE PiBarrier
Lab11   == INSTANCE OneTwoMutex
Lab11C  == INSTANCE OneTwoChain
Lab13   == INSTANCE OneTwoCondition
Lab14   == INSTANCE OneTwoSemaphores
Lab16   == INSTANCE OneTwoProcesses
Lab16R  == INSTANCE OneTwoRestarted WITH printed <- lines

NoFlag       == holder = "nobody" /\ who = "parent"
NoSleeper    == asleep = {}
NoRing       == mutexes = [m \in 0..2 |-> "nobody"]
NoSemaphores == semaphore = [empty |-> 0, filled |-> 0]
NoNames      == names = {} /\ opened = {}
NoTurn       == Init /\ NoFlag /\ NoSleeper /\ NoRing /\ NoSemaphores /\ NoNames

No1 == created = 0 /\ said = <<>>
No4 == requested = FALSE /\ pushed = FALSE /\ begun = 0
No6 == /\ stdin = <<>> /\ strings = <<>> /\ total = 0
       /\ clock = 0 /\ due = <<>> /\ output = <<>>
No8 == num_of_threads = 0 /\ term = <<>> /\ result = <<>> /\ sum = <<>>
No9 == stop = FALSE /\ exit_next = FALSE /\ rounds = <<>>
No16R == lines = <<>> /\ runs = 0 /\ half = 0
NoMain == main = "unused"
NoBuild == build = "any"
NoOther == NoMain /\ No16R /\ No9 /\ No8 /\ No6 /\ NoBuild /\ No1 /\ No4

TurnInit ==
  \/ /\ program = "lab11"
     /\ Lab11!MutexInit /\ NoSleeper /\ NoRing /\ NoSemaphores /\ NoNames
  \/ /\ program = "lab11-3-mutex"
     /\ Lab11C!ChainInit /\ NoFlag /\ NoSleeper /\ NoSemaphores /\ NoNames
  \/ /\ program = "lab13"
     /\ Lab13!ConditionInit /\ NoRing /\ NoSemaphores /\ NoNames
  \/ /\ program = "lab14"
     /\ Lab14!SemaphoresInit /\ NoFlag /\ NoSleeper /\ NoRing /\ NoNames
  \/ /\ program = "lab16"
     /\ Lab16!ProcessesInit /\ NoFlag /\ NoSleeper /\ NoRing

OtherInit ==
  \/ /\ program = "lab1" /\ Lab1!FirstInit
     /\ pc = <<>> /\ No4 /\ No6 /\ No8 /\ No9 /\ No16R /\ NoTurn
  \/ /\ program = "lab4" /\ Lab4!CancelInit
     /\ No1 /\ No6 /\ No8 /\ No9 /\ No16R /\ NoTurn
  \/ /\ program = "lab6" /\ Lab6!SortInit
     /\ NoBuild /\ No1 /\ No4 /\ No8 /\ No9 /\ No16R /\ NoTurn
  \/ /\ program = "lab8" /\ Lab8!SeriesInit
     /\ NoBuild /\ No1 /\ No4 /\ No6 /\ No9 /\ No16R /\ NoTurn
  \/ /\ program = "lab9" /\ Lab9!Init
     /\ NoMain /\ NoBuild /\ No1 /\ No4 /\ No6 /\ No8 /\ No16R /\ NoTurn
  \/ /\ program = "lab16-again" /\ Lab16R!RestartedInit
     /\ NoMain /\ NoBuild /\ No1 /\ No4 /\ No6 /\ No8 /\ No9
     /\ Init /\ NoFlag /\ NoSleeper /\ NoRing

MCInit == (TurnInit /\ NoOther) \/ OtherInit

\* A step of one of the two that keep the turn.
Run(p) ==
  /\ \/ /\ program = "lab11" /\ Lab11!Thread(p)
        /\ UNCHANGED <<asleep, mutexes, sems>>
     \/ /\ program = "lab11-3-mutex" /\ Lab11C!Thread(p)
        /\ UNCHANGED <<holder, who, asleep, sems>>
     \/ /\ program = "lab13" /\ Lab13!Thread(p)
        /\ UNCHANGED <<mutexes, sems>>
     \/ /\ program = "lab14" /\ Lab14!Thread(p)
        /\ UNCHANGED <<locks, names, opened>>
     \/ /\ program = "lab16" /\ Lab16!Process(p)
        /\ UNCHANGED locks
  /\ UNCHANGED <<program, others>>

Wakeup(p) ==
  /\ program = "lab13" /\ Lab13!SpuriousWakeup(p)
  /\ UNCHANGED <<program, mutexes, sems, others>>

FirstThreads ==
  /\ program = "lab1" /\ Lab1!FirstNext
  /\ UNCHANGED <<program, printed, pc, locks, sems, again, rest9, rest8, rest6, rest4>>

rest == <<program, printed, locks, sems, again, rest9, rest8, rest6, rest1>>

Canceller == program = "lab4" /\ (Lab4!CreateIt \/ Lab4!Cancel) /\ UNCHANGED rest

CancelledThread == program = "lab4" /\ Lab4!ThreadStep /\ UNCHANGED rest

Sort ==
  /\ program = "lab6" /\ Lab6!SortNext
  /\ UNCHANGED <<program, printed, locks, sems, again, rest9, rest8, build, rest1, rest4>>

Series ==
  /\ program = "lab8" /\ Lab8!SeriesNext
  /\ UNCHANGED <<program, printed, locks, sems, again, rest9, rest6, build, rest1, rest4>>

Rounds ==
  /\ program = "lab9" /\ Lab9!Next
  /\ UNCHANGED <<program, printed, main, locks, sems, again, rest8, rest6, build, rest1, rest4>>

Again ==
  /\ program = "lab16-again" /\ Lab16R!RestartedNext
  /\ UNCHANGED <<program, printed, main, locks, rest9, rest8, rest6, build, rest1, rest4>>

MCNext ==
  \/ \E p \in Everyone : Run(p) \/ Wakeup(p)
  \/ FirstThreads \/ Canceller \/ CancelledThread \/ Sort \/ Series \/ Rounds \/ Again

(* Threads and processes that can go on do; nobody relies on a spurious    *)
(* wakeup.                                                                 *)
MCSpec ==
  /\ MCInit /\ [][MCNext]_all
  /\ \A p \in Everyone : WF_all(Run(p))
  /\ WF_all(FirstThreads) /\ WF_all(Sort) /\ WF_all(Series)
  /\ WF_all(Canceller) /\ WF_all(CancelledThread)

-----------------------------------------------------------------------------

(* Every variable keeps its type; a semaphore counts to one at the most    *)
(* while no run is killed, and who waits on the condition variable is at   *)
(* that line.                                                              *)
TypeOK ==
  CASE program = "lab1"          -> Lab1!FirstTypeOK
    [] program = "lab4"          -> Lab4!CancelTypeOK
    [] program = "lab6"          -> Lab6!SortTypeOK
    [] program = "lab8"          -> Lab8!SeriesTypeOK
    [] program = "lab9"          -> Lab9!TypeOK
    [] program = "lab11"         -> Lab11!MutexTypeOK
    [] program = "lab11-3-mutex" -> Lab11C!ChainTypeOK
    [] program = "lab13"         -> Lab13!ConditionTypeOK
    [] program = "lab14"         -> Lab14!SemaphoresTypeOK
    [] program = "lab16"         -> Lab16!ProcessesTypeOK
    [] program = "lab16-again"   -> Lab16R!RestartedTypeOK

KeepsTurn == program \in {"lab11", "lab11-3-mutex", "lab13", "lab14", "lab16"}

AllLines == \A p \in Everyone : printed[p] = Lines

Finished ==
  CASE program \in {"lab11-3-mutex", "lab14", "lab16"} -> AllLines
    [] program = "lab1" -> main \in {"returned", "exited"}
    [] program = "lab4" -> Lab4!Over
    [] program = "lab6" -> main \in {"done", "failed"}
    [] program = "lab8" -> main.does = "done"
    [] OTHER -> TRUE

HasMutex(p) == program = "lab11" /\ (holder = p \/ pc[p] = "done")

(* Both print all their lines.  lab11 spins on a mutex, which promises     *)
(* nobody anything: there, provided each thread gets it again and again    *)
(* until it has finished.  lab13 may stop half-way (OneTwoCondition), and  *)
(* a run of lab16 after one that was killed may wait for ever.  The other  *)
(* programs end too, the endless loop of lab4 because it is cancelled.     *)
EverybodyFinishes ==
  <>Finished /\ ((\A p \in Everyone : []<>HasMutex(p)) => <>AllLines)

(* Who has finished holds nothing: all mutexes are free, the semaphores    *)
(* count what they began with, and no name outlives the processes.         *)
LeavesNothing ==
  KeepsTurn /\ (\A p \in Everyone : pc[p] = "done") =>
    /\ NoRing /\ NoSleeper /\ NoNames /\ holder = "nobody"
    /\ program = "lab14" => semaphore = [empty |-> 1, filled |-> 0]
    /\ program = "lab16" => semaphore = [empty |-> 0, filled |-> 1]

(* However many runs of lab16 were killed, there is at most one right to   *)
(* print, but for a kill between the two sem_unlinks (OneTwoRestarted).    *)
RightsAccountedFor == program = "lab16-again" => Lab16R!RightsAccountedFor

(* The threads of lab9 add up one piece of the series (PiBarrier).         *)
RoundsTogether == program = "lab9" => Lab9!RoundsTogether

(* lab6 prints its lines by their length (SleepSort).                      *)
SleepSorted == program = "lab6" => Lab6!SleepSorted

(* What is left to several threads is done once: lab8 adds up every term   *)
(* (FixedSeries), a handler of lab4 is called (Cancellation), and no line  *)
(* of lab1 or lab3 is lost where main waits for it (FirstThreads).         *)
DoneOnce ==
  /\ program = "lab1" => Lab1!NobodyCutShort
  /\ program = "lab4" => Lab4!CleanedOnce
  /\ program = "lab8" => Lab8!EveryTermOnce
=============================================================================
