------------------------------ MODULE SleepSort ------------------------------
(***************************************************************************)
(* lab6/sleep-sort.c: a thread for each line waits at a barrier for the    *)
(* others, sleeps as long as its line is and prints it.  A line is known   *)
(* by its length.  A clock stands for usleep: a thread that is due prints  *)
(* before the clock goes on, that is, none is late by a whole unit of      *)
(* 10 ms.  Starting a thread may take any time.  No call fails but         *)
(* pthread_barrier_init for no thread at all.                              *)
(***************************************************************************)
EXTENDS Integers, Sequences, FiniteSets

CONSTANTS
  MaxLines,    \* lines that are read; the program says 100
  Lengths,     \* lengths of lines
  MaxStart     \* bound: units of 10 ms until the last thread is at the barrier

VARIABLES
  main,      \* what main does next
  pc,        \* what each of the threads created does next
  stdin,     \* the lines that are left to read
  strings,   \* the lines read
  total,     \* total
  clock,     \* units of 10 ms
  due,       \* when a thread may print
  output     \* the threads in the order in which they have printed

Started == DOMAIN pc

\* As many lines as there may be, in any order.
Inputs == UNION {[1..n -> Lengths] : n \in 0..MaxLines}

SortInit ==
  /\ main = "read" /\ pc = <<>>
  /\ stdin \in Inputs /\ strings = <<>>
  /\ total = 0
  /\ clock = 0 /\ due = <<>>
  /\ output = <<>>

Read ==
  /\ main = "read"
  /\ Len(strings) < MaxLines /\ stdin # <<>>
  /\ strings' = Append(strings, Head(stdin))
  /\ stdin' = Tail(stdin)
  /\ UNCHANGED <<main, pc, total, clock, due, output>>

\* The loop ends where fgets fails, or after MaxLines lines with total still 0.
EndOfInput ==
  /\ main = "read"
  /\ Len(strings) = MaxLines \/ stdin = <<>>
  /\ total' = IF Len(strings) < MaxLines THEN Len(strings) ELSE total
  /\ main' = "barrier"
  /\ UNCHANGED <<pc, stdin, strings, clock, due, output>>

\* pthread_barrier_init takes no count of 0.
BarrierInit ==
  /\ main = "barrier"
  /\ main' = IF total = 0 THEN "failed" ELSE "create"
  /\ UNCHANGED <<pc, stdin, strings, total, clock, due, output>>

CreateThread ==
  /\ main = "create"
  /\ pc' = Append(pc, "start")
  /\ due' = Append(due, 0)
  /\ main' = IF Len(pc') = total THEN "join" ELSE "create"
  /\ UNCHANGED <<stdin, strings, total, clock, output>>

Waiting == {t \in Started : pc[t] = "wait"}

(* Mutant of AllThere: nobody waits for anybody. *)
Anybody(there) == TRUE

AllThere(there) == Cardinality(there) = total

\* pthread_barrier_wait and, for all that it lets go, the beginning of usleep.
ArriveAtBarrier(t) ==
  LET there == Waiting \cup {t}
      sleep == IF AllThere(there) THEN there ELSE {}
  IN /\ pc[t] = "start"
     /\ pc' = [u \in Started |-> IF u \in sleep THEN "sleep"
                                 ELSE IF u = t THEN "wait" ELSE pc[u]]
     /\ due' = [u \in Started |-> IF u \in sleep THEN clock + strings[u] ELSE due[u]]
     /\ UNCHANGED <<main, stdin, strings, total, clock, output>>

IsDue(t) == pc[t] = "sleep" /\ due[t] <= clock

PrintString(t) ==
  /\ IsDue(t)
  /\ output' = Append(output, t)
  /\ pc' = [pc EXCEPT ![t] = "done"]
  /\ UNCHANGED <<main, stdin, strings, total, clock, due>>

JoinAll ==
  /\ main = "join"
  /\ \A t \in Started : pc[t] = "done"
  /\ main' = "done"
  /\ UNCHANGED <<pc, stdin, strings, total, clock, due, output>>

\* Time passes while threads are created and start, and while they sleep.
Tick ==
  /\ \/ clock < MaxStart
     \/ main = "join" /\ \A t \in Started : pc[t] \in {"sleep", "done"}
  /\ \E t \in Started : pc[t] # "done"
  /\ \A t \in Started : ~IsDue(t)
  /\ clock' = clock + 1
  /\ UNCHANGED <<main, pc, stdin, strings, total, due, output>>

SortNext ==
  \/ Read \/ EndOfInput \/ BarrierInit \/ CreateThread \/ JoinAll \/ Tick
  \/ \E t \in Started : ArriveAtBarrier(t) \/ PrintString(t)

SortTypeOK ==
  /\ main \in {"read", "barrier", "failed", "create", "join", "done"}
  /\ pc \in Seq({"start", "wait", "sleep", "done"}) /\ Len(pc) <= total
  /\ {stdin, strings} \subseteq Inputs
  /\ total \in 0..MaxLines /\ clock \in Nat
  /\ due \in Seq(Nat) /\ Len(due) = Len(pc)
  /\ output \in Seq(Started)

(* Lines come out by their length, however long it takes to start their    *)
(* threads, because none sleeps before all have been started; each of them *)
(* comes out once, and all of them have when the program ends; and it does *)
(* not fail for any number of lines from one up to MaxLines - 1.  It fails *)
(* for MaxLines of them, since sleep-sort.c:20 sets total only where fgets *)
(* has failed, although tasks.html:64 allows as many; that is no part of   *)
(* what is right here, and a program that printed them would be, too.      *)
SleepSorted ==
  /\ \A i, j \in DOMAIN output :
       i < j => output[i] # output[j] /\ strings[output[i]] <= strings[output[j]]
  /\ main = "done" => Len(output) = Len(strings)
  /\ main = "failed" => Len(strings) \notin 1..(MaxLines - 1)
=============================================================================
