----------------------------- MODULE FixedSeries -----------------------------
(***************************************************************************)
(* lab8/pi-serial.c: thread i of n adds up the terms i, i + n, i + 2n, ... *)
(* of the series, and main joins the threads in order and adds up what     *)
(* they have found.  A term is known by its number; the arithmetic on      *)
(* doubles is left out.  No call fails.                                    *)
(***************************************************************************)
EXTENDS Integers

CONSTANTS
  Arguments,   \* numbers of threads that the program may be given
  NUM_STEP     \* NUM_STEP; a run takes a small one

VARIABLES
  num_of_threads,  \* the argument of the program
  main,            \* main creates or joins a thread, or has done
  pc,              \* of each thread
  term,            \* i of each thread
  result,          \* the terms in calc_parts[i].result
  sum              \* how often each term is in pi_result

Workers == 0..(num_of_threads - 1)

\* The numbers that i can get to, and one more than the most that it should.
Terms == 0..(NUM_STEP + num_of_threads)

SeriesInit ==
  /\ num_of_threads \in Arguments
  /\ main = [does |-> "create", thread |-> 0]
  /\ pc = [t \in Workers |-> "unborn"]
  /\ term = [t \in Workers |-> t]
  /\ result = [t \in Workers |-> {}]
  /\ sum = [i \in Terms |-> 0]

\* for (int i = 0; i < num_of_threads; i++), and what comes after it.
LoopOn(t, after) ==
  main' = IF t + 1 < num_of_threads THEN [main EXCEPT !.thread = t + 1]
          ELSE [does |-> after, thread |-> 0]

Create(t) ==
  /\ main = [does |-> "create", thread |-> t]
  /\ LoopOn(t, "join")
  /\ pc' = [pc EXCEPT ![t] = "add"]
  /\ UNCHANGED <<num_of_threads, term, result, sum>>

(* Mutant of Last: the loop ends before the step it was told to go to. *)
LastBefore(i) == i >= NUM_STEP - 1

\* The loop ends after the first term that is not below NUM_STEP.
Last(i) == i >= NUM_STEP

Add(t) ==
  /\ pc[t] = "add"
  /\ result' = [result EXCEPT ![t] = @ \cup {term[t]}]
  /\ IF Last(term[t])
     THEN pc' = [pc EXCEPT ![t] = "done"] /\ UNCHANGED term
     ELSE term' = [term EXCEPT ![t] = @ + num_of_threads] /\ UNCHANGED pc
  /\ UNCHANGED <<num_of_threads, main, sum>>

JoinThread(t) ==
  /\ main = [does |-> "join", thread |-> t]
  /\ pc[t] = "done"
  /\ sum' = [i \in Terms |-> IF i \in result[t] THEN sum[i] + 1 ELSE sum[i]]
  /\ LoopOn(t, "done")
  /\ UNCHANGED <<num_of_threads, pc, term, result>>

SeriesNext == \E t \in Workers : Create(t) \/ Add(t) \/ JoinThread(t)

SeriesTypeOK ==
  /\ num_of_threads \in Arguments
  /\ main \in [does : {"create", "join", "done"}, thread : Workers]
  /\ pc \in [Workers -> {"unborn", "add", "done"}]
  /\ term \in [Workers -> Terms]
  /\ result \in [Workers -> SUBSET Terms]
  /\ sum \in [Terms -> 0..num_of_threads]

(* The series is added up without gap or repetition, however many threads  *)
(* there are and whether or not their number divides NUM_STEP: each of the *)
(* first NUM_STEP terms once, and one more for every thread, since each    *)
(* goes on to the first of its terms that is not below NUM_STEP.           *)
EveryTermOnce ==
  main.does = "done" =>
    sum = [i \in Terms |-> IF i < NUM_STEP + num_of_threads THEN 1 ELSE 0]
=============================================================================
