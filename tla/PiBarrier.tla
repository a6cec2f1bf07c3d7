----------------------------- MODULE PiBarrier ------------------------------
(***************************************************************************)
(* lab9/pi-serial-inf.c: threads add up a series without end and meet at a *)
(* barrier after every CHECK_STEP terms, where they agree to stop once     *)
(* SIGINT has come.  Each copies stop to the shared exit_next under the    *)
(* lock before the barrier, and reads exit_next after it without the lock. *)
(* Of the sums only the rounds are kept that a thread has added up.        *)
(***************************************************************************)
EXTENDS Integers, FiniteSets

CONSTANT Threads   \* the threads that calculate

VARIABLES
  pc,          \* what a thread does next
  stop,        \* stop: the manager has taken SIGINT
  exit_next,   \* exit_next: what the threads go by after the barrier
  rounds       \* check_idx / CHECK_STEP of each thread, modulo Cycle

vars == <<pc, stop, exit_next, rounds>>

Cycle == 4     \* bound: enough to tell a round before, the same and a round after

Init ==
  /\ pc = [t \in Threads |-> "count"]
  /\ stop = FALSE
  /\ exit_next = FALSE
  /\ rounds = [t \in Threads |-> 0]

Goto(t, label) == pc' = [pc EXCEPT ![t] = label]

\* stop_manager, which takes one SIGINT and returns.
Interrupt ==
  /\ ~stop
  /\ stop' = TRUE
  /\ UNCHANGED <<pc, exit_next, rounds>>

\* CHECK_STEP terms, and then exit_next = stop under stop_mutex.
Check(t) ==
  /\ pc[t] = "count"
  /\ rounds' = [rounds EXCEPT ![t] = (@ + 1) % Cycle]
  /\ exit_next' = stop
  /\ Goto(t, "arrive")
  /\ UNCHANGED stop

Waiting == {t \in Threads : pc[t] = "barrier"}

(* Mutant of Arrive: a barrier for one thread fewer. *)
ArriveBarOne(t) ==
  /\ pc[t] = "arrive"
  /\ IF Cardinality(Waiting \cup {t}) >= Cardinality(Threads) - 1
     THEN pc' = [u \in Threads |-> IF u \in Waiting \cup {t} THEN "decide" ELSE pc[u]]
     ELSE Goto(t, "barrier")
  /\ UNCHANGED <<stop, exit_next, rounds>>

\* pthread_barrier_wait: the last to come lets all go, itself too.
Arrive(t) ==
  /\ pc[t] = "arrive"
  /\ IF Waiting \cup {t} = Threads
     THEN pc' = [u \in Threads |-> "decide"]
     ELSE Goto(t, "barrier")
  /\ UNCHANGED <<stop, exit_next, rounds>>

\* if (exit_next) break;
Decide(t) ==
  /\ pc[t] = "decide"
  /\ Goto(t, IF exit_next THEN "done" ELSE "count")
  /\ UNCHANGED <<stop, exit_next, rounds>>

Calculate(t) == Check(t) \/ Arrive(t) \/ Decide(t)

\* main has joined the manager and all the threads.
Over == stop /\ (\A t \in Threads : pc[t] = "done") /\ UNCHANGED vars

Next == Interrupt \/ (\E t \in Threads : Calculate(t)) \/ Over

(* The threads run; nobody need ever send SIGINT. *)
Fairness == \A t \in Threads : WF_vars(Calculate(t))

Spec == Init /\ [][Next]_vars /\ Fairness

TypeOK ==
  /\ pc \in [Threads -> {"count", "arrive", "barrier", "decide", "done"}]
  /\ stop \in BOOLEAN /\ exit_next \in BOOLEAN
  /\ rounds \in [Threads -> 0..(Cycle - 1)]

Apart(t, u) == (rounds[t] - rounds[u]) % Cycle

(* No thread is more than a round ahead of another, and those that have    *)
(* ended have ended after the same round, although each reads exit_next    *)
(* without the lock: what is left over of the series, if the program ends, *)
(* is one piece without gaps.                                              *)
RoundsTogether ==
  \A t, u \in Threads :
    /\ Apart(t, u) \in {0, 1, Cycle - 1}
    /\ pc[t] = "done" /\ pc[u] = "done" => Apart(t, u) = 0

(* After SIGINT every thread ends, so that main can add up what they found *)
(* (tasks.html:89).                                                        *)
StopsWhenAsked == stop ~> \A t \in Threads : pc[t] = "done"
=============================================================================
