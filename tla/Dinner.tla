------------------------------- MODULE Dinner -------------------------------
(***************************************************************************)
(* lab10/din-phil.c: philosophers around a table, a fork between every two *)
(* of them, dishes numbered downwards, and a semaphore that lets all but   *)
(* one at the forks.                                                       *)
(***************************************************************************)
EXTENDS Integers, FiniteSets

CONSTANTS
  PHILO,     \* philosophers; the code says 5
  SEATS,     \* the initial count of phil_sem; the code says 4
  FOOD,      \* one more than the dishes to be eaten; the code says 501
  Nobody     \* holds a fork that is on the table

ASSUME DinnerAssumption ==
  /\ PHILO \in Nat /\ PHILO >= 2
  /\ SEATS \in 1..(PHILO - 1)
  /\ FOOD \in Nat \ {0}
  /\ Nobody \notin 0..(PHILO - 1)

Phils == 0..(PHILO - 1)

VARIABLES
  pc,      \* what a philosopher does next
  food,    \* food_on_table's static food
  sem,     \* phil_sem
  fork,    \* who holds each fork, or Nobody
  dish,    \* f: the dish a philosopher has been given, 0 when there was none
  ate      \* the dishes a philosopher has eaten: i_ate is how many

vars == <<pc, food, sem, fork, dish, ate>>

Right(p) == p

\* The forks wrap around.
Left(p) == (p + 1) % PHILO

Init ==
  /\ pc = [p \in Phils |-> "hungry"]
  /\ food = FOOD
  /\ sem = SEATS
  /\ fork = [f \in Phils |-> Nobody]
  /\ dish = [p \in Phils |-> 0]
  /\ ate = [p \in Phils |-> {}]

Goto(p, label) == pc' = [pc EXCEPT ![p] = label]

\* The guard forgotten.
OneFewer(n) == n - 1

Fewer(n) == IF n > 0 THEN n - 1 ELSE 0

\* The number taken before the decrement.
ServeNext(p) ==
  /\ pc[p] = "hungry"
  /\ food' = Fewer(food)
  /\ dish' = [dish EXCEPT ![p] = food]
  /\ Goto(p, IF food' = 0 THEN "done" ELSE "served")
  /\ UNCHANGED <<sem, fork, ate>>

\* food_on_table, whole under foodlock; the dish 0 ends the loop.
Serve(p) ==
  /\ pc[p] = "hungry"
  /\ food' = Fewer(food)
  /\ dish' = [dish EXCEPT ![p] = food']
  /\ Goto(p, IF food' = 0 THEN "done" ELSE "served")
  /\ UNCHANGED <<sem, fork, ate>>

\* No seat asked for.
SitAnyway(p) ==
  /\ pc[p] = "served"
  /\ sem' = sem
  /\ Goto(p, "right")
  /\ UNCHANGED <<food, fork, dish, ate>>

\* rk_sema_wait.
Sit(p) ==
  /\ pc[p] = "served"
  /\ sem > 0
  /\ sem' = sem - 1
  /\ Goto(p, "right")
  /\ UNCHANGED <<food, fork, dish, ate>>

\* A fork taken out of another's hand.
Grab(p, f) ==
  /\ fork' = [fork EXCEPT ![f] = p]
  /\ UNCHANGED <<food, sem, dish, ate>>

\* get_fork.
Get(p, f) ==
  /\ fork[f] = Nobody
  /\ fork' = [fork EXCEPT ![f] = p]
  /\ UNCHANGED <<food, sem, dish, ate>>

GetRight(p) == pc[p] = "right" /\ Get(p, Right(p)) /\ Goto(p, "left")

GetLeft(p) == pc[p] = "left" /\ Get(p, Left(p)) /\ Goto(p, "eat")

\* The meal, as long as usleep makes it, and then down_forks, left first;
\* i_ate counts the dish between that and the post.
PutLeft(p) ==
  /\ pc[p] = "eat"
  /\ fork' = [fork EXCEPT ![Left(p)] = Nobody]
  /\ Goto(p, "down")
  /\ UNCHANGED <<food, sem, dish, ate>>

PutRight(p) ==
  /\ pc[p] = "down"
  /\ fork' = [fork EXCEPT ![Right(p)] = Nobody]
  /\ ate' = [ate EXCEPT ![p] = @ \cup {dish[p]}]
  /\ Goto(p, "rise")
  /\ UNCHANGED <<food, sem, dish>>

\* The seat kept.
RiseSilently(p) ==
  /\ pc[p] = "rise"
  /\ Goto(p, "hungry")
  /\ UNCHANGED <<food, sem, fork, dish, ate>>

\* rk_sema_post.
Rise(p) ==
  /\ pc[p] = "rise"
  /\ sem' = sem + 1
  /\ Goto(p, "hungry")
  /\ UNCHANGED <<food, fork, dish, ate>>

Philosopher(p) ==
  \/ Serve(p) \/ Sit(p) \/ GetRight(p) \/ GetLeft(p)
  \/ PutLeft(p) \/ PutRight(p) \/ Rise(p)

\* main joins the five threads and returns.
Over == (\A p \in Phils : pc[p] = "done") /\ UNCHANGED vars

Next == (\E p \in Phils : Philosopher(p)) \/ Over

Fairness == \A p \in Phils : WF_vars(Philosopher(p))

Spec == Init /\ [][Next]_vars /\ Fairness

-----------------------------------------------------------------------------

Seated(p) == pc[p] \in {"right", "left", "eat", "down", "rise"}

TypeOK ==
  /\ pc \in [Phils -> {"hungry", "served", "right", "left", "eat", "down",
                       "rise", "done"}]
  /\ food \in 0..FOOD
  /\ sem \in 0..SEATS
  /\ fork \in [Phils -> Phils \cup {Nobody}]
  /\ dish \in [Phils -> 0..(FOOD - 1)]
  /\ ate \in [Phils -> SUBSET (1..(FOOD - 1))]

(* Who eats has both forks, so that neighbours never eat together, and a   *)
(* fork is in the hand of one who is at the forks, or on the table.        *)
NeighboursTakeTurns ==
  /\ \A p \in Phils : pc[p] = "eat" =>
       fork[Left(p)] = p /\ fork[Right(p)] = p
  /\ \A f \in Phils : fork[f] # Nobody =>
       Seated(fork[f]) /\ f \in {Left(fork[f]), Right(fork[f])}

(* The seats that phil_sem gives away are those taken: never all PHILO of  *)
(* them at once hold a first fork.                                         *)
SeatsCounted == sem = SEATS - Cardinality({p \in Phils : Seated(p)})

(* Every dish is on the table, before one philosopher, or eaten by one:    *)
(* none is lost and none is given out twice.                               *)
DishServedOnce ==
  \A d \in 1..(FOOD - 1) :
    Cardinality({p \in Phils : d \in ate[p]})
    + Cardinality({p \in Phils : dish[p] = d /\ d \notin ate[p]})
      = IF d < food THEN 0 ELSE 1

\* What each step waits for.
CanMove(p) ==
  \/ pc[p] \in {"hungry", "eat", "down", "rise"}
  \/ pc[p] = "served" /\ sem > 0
  \/ pc[p] = "right" /\ fork[Right(p)] = Nobody
  \/ pc[p] = "left" /\ fork[Left(p)] = Nobody

(* As long as somebody is not done somebody can go on: no ring of          *)
(* philosophers each waits for a fork in the next one's hand.              *)
SomebodyCanMove == (\A p \in Phils : pc[p] = "done") \/ \E p \in Phils : CanMove(p)

\* Where a philosopher is in a course.
StepsLeft(label) ==
  CASE label = "served" -> 7 [] label = "right" -> 6 [] label = "left" -> 5
    [] label = "eat" -> 4 [] label = "down" -> 3 [] label = "rise" -> 2
    [] label = "hungry" -> 1 [] label = "done" -> 0

(* No step can be repeated for ever, by whomever the scheduler favours: it *)
(* takes a dish from the table, or brings one philosopher nearer to the    *)
(* end of a course and leaves the others where they are.                   *)
StepsCount ==
  [][\/ food' < food
     \/ /\ food' = food
        /\ \E p \in Phils :
             /\ StepsLeft(pc'[p]) < StepsLeft(pc[p])
             /\ \A q \in Phils \ {p} : pc'[q] = pc[q]]_vars

(* The dinner ends, with all dishes eaten: the forks do not deadlock.      *)
EverythingEaten ==
  <>(/\ \A p \in Phils : pc[p] = "done"
     /\ UNION {ate[p] : p \in Phils} = 1..(FOOD - 1))
=============================================================================
