---------------------------- MODULE DinnerProofs ----------------------------
(***************************************************************************)
(* The forks, the seats and the dishes of lab10, for any number of them:   *)
(* what is held by whom, that the dinner never stops half-way, and that    *)
(* every step brings it nearer to its end.                                 *)
(***************************************************************************)
EXTENDS Dinner, FiniteSetTheorems, TLAPS

Steps == {"hungry", "served", "right", "left", "eat", "down", "rise", "done"}

(* TypeOK but for the bound on sem, which needs SeatsCounted. *)
Types ==
  /\ pc \in [Phils -> Steps]
  /\ food \in 0..FOOD
  /\ sem \in Nat
  /\ fork \in [Phils -> Phils \cup {Nobody}]
  /\ dish \in [Phils -> 0..(FOOD - 1)]
  /\ ate \in [Phils -> SUBSET (1..(FOOD - 1))]

(* What a philosopher does tells which forks are in their hands. *)
Holds(p, f) ==
  \/ f = Right(p) /\ pc[p] \in {"left", "eat", "down"}
  \/ f = Left(p) /\ pc[p] = "eat"

ForksHeld == \A p, f \in Phils : fork[f] = p <=> Holds(p, f)

(* The dish before a philosopher is not eaten yet, and the last one is, by *)
(* the time they ask for the next.                                         *)
DishBefore ==
  \A p \in Phils :
    /\ pc[p] \in {"served", "right", "left", "eat", "down"} =>
         dish[p] > 0 /\ dish[p] \notin ate[p]
    /\ pc[p] \in {"hungry", "rise"} => dish[p] = 0 \/ dish[p] \in ate[p]
    /\ pc[p] = "done" => dish[p] = 0

Has(p, d) == d \in ate[p] \/ dish[p] = d

(* A dish that has left the table is with one philosopher. *)
DishesGiven ==
  \A d \in 1..(FOOD - 1) :
    /\ d < food => \A p \in Phils : ~Has(p, d)
    /\ d >= food => \E p \in Phils : Has(p, d)
    /\ \A p, q \in Phils : Has(p, d) /\ Has(q, d) => p = q

IInv == Types /\ ForksHeld /\ SeatsCounted /\ DishBefore /\ DishesGiven

Sitting == {p \in Phils : Seated(p)}

-----------------------------------------------------------------------------
(* The table *)

(* The forks at either hand are two. *)
LEMMA TwoForks ==
  ASSUME NEW p \in Phils
  PROVE  Left(p) \in Phils /\ Right(p) \in Phils /\ Left(p) # Right(p)
<1>1. PHILO \in Nat /\ PHILO >= 2 /\ p \in 0..(PHILO - 1)
  BY DinnerAssumption DEF Phils
<1>2. CASE p + 1 < PHILO
  BY <1>1, <1>2, SMT DEF Left, Right, Phils
<1>3. CASE p + 1 = PHILO
  BY <1>1, <1>3, SMT DEF Left, Right, Phils
<1> QED
  BY <1>1, <1>2, <1>3, SMT

LEMMA SittingFinite == IsFiniteSet(Sitting) /\ Cardinality(Sitting) \in Nat
<1>1. IsFiniteSet(Phils)
  BY DinnerAssumption, FS_Interval DEF Phils
<1>2. Sitting \subseteq Phils
  BY DEF Sitting
<1> QED
  BY <1>1, <1>2, FS_Subset, FS_CardinalityType

-----------------------------------------------------------------------------
(* What holds from the start *)

LEMMA InitInv == Init => IInv
<1> SUFFICES ASSUME Init PROVE IInv
  OBVIOUS
<1>1. Types
  BY DinnerAssumption, SMT DEF Init, Types, Steps, Phils
<1>2. ForksHeld
  BY DinnerAssumption, SMT DEF Init, ForksHeld, Holds, Phils
<1>3. SeatsCounted
  <2>1. {p \in Phils : Seated(p)} = {}
    BY SMT DEF Init, Seated
  <2> QED
    BY <2>1, FS_EmptySet, DinnerAssumption, SMT DEF Init, SeatsCounted
<1>4. DishBefore
  BY SMT DEF Init, DishBefore
<1>5. DishesGiven
  BY DinnerAssumption, SMT DEF Init, DishesGiven, Has
<1> QED
  BY <1>1, <1>2, <1>3, <1>4, <1>5 DEF IInv

-----------------------------------------------------------------------------
(* What every step keeps *)

LEMMA TypesKept == IInv /\ [Next]_vars => Types'
<1> SUFFICES ASSUME IInv, [Next]_vars PROVE Types'
  OBVIOUS
<1>a. \A p \in Phils : Left(p) \in Phils /\ Right(p) \in Phils
  BY TwoForks
<1> USE DinnerAssumption
<1> USE DEF IInv, Types, Steps, Goto
<1>1. ASSUME NEW p \in Phils, Serve(p) PROVE Types'
  BY <1>1, SMT DEF Serve, Fewer
<1>2. ASSUME NEW p \in Phils, Sit(p) PROVE Types'
  BY <1>2, SMT DEF Sit
<1>3. ASSUME NEW p \in Phils, GetRight(p) \/ GetLeft(p) PROVE Types'
  BY <1>3, SMT DEF GetRight, GetLeft, Get
<1>4. ASSUME NEW p \in Phils, PutLeft(p) PROVE Types'
  BY <1>a, <1>4, SMT DEF PutLeft
<1>5. ASSUME NEW p \in Phils, PutRight(p) PROVE Types'
  <2>1. dish[p] \in 1..(FOOD - 1)
    BY <1>5, SMT DEF PutRight, DishBefore
  <2> QED
    BY <1>a, <1>5, <2>1, SMT DEF PutRight
<1>6. ASSUME NEW p \in Phils, Rise(p) PROVE Types'
  BY <1>6, SMT DEF Rise
<1>7. CASE UNCHANGED vars
  BY <1>7, SMT DEF vars
<1> QED
  BY <1>1, <1>2, <1>3, <1>4, <1>5, <1>6, <1>7 DEF Next, Philosopher, Over

LEMMA ForksKept == IInv /\ [Next]_vars => ForksHeld'
<1> SUFFICES ASSUME IInv, [Next]_vars PROVE ForksHeld'
  OBVIOUS
<1>a. \A p \in Phils : Left(p) \in Phils /\ Right(p) \in Phils /\ Left(p) # Right(p)
  BY TwoForks
<1>b. Nobody \notin Phils
  BY DinnerAssumption DEF Phils
<1> USE DEF IInv, Types, ForksHeld, Holds, Goto
<1>1. ASSUME NEW p \in Phils, Serve(p) \/ Sit(p) \/ Rise(p) PROVE ForksHeld'
  BY <1>1, SMT DEF Serve, Sit, Rise, Left, Right
<1>2. ASSUME NEW p \in Phils, GetRight(p) PROVE ForksHeld'
  BY <1>a, <1>b, <1>2, SMT DEF GetRight, Get
<1>3. ASSUME NEW p \in Phils, GetLeft(p) PROVE ForksHeld'
  BY <1>a, <1>b, <1>3, SMT DEF GetLeft, Get
<1>4. ASSUME NEW p \in Phils, PutLeft(p) PROVE ForksHeld'
  BY <1>a, <1>b, <1>4, SMT DEF PutLeft
<1>5. ASSUME NEW p \in Phils, PutRight(p) PROVE ForksHeld'
  BY <1>a, <1>b, <1>5, SMT DEF PutRight
<1>6. CASE UNCHANGED vars
  BY <1>6, SMT DEF vars
<1> QED
  BY <1>1, <1>2, <1>3, <1>4, <1>5, <1>6 DEF Next, Philosopher, Over

LEMMA SeatsKept == IInv /\ [Next]_vars => SeatsCounted'
<1> SUFFICES ASSUME IInv, [Next]_vars PROVE SeatsCounted'
  OBVIOUS
<1>a. IsFiniteSet(Sitting) /\ Cardinality(Sitting) \in Nat
  BY SittingFinite
<1>b. sem = SEATS - Cardinality(Sitting) /\ SEATS \in Nat
  BY DinnerAssumption, SMT DEF IInv, SeatsCounted, Sitting
<1>c. SUFFICES sem' = SEATS - Cardinality(Sitting')
  BY DEF SeatsCounted, Sitting
<1>d. pc \in [Phils -> Steps]
  BY DEF IInv, Types
<1> USE DEF Sitting, Seated, Goto
<1>1. ASSUME NEW p \in Phils, Serve(p) PROVE sem' = sem /\ Sitting' = Sitting
  BY <1>d, <1>1, SMT DEF Serve
<1>2. ASSUME NEW p \in Phils, Sit(p) PROVE sem' = SEATS - Cardinality(Sitting')
  <2>1. p \notin Sitting /\ Sitting' = Sitting \cup {p}
    BY <1>d, <1>2, SMT DEF Sit
  <2>2. Cardinality(Sitting') = Cardinality(Sitting) + 1
    BY <1>a, <2>1, FS_AddElement
  <2> QED
    BY <1>a, <1>b, <1>2, <2>2, SMT DEF Sit
<1>3. ASSUME NEW p \in Phils, GetRight(p) \/ GetLeft(p) \/ PutLeft(p) \/ PutRight(p)
      PROVE sem' = sem /\ Sitting' = Sitting
  BY <1>d, <1>3, SMT DEF GetRight, GetLeft, Get, PutLeft, PutRight
<1>4. ASSUME NEW p \in Phils, Rise(p) PROVE sem' = SEATS - Cardinality(Sitting')
  <2>1. p \in Sitting /\ Sitting' = Sitting \ {p}
    BY <1>d, <1>4, SMT DEF Rise
  <2>2. Cardinality(Sitting') = Cardinality(Sitting) - 1
    BY <1>a, <2>1, FS_RemoveElement
  <2> QED
    BY <1>a, <1>b, <1>4, <2>2, SMT DEF Rise
<1>5. ASSUME UNCHANGED vars PROVE sem' = sem /\ Sitting' = Sitting
  BY <1>5 DEF vars
<1> QED
  BY <1>b, <1>1, <1>2, <1>3, <1>4, <1>5 DEF Next, Philosopher, Over

LEMMA DishesKept == IInv /\ [Next]_vars => DishBefore' /\ DishesGiven'
<1> SUFFICES ASSUME IInv, [Next]_vars PROVE DishBefore' /\ DishesGiven'
  OBVIOUS
<1> USE DinnerAssumption
<1> USE DEF IInv, Types, Steps, DishBefore, DishesGiven, Has, Goto
<1>1. ASSUME NEW p \in Phils, Serve(p) PROVE DishBefore' /\ DishesGiven'
  <2>1. DishBefore'
    BY <1>1, SMT DEF Serve, Fewer
  <2>2. DishesGiven'
    BY <1>1, SMT DEF Serve, Fewer
  <2> QED
    BY <2>1, <2>2
<1>2. ASSUME NEW p \in Phils,
             Sit(p) \/ GetRight(p) \/ GetLeft(p) \/ PutLeft(p) \/ Rise(p)
      PROVE DishBefore' /\ DishesGiven'
  BY <1>2, SMT DEF Sit, GetRight, GetLeft, Get, PutLeft, Rise
<1>3. ASSUME NEW p \in Phils, PutRight(p) PROVE DishBefore' /\ DishesGiven'
  BY <1>3, SMT DEF PutRight
<1>4. CASE UNCHANGED vars
  BY <1>4, SMT DEF vars
<1> QED
  BY <1>1, <1>2, <1>3, <1>4 DEF Next, Philosopher, Over

LEMMA StepInv == IInv /\ [Next]_vars => IInv'
  BY TypesKept, ForksKept, SeatsKept, DishesKept DEF IInv

(* The inductive invariant: besides what the properties say, which forks   *)
(* each step of a philosopher leaves in hand, and whether the dish they    *)
(* were given is eaten yet.                                                *)
THEOREM Invariance == Spec => []IInv
  BY InitInv, StepInv, PTL DEF Spec

-----------------------------------------------------------------------------
(* The properties *)

(* Every variable keeps its type: phil_sem stays between 0 and SEATS.      *)
THEOREM TypeCorrect == Spec => []TypeOK
<1>1. IInv => TypeOK
  <2> SUFFICES ASSUME IInv PROVE TypeOK
    OBVIOUS
  <2>1. sem = SEATS - Cardinality(Sitting) /\ SEATS \in Nat
    BY DinnerAssumption, SMT DEF IInv, SeatsCounted, Sitting
  <2>2. sem <= SEATS
    BY <2>1, SittingFinite, SMT
  <2>3. sem \in Nat
    BY DEF IInv, Types
  <2> QED
    BY <2>1, <2>2, <2>3, SMT DEF IInv, Types, Steps, TypeOK
<1> QED
  BY <1>1, Invariance, PTL

(* Who eats has both forks, and nobody but who is seated has one           *)
(* (NeighboursTakeTurns), around a table of any size.                      *)
THEOREM NeighboursExclude == Spec => []NeighboursTakeTurns
<1>1. IInv => NeighboursTakeTurns
  <2> SUFFICES ASSUME IInv PROVE NeighboursTakeTurns
    OBVIOUS
  <2>1. \A p \in Phils : Left(p) \in Phils /\ Right(p) \in Phils
    BY TwoForks
  <2> QED
    BY <2>1, SMT DEF IInv, Types, ForksHeld, Holds, NeighboursTakeTurns, Seated
<1> QED
  BY <1>1, Invariance, PTL

(* The seats given out are the seats taken (SeatsCounted): phil_sem never  *)
(* lets all at the forks at once.                                          *)
THEOREM SeatsExact == Spec => []SeatsCounted
<1>1. IInv => SeatsCounted
  BY DEF IInv
<1> QED
  BY <1>1, Invariance, PTL

(* No dish is lost and none is given out twice (DishServedOnce), with any  *)
(* number of philosophers and dishes.                                      *)
THEOREM DishesExact == Spec => []DishServedOnce
<1>1. IInv => DishServedOnce
  <2> SUFFICES ASSUME IInv, NEW d \in 1..(FOOD - 1)
               PROVE  Cardinality({p \in Phils : d \in ate[p]})
                      + Cardinality({p \in Phils : dish[p] = d /\ d \notin ate[p]})
                        = IF d < food THEN 0 ELSE 1
    BY DEF DishServedOnce
  <2> DEFINE Ate == {p \in Phils : d \in ate[p]}
             Before == {p \in Phils : dish[p] = d /\ d \notin ate[p]}
  <2>0. Cardinality({}) = 0 /\ \A p : Cardinality({p}) = 1
    BY FS_EmptySet, FS_Singleton
  <2>1. CASE d < food
    <3>1. Ate = {} /\ Before = {}
      BY <2>1, SMT DEF IInv, DishesGiven, Has
    <3> QED
      BY <2>0, <2>1, <3>1, SMT
  <2>2. CASE d >= food
    <3>0. ~(d < food)
      BY <2>2, SMT DEF IInv, Types
    <3>1. PICK p \in Phils : Has(p, d)
      BY <2>2 DEF IInv, DishesGiven
    <3>2. \A q \in Phils : Has(q, d) => q = p
      BY <3>1 DEF IInv, DishesGiven
    <3>3. CASE d \in ate[p]
      <4>1. Ate = {p} /\ Before = {}
        BY <3>2, <3>3, SMT DEF Has
      <4>2. Cardinality(Ate) = 1 /\ Cardinality(Before) = 0
        BY <2>0, <4>1
      <4> QED
        BY <3>0, <4>2, SMT
    <3>4. CASE d \notin ate[p]
      <4>1. Ate = {} /\ Before = {p}
        BY <3>1, <3>2, <3>4, SMT DEF Has
      <4>2. Cardinality(Ate) = 0 /\ Cardinality(Before) = 1
        BY <2>0, <4>1
      <4> QED
        BY <3>0, <4>2, SMT
    <3> QED
      BY <3>3, <3>4
  <2>3. d < food \/ d >= food
    BY SMT DEF IInv, Types
  <2> QED
    BY <2>1, <2>2, <2>3
<1> QED
  BY <1>1, Invariance, PTL
-----------------------------------------------------------------------------
(* No deadlock *)

(* A set of natural numbers has a least one. *)
LEMMA LeastNumber ==
  ASSUME NEW T, T \subseteq Nat, T # {}
  PROVE  \E least \in T : \A t \in T : least <= t
<1> DEFINE Below(n) == 0..n
           U == {Below(t) : t \in T}
<1>1. \A t \in T : IsFiniteSet(Below(t)) /\ Below(t) \subseteq Nat
  BY FS_Interval
<1>2. U \subseteq FiniteSubsetsOf(Nat) /\ U # {}
  BY <1>1 DEF FiniteSubsetsOf
<1>3. PICK u \in U : \A w \in U : <<w, u>> \notin StrictSubsetOrdering(Nat)
  BY <1>2, FS_StrictSubsetOrderingWellFounded, WFMin, Zenon
<1>4. PICK least \in T : u = Below(least)
  BY <1>3
<1>5. ASSUME NEW t \in T, t < least PROVE FALSE
  <2>1. Below(t) \subseteq u /\ Below(t) # u
    BY <1>4, <1>5
  <2>2. <<Below(t), u>> \in StrictSubsetOrdering(Nat)
    BY <1>1, <1>4, <2>1 DEF StrictSubsetOrdering
  <2> QED
    BY <1>3, <2>2
<1> QED
  BY <1>5

(* Whoever is with somebody is with all: a set of philosophers that with   *)
(* each has the one on their left is empty or the whole table.             *)
LEMMA WholeRing ==
  ASSUME NEW W, W \subseteq Phils, W # {}, \A p \in W : Left(p) \in W
  PROVE  W = Phils
<1>1. PHILO \in Nat /\ PHILO >= 2 /\ W \subseteq Nat
  BY DinnerAssumption DEF Phils
<1>2. \A p \in Phils : Left(p) = IF p + 1 = PHILO THEN 0 ELSE p + 1
  BY <1>1 DEF Left, Phils
<1>3. 0 \in W
  <2> DEFINE T == {PHILO - 1 - p : p \in W}
  <2>1. T \subseteq Nat /\ T # {}
    <3>1. \A p \in W : PHILO - 1 - p \in Nat
      BY <1>1 DEF Phils
    <3> QED
      BY <3>1
  <2> HIDE DEF T
  <2>2. PICK least \in T : \A t \in T : least <= t
    BY <2>1, LeastNumber
  <2> USE DEF T
  <2>3. PICK last \in W : least = PHILO - 1 - last
    BY <2>2
  <2>4. CASE last + 1 = PHILO
    BY <1>2, <2>4
  <2>5. CASE last + 1 # PHILO
    <3>1. last + 1 \in W
      BY <1>2, <2>5
    <3>2. least <= PHILO - 1 - (last + 1)
      BY <2>2, <3>1
    <3> QED
      BY <1>1, <2>3, <3>2
  <2> QED
    BY <2>4, <2>5
<1>4. ASSUME W # Phils PROVE FALSE
  <2> DEFINE T == Phils \ W
  <2>1. T \subseteq Nat /\ T # {}
    <3>1. T # {}
      BY <1>4
    <3> QED
      BY <1>1, <3>1 DEF Phils
  <2>2. PICK first \in T : \A t \in T : first <= t
    BY <2>1, LeastNumber
  <2>3. first # 0 /\ first - 1 \in Phils
    BY <1>1, <1>3, <2>2 DEF Phils
  <2>4. first - 1 \in W
    BY <1>1, <2>1, <2>2, <2>3
  <2>5. Left(first - 1) = first
    BY <1>1, <1>2, <2>2, <2>3 DEF Phils
  <2> QED
    BY <2>2, <2>4, <2>5
<1> QED
  BY <1>4

(* One who waits for the right fork waits for a neighbour who eats, and    *)
(* one who waits for the left fork for a neighbour who has taken it.       *)
LEMMA WaitedFor ==
  ASSUME IInv, NEW p \in Phils, ~CanMove(p), Seated(p), \A q \in Phils : pc[q] # "eat"
  PROVE  pc[p] = "left" /\ (pc[Left(p)] = "left" \/ CanMove(Left(p)))
<1>1. Left(p) \in Phils /\ Left(p) # p
  BY TwoForks DEF Right
<1>2. pc[p] \in {"right", "left"}
  BY DEF CanMove, Seated
<1>3. \A f \in Phils : fork[f] # Nobody => fork[f] \in Phils /\ Holds(fork[f], f)
  BY DEF IInv, Types, ForksHeld
<1>4. \A f \in Phils : fork[f] # Nobody => pc[f] \in {"left", "down"}
  BY <1>3 DEF Holds, Right
<1>5. pc[p] = "left"
  BY <1>2, <1>4 DEF CanMove, Right
<1>6. fork[Left(p)] # Nobody
  BY <1>5 DEF CanMove
<1> QED
  BY <1>1, <1>4, <1>5, <1>6 DEF CanMove

(* Until all are done somebody can go on, at a table of any size: whoever  *)
(* waits for a fork is at the end of a chain of neighbours with one fork   *)
(* each, and the chain cannot close, for one seat fewer than philosophers  *)
(* has been given out.                                                     *)
THEOREM NoDeadlock == Spec => []SomebodyCanMove
<1>1. IInv => SomebodyCanMove
  <2> SUFFICES ASSUME IInv, ~SomebodyCanMove PROVE FALSE
    OBVIOUS
  <2>1. \A p \in Phils : ~CanMove(p)
    BY DEF SomebodyCanMove
  <2>2. \A p \in Phils : pc[p] \in {"served", "right", "left", "done"}
    BY <2>1 DEF IInv, Types, Steps, CanMove
  <2> DEFINE W == {p \in Phils : pc[p] = "left"}
  <2>3. Sitting = W /\ \A p \in W : Left(p) \in W
    <3>1. \A p \in Phils : Seated(p) => pc[p] = "left" /\ pc[Left(p)] = "left"
      BY <2>1, <2>2, WaitedFor, TwoForks
    <3> QED
      BY <3>1, TwoForks DEF Sitting, Seated
  <2>4. sem = SEATS - Cardinality(Sitting) /\ sem \in Nat
    BY DEF IInv, SeatsCounted, Sitting, Types
  <2>5. CASE W = {}
    <3>1. sem > 0
      BY <2>3, <2>4, <2>5, FS_EmptySet, DinnerAssumption
    <3>2. \A p \in Phils : pc[p] = "done"
      BY <2>1, <2>2, <2>3, <2>5, <3>1 DEF CanMove, Sitting, Seated
    <3> QED
      BY <3>2 DEF SomebodyCanMove
  <2>6. CASE W # {}
    <3>1. Sitting = Phils
      BY <2>3, <2>6, WholeRing
    <3>2. Cardinality(Phils) = PHILO
      BY DinnerAssumption, FS_Interval DEF Phils
    <3> QED
      BY <2>4, <3>1, <3>2, DinnerAssumption
  <2> QED
    BY <2>5, <2>6
<1> QED
  BY <1>1, Invariance, PTL

(* Every step takes a dish from the table or brings one philosopher nearer *)
(* to the end of a course, so the dinner comes to an end under every       *)
(* scheduler that runs somebody who can go on (NoDeadlock), fair to each   *)
(* philosopher or not.                                                     *)
THEOREM DinnerDwindles == Spec => StepsCount
<1> DEFINE Nearer == \/ food' < food
                     \/ /\ food' = food
                        /\ \E p \in Phils :
                             /\ StepsLeft(pc'[p]) < StepsLeft(pc[p])
                             /\ \A q \in Phils \ {p} : pc'[q] = pc[q]
<1>1. IInv /\ [Next]_vars => [Nearer]_vars
  <2> SUFFICES ASSUME IInv, NEW p \in Phils, Philosopher(p) PROVE Nearer
    BY DEF Next, Over
  <2>1. pc \in [Phils -> Steps] /\ food \in Nat
    BY DEF IInv, Types
  <2>2. \A q \in Phils \ {p} : pc'[q] = pc[q]
    BY <2>1 DEF Philosopher, Serve, Sit, GetRight, GetLeft, PutLeft, PutRight, Rise, Goto
  <2>3. CASE Serve(p)
    BY <2>1, <2>2, <2>3 DEF Serve, Goto, Fewer, StepsLeft, Steps
  <2>4. CASE Sit(p) \/ GetRight(p) \/ GetLeft(p) \/ PutLeft(p) \/ PutRight(p) \/ Rise(p)
    <3>1. food' = food /\ StepsLeft(pc'[p]) < StepsLeft(pc[p])
      BY <2>1, <2>4
         DEF Sit, GetRight, GetLeft, Get, PutLeft, PutRight, Rise, Goto, StepsLeft, Steps
    <3> QED
      BY <2>2, <3>1
  <2> QED
    BY <2>3, <2>4 DEF Philosopher
<1> QED
  BY <1>1, Invariance, PTL DEF Spec, StepsCount
=============================================================================
