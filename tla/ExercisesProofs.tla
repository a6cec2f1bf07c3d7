-------------------------- MODULE ExercisesProofs ---------------------------
(***************************************************************************)
(* The safety properties that the run of MCExercises checks, proved for    *)
(* any number of lines, threads, terms and runs: an inductive invariant    *)
(* for each program that is not in TurnProofs, and then all programs put   *)
(* together as the specification of that run has them.                     *)
(***************************************************************************)
EXTENDS TurnProofs, Sequences, FiniteSetTheorems

(* lab1 and lab3.  A thread prints no more than its lines, main goes on    *)
(* creating while there is a thread to create, and with v2 it has joined   *)
(* its child before a line of its own.                                     *)
FirstInv ==
  /\ Lab1!FirstTypeOK /\ Lab1!NobodyCutShort
  /\ \A t \in {0} \cup Lab1!Children : said[t] <= Lab1!LinesOf(t)
  /\ main = "create" => created + 1 \in Lab1!Children
  /\ build = "v2" /\ main \in {"create", "join_first"} => said[0] = 0
  /\ build = "v2" /\ main \in {"say", "returned", "exited"} => Lab1!Finished(1)

LEMMA FirstStart == Lab1!FirstInit => FirstInv
  BY SMT DEF Lab1!FirstInit, FirstInv, Lab1!FirstTypeOK, Lab1!NobodyCutShort,
     Lab1!Builds, Lab1!Children, Lab1!LinesOf, Lab1!Finished

LEMMA FirstStep ==
  ASSUME FirstInv, Lab1!FirstNext
  PROVE  FirstInv'
<1> USE DEF FirstInv, Lab1!FirstTypeOK, Lab1!NobodyCutShort, Lab1!Builds,
            Lab1!Children, Lab1!LinesOf, Lab1!Finished
<1>1. CASE Lab1!CreateChild
  BY <1>1, SMT DEF Lab1!CreateChild
<1>2. CASE Lab1!JoinFirst
  BY <1>2, SMT DEF Lab1!JoinFirst
<1>3. CASE Lab1!LeaveMain
  BY <1>3, SMT DEF Lab1!LeaveMain
<1>4. ASSUME NEW t \in {0} \cup Lab1!Children, Lab1!SayLine(t) PROVE FirstInv'
  BY <1>4, SMT DEF Lab1!SayLine
<1> QED
  BY <1>1, <1>2, <1>3, <1>4 DEF Lab1!FirstNext

-----------------------------------------------------------------------------

(* lab4.  The handler is on the stack between the push and the pop, and    *)
(* begins to print when it leaves the stack.                               *)
Cleanup ==
  /\ main = "create" => pc = "unborn"
  /\ pc \in {"unborn", "settype", "push"} => begun = 0 /\ pushed = FALSE
  /\ pc \in {"print", "testcancel"} =>
       /\ build # "async" /\ begun = 0
       /\ build = "v2" => pushed = TRUE
       /\ build = "plain" => pushed = FALSE
  /\ pc \in {"settype", "loop", "pop", "return", "returned"} => build = "async"
  /\ pc \in {"loop", "pop"} => begun = 0 /\ pushed = TRUE
  /\ pc \in {"return", "returned"} => begun = 1 /\ pushed = FALSE
  /\ pc = "cancelled" => pushed = FALSE

CancelInv == Lab4!CancelTypeOK /\ Lab4!CleanedOnce /\ Cleanup

LEMMA CancelStart == Lab4!CancelInit => CancelInv
<1> SUFFICES ASSUME Lab4!CancelInit PROVE CancelInv
  OBVIOUS
<1> USE DEF Lab4!CancelInit
<1>1. {requested, pushed} \subseteq BOOLEAN
  BY Zenon
<1>2. Lab4!CancelTypeOK
  BY <1>1, SMT DEF Lab4!CancelTypeOK, Lab4!Builds
<1>3. Lab4!CleanedOnce /\ Cleanup
  BY SMT DEF Lab4!CleanedOnce, Cleanup
<1> QED
  BY <1>2, <1>3 DEF CancelInv

LEMMA CancelStep ==
  ASSUME CancelInv, Lab4!CancelNext
  PROVE  CancelInv'
<1> USE DEF CancelInv, Lab4!CancelTypeOK, Lab4!CleanedOnce, Cleanup, Lab4!Builds
<1>1. CASE Lab4!CreateIt
  BY <1>1, SMT DEF Lab4!CreateIt
<1>2. CASE Lab4!Cancel
  BY <1>2, SMT DEF Lab4!Cancel
<1>3. CASE Lab4!SetType
  BY <1>3, SMT DEF Lab4!SetType
<1>4. CASE Lab4!Push
  <2>1. /\ {requested, pushed'} \subseteq BOOLEAN
        /\ build = "plain" => pushed' = FALSE
        /\ build # "plain" => pushed' = TRUE
    BY <1>4, Zenon DEF Lab4!Push
  <2>2. /\ pc = "push" /\ pc' = IF build = "async" THEN "loop" ELSE "print"
        /\ UNCHANGED <<build, main, requested, begun>>
    BY <1>4 DEF Lab4!Push
  <2> QED
    BY <2>1, <2>2, SMT
<1>5. CASE Lab4!GoRound
  BY <1>5, SMT DEF Lab4!GoRound
<1>6. CASE Lab4!EndLoop
  BY <1>6, SMT DEF Lab4!EndLoop
<1>7. CASE Lab4!Pop
  <2>1. {requested, pushed'} \subseteq BOOLEAN
    BY <1>7, Zenon DEF Lab4!Pop
  <2> QED
    BY <1>7, <2>1, SMT DEF Lab4!Pop
<1>8. CASE Lab4!Return
  BY <1>8, SMT DEF Lab4!Return
<1>9. CASE Lab4!BeCancelled
  <2>1. /\ {requested, pushed'} \subseteq BOOLEAN
        /\ pushed = FALSE => begun' = begun
        /\ pushed = TRUE => begun' = begun + 1
    BY <1>9, Zenon DEF Lab4!BeCancelled
  <2>2. /\ Lab4!MayBeCancelled /\ pc' = "cancelled" /\ pushed' = FALSE
        /\ UNCHANGED <<build, main, requested>>
    BY <1>9 DEF Lab4!BeCancelled
  <2> QED
    BY <2>1, <2>2, SMT DEF Lab4!MayBeCancelled
<1> QED
  BY <1>1, <1>2, <1>3, <1>4, <1>5, <1>6, <1>7, <1>8, <1>9
     DEF Lab4!CancelNext, Lab4!ThreadStep

-----------------------------------------------------------------------------

(* lab9.  There is a round that the threads count from: those that have    *)
(* checked in are one further, and the barrier lets nobody go while a      *)
(* thread has not.                                                         *)
OneRound(r) ==
  \A t \in Threads :
    rounds[t] = IF pc[t] \in {"arrive", "barrier"} THEN (r + 1) % Lab9!Cycle ELSE r

RoundsInv == Lab9!TypeOK /\ \E r \in 0..3 : OneRound(r)

LEMMA RoundsStart == Lab9!Init => RoundsInv
<1> SUFFICES ASSUME Lab9!Init PROVE RoundsInv
  OBVIOUS
<1>1. OneRound(0)
  BY SMT DEF Lab9!Init, OneRound
<1>2. stop \in BOOLEAN /\ exit_next \in BOOLEAN
  BY Zenon DEF Lab9!Init
<1>3. Lab9!TypeOK
  BY <1>2, SMT DEF Lab9!Init, Lab9!TypeOK, Lab9!Cycle
<1> QED
  BY <1>1, <1>3, SMT DEF RoundsInv

LEMMA RoundsStep ==
  ASSUME RoundsInv, Lab9!Next
  PROVE  RoundsInv'
<1>1. PICK r \in 0..3 : OneRound(r)
  BY DEF RoundsInv
<1> USE DEF RoundsInv, Lab9!TypeOK, Lab9!Cycle, Lab9!Goto
<1>2. CASE Lab9!Interrupt
  BY <1>1, <1>2, SMT DEF Lab9!Interrupt, OneRound
<1>3. ASSUME NEW t \in Threads, Lab9!Check(t) PROVE RoundsInv'
  <2>1. OneRound(r)'
    BY <1>1, <1>3, SMT DEF Lab9!Check, OneRound
  <2>2. Lab9!TypeOK'
    BY <1>3, SMT DEF Lab9!Check
  <2> QED
    BY <2>1, <2>2
<1>4. ASSUME NEW t \in Threads, Lab9!Arrive(t) PROVE RoundsInv'
  <2>1. CASE Lab9!Waiting \cup {t} = Threads
    <3>1. (r + 1) % 4 \in 0..3
      BY SMT
    <3>2. OneRound((r + 1) % 4)'
      BY <1>1, <1>4, <2>1, SMT DEF Lab9!Arrive, OneRound, Lab9!Waiting
    <3>3. Lab9!TypeOK'
      BY <1>4, <2>1, SMT DEF Lab9!Arrive
    <3> QED
      BY <3>1, <3>2, <3>3
  <2>2. CASE Lab9!Waiting \cup {t} # Threads
    <3>1. OneRound(r)'
      BY <1>1, <1>4, <2>2, SMT DEF Lab9!Arrive, OneRound
    <3>2. Lab9!TypeOK'
      BY <1>4, <2>2, SMT DEF Lab9!Arrive
    <3> QED
      BY <3>1, <3>2
  <2> QED
    BY <2>1, <2>2
<1>5. ASSUME NEW t \in Threads, Lab9!Decide(t) PROVE RoundsInv'
  <2>1. OneRound(r)'
    BY <1>1, <1>5, SMT DEF Lab9!Decide, OneRound
  <2>2. Lab9!TypeOK'
    BY <1>5, SMT DEF Lab9!Decide
  <2> QED
    BY <2>1, <2>2
<1>6. CASE Lab9!Over
  BY <1>1, <1>6, SMT DEF Lab9!Over, Lab9!vars, OneRound
<1> QED
  BY <1>2, <1>3, <1>4, <1>5, <1>6 DEF Lab9!Next, Lab9!Calculate

LEMMA RoundsAgree == RoundsInv => Lab9!RoundsTogether
<1> SUFFICES ASSUME RoundsInv PROVE Lab9!RoundsTogether
  OBVIOUS
<1>1. PICK r \in 0..3 : OneRound(r)
  BY DEF RoundsInv
<1> QED
  BY <1>1, SMT DEF Lab9!RoundsTogether, Lab9!Apart, Lab9!Cycle, OneRound

-----------------------------------------------------------------------------

(* lab16, started again.  Until this run has made its "filled" a right is  *)
(* still to come, and a count that no name leads to is not yet missed.     *)
Active(p) == IF pc[p] \in {"say", "post"} THEN 1 ELSE 0

Count(s) == IF Lab16R!Exists(s) THEN semaphore[s] ELSE 0

ToCome == IF pc["parent"] = "open" /\ "filled" \notin names THEN 1 ELSE 0

RightsBounded ==
  Count("filled") + Count("empty") + Active("parent") + Active("child") + ToCome
    <= 1 + half

Counts ==
  /\ lines \in [Everyone -> 0..Lines]
  /\ semaphore \in [Lab16R!Both -> Nat]
  /\ \A s \in Lab16R!Both : semaphore[s] <= 1 + half
  /\ runs \in 0..MaxRuns /\ half \in 0..runs
  /\ names \subseteq Lab16R!Both /\ opened \subseteq Everyone

(* Which names there may be, and who has the semaphores open. *)
Names ==
  /\ pc \in [Everyone -> {"unborn", "open", "open_empty", "fork", "wait", "say", "post",
                          "clear", "unlink", "unlink_empty", "reap", "done"}]
  /\ pc["parent"] # "unborn" /\ pc["child"] \notin {"open", "open_empty", "fork"}
  /\ pc["parent"] \in {"open", "open_empty"} => opened = {}
  /\ pc["parent"] \in {"open", "open_empty", "fork"} => pc["child"] = "unborn"
  /\ pc["parent"] = "open_empty" => "filled" \in names
  /\ "filled" \notin names =>
       \/ pc["parent"] \in {"open", "unlink_empty"}
       \/ names = {}
  /\ pc["parent"] = "fork" => opened = {"parent"}
  /\ \A p \in Everyone : pc[p] \in {"wait", "say", "post", "clear"} => p \in opened
  /\ \A p \in Everyone :
       pc[p] \in {"unborn", "open", "open_empty", "fork", "wait", "say"}
         => lines[p] < Lines

RestartInv == Counts /\ Names /\ RightsBounded

LEMMA RestartStart == Lab16R!RestartedInit => RestartInv
  BY LinesAssumption, BoundsAssumption, SMT DEF Lab16R!RestartedInit,
     Lab16R!ProcessesInit, Lab16R!Init, Lab16R!Both, Lab16R!Everyone,
     RestartInv, Counts, Names, RightsBounded, Count, Active, ToCome,
     Lab16R!Exists, Everyone

LEMMA RestartStep ==
  ASSUME RestartInv, Lab16R!RestartedNext
  PROVE  RestartInv'
<1> USE LinesAssumption, BoundsAssumption
<1> USE DEF RestartInv, Counts, Names, RightsBounded, Count, Active, ToCome,
            Lab16R!Exists, Lab16R!Both, Everyone, Lab16R!Everyone, Lab16R!Goto,
            Lab16R!Waits, Lab16R!Posts
<1>1. ASSUME NEW p \in Everyone, Lab16R!Wait(p), UNCHANGED <<runs, half>>
      PROVE  RestartInv'
  BY <1>1, SMT DEF Lab16R!Wait
<1>2. ASSUME NEW p \in Everyone, Lab16R!Say(p), UNCHANGED <<runs, half>>
      PROVE  RestartInv'
  BY <1>2, SMT DEF Lab16R!Say
<1>3. ASSUME NEW p \in Everyone, Lab16R!Post(p), UNCHANGED <<runs, half>>
      PROVE  RestartInv'
  BY <1>3, SMT DEF Lab16R!Post
<1>4. ASSUME NEW p \in Everyone, Lab16R!Clear(p), UNCHANGED <<runs, half>>
      PROVE  RestartInv'
  BY <1>4, SMT DEF Lab16R!Clear
<1>5. ASSUME Lab16R!OpenFilled, UNCHANGED <<runs, half>> PROVE RestartInv'
  BY <1>5, SMT DEF Lab16R!OpenFilled, Lab16R!Open, Lab16R!InitialCount
<1>6. ASSUME Lab16R!OpenEmpty, UNCHANGED <<runs, half>> PROVE RestartInv'
  BY <1>6, SMT DEF Lab16R!OpenEmpty, Lab16R!Open, Lab16R!InitialCount
<1>7. ASSUME Lab16R!Fork, UNCHANGED <<runs, half>> PROVE RestartInv'
  BY <1>7, SMT DEF Lab16R!Fork
<1>8. ASSUME Lab16R!UnlinkFilled, UNCHANGED <<runs, half>> PROVE RestartInv'
  BY <1>8, SMT DEF Lab16R!UnlinkFilled, Lab16R!Unlink
<1>9. ASSUME Lab16R!UnlinkEmpty, UNCHANGED <<runs, half>> PROVE RestartInv'
  BY <1>9, SMT DEF Lab16R!UnlinkEmpty, Lab16R!Unlink
<1>10. ASSUME Lab16R!Reap, UNCHANGED <<runs, half>> PROVE RestartInv'
  BY <1>10, SMT DEF Lab16R!Reap
<1>11. ASSUME Lab16R!ForkFails, UNCHANGED <<runs, half>> PROVE RestartInv'
  BY <1>11, SMT DEF Lab16R!ForkFails
<1>12. ASSUME Lab16R!StartAgain PROVE RestartInv'
  BY <1>12, SMT DEF Lab16R!StartAgain
<1> QED
  BY <1>1, <1>2, <1>3, <1>4, <1>5, <1>6, <1>7, <1>8, <1>9, <1>10, <1>11, <1>12
     DEF Lab16R!RestartedNext, Lab16R!ProcessesNext, Lab16R!Process

LEMMA RestartRights == RestartInv => Lab16R!RightsAccountedFor
<1> SUFFICES ASSUME RestartInv PROVE Lab16R!RightsAccountedFor
  OBVIOUS
<1> DEFINE A == {p \in Lab16R!Everyone : pc[p] \in {"say", "post"}}
<1>1. Cardinality(A) = Active("parent") + Active("child")
  <2>1. /\ Cardinality({}) = 0
        /\ Cardinality({"parent"}) = 1 /\ Cardinality({"child"}) = 1
        /\ IsFiniteSet({"parent"})
    BY FS_EmptySet, FS_Singleton
  <2>2. Cardinality({"parent"} \cup {"child"}) = 2
    BY <2>1, FS_AddElement, SMT
  <2>3. A = (IF pc["parent"] \in {"say", "post"} THEN {"parent"} ELSE {}) \cup
            (IF pc["child"] \in {"say", "post"} THEN {"child"} ELSE {})
    BY SMT DEF Lab16R!Everyone
  <2> QED
    BY <2>1, <2>2, <2>3, SMT DEF Active
<1>2. ToCome \in 0..1
  BY SMT DEF ToCome
<1> HIDE DEF A
<1>3. Lab16R!Rights = Count("filled") + Count("empty") + Cardinality(A)
  BY DEF Lab16R!Rights, Count, A, Lab16R!Cardinality, Cardinality
<1>4. /\ Count("filled") \in Nat /\ Count("empty") \in Nat
      /\ Active("parent") \in Nat /\ Active("child") \in Nat /\ half \in Nat
  BY SMT DEF RestartInv, Counts, Count, Active, Lab16R!Both
<1> QED
  BY <1>1, <1>2, <1>3, <1>4, SMT DEF Lab16R!RightsAccountedFor, RestartInv, RightsBounded

LEMMA RestartTyped == RestartInv => Lab16R!RestartedTypeOK
  BY BoundsAssumption, SMT DEF RestartInv, Counts, Names, Lab16R!RestartedTypeOK,
     Lab16R!Both, Lab16R!Everyone, Everyone

-----------------------------------------------------------------------------

(* Division with remainder: the remainder is unique. *)
LEMMA Divided ==
  ASSUME NEW n \in Nat \ {0}, NEW i \in Nat
  PROVE  i = n * (i \div n) + (i % n) /\ i \div n \in Nat /\ i % n \in 0..(n - 1)
  BY SMT

LEMMA Longer ==
  ASSUME NEW n \in Nat \ {0}, NEW p \in Nat, NEW q \in Nat, p < q
  PROVE  n * p + n <= n * q
<1>1. n * (p + 1) <= n * q
  BY SMT
<1>2. n * (p + 1) = n * p + n
  BY SMT
<1> QED
  BY <1>1, <1>2, SMT

LEMMA OneRemainder ==
  ASSUME NEW n \in Nat \ {0}, NEW p \in Nat, NEW q \in Nat,
         NEW r \in 0..(n - 1), NEW s \in 0..(n - 1), n * p + r = n * q + s
  PROVE  r = s
<1>1. n * p \in Nat /\ n * q \in Nat
  BY SMT
<1>2. ~(p < q)
  BY <1>1, Longer, SMT
<1>3. ~(q < p)
  BY <1>1, Longer, SMT
<1> QED
  BY <1>1, <1>2, <1>3, SMT

(* The numbers with one remainder are n apart. *)
LEMMA SameRemainder ==
  ASSUME NEW n \in Nat \ {0}, NEW i \in Nat
  PROVE  /\ (i + n) % n = i % n
         /\ \A j \in Nat : i < j /\ i % n = j % n => i + n <= j
<1>1. /\ i = n * (i \div n) + (i % n) /\ i \div n \in Nat /\ i % n \in 0..(n - 1)
  BY Divided
<1>2. (i + n) % n = i % n
  <2>1. i + n \in Nat
    BY SMT
  <2>2. /\ i + n = n * ((i + n) \div n) + ((i + n) % n)
        /\ (i + n) \div n \in Nat /\ (i + n) % n \in 0..(n - 1)
    BY <2>1, Divided
  <2>3. i + n = n * (i \div n + 1) + (i % n)
    BY <1>1, SMT
  <2>4. i \div n + 1 \in Nat
    BY <1>1, SMT
  <2> QED
    BY <1>1, <2>2, <2>3, <2>4, OneRemainder
<1>3. ASSUME NEW j \in Nat, i < j, i % n = j % n PROVE i + n <= j
  <2>1. /\ j = n * (j \div n) + (j % n) /\ j \div n \in Nat
    BY Divided
  <2> DEFINE p == i \div n
             q == j \div n
  <2>2. p \in Nat /\ q \in Nat /\ i = n * p + (i % n) /\ j = n * q + (i % n)
    BY <1>1, <1>3, <2>1
  <2> HIDE DEF p, q
  <2>3. n * p \in Nat /\ n * q \in Nat /\ i % n \in Nat
    BY <1>1, <2>2, SMT
  <2>4. ~(q < p) /\ p # q
    BY <1>3, <2>2, <2>3, Longer, SMT
  <2>5. n * p + n <= n * q
    BY <2>2, <2>4, Longer, SMT
  <2> QED
    BY <2>2, <2>3, <2>5, SMT
<1> QED
  BY <1>2, <1>3

(* lab8.  A thread has added up the terms of its remainder below the one   *)
(* it is at, in the end all of them up to one beyond NUM_STEP, and the sum *)
(* has those of the threads joined.                                        *)
Adder(i) == i % num_of_threads

Mine(t, i) == i \in Lab8!Terms /\ Adder(i) = t

Added(t, i) ==
  Mine(t, i) /\ i < IF pc[t] = "done" THEN NUM_STEP + num_of_threads ELSE term[t]

Joined ==
  IF main.does = "create" THEN 0
  ELSE IF main.does = "join" THEN main.thread ELSE num_of_threads

Summed ==
  sum = [i \in Lab8!Terms |->
           IF i < NUM_STEP + num_of_threads /\ Adder(i) < Joined THEN 1 ELSE 0]

SeriesInv ==
  /\ num_of_threads \in Arguments
  /\ main \in [does : {"create", "join", "done"}, thread : Lab8!Workers]
  /\ pc \in [Lab8!Workers -> {"unborn", "add", "done"}]
  /\ main.does = "create" =>
       \A t \in Lab8!Workers : t >= main.thread => pc[t] = "unborn"
  /\ term \in [Lab8!Workers -> Nat]
  /\ \A t \in Lab8!Workers :
       Mine(t, term[t]) /\ term[t] < NUM_STEP + num_of_threads
  /\ result = [t \in Lab8!Workers |-> {i \in Lab8!Terms : Added(t, i)}]
  /\ Summed

LEMMA SeriesStart == Lab8!SeriesInit => SeriesInv
<1> SUFFICES ASSUME Lab8!SeriesInit PROVE SeriesInv
  OBVIOUS
<1> DEFINE n == num_of_threads
<1>1. /\ n \in Arguments
      /\ main = [does |-> "create", thread |-> 0]
      /\ pc = [t \in Lab8!Workers |-> "unborn"]
      /\ term = [t \in Lab8!Workers |-> t]
      /\ result = [t \in Lab8!Workers |-> {}]
      /\ sum = [i \in Lab8!Terms |-> 0]
  BY DEF Lab8!SeriesInit
<1>2. /\ n \in Nat \ {0} /\ NUM_STEP \in Nat
      /\ Lab8!Workers = 0..(n - 1) /\ Lab8!Terms = 0..(NUM_STEP + n)
  BY <1>1, BoundsAssumption DEF Lab8!Workers, Lab8!Terms
<1>3. \A i \in Nat : Adder(i) \in 0..(n - 1) /\ (i < n => Adder(i) = i)
  BY <1>2, SMT DEF Adder
<1> HIDE DEF n
<1>4. \A t \in Lab8!Workers : Mine(t, term[t]) /\ term[t] < NUM_STEP + n /\ term[t] \in Nat
  BY <1>1, <1>2, <1>3, SMT DEF Mine, n
<1>5. \A t \in Lab8!Workers : \A i \in Lab8!Terms : ~Added(t, i)
  BY <1>1, <1>2, <1>3, SMT DEF Added, Mine, n
<1>6. result = [t \in Lab8!Workers |-> {i \in Lab8!Terms : Added(t, i)}]
  BY <1>1, <1>5
<1>7. Joined = 0
  BY <1>1 DEF Joined
<1>8. Summed
  <2>1. \A i \in Lab8!Terms : ~(Adder(i) < Joined)
    BY <1>2, <1>3, <1>7, SMT
  <2> QED
    BY <1>1, <2>1 DEF Summed, n
<1>9. main \in [does : {"create", "join", "done"}, thread : Lab8!Workers]
  BY <1>1, <1>2, SMT
<1> QED
  BY <1>1, <1>4, <1>6, <1>8, <1>9 DEF SeriesInv, n

LEMMA SeriesStep ==
  ASSUME SeriesInv, Lab8!SeriesNext
  PROVE  SeriesInv'
<1> DEFINE n == num_of_threads
           W == Lab8!Workers
           T == Lab8!Terms
<1>1. PICK u \in W : Lab8!Create(u) \/ Lab8!Add(u) \/ Lab8!JoinThread(u)
  BY DEF Lab8!SeriesNext
<1>2. n' = n /\ W' = W /\ T' = T /\ \A i : Adder(i)' = Adder(i)
  BY <1>1 DEF Lab8!Create, Lab8!Add, Lab8!JoinThread, Lab8!Workers, Lab8!Terms,
     Adder
<1>3. /\ n \in Nat \ {0} /\ NUM_STEP \in Nat
      /\ W = 0..(n - 1) /\ T = 0..(NUM_STEP + n)
  BY BoundsAssumption DEF SeriesInv, Lab8!Workers, Lab8!Terms
<1>4. \A i \in Nat : Adder(i) \in 0..(n - 1)
  BY <1>3, SMT DEF Adder
<1>5. /\ n \in Arguments
      /\ main \in [does : {"create", "join", "done"}, thread : W]
      /\ pc \in [W -> {"unborn", "add", "done"}]
      /\ main.does = "create" => \A t \in W : t >= main.thread => pc[t] = "unborn"
      /\ term \in [W -> Nat]
      /\ \A t \in W : Mine(t, term[t]) /\ term[t] < NUM_STEP + n
      /\ result = [t \in W |-> {i \in T : Added(t, i)}]
      /\ sum = [i \in T |-> IF i < NUM_STEP + n /\ Adder(i) < Joined THEN 1 ELSE 0]
  BY DEF SeriesInv, Summed
<1> HIDE DEF n, W, T
<1>6. SUFFICES /\ main' \in [does : {"create", "join", "done"}, thread : W]
               /\ pc' \in [W -> {"unborn", "add", "done"}]
               /\ main'.does = "create" =>
                    \A t \in W : t >= main'.thread => pc'[t] = "unborn"
               /\ term' \in [W -> Nat]
               /\ \A t \in W : Mine(t, term'[t]) /\ term'[t] < NUM_STEP + n
               /\ result' = [t \in W |-> {i \in T : Added(t, i)'}]
               /\ sum' = [i \in T |->
                            IF i < NUM_STEP + n /\ Adder(i) < Joined' THEN 1 ELSE 0]
  BY <1>2, <1>5 DEF SeriesInv, Summed, Mine, n, W, T
<1>7. CASE Lab8!Create(u)
  <2>1. /\ main = [does |-> "create", thread |-> u]
        /\ main' = IF u + 1 < n THEN [main EXCEPT !.thread = u + 1]
                   ELSE [does |-> "join", thread |-> 0]
        /\ pc' = [pc EXCEPT ![u] = "add"]
        /\ term' = term /\ result' = result /\ sum' = sum
    BY <1>7 DEF Lab8!Create, Lab8!LoopOn, n
  <2>2. Joined = 0 /\ Joined' = 0
    BY <2>1, SMT DEF Joined
  <2>3. pc[u] = "unborn"
    BY <1>3, <1>5, <2>1, SMT
  <2>4. \A t \in W, i \in T : Added(t, i)' <=> Added(t, i)
    BY <1>2, <1>5, <2>1, <2>3 DEF Added, Mine, n, T
  <2>5. /\ main' \in [does : {"create", "join", "done"}, thread : W]
        /\ pc' \in [W -> {"unborn", "add", "done"}]
        /\ main'.does = "create" =>
             \A t \in W : t >= main'.thread => pc'[t] = "unborn"
    BY <1>3, <1>5, <2>1, SMT
  <2> QED
    BY <1>5, <2>1, <2>2, <2>4, <2>5
<1>8. CASE Lab8!JoinThread(u)
  <2>1. /\ main = [does |-> "join", thread |-> u]
        /\ pc[u] = "done"
        /\ sum' = [i \in T |-> IF i \in result[u] THEN sum[i] + 1 ELSE sum[i]]
        /\ main' = IF u + 1 < n THEN [main EXCEPT !.thread = u + 1]
                   ELSE [does |-> "done", thread |-> 0]
        /\ pc' = pc /\ term' = term /\ result' = result
    BY <1>8 DEF Lab8!JoinThread, Lab8!LoopOn, n, T
  <2>2. Joined = u /\ Joined' = u + 1
    BY <1>2, <1>3, <2>1, SMT DEF Joined, n
  <2>3. \A t \in W, i \in T : Added(t, i)' <=> Added(t, i)
    BY <1>2, <2>1 DEF Added, Mine, n, T
  <2>4. \A i \in T : i \in result[u] <=> Adder(i) = u /\ i < NUM_STEP + n
    BY <1>5, <2>1 DEF Added, Mine, n, T
  <2>5. \A i \in T : sum'[i] = IF i < NUM_STEP + n /\ Adder(i) < Joined' THEN 1 ELSE 0
    BY <1>3, <1>4, <1>5, <2>1, <2>2, <2>4, SMT
  <2>6. sum' = [i \in T |-> IF i < NUM_STEP + n /\ Adder(i) < Joined' THEN 1 ELSE 0]
    BY <2>1, <2>5
  <2>7. /\ main' \in [does : {"create", "join", "done"}, thread : W]
        /\ main'.does # "create"
    BY <1>3, <1>5, <2>1, SMT
  <2> QED
    BY <1>5, <2>1, <2>3, <2>6, <2>7
<1>9. CASE Lab8!Add(u)
  <2>1. /\ pc[u] = "add"
        /\ result' = [result EXCEPT ![u] = @ \cup {term[u]}]
        /\ IF term[u] >= NUM_STEP
           THEN pc' = [pc EXCEPT ![u] = "done"] /\ term' = term
           ELSE term' = [term EXCEPT ![u] = @ + n] /\ pc' = pc
        /\ main' = main /\ sum' = sum
    BY <1>9 DEF Lab8!Add, Lab8!Last, n
  <2>2. Joined' = Joined
    BY <1>2, <2>1 DEF Joined, n
  <2>3. /\ term[u] \in T /\ term[u] \in Nat /\ Adder(term[u]) = u
        /\ term[u] < NUM_STEP + n
    BY <1>5 DEF Mine, n, T
  <2>4. /\ Adder(term[u] + n) = u
        /\ \A j \in Nat : term[u] < j /\ Adder(j) = u => term[u] + n <= j
    BY <1>3, <2>3, SameRemainder DEF Adder, n
  <2>5. \A i \in T : Added(u, i)' <=> Added(u, i) \/ i = term[u]
    <3>1. \A i \in T : Added(u, i) <=> Adder(i) = u /\ i < term[u]
      BY <2>1 DEF Added, Mine, n, T
    <3>2. CASE term[u] >= NUM_STEP
      <4>1. \A i \in T : Added(u, i)' <=> Adder(i) = u /\ i < NUM_STEP + n
        BY <1>2, <1>5, <2>1, <3>2 DEF Added, Mine, n, T
      <4> QED
        BY <1>3, <2>3, <2>4, <3>1, <3>2, <4>1, SMT
    <3>3. CASE ~(term[u] >= NUM_STEP)
      <4>1. \A i \in T : Added(u, i)' <=> Adder(i) = u /\ i < term[u] + n
        BY <1>2, <1>5, <2>1, <3>3 DEF Added, Mine, n, T
      <4> QED
        BY <1>3, <2>3, <2>4, <3>1, <3>3, <4>1, SMT
    <3> QED
      BY <3>2, <3>3
  <2>6. \A t \in W \ {u}, i \in T : Added(t, i)' <=> Added(t, i)
    BY <1>2, <1>5, <2>1 DEF Added, Mine, n, T
  <2>7. \A t \in W : result'[t] = {i \in T : Added(t, i)'}
    BY <1>5, <2>1, <2>3, <2>5, <2>6
  <2>8. result' = [t \in W |-> {i \in T : Added(t, i)'}]
    BY <1>5, <2>1, <2>7
  <2>9. term' \in [W -> Nat] /\ pc' \in [W -> {"unborn", "add", "done"}]
    <3>1. term[u] + n \in Nat
      BY <1>3, <2>3, SMT
    <3>2. term \in [W -> Nat] /\ pc \in [W -> {"unborn", "add", "done"}]
      BY <1>5
    <3> QED
      BY <2>1, <3>1, <3>2, Zenon
  <2>10. ~(term[u] >= NUM_STEP) => Mine(u, term[u] + n) /\ term[u] + n < NUM_STEP + n
    BY <1>3, <2>3, <2>4, SMT DEF Mine, n, T
  <2>11. \A t \in W : Mine(t, term'[t]) /\ term'[t] < NUM_STEP + n
    BY <1>5, <2>1, <2>10
  <2>12. main'.does = "create" => \A t \in W : t >= main'.thread => pc'[t] = "unborn"
    BY <1>5, <2>1
  <2> QED
    BY <1>5, <2>1, <2>2, <2>8, <2>9, <2>11, <2>12
<1> QED
  BY <1>1, <1>7, <1>8, <1>9 DEF W

LEMMA SeriesTyped == SeriesInv => Lab8!SeriesTypeOK
<1> SUFFICES ASSUME SeriesInv PROVE Lab8!SeriesTypeOK
  OBVIOUS
<1>1. num_of_threads \in Nat \ {0}
  BY BoundsAssumption DEF SeriesInv
<1>2. sum \in [Lab8!Terms -> 0..num_of_threads]
  BY <1>1, SMT DEF SeriesInv, Summed
<1>3. term \in [Lab8!Workers -> Lab8!Terms]
  BY DEF SeriesInv, Mine
<1>4. result \in [Lab8!Workers -> SUBSET Lab8!Terms]
  BY DEF SeriesInv
<1> QED
  BY <1>2, <1>3, <1>4 DEF SeriesInv, Lab8!SeriesTypeOK

LEMMA SeriesSummed == SeriesInv => Lab8!EveryTermOnce
<1> SUFFICES ASSUME SeriesInv, main.does = "done" PROVE Lab8!EveryTermOnce
  BY DEF Lab8!EveryTermOnce
<1>1. num_of_threads \in Nat \ {0} /\ NUM_STEP \in Nat
  BY BoundsAssumption DEF SeriesInv
<1>2. \A i \in Lab8!Terms : Adder(i) < Joined
  BY <1>1, SMT DEF Adder, Joined, Lab8!Terms
<1> QED
  BY <1>2 DEF SeriesInv, Summed, Lab8!EveryTermOnce

-----------------------------------------------------------------------------

(* lab6.  How far main has come tells how many lines and threads there     *)
(* are.                                                                    *)
Progress ==
  /\ main \in {"read", "barrier", "failed"} => pc = <<>> /\ output = <<>>
  /\ main = "read" => total = 0
  /\ main = "barrier" => total = IF Len(strings) < MaxLines THEN Len(strings) ELSE 0
  /\ main = "failed" => Len(strings) = 0 \/ Len(strings) = MaxLines
  /\ main \in {"create", "join", "done"} =>
       total = Len(strings) /\ 0 < total /\ total < MaxLines
  /\ main = "create" => Len(pc) < total
  /\ main \in {"join", "done"} => Len(pc) = total
  /\ main = "done" => \A t \in DOMAIN pc : pc[t] = "done"

(* Before the barrier opens nobody sleeps, and it opens for all of them at *)
(* once: each is due as long after that as its line is.                    *)
BeforeBarrier == output = <<>> /\ \A t \in DOMAIN pc : pc[t] \in {"start", "wait"}

AfterBarrier ==
  /\ Len(pc) = total
  /\ \A t \in DOMAIN pc : pc[t] \in {"sleep", "done"}
  /\ \E b \in Nat : \A t \in DOMAIN pc : due[t] = b + strings[t]

(* No thread oversleeps, and none prints before it is due. *)
Punctual ==
  \A t \in DOMAIN pc : /\ pc[t] = "sleep" => clock <= due[t]
                       /\ pc[t] = "done" => due[t] <= clock

Done == {t \in DOMAIN pc : pc[t] = "done"}

Outputs ==
  /\ \A i \in DOMAIN output : output[i] \in Done
  /\ \A i, j \in DOMAIN output :
       i < j => output[i] # output[j] /\ strings[output[i]] <= strings[output[j]]
  /\ Len(output) = Cardinality(Done)

SortInv ==
  /\ Lab6!SortTypeOK /\ Progress /\ Punctual /\ Outputs
  /\ BeforeBarrier \/ AfterBarrier

(* The lines of the input, as sequences of lengths. *)
LEMMA LinesRead ==
  ASSUME NEW s
  PROVE  s \in Lab6!Inputs <=> s \in Seq(Lengths) /\ Len(s) <= MaxLines
<1>1. ASSUME s \in Lab6!Inputs PROVE s \in Seq(Lengths) /\ Len(s) <= MaxLines
  <2>1. PICK n \in 0..MaxLines : s \in [1..n -> Lengths]
    BY <1>1 DEF Lab6!Inputs
  <2> QED
    BY <2>1, BoundsAssumption, SMT
<1>2. ASSUME s \in Seq(Lengths), Len(s) <= MaxLines PROVE s \in Lab6!Inputs
  <2>1. s \in [1..Len(s) -> Lengths] /\ Len(s) \in 0..MaxLines
    BY <1>2, BoundsAssumption, SMT
  <2> QED
    BY <2>1 DEF Lab6!Inputs
<1> QED
  BY <1>1, <1>2

LEMMA SortStart == Lab6!SortInit => SortInv
<1> SUFFICES ASSUME Lab6!SortInit PROVE SortInv
  OBVIOUS
<1> USE DEF Lab6!SortInit
<1>1. strings \in Lab6!Inputs
  <2>1. strings \in Seq(Lengths) /\ Len(strings) <= MaxLines
    BY BoundsAssumption, SMT
  <2> QED
    BY <2>1, LinesRead
<1>2. Lab6!SortTypeOK
  BY <1>1, BoundsAssumption, SMT DEF Lab6!SortTypeOK, Lab6!Started
<1>3. Progress /\ Punctual /\ BeforeBarrier
  BY SMT DEF Progress, Punctual, BeforeBarrier
<1>4. Outputs
  <2>1. Done = {}
    BY SMT DEF Done
  <2> QED
    BY <2>1, FS_EmptySet, SMT DEF Outputs
<1> QED
  BY <1>2, <1>3, <1>4 DEF SortInv

States == {"start", "wait", "sleep", "done"}

(* What the type says of the sequences. *)
LEMMA SortTyped ==
  ASSUME Lab6!SortTypeOK
  PROVE  /\ pc \in Seq(States) /\ due \in Seq(Nat) /\ Len(due) = Len(pc)
         /\ DOMAIN pc = 1..Len(pc) /\ Len(pc) \in Nat
         /\ stdin \in Seq(Lengths) /\ Len(stdin) <= MaxLines
         /\ strings \in Seq(Nat) /\ strings \in Seq(Lengths) /\ Len(strings) <= MaxLines
         /\ Len(strings) \in Nat /\ clock \in Nat /\ total \in Nat
         /\ output \in Seq(DOMAIN pc)
         /\ Len(pc) <= total /\ total <= MaxLines
<1>1. stdin \in Seq(Lengths) /\ Len(stdin) <= MaxLines /\ strings \in Seq(Lengths)
        /\ Len(strings) <= MaxLines
  BY LinesRead DEF Lab6!SortTypeOK
<1>2. strings \in Seq(Nat)
  <2>1. strings \in [1..Len(strings) -> Lengths] /\ Len(strings) \in Nat
    BY <1>1, SMT
  <2>2. strings \in [1..Len(strings) -> Nat]
    BY <2>1, BoundsAssumption
  <2> QED
    BY <2>1, <2>2, SMT
<1> QED
  BY <1>1, <1>2, BoundsAssumption, SMT DEF Lab6!SortTypeOK, Lab6!Started, States

LEMMA SortReads ==
  ASSUME SortInv, Lab6!Read \/ Lab6!EndOfInput \/ Lab6!BarrierInit
  PROVE  SortInv'
<1>1. UNCHANGED <<pc, due, clock, output>> /\ pc = <<>> /\ output = <<>> /\ main # "create"
  BY SMT DEF SortInv, Progress, Lab6!Read, Lab6!EndOfInput, Lab6!BarrierInit
<1>2. Done = {} /\ Done' = {}
  BY <1>1, SMT DEF Done
<1>3. Punctual' /\ Outputs' /\ BeforeBarrier'
  BY <1>1, <1>2, FS_EmptySet, SMT DEF Punctual, Outputs, BeforeBarrier
<1>4. Lab6!SortTypeOK
  BY DEF SortInv
<1>5. Lab6!SortTypeOK' /\ Progress'
  <2>1. CASE Lab6!Read
    <3>1. /\ strings' = Append(strings, Head(stdin)) /\ stdin' = Tail(stdin)
          /\ stdin # <<>> /\ Len(strings) < MaxLines
          /\ main = "read" /\ UNCHANGED <<main, total>>
      BY <2>1 DEF Lab6!Read
    <3>2. /\ strings' \in Seq(Lengths) /\ Len(strings') <= MaxLines
          /\ stdin' \in Seq(Lengths) /\ Len(stdin') <= MaxLines
      BY <1>4, <3>1, SortTyped, BoundsAssumption, SMT
    <3>3. {stdin', strings'} \subseteq Lab6!Inputs
      BY <3>2, LinesRead
    <3>4. Lab6!Inputs' = Lab6!Inputs /\ Lab6!Started' = Lab6!Started
      BY <1>1 DEF Lab6!Inputs, Lab6!Started
    <3>5. Lab6!SortTypeOK'
      BY <1>1, <1>4, <3>1, <3>3, <3>4 DEF Lab6!SortTypeOK
    <3>6. Progress'
      BY <1>1, <3>1, SMT DEF SortInv, Progress
    <3> QED
      BY <3>5, <3>6
  <2>2. CASE Lab6!EndOfInput \/ Lab6!BarrierInit
    <3>1. UNCHANGED <<stdin, strings>>
      BY <2>2 DEF Lab6!EndOfInput, Lab6!BarrierInit
    <3>2. Lab6!Inputs' = Lab6!Inputs /\ Lab6!Started' = Lab6!Started
      BY <1>1 DEF Lab6!Inputs, Lab6!Started
    <3>3. total' \in 0..MaxLines
      BY <1>4, <2>2, SortTyped, BoundsAssumption, SMT DEF Lab6!EndOfInput, Lab6!BarrierInit
    <3>4. main' \in {"barrier", "failed", "create"}
      BY <2>2, SMT DEF Lab6!EndOfInput, Lab6!BarrierInit
    <3>5. Len(pc) = 0
      BY <1>1, SMT
    <3>6. Lab6!SortTypeOK'
      BY <1>1, <1>4, <3>1, <3>2, <3>3, <3>4, <3>5, SMT DEF Lab6!SortTypeOK
    <3>7. Progress'
      BY <1>1, <1>4, <2>2, <3>5, SortTyped, BoundsAssumption, SMT
         DEF SortInv, Progress, Lab6!EndOfInput, Lab6!BarrierInit
    <3> QED
      BY <3>6, <3>7
  <2> QED
    BY <2>1, <2>2
<1> QED
  BY <1>3, <1>5 DEF SortInv

LEMMA SortCreates ==
  ASSUME SortInv, Lab6!CreateThread
  PROVE  SortInv'
<1>1. Lab6!SortTypeOK /\ Len(pc) < total
  BY DEF SortInv, Progress, Lab6!CreateThread
<1>2. BeforeBarrier
  BY <1>1, SortTyped, SMT DEF SortInv, AfterBarrier
<1>3. /\ pc' = Append(pc, "start") /\ due' = Append(due, 0)
      /\ main = "create" /\ main' = IF Len(pc') = total THEN "join" ELSE "create"
      /\ UNCHANGED <<stdin, strings, total, clock, output>>
  BY DEF Lab6!CreateThread
<1>4. /\ pc' \in Seq(States) /\ Len(pc') = Len(pc) + 1 /\ Len(pc') <= total
      /\ due' \in Seq(Nat) /\ Len(due') = Len(pc')
      /\ DOMAIN pc' = 1..Len(pc')
      /\ \A t \in DOMAIN pc' : pc'[t] \in {"start", "wait"}
  BY <1>1, <1>2, <1>3, SortTyped, SMT DEF States, BeforeBarrier
<1>5. output = <<>> /\ output' \in Seq(DOMAIN pc') /\ BeforeBarrier'
  BY <1>2, <1>3, <1>4, SMT DEF BeforeBarrier
<1>6. Lab6!SortTypeOK'
  <2>1. Lab6!Inputs' = Lab6!Inputs
    BY DEF Lab6!Inputs
  <2>2. main' \in {"create", "join"}
    BY <1>3, SMT
  <2> QED
    BY <1>1, <1>3, <1>4, <1>5, <2>1, <2>2 DEF Lab6!SortTypeOK, Lab6!Started, States
<1>7. Progress'
  BY <1>1, <1>3, <1>4, SortTyped, SMT DEF SortInv, Progress
<1>8. Punctual'
  BY <1>4, SMT DEF Punctual
<1>9. Outputs'
  <2>1. Done' = {}
    BY <1>4, SMT DEF Done
  <2> QED
    BY <1>3, <1>5, <2>1, FS_EmptySet, SMT DEF Outputs
<1> QED
  BY <1>5, <1>6, <1>7, <1>8, <1>9 DEF SortInv

LEMMA UpTo ==
  ASSUME NEW n \in Nat
  PROVE  IsFiniteSet(1..n) /\ Cardinality(1..n) = n
<1>1. \A a, b \in Int : /\ IsFiniteSet(a..b)
                       /\ Cardinality(a..b) = IF a > b THEN 0 ELSE b - a + 1
  BY FS_Interval
<1>2. 1 \in Int /\ n \in Int
  BY SMT
<1>3. IsFiniteSet(1..n) /\ Cardinality(1..n) = IF 1 > n THEN 0 ELSE n - 1 + 1
  BY <1>1, <1>2
<1>4. (IF 1 > n THEN 0 ELSE n - 1 + 1) = n
  BY SMT
<1> QED
  BY <1>3, <1>4

(* The last to arrive is the last of all the threads. *)
LEMMA AllOfThem ==
  ASSUME Lab6!SortTypeOK, NEW t \in DOMAIN pc,
         Lab6!AllThere(Lab6!Waiting \cup {t})
  PROVE  Lab6!Waiting \cup {t} = DOMAIN pc /\ Len(pc) = total
<1> DEFINE there == Lab6!Waiting \cup {t}
<1>1. /\ there \subseteq 1..Len(pc) /\ DOMAIN pc = 1..Len(pc)
      /\ Len(pc) \in Nat /\ total \in Nat /\ Len(pc) <= total
  BY SortTyped DEF Lab6!Waiting, Lab6!Started
<1>2. Cardinality(there) = total
  BY DEF Lab6!AllThere, Lab6!Cardinality, Cardinality
<1> HIDE DEF there
<1>3. IsFiniteSet(1..Len(pc)) /\ Cardinality(1..Len(pc)) = Len(pc)
  BY <1>1, UpTo
<1>4. /\ Cardinality(there) <= Len(pc)
      /\ Cardinality(there) = Len(pc) => there = 1..Len(pc)
  BY <1>1, <1>3, FS_Subset
<1>5. total <= Len(pc)
  BY <1>2, <1>4
<1>6. Len(pc) = total
  <2>1. \A a, b \in Nat : a <= b /\ b <= a => a = b
    BY SMT
  <2> QED
    BY <1>1, <1>5, <2>1, Zenon
<1> QED
  BY <1>1, <1>2, <1>4, <1>6 DEF there

LEMMA SortArrives ==
  ASSUME SortInv, NEW t \in DOMAIN pc, Lab6!ArriveAtBarrier(t)
  PROVE  SortInv'
<1> DEFINE there == Lab6!Waiting \cup {t}
           sleep == IF Lab6!AllThere(there) THEN there ELSE {}
<1>1. /\ pc[t] = "start"
      /\ pc' = [u \in DOMAIN pc |-> IF u \in sleep THEN "sleep"
                                    ELSE IF u = t THEN "wait" ELSE pc[u]]
      /\ due' = [u \in DOMAIN pc |-> IF u \in sleep THEN clock + strings[u] ELSE due[u]]
      /\ UNCHANGED <<main, stdin, strings, total, clock, output>>
  BY DEF Lab6!ArriveAtBarrier, Lab6!Started
<1>2. Lab6!SortTypeOK
  BY DEF SortInv
<1>3. BeforeBarrier
  BY <1>1 DEF SortInv, AfterBarrier
<1>4. /\ DOMAIN pc = 1..Len(pc) /\ Len(pc) \in Nat /\ Len(due) = Len(pc)
      /\ pc \in Seq(States) /\ due \in Seq(Nat) /\ clock \in Nat
      /\ strings \in Seq(Nat) /\ Len(pc) <= Len(strings)
  <2>1. total = Len(strings) \/ pc = <<>>
    BY SMT DEF SortInv, Progress, Lab6!SortTypeOK
  <2> QED
    BY <1>2, <2>1, SortTyped, SMT
<1>5. Lab6!Inputs' = Lab6!Inputs
  BY DEF Lab6!Inputs
<1>6. CASE Lab6!AllThere(there)
  <2>1. there = DOMAIN pc /\ Len(pc) = total
    BY <1>2, <1>6, AllOfThem
  <2>2. /\ pc' = [u \in DOMAIN pc |-> "sleep"]
        /\ due' = [u \in DOMAIN pc |-> clock + strings[u]]
    BY <1>1, <1>6, <2>1
  <2> HIDE DEF there, sleep
  <2>3. /\ pc' \in Seq(States) /\ Len(pc') = Len(pc) /\ DOMAIN pc' = DOMAIN pc
        /\ due' \in Seq(Nat) /\ Len(due') = Len(pc)
    BY <1>4, <2>2, SMT DEF States
  <2>4. Lab6!SortTypeOK'
    BY <1>1, <1>2, <1>5, <2>3 DEF Lab6!SortTypeOK, Lab6!Started, States
  <2>5. AfterBarrier'
    <3>1. \A u \in DOMAIN pc' : pc'[u] \in {"sleep", "done"} /\ due'[u] = clock + strings'[u]
      BY <1>1, <2>2
    <3> QED
      BY <1>1, <1>4, <2>1, <2>3, <3>1 DEF AfterBarrier
  <2>6. Punctual'
    <3>1. \A u \in DOMAIN pc : strings[u] \in Nat
      <4>1. strings \in [1..Len(strings) -> Nat] /\ Len(strings) \in Nat
        BY <1>4, SMT
      <4>2. \A u \in DOMAIN pc : u \in 1..Len(strings)
        BY <1>4, <4>1, SMT
      <4> QED
        BY <4>1, <4>2
    <3>2. \A m \in Nat : clock <= clock + m
      BY <1>4, SMT
    <3>3. \A u \in DOMAIN pc' : pc'[u] = "sleep" /\ clock' <= due'[u]
      BY <1>1, <2>2, <3>1, <3>2, Zenon
    <3> QED
      BY <3>3, Zenon DEF Punctual
  <2>7. Done = {} /\ Done' = {}
    BY <1>3, <2>2, SMT DEF Done, BeforeBarrier
  <2>8. Outputs'
    BY <1>1, <1>3, <2>7, FS_EmptySet, SMT DEF Outputs, BeforeBarrier
  <2>9. Progress'
    BY <1>1, <1>3, <1>4, <2>2, <2>3, SMT DEF SortInv, Progress, BeforeBarrier
  <2> QED
    BY <2>4, <2>5, <2>6, <2>8, <2>9 DEF SortInv
<1>7. CASE ~Lab6!AllThere(there)
  <2>1. /\ pc' = [pc EXCEPT ![t] = "wait"]
        /\ due' = due
    <3>1. due' = [u \in DOMAIN pc |-> due[u]]
      BY <1>1, <1>7
    <3>2. due = [u \in 1..Len(due) |-> due[u]]
      BY <1>4, SMT
    <3> QED
      BY <1>1, <1>4, <1>7, <3>1, <3>2
  <2> HIDE DEF there, sleep
  <2>2. /\ pc' \in Seq(States) /\ Len(pc') = Len(pc) /\ DOMAIN pc' = DOMAIN pc
    BY <1>4, <2>1, SMT DEF States
  <2>3. Lab6!SortTypeOK'
    BY <1>1, <1>2, <1>5, <2>1, <2>2 DEF Lab6!SortTypeOK, Lab6!Started, States
  <2>4. BeforeBarrier'
    BY <1>1, <1>3, <1>4, <2>1, <2>2, SMT DEF BeforeBarrier
  <2>5. Punctual'
    BY <2>4 DEF Punctual, BeforeBarrier
  <2>6. Done = {} /\ Done' = {}
    BY <1>3, <2>4, SMT DEF Done, BeforeBarrier
  <2>7. Outputs'
    BY <1>1, <1>3, <2>6, FS_EmptySet, SMT DEF Outputs, BeforeBarrier
  <2>8. Progress'
    BY <1>1, <1>3, <1>4, <2>1, <2>2, SMT DEF SortInv, Progress, BeforeBarrier
  <2> QED
    BY <2>3, <2>4, <2>5, <2>7, <2>8 DEF SortInv
<1> QED
  BY <1>6, <1>7

LEMMA SortPrints ==
  ASSUME SortInv, NEW t \in DOMAIN pc, Lab6!PrintString(t)
  PROVE  SortInv'
<1>1. /\ pc[t] = "sleep" /\ due[t] <= clock
      /\ output' = Append(output, t) /\ pc' = [pc EXCEPT ![t] = "done"]
      /\ UNCHANGED <<main, stdin, strings, total, clock, due>>
  BY DEF Lab6!PrintString, Lab6!IsDue
<1>2. Lab6!SortTypeOK /\ AfterBarrier
  BY <1>1 DEF SortInv, BeforeBarrier
<1>3. /\ DOMAIN pc = 1..Len(pc) /\ Len(pc) \in Nat /\ Len(due) = Len(pc)
      /\ pc \in Seq(States) /\ due \in Seq(Nat) /\ clock \in Nat
      /\ strings \in Seq(Nat) /\ output \in Seq(DOMAIN pc)
      /\ Len(pc) = Len(strings)
  <2>1. total = Len(strings)
    BY <1>2, SMT DEF SortInv, Progress, Lab6!SortTypeOK
  <2> QED
    BY <1>2, <2>1, SortTyped, SMT DEF AfterBarrier
<1>4. /\ pc' \in Seq(States) /\ Len(pc') = Len(pc) /\ DOMAIN pc' = DOMAIN pc
      /\ output' \in Seq(DOMAIN pc')
  BY <1>1, <1>3, SMT DEF States
<1>5. Lab6!SortTypeOK'
  <2>1. Lab6!Inputs' = Lab6!Inputs
    BY DEF Lab6!Inputs
  <2> QED
    BY <1>1, <1>2, <1>4, <2>1 DEF Lab6!SortTypeOK, Lab6!Started, States
<1>6. AfterBarrier'
  BY <1>1, <1>2, <1>3, <1>4, SMT DEF AfterBarrier
<1>7. Punctual'
  BY <1>1, <1>3, <1>4, SMT DEF SortInv, Punctual
<1>8. Done' = Done \cup {t} /\ t \notin Done /\ IsFiniteSet(Done)
  <2>1. Done \subseteq 1..Len(pc) /\ IsFiniteSet(1..Len(pc))
    BY <1>3, UpTo DEF Done
  <2> QED
    BY <1>1, <1>4, <2>1, FS_Subset DEF Done
<1>9. Outputs'
  <2>1. Cardinality(Done') = Len(output')
    <3>1. Cardinality(Done') = Cardinality(Done) + 1
      BY <1>8, FS_AddElement
    <3>2. Len(output') = Len(output) + 1
      BY <1>1, <1>3, SMT
    <3> QED
      BY <3>1, <3>2 DEF SortInv, Outputs
  <2>2. /\ Len(output') = Len(output) + 1 /\ output'[Len(output) + 1] = t
        /\ \A i \in 1..Len(output) : output'[i] = output[i]
        /\ DOMAIN output' = 1..(Len(output) + 1) /\ DOMAIN output = 1..Len(output)
        /\ Len(output) \in Nat
    BY <1>1, <1>3, SMT
  <2>3. \A i \in 1..Len(output) : output[i] \in Done
    BY <2>2 DEF SortInv, Outputs
  <2>4. \A i \in DOMAIN output' : output'[i] \in Done'
    BY <1>8, <2>2, <2>3, SMT
  <2>5. \A i \in 1..Len(output) : output[i] # t /\ strings[output[i]] <= strings[t]
    <3>1. SUFFICES ASSUME NEW i \in 1..Len(output)
                   PROVE  strings[output[i]] <= strings[t]
      BY <1>8, <2>3
    <3>2. output[i] \in DOMAIN pc /\ due[output[i]] <= clock
      BY <2>3 DEF Done, SortInv, Punctual
    <3>3. clock <= due[t]
      BY <1>1 DEF SortInv, Punctual
    <3>4. PICK b \in Nat : \A u \in DOMAIN pc : due[u] = b + strings[u]
      BY <1>2 DEF AfterBarrier
    <3>5. /\ due[output[i]] = b + strings[output[i]] /\ due[t] = b + strings[t]
          /\ strings[output[i]] \in Nat /\ strings[t] \in Nat
      <4>1. strings \in [1..Len(strings) -> Nat]
        BY <1>3, SMT
      <4> QED
        BY <1>3, <3>2, <3>4, <4>1
    <3>6. b + strings[output[i]] <= clock /\ clock <= b + strings[t]
      BY <3>2, <3>3, <3>5
    <3>7. \A x, y, c \in Nat : b + x <= c /\ c <= b + y => x <= y
      BY SMT
    <3> QED
      BY <1>3, <3>5, <3>6, <3>7, Zenon
  <2>6. \A i, j \in DOMAIN output' :
          i < j => output'[i] # output'[j] /\ strings[output'[i]] <= strings[output'[j]]
    <3>1. SUFFICES ASSUME NEW i \in DOMAIN output', NEW j \in DOMAIN output', i < j
                   PROVE  output'[i] # output'[j] /\ strings[output'[i]] <= strings[output'[j]]
      OBVIOUS
    <3>2. i \in 1..Len(output) /\ (j \in 1..Len(output) \/ j = Len(output) + 1)
      BY <2>2, <3>1, SMT
    <3> QED
      BY <2>2, <2>5, <3>1, <3>2 DEF SortInv, Outputs
  <2> QED
    BY <1>1, <2>1, <2>4, <2>6 DEF Outputs
<1>10. Progress'
  BY <1>1, <1>3, <1>4, SMT DEF SortInv, Progress
<1> QED
  BY <1>5, <1>6, <1>7, <1>9, <1>10 DEF SortInv

LEMMA SortStep ==
  ASSUME SortInv, Lab6!SortNext
  PROVE  SortInv'
<1>1. CASE Lab6!JoinAll
  <2>1. /\ main = "join" /\ \A t \in DOMAIN pc : pc[t] = "done"
        /\ main' = "done" /\ UNCHANGED <<pc, stdin, strings, total, clock, due, output>>
    BY <1>1 DEF Lab6!JoinAll, Lab6!Started
  <2>2. Lab6!SortTypeOK'
    BY <2>1 DEF SortInv, Lab6!SortTypeOK, Lab6!Inputs, Lab6!Started
  <2>3. Progress'
    BY <2>1, SMT DEF SortInv, Progress
  <2>4. (Punctual /\ Outputs /\ (BeforeBarrier \/ AfterBarrier))'
    BY <2>1 DEF SortInv, Punctual, Outputs, Done, BeforeBarrier, AfterBarrier
  <2> QED
    BY <2>2, <2>3, <2>4 DEF SortInv
<1>2. CASE Lab6!Tick
  <2>1. /\ clock' = clock + 1 /\ \A t \in DOMAIN pc : ~(pc[t] = "sleep" /\ due[t] <= clock)
        /\ UNCHANGED <<main, pc, stdin, strings, total, due, output>>
    BY <1>2 DEF Lab6!Tick, Lab6!IsDue, Lab6!Started
  <2>2. Lab6!SortTypeOK /\ clock \in Nat /\ clock' \in Nat
    BY <2>1, SMT DEF SortInv, Lab6!SortTypeOK
  <2>3. Lab6!SortTypeOK'
    BY <2>1, <2>2 DEF Lab6!SortTypeOK, Lab6!Inputs, Lab6!Started
  <2>4. Punctual'
    BY <2>1, <2>2, SortTyped, SMT DEF SortInv, Punctual
  <2>5. (Progress /\ Outputs /\ (BeforeBarrier \/ AfterBarrier))'
    BY <2>1 DEF SortInv, Progress, Outputs, Done, BeforeBarrier, AfterBarrier
  <2> QED
    BY <2>3, <2>4, <2>5 DEF SortInv
<1> QED
  BY <1>1, <1>2, SortReads, SortCreates, SortArrives, SortPrints
     DEF Lab6!SortNext, Lab6!Started

(* The lines have come out by their length, and all of them in the end. *)
LEMMA SortSorted == SortInv => Lab6!SleepSorted
<1> SUFFICES ASSUME SortInv PROVE Lab6!SleepSorted
  OBVIOUS
<1>1. main = "done" => Len(output) = Len(strings)
  <2> SUFFICES ASSUME main = "done" PROVE Len(output) = Len(strings)
    OBVIOUS
  <2>1. Done = 1..Len(pc) /\ Len(pc) \in Nat /\ Len(pc) = Len(strings)
    BY SortTyped DEF SortInv, Progress, Done
  <2> QED
    BY <2>1, UpTo DEF SortInv, Outputs
<1>2. Len(strings) \in Nat /\ total \in Nat /\ MaxLines \in Nat
  BY SortTyped, BoundsAssumption DEF SortInv
<1> QED
  BY <1>1, <1>2, SMT DEF SortInv, Progress, Outputs, Lab6!SleepSorted

-----------------------------------------------------------------------------

Programs ==
  {"lab1", "lab4", "lab6", "lab8", "lab9", "lab11", "lab11-3-mutex", "lab13",
   "lab14", "lab16", "lab16-again"}

(* Each program keeps its invariant, and what the five that keep the turn  *)
(* do not use stays as it was.                                             *)
Kept ==
  /\ program \in Programs
  /\ program = "lab1"  => FirstInv
  /\ program = "lab4"  => CancelInv
  /\ program = "lab6"  => SortInv
  /\ program = "lab8"  => SeriesInv
  /\ program = "lab9"  => RoundsInv
  /\ program = "lab11" => MutexInv /\ NoSleeper /\ NoRing /\ NoNames
  /\ program = "lab11-3-mutex" => ChainInv /\ NoFlag /\ NoSleeper /\ NoNames
  /\ program = "lab13" => ConditionInv /\ NoRing /\ NoNames
  /\ program = "lab14" => SemaphoresInv /\ NoFlag /\ NoSleeper /\ NoRing /\ NoNames
  /\ program = "lab16" => ProcessesInv /\ NoFlag /\ NoSleeper /\ NoRing
  /\ program = "lab16-again" => RestartInv

LEMMA KeptStart == MCInit => Kept /\ Init
<1> SUFFICES ASSUME MCInit PROVE Kept /\ Init
  OBVIOUS
<1> USE DEF Kept, Programs, Init, Everyone
<1>1. CASE TurnInit
  <2>1. CASE /\ program = "lab11"
             /\ Lab11!MutexInit /\ NoSleeper /\ NoRing /\ NoSemaphores /\ NoNames
    BY <2>1, MutexStart DEF Lab11!MutexInit, Lab11!Init, Lab11!Everyone
  <2>2. CASE /\ program = "lab11-3-mutex"
             /\ Lab11C!ChainInit /\ NoFlag /\ NoSleeper /\ NoSemaphores /\ NoNames
    BY <2>2, ChainStart DEF Lab11C!ChainInit, Lab11C!Init, Lab11C!Everyone
  <2>3. CASE /\ program = "lab13"
             /\ Lab13!ConditionInit /\ NoRing /\ NoSemaphores /\ NoNames
    BY <2>3, ConditionStart DEF Lab13!ConditionInit, Lab13!Init, Lab13!Everyone
  <2>4. CASE /\ program = "lab14"
             /\ Lab14!SemaphoresInit /\ NoFlag /\ NoSleeper /\ NoRing /\ NoNames
    BY <2>4, SemaphoresStart DEF Lab14!SemaphoresInit, Lab14!Init, Lab14!Everyone
  <2>5. CASE /\ program = "lab16"
             /\ Lab16!ProcessesInit /\ NoFlag /\ NoSleeper /\ NoRing
    BY <2>5, ProcessesStart DEF Lab16!ProcessesInit, Lab16!Init, Lab16!Everyone
  <2> QED
    BY <1>1, <2>1, <2>2, <2>3, <2>4, <2>5 DEF TurnInit
<1>2. CASE OtherInit
  BY <1>2, FirstStart, CancelStart, SortStart, SeriesStart, RoundsStart,
     RestartStart DEF OtherInit, NoTurn
<1> QED
  BY <1>1, <1>2 DEF MCInit

(* What a step of the whole is for each program. *)
LEMMA TurnRuns ==
  ASSUME [MCNext]_all
  PROVE  /\ program = "lab11" =>
              [Lab11!MutexNext]_(Lab11!vars) /\ UNCHANGED <<asleep, mutexes, sems>>
         /\ program = "lab11-3-mutex" =>
              [Lab11C!ChainNext]_(Lab11C!vars) /\ UNCHANGED <<holder, who, asleep, sems>>
         /\ program = "lab13" =>
              [Lab13!ConditionNext]_(Lab13!vars) /\ UNCHANGED <<mutexes, sems>>
         /\ program = "lab14" =>
              [Lab14!SemaphoresNext]_(Lab14!vars) /\ UNCHANGED <<locks, names, opened>>
         /\ program = "lab16" =>
              [Lab16!ProcessesNext]_(Lab16!vars) /\ UNCHANGED locks
<1>1. ASSUME NEW p \in Everyone, Run(p)
      PROVE  /\ program = "lab11" =>
                  Lab11!MutexNext /\ UNCHANGED <<asleep, mutexes, sems>>
             /\ program = "lab11-3-mutex" =>
                  Lab11C!ChainNext /\ UNCHANGED <<holder, who, asleep, sems>>
             /\ program = "lab13" =>
                  Lab13!ConditionNext /\ UNCHANGED <<mutexes, sems>>
             /\ program = "lab14" =>
                  Lab14!SemaphoresNext /\ UNCHANGED <<locks, names, opened>>
             /\ program = "lab16" => Lab16!ProcessesNext /\ UNCHANGED locks
  BY <1>1 DEF Run, Lab11!MutexNext, Lab11C!ChainNext, Lab13!ConditionNext,
     Lab14!SemaphoresNext, Lab16!ProcessesNext, Everyone, Lab11!Everyone,
     Lab11C!Everyone, Lab13!Everyone, Lab14!Everyone, Lab16!Everyone
<1>2. ASSUME NEW p \in Everyone, Wakeup(p)
      PROVE  program = "lab13" /\ Lab13!ConditionNext /\ UNCHANGED <<mutexes, sems>>
  BY <1>2 DEF Wakeup, Lab13!ConditionNext, Everyone, Lab13!Everyone
<1>3. ASSUME FirstThreads \/ Canceller \/ CancelledThread \/ Sort \/ Series \/ Rounds \/ Again
      PROVE  program \notin {"lab11", "lab11-3-mutex", "lab13", "lab14", "lab16"}
  BY <1>3 DEF FirstThreads, Canceller, CancelledThread, Sort, Series, Rounds, Again
<1>4. CASE UNCHANGED all
  BY <1>4 DEF all, locks, sems, Lab11!vars, Lab11C!vars, Lab13!vars, Lab14!vars, Lab16!vars
<1> QED
  BY <1>1, <1>2, <1>3, <1>4 DEF MCNext

LEMMA OthersRun ==
  ASSUME [MCNext]_all
  PROVE  /\ program' = program
         /\ program = "lab1" => Lab1!FirstNext \/ UNCHANGED all
         /\ program = "lab4" => Lab4!CancelNext \/ UNCHANGED all
         /\ program = "lab6" => Lab6!SortNext \/ UNCHANGED all
         /\ program = "lab8" => Lab8!SeriesNext \/ UNCHANGED all
         /\ program = "lab9" => Lab9!Next \/ UNCHANGED all
         /\ program = "lab16-again" => Lab16R!RestartedNext \/ UNCHANGED all
         /\ program \in {"lab1", "lab4", "lab6", "lab8", "lab9", "lab16-again"}
              => UNCHANGED printed
<1>1. ASSUME NEW p \in Everyone, Run(p) \/ Wakeup(p)
      PROVE  /\ program' = program
             /\ program \in {"lab11", "lab11-3-mutex", "lab13", "lab14", "lab16"}
  BY <1>1 DEF Run, Wakeup
<1>2. CASE FirstThreads
  BY <1>2 DEF FirstThreads
<1>3. CASE Canceller \/ CancelledThread
  BY <1>3 DEF Canceller, CancelledThread, rest, Lab4!CancelNext
<1>4. CASE Sort
  BY <1>4 DEF Sort
<1>5. CASE Series
  BY <1>5 DEF Series
<1>6. CASE Rounds
  BY <1>6 DEF Rounds
<1>7. CASE Again
  BY <1>7 DEF Again
<1>8. CASE UNCHANGED all
  BY <1>8 DEF all
<1> QED
  BY <1>1, <1>2, <1>3, <1>4, <1>5, <1>6, <1>7, <1>8 DEF MCNext

(* Where no program takes a step nothing changes. *)
LEMMA OthersStay ==
  ASSUME UNCHANGED all
  PROVE  /\ FirstInv => FirstInv'
         /\ CancelInv => CancelInv'
         /\ SortInv => SortInv'
         /\ SeriesInv => SeriesInv'
         /\ RoundsInv => RoundsInv'
         /\ RestartInv => RestartInv'
<1>1. /\ UNCHANGED <<program, printed, pc, main, build, created, said>>
      /\ UNCHANGED <<requested, pushed, begun, num_of_threads, term, result, sum>>
      /\ UNCHANGED <<stdin, strings, total, clock, due, output, stop, exit_next, rounds>>
      /\ UNCHANGED <<semaphore, names, opened, lines, runs, half>>
  BY DEF all, locks, sems, others, again, rest9, rest8, rest6, rest1, rest4
<1>2. FirstInv => FirstInv'
  BY <1>1 DEF FirstInv, Lab1!FirstTypeOK, Lab1!NobodyCutShort, Lab1!Builds,
     Lab1!Children, Lab1!LinesOf, Lab1!Finished
<1>3. CancelInv => CancelInv'
  BY <1>1 DEF CancelInv, Lab4!CancelTypeOK, Lab4!CleanedOnce, Cleanup, Lab4!Builds
<1>4. SortInv => SortInv'
  BY <1>1 DEF SortInv, Lab6!SortTypeOK, Progress, Punctual, Outputs, Done,
     BeforeBarrier, AfterBarrier, Lab6!Inputs, Lab6!Started
<1>5. SeriesInv => SeriesInv'
  BY <1>1 DEF SeriesInv, Summed, Joined, Added, Mine, Adder, Lab8!Workers, Lab8!Terms
<1>6. RoundsInv => RoundsInv'
  BY <1>1 DEF RoundsInv, OneRound, Lab9!TypeOK
<1>7. RestartInv => RestartInv'
  BY <1>1 DEF RestartInv, Counts, Names, RightsBounded, Count, Active, ToCome,
     Lab16R!Exists
<1> QED
  BY <1>2, <1>3, <1>4, <1>5, <1>6, <1>7

LEMMA KeptStep ==
  ASSUME Kept, [MCNext]_all
  PROVE  Kept'
<1>1. program' = program
  BY OthersRun
<1>2. /\ program = "lab1" => FirstInv'
      /\ program = "lab4" => CancelInv'
      /\ program = "lab6" => SortInv'
      /\ program = "lab8" => SeriesInv'
      /\ program = "lab9" => RoundsInv'
      /\ program = "lab16-again" => RestartInv'
  BY OthersRun, OthersStay, FirstStep, CancelStep, SortStep, SeriesStep, RoundsStep,
     RestartStep DEF Kept
<1>3. program = "lab11" => (MutexInv /\ NoSleeper /\ NoRing /\ NoNames)'
  BY TurnRuns, MutexStep DEF Kept, NoSleeper, NoRing, NoNames, sems
<1>4. program = "lab11-3-mutex" => (ChainInv /\ NoFlag /\ NoSleeper /\ NoNames)'
  BY TurnRuns, ChainStep DEF Kept, NoFlag, NoSleeper, NoNames, sems
<1>5. program = "lab13" => (ConditionInv /\ NoRing /\ NoNames)'
  BY TurnRuns, ConditionStep DEF Kept, NoRing, NoNames, sems
<1>6. program = "lab14" => (SemaphoresInv /\ NoFlag /\ NoSleeper /\ NoRing /\ NoNames)'
  BY TurnRuns, SemaphoresStep DEF Kept, NoFlag, NoSleeper, NoRing, NoNames, locks
<1>7. program = "lab16" => (ProcessesInv /\ NoFlag /\ NoSleeper /\ NoRing)'
  BY TurnRuns, ProcessesStep DEF Kept, NoFlag, NoSleeper, NoRing, locks
<1> QED
  BY <1>1, <1>2, <1>3, <1>4, <1>5, <1>6, <1>7 DEF Kept

(* Whichever program runs keeps its invariant, for any number of lines,    *)
(* threads, terms and runs: the strengthening from which the theorems      *)
(* below follow.                                                           *)
THEOREM ExercisesInvariance == MCSpec => []Kept
  BY KeptStart, KeptStep, PTL DEF MCSpec

(* Who prints in any of the five programs prints in turn. *)
LEMMA KeptPrints ==
  ASSUME Kept, [MCNext]_all
  PROVE  [Next]_printed
<1>1. program \in {"lab1", "lab4", "lab6", "lab8", "lab9", "lab16-again"}
        => UNCHANGED printed
  BY OthersRun
<1>2. program \in {"lab11", "lab11-3-mutex", "lab13", "lab14", "lab16"}
        => [Next]_printed
  BY TurnRuns, MutexPrints, ChainPrints, ConditionPrints, SemaphoresPrint,
     ProcessesPrint DEF Kept
<1> QED
  BY <1>1, <1>2 DEF Kept, Programs

(* The lines come in turn, the parent's first, whichever way the program   *)
(* hands the turn over: every program of MCExercises refines OneTwo.       *)
THEOREM InTurn == MCSpec => Alternates
  BY KeptStart, KeptPrints, ExercisesInvariance, PTL DEF MCSpec, Alternates, Spec

(* Who has finished holds nothing.  The mutex is somebody's exactly as     *)
(* long as that thread is between its lock and its unlock; the one right   *)
(* to print ends up where it began; and the parent has unlinked both       *)
(* names.                                                                  *)
LEMMA NothingLeft == Kept => LeavesNothing
<1> SUFFICES ASSUME Kept, KeepsTurn, \A p \in Everyone : pc[p] = "done"
             PROVE  /\ NoRing /\ NoSleeper /\ NoNames /\ holder = "nobody"
                    /\ program = "lab14" => semaphore = [empty |-> 1, filled |-> 0]
                    /\ program = "lab16" => semaphore = [empty |-> 0, filled |-> 1]
  BY DEF LeavesNothing
<1>1. CASE program = "lab11"
  <2>1. holder = "nobody"
    BY <1>1, SMT DEF Kept, MutexInv, Lab11!MutexTypeOK, MutexExclusive, InMutex,
       Everyone, Lab11!Everyone
  <2> QED
    BY <1>1, <2>1 DEF Kept
<1>2. CASE program = "lab11-3-mutex"
  <2>1. /\ mutexes \in [0..2 -> Everyone \cup {"nobody"}]
        /\ \A p \in Everyone, m \in 0..2 : mutexes[m] = p <=> Has(p, m)
    BY <1>2 DEF Kept, ChainInv, Lab11C!ChainTypeOK, Owners, Lab11C!Ring, Lab11C!N,
       Everyone, Lab11C!Everyone
  <2>2. \A p \in Everyone, m \in 0..2 : ~Has(p, m)
    BY SMT DEF Has
  <2>3. NoRing
    BY <2>1, <2>2, SMT DEF NoRing
  <2> QED
    BY <1>2, <2>3 DEF Kept, NoFlag
<1>3. CASE program = "lab13"
  <2>1. holder = "nobody" /\ asleep = {}
    BY <1>3, SMT DEF Kept, ConditionInv, Lab13!ConditionTypeOK, CvExclusive,
       HasCvMutex, Everyone, Lab13!Everyone
  <2> QED
    BY <1>3, <2>1 DEF Kept, NoSleeper
<1>4. CASE program = "lab14"
  <2>1. semaphore = [empty |-> 1, filled |-> 0]
    BY <1>4, SMT DEF Kept, SemaphoresInv, Lab14!SemaphoresTypeOK, SemAllSaid,
       OneRight, InSemaphore, Held, InHand, OnItsWay, Away, Partner, Turn,
       Lab14!Waits, Lab14!Posts, Everyone, Lab14!Everyone
  <2> QED
    BY <1>4, <2>1 DEF Kept, NoFlag
<1>5. CASE program = "lab16"
  <2>1. semaphore = [empty |-> 0, filled |-> 1]
    BY <1>5, SMT DEF Kept, ProcessesInv, Lab16!ProcessesTypeOK, ProcAllSaid,
       OneRightForked, OneRight, InSemaphore, Held, InHand, OnItsWay, Away, Partner,
       Turn, Lab16!Waits, Lab16!Posts, Lab16!Both, Everyone, Lab16!Everyone
  <2>2. names = {} /\ opened = {}
    BY <1>5, SMT DEF Kept, ProcessesInv, Lab16!ProcessesTypeOK, Closing, Everyone,
       Lab16!Everyone
  <2> QED
    BY <1>5, <2>1, <2>2 DEF Kept, NoFlag, NoNames
<1> QED
  BY <1>1, <1>2, <1>3, <1>4, <1>5 DEF KeepsTurn

(* Who has finished holds nothing: all mutexes are free, the semaphores    *)
(* count what they began with, and no name outlives the processes.         *)
THEOREM NothingLeftBehind == MCSpec => []LeavesNothing
  BY ExercisesInvariance, NothingLeft, PTL

(* However many runs of lab16 were killed, there is at most one right to   *)
(* print, but for a kill between the two sem_unlinks.                      *)
THEOREM OneRightToPrint == MCSpec => []RightsAccountedFor
<1>1. Kept => RightsAccountedFor
  BY RestartRights DEF Kept, RightsAccountedFor
<1> QED
  BY <1>1, ExercisesInvariance, PTL

(* The threads of lab9 add up one piece of the series, for any number of   *)
(* threads: none is more than a round ahead of another, and they end after *)
(* the same round.                                                         *)
THEOREM RoundsInStep == MCSpec => []RoundsTogether
<1>1. Kept => RoundsTogether
  BY RoundsAgree DEF Kept, RoundsTogether
<1> QED
  BY <1>1, ExercisesInvariance, PTL

(* lab6 prints lines of any lengths by their length and each at most once, *)
(* has printed all of them when it has joined its threads, and fails for   *)
(* no number of lines from one to one less than MaxLines.                  *)
THEOREM SortedByLength == MCSpec => []SleepSorted
<1>1. Kept => SleepSorted
  BY SortSorted DEF Kept, SleepSorted
<1> QED
  BY <1>1, ExercisesInvariance, PTL

(* What is left to several threads is done once: lab8 adds up every term   *)
(* for any NUM_STEP and any number of threads, a handler of lab4 is called *)
(* once, and no line of lab1 or lab3 is lost where main waits for it.      *)
THEOREM EverythingOnce == MCSpec => []DoneOnce
<1>1. Kept => DoneOnce
  BY SeriesSummed DEF Kept, DoneOnce, FirstInv, CancelInv
<1> QED
  BY <1>1, ExercisesInvariance, PTL

(* Every variable of the program that runs keeps its type; a semaphore     *)
(* counts to one at the most while no run of lab16 is killed, and to one   *)
(* more than there were runs otherwise.                                    *)
THEOREM ExercisesTyped == MCSpec => []TypeOK
<1>1. ASSUME Kept PROVE TypeOK
  <2> USE DEF TypeOK
  <2>1. CASE program = "lab1"
    BY <1>1, <2>1, Zenon DEF Kept, FirstInv
  <2>2. CASE program = "lab4"
    BY <1>1, <2>2, Zenon DEF Kept, CancelInv
  <2>3. CASE program = "lab6"
    BY <1>1, <2>3, Zenon DEF Kept, SortInv
  <2>4. CASE program = "lab8"
    BY <1>1, <2>4, SeriesTyped, Zenon DEF Kept
  <2>5. CASE program = "lab9"
    BY <1>1, <2>5, Zenon DEF Kept, RoundsInv
  <2>6. CASE program = "lab11"
    BY <1>1, <2>6, Zenon DEF Kept, MutexInv
  <2>7. CASE program = "lab11-3-mutex"
    BY <1>1, <2>7, Zenon DEF Kept, ChainInv
  <2>8. CASE program = "lab13"
    BY <1>1, <2>8, Zenon DEF Kept, ConditionInv
  <2>9. CASE program = "lab14"
    BY <1>1, <2>9, Zenon DEF Kept, SemaphoresInv
  <2>10. CASE program = "lab16"
    BY <1>1, <2>10, Zenon DEF Kept, ProcessesInv
  <2>11. CASE program = "lab16-again"
    BY <1>1, <2>11, RestartTyped, Zenon DEF Kept
  <2> QED
    BY <1>1, <2>1, <2>2, <2>3, <2>4, <2>5, <2>6, <2>7, <2>8, <2>9, <2>10, <2>11
       DEF Kept, Programs
<1> QED
  BY <1>1, ExercisesInvariance, PTL
=============================================================================
