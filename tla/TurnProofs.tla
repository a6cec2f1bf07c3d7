----------------------------- MODULE TurnProofs -----------------------------
(***************************************************************************)
(* Five programs print the lines of two in turn, however many there are:   *)
(* lab11, lab11-3-mutex, lab13, lab14 and lab16, each with an invariant of *)
(* its own about what hands the turn over.  From the same invariants, all  *)
(* but lab13 never stop half-way.  The instances are those of MCExercises; *)
(* ExercisesProofs puts them together.                                     *)
(***************************************************************************)
EXTENDS MCExercises, TLAPS

Partner(p) == IF p = "parent" THEN "child" ELSE "parent"

(* The parent is a line ahead at the most. *)
Balanced ==
  \/ printed["parent"] = printed["child"]
  \/ printed["parent"] = printed["child"] + 1

-----------------------------------------------------------------------------

(* lab11, one mutex and a flag.  One thread at a time is between its lock  *)
(* and its unlock, and that one has the mutex.                             *)
InMutex(p) == pc[p] \in {"look", "say", "hand", "unlock"}

MutexExclusive == \A p \in Everyone : holder = p <=> InMutex(p)

(* The flag names whose turn it is, and lags behind only between the line  *)
(* and the hand-over, in the hands of the one who has printed.             *)
FlagTrue ==
  /\ \A p \in Everyone : pc[p] = "say" => who = p
  /\ \A p \in Everyone : pc[p] = "hand" => who = p /\ Turn = Partner(p)
  /\ (\A p \in Everyone : pc[p] # "hand") => who = Turn

(* Who has not left the loop has a line to print, or has just printed it. *)
MutexMoreToSay ==
  \A p \in Everyone : pc[p] \in {"lock", "look", "say"} => printed[p] < Lines

MutexInv ==
  Lab11!MutexTypeOK /\ MutexExclusive /\ FlagTrue /\ Balanced /\ MutexMoreToSay

LEMMA MutexStart == Lab11!MutexInit => MutexInv
  BY LinesAssumption, SMT DEF Lab11!MutexInit, Lab11!Init, MutexInv,
     Lab11!MutexTypeOK, MutexExclusive, InMutex, FlagTrue, Balanced,
     MutexMoreToSay, Turn, Everyone, Lab11!Everyone

LEMMA MutexStep ==
  ASSUME MutexInv, [Lab11!MutexNext]_(Lab11!vars)
  PROVE  MutexInv'
<1> USE LinesAssumption
<1> USE DEF MutexInv, Lab11!MutexTypeOK, MutexExclusive, InMutex, FlagTrue,
            Balanced, MutexMoreToSay, Turn, Everyone, Lab11!Everyone, Partner,
            Lab11!Other
<1>1. ASSUME NEW p \in Everyone, Lab11!Lock(p) PROVE MutexInv'
  BY <1>1, SMT DEF Lab11!Lock
<1>2. ASSUME NEW p \in Everyone, Lab11!Look(p) PROVE MutexInv'
  BY <1>2, SMT DEF Lab11!Look
<1>3. ASSUME NEW p \in Everyone, Lab11!Say(p) PROVE MutexInv'
  BY <1>3, SMT DEF Lab11!Say
<1>4. ASSUME NEW p \in Everyone, Lab11!HandOver(p) PROVE MutexInv'
  BY <1>4, SMT DEF Lab11!HandOver
<1>5. ASSUME NEW p \in Everyone, Lab11!Unlock(p) PROVE MutexInv'
  BY <1>5, SMT DEF Lab11!Unlock
<1>6. CASE UNCHANGED Lab11!vars
  BY <1>6, SMT DEF Lab11!vars
<1> QED
  BY <1>1, <1>2, <1>3, <1>4, <1>5, <1>6 DEF Lab11!MutexNext, Lab11!Thread

(* Who prints holds the mutex and has seen its turn. *)
LEMMA MutexPrints ==
  ASSUME MutexInv, [Lab11!MutexNext]_(Lab11!vars)
  PROVE  [Next]_printed
<1>1. ASSUME NEW p \in Everyone, Lab11!Say(p) PROVE PrintLine(p)
  <2>1. p = Turn
    BY <1>1, SMT DEF MutexInv, Lab11!Say, FlagTrue, MutexExclusive, InMutex,
       Everyone, Turn
  <2> QED
    BY <1>1, <2>1 DEF PrintLine, Lab11!Say, MutexInv, MutexMoreToSay
<1>2. ASSUME NEW p \in Everyone,
             Lab11!Lock(p) \/ Lab11!Look(p) \/ Lab11!HandOver(p) \/ Lab11!Unlock(p)
      PROVE UNCHANGED printed
  BY <1>2 DEF Lab11!Lock, Lab11!Look, Lab11!HandOver, Lab11!Unlock
<1> QED
  BY <1>1, <1>2 DEF Lab11!MutexNext, Lab11!Thread, Next, Lab11!vars,
     Everyone, Lab11!Everyone

(* The lines of lab11 come in turn, the parent's first, for any number of  *)
(* lines (Alternates).                                                     *)
THEOREM MutexAlternates == Lab11!MutexSpec => Alternates
<1>1. Lab11!MutexInit => Init
  BY DEF Lab11!MutexInit, Lab11!Init, Init, Everyone, Lab11!Everyone
<1>2. Lab11!MutexSpec => []MutexInv
  BY MutexStart, MutexStep, PTL DEF Lab11!MutexSpec
<1> QED
  BY <1>1, <1>2, MutexPrints, PTL DEF Lab11!MutexSpec, Alternates, Spec

(* The two of lab11 never wait for each other, for any number of lines:    *)
(* whoever has the mutex can go on and gives it back, also when it was not *)
(* his turn (NobodyStuck).                                                 *)
THEOREM MutexNobodyStuck == Lab11!MutexSpec => []Lab11!NobodyStuck
<1>1. MutexInv => Lab11!NobodyStuck
  BY SMT DEF MutexInv, Lab11!MutexTypeOK, MutexExclusive, InMutex, Lab11!NobodyStuck,
     Lab11!CanGo, Everyone, Lab11!Everyone
<1> QED
  BY <1>1, MutexStart, MutexStep, PTL DEF Lab11!MutexSpec


-----------------------------------------------------------------------------

(* lab13, a mutex and a condition variable.  It may stop half-way, but     *)
(* what it prints comes in turn.                                           *)
HasCvMutex(p) == pc[p] \in {"look", "again", "say", "hand", "unlock"}

CvExclusive == \A p \in Everyone : holder = p <=> HasCvMutex(p)

CvMoreToSay ==
  \A p \in Everyone : pc[p] \in {"lock", "look", "asleep", "relock", "again", "say"}
                        => printed[p] < Lines

ConditionInv ==
  Lab13!ConditionTypeOK /\ CvExclusive /\ FlagTrue /\ Balanced /\ CvMoreToSay

LEMMA ConditionStart == Lab13!ConditionInit => ConditionInv
  BY LinesAssumption, SMT DEF Lab13!ConditionInit, Lab13!Init, ConditionInv,
     Lab13!ConditionTypeOK, CvExclusive, HasCvMutex, FlagTrue, Balanced,
     CvMoreToSay, Turn, Everyone, Lab13!Everyone

LEMMA ConditionStep ==
  ASSUME ConditionInv, [Lab13!ConditionNext]_(Lab13!vars)
  PROVE  ConditionInv'
<1> USE LinesAssumption
<1> USE DEF ConditionInv, Lab13!ConditionTypeOK, CvExclusive, HasCvMutex,
            FlagTrue, Balanced, CvMoreToSay, Turn, Everyone, Lab13!Everyone,
            Partner, Lab13!Other, Lab13!Goto, Lab13!Sleep, Lab13!MustWait
<1>1. ASSUME NEW p \in Everyone, Lab13!Lock(p) PROVE ConditionInv'
  BY <1>1, SMT DEF Lab13!Lock
<1>2. ASSUME NEW p \in Everyone, Lab13!Look(p) PROVE ConditionInv'
  BY <1>2, SMT DEF Lab13!Look
<1>3. ASSUME NEW p \in Everyone, Lab13!Relock(p) PROVE ConditionInv'
  BY <1>3, SMT DEF Lab13!Relock
<1>4. ASSUME NEW p \in Everyone, Lab13!LookAgain(p) PROVE ConditionInv'
  BY <1>4, SMT DEF Lab13!LookAgain
<1>5. ASSUME NEW p \in Everyone, Lab13!Say(p) PROVE ConditionInv'
  BY <1>5, SMT DEF Lab13!Say
<1>6. ASSUME NEW p \in Everyone, Lab13!HandOver(p) PROVE ConditionInv'
  BY <1>6, SMT DEF Lab13!HandOver
<1>7. ASSUME NEW p \in Everyone, Lab13!Unlock(p) PROVE ConditionInv'
  BY <1>7, SMT DEF Lab13!Unlock
<1>8. ASSUME NEW p \in Everyone, Lab13!Signal(p) PROVE ConditionInv'
  BY <1>8, SMT DEF Lab13!Signal, Lab13!AfterSignal
<1>9. ASSUME NEW p \in Everyone, Lab13!SpuriousWakeup(p) PROVE ConditionInv'
  BY <1>9, SMT DEF Lab13!SpuriousWakeup
<1>10. CASE UNCHANGED Lab13!vars
  BY <1>10, SMT DEF Lab13!vars
<1> QED
  BY <1>1, <1>2, <1>3, <1>4, <1>5, <1>6, <1>7, <1>8, <1>9, <1>10
     DEF Lab13!ConditionNext, Lab13!Thread

LEMMA ConditionPrints ==
  ASSUME ConditionInv, [Lab13!ConditionNext]_(Lab13!vars)
  PROVE  [Next]_printed
<1>1. ASSUME NEW p \in Everyone, Lab13!Say(p) PROVE PrintLine(p)
  <2>1. p = Turn
    BY <1>1, SMT DEF ConditionInv, Lab13!Say, FlagTrue, CvExclusive, HasCvMutex,
       Everyone, Turn
  <2> QED
    BY <1>1, <2>1 DEF PrintLine, Lab13!Say, ConditionInv, CvMoreToSay
<1>2. ASSUME NEW p \in Everyone,
             \/ Lab13!Lock(p) \/ Lab13!Look(p) \/ Lab13!Relock(p)
             \/ Lab13!LookAgain(p) \/ Lab13!HandOver(p) \/ Lab13!Unlock(p)
             \/ Lab13!Signal(p) \/ Lab13!SpuriousWakeup(p)
      PROVE UNCHANGED printed
  BY <1>2, SMT DEF Lab13!Lock, Lab13!Look, Lab13!Relock, Lab13!LookAgain,
     Lab13!HandOver, Lab13!Unlock, Lab13!Signal, Lab13!SpuriousWakeup, Lab13!Sleep
<1> QED
  BY <1>1, <1>2 DEF Lab13!ConditionNext, Lab13!Thread, Next, Lab13!vars,
     Everyone, Lab13!Everyone

(* What lab13 prints comes in turn, the parent's line first, for any       *)
(* number of lines (Alternates), spurious wakeups or not; how many come is *)
(* another matter.                                                         *)
THEOREM ConditionAlternates == Lab13!ConditionSpec => Alternates
<1>1. Lab13!ConditionInit => Init
  BY DEF Lab13!ConditionInit, Lab13!Init, Init, Everyone, Lab13!Everyone
<1>2. Lab13!ConditionSpec => []ConditionInv
  BY ConditionStart, ConditionStep, PTL DEF Lab13!ConditionSpec
<1> QED
  BY <1>1, <1>2, ConditionPrints, PTL DEF Lab13!ConditionSpec, Alternates, Spec

-----------------------------------------------------------------------------

(* lab14, two semaphores.  There is one right to print, and it belongs to  *)
(* whose turn it is: their semaphore holds it, or they have taken it, or   *)
(* the other is about to post it.                                          *)
Away(p) == pc[p] \notin {"say", "post"}

Held(s, o) == semaphore[s] = 1 /\ semaphore[o] = 0

InSemaphore(p, s, o) == Held(s, o) /\ Away(p) /\ Away(Partner(p))

InHand(p) ==
  /\ semaphore["empty"] = 0 /\ semaphore["filled"] = 0
  /\ pc[p] = "say" /\ Away(Partner(p))

OnItsWay(p) ==
  /\ semaphore["empty"] = 0 /\ semaphore["filled"] = 0
  /\ Away(p) /\ pc[Partner(p)] = "post"

OneRight(p, s, o) == InSemaphore(p, s, o) \/ InHand(p) \/ OnItsWay(p)

SemMoreToSay ==
  \A p \in Everyone : pc[p] \in {"wait", "say"} => printed[p] < Lines

(* Who has finished has printed all lines. *)
SemAllSaid == \A p \in Everyone : pc[p] = "done" => printed[p] = Lines

SemaphoresInv ==
  /\ Lab14!SemaphoresTypeOK /\ Balanced /\ SemMoreToSay /\ SemAllSaid
  /\ OneRight(Turn, Lab14!Waits(Turn), Lab14!Posts(Turn))

LEMMA SemaphoresStart == Lab14!SemaphoresInit => SemaphoresInv
  BY LinesAssumption, SMT DEF Lab14!SemaphoresInit, Lab14!Init,
     Lab14!InitialCount, SemaphoresInv, Lab14!SemaphoresTypeOK, Balanced,
     OneRight, InSemaphore, Held, InHand, OnItsWay, Away, Partner,
     Lab14!Waits, Lab14!Posts, SemMoreToSay, SemAllSaid, Turn, Everyone,
     Lab14!Everyone

LEMMA SemaphoresStep ==
  ASSUME SemaphoresInv, [Lab14!SemaphoresNext]_(Lab14!vars)
  PROVE  SemaphoresInv'
<1> USE LinesAssumption
<1> USE DEF SemaphoresInv, Lab14!SemaphoresTypeOK, Balanced, OneRight,
            InSemaphore, Held, InHand, OnItsWay, Away, Partner, Lab14!Waits,
            Lab14!Posts, SemMoreToSay, SemAllSaid, Turn, Everyone, Lab14!Everyone
<1>1. ASSUME NEW p \in Everyone, Lab14!Wait(p) PROVE SemaphoresInv'
  BY <1>1, SMT DEF Lab14!Wait
<1>2. ASSUME NEW p \in Everyone, Lab14!Say(p) PROVE SemaphoresInv'
  BY <1>2, SMT DEF Lab14!Say
<1>3. ASSUME NEW p \in Everyone, Lab14!Post(p) PROVE SemaphoresInv'
  BY <1>3, SMT DEF Lab14!Post
<1>4. CASE UNCHANGED Lab14!vars
  BY <1>4, SMT DEF Lab14!vars
<1> QED
  BY <1>1, <1>2, <1>3, <1>4 DEF Lab14!SemaphoresNext, Lab14!Thread

LEMMA SemaphoresPrint ==
  ASSUME SemaphoresInv, [Lab14!SemaphoresNext]_(Lab14!vars)
  PROVE  [Next]_printed
<1>1. ASSUME NEW p \in Everyone, Lab14!Say(p) PROVE PrintLine(p)
  <2>1. p = Turn
    BY <1>1, SMT DEF SemaphoresInv, OneRight, InSemaphore, InHand, OnItsWay,
       Away, Lab14!Say, Everyone, Turn, Partner
  <2> QED
    BY <1>1, <2>1 DEF PrintLine, Lab14!Say, SemaphoresInv, SemMoreToSay
<1>2. ASSUME NEW p \in Everyone, Lab14!Wait(p) \/ Lab14!Post(p)
      PROVE UNCHANGED printed
  BY <1>2 DEF Lab14!Wait, Lab14!Post
<1> QED
  BY <1>1, <1>2 DEF Lab14!SemaphoresNext, Lab14!Thread, Next, Lab14!vars,
     Everyone, Lab14!Everyone

(* The lines of lab14 come in turn, the parent's first, for any number of  *)
(* lines (Alternates): the semaphores hand one right to print to and fro,  *)
(* and neither counts past one.                                            *)
THEOREM SemaphoresAlternate == Lab14!SemaphoresSpec => Alternates
<1>1. Lab14!SemaphoresInit => Init
  BY DEF Lab14!SemaphoresInit, Lab14!Init, Init, Everyone, Lab14!Everyone
<1>2. Lab14!SemaphoresSpec => []SemaphoresInv
  BY SemaphoresStart, SemaphoresStep, PTL DEF Lab14!SemaphoresSpec
<1> QED
  BY <1>1, <1>2, SemaphoresPrint, PTL DEF Lab14!SemaphoresSpec, Alternates, Spec

LEMMA SemaphoresCount ==
  ASSUME SemaphoresInv, Lab14!SemaphoresNext
  PROVE  Lab14!StepsLeft' = Lab14!StepsLeft - 1
<1> USE LinesAssumption
<1> USE DEF SemaphoresInv, Lab14!SemaphoresTypeOK, Everyone, Lab14!Everyone,
            Lab14!StepsLeft, Lab14!StepsOf
<1>1. ASSUME NEW p \in Everyone, Lab14!Wait(p) PROVE Lab14!StepsLeft' = Lab14!StepsLeft - 1
  BY <1>1, SMT DEF Lab14!Wait
<1>2. ASSUME NEW p \in Everyone, Lab14!Say(p) PROVE Lab14!StepsLeft' = Lab14!StepsLeft - 1
  BY <1>2, SMT DEF Lab14!Say
<1>3. ASSUME NEW p \in Everyone, Lab14!Post(p) PROVE Lab14!StepsLeft' = Lab14!StepsLeft - 1
  BY <1>3, SMT DEF Lab14!Post
<1> QED
  BY <1>1, <1>2, <1>3 DEF Lab14!SemaphoresNext, Lab14!Thread

(* lab14 ends, for any number of lines: as long as a line is missing one   *)
(* of the two can go on, since the one right to print is in a semaphore    *)
(* that its reader waits for or in a hand (NobodyStuck), and every step    *)
(* leaves one fewer, whomever the scheduler favours (StepsCount).          *)
THEOREM SemaphoresEnd == Lab14!SemaphoresSpec => []Lab14!NobodyStuck /\ Lab14!StepsCount
<1>1. SemaphoresInv => Lab14!NobodyStuck
  <2> USE LinesAssumption
  <2> SUFFICES ASSUME SemaphoresInv PROVE Lab14!NobodyStuck
    OBVIOUS
  <2> USE DEF SemaphoresInv, Lab14!SemaphoresTypeOK, Everyone, Lab14!Everyone,
              SemMoreToSay, SemAllSaid
  <2>1. \A p \in Everyone :
          /\ Lab14!StepsOf(p) \in Nat
          /\ Lab14!StepsOf(p) = 0 <=> pc[p] = "done"
          /\ pc[p] = "done" => printed[p] = Lines
    BY SMT DEF Lab14!StepsOf
  <2>2. ASSUME \A p \in Everyone : ~Lab14!CanGo(p)
        PROVE  \A p \in Everyone : pc[p] = "done"
    <3>1. \A p \in Everyone : pc[p] \in {"wait", "done"}
      BY <2>2 DEF Lab14!CanGo
    <3>2. InSemaphore(Turn, Lab14!Waits(Turn), Lab14!Posts(Turn))
      BY <3>1 DEF OneRight, InHand, OnItsWay, Turn, Partner
    <3>3. pc[Turn] = "done"
      BY <2>2, <3>1, <3>2 DEF InSemaphore, Held, Lab14!CanGo, Turn
    <3> QED
      BY <3>1, <3>3, SMT DEF Balanced, Turn
  <2> QED
    BY <2>1, <2>2, SMT DEF Lab14!NobodyStuck, Lab14!StepsLeft
<1>2. Lab14!SemaphoresSpec => []SemaphoresInv
  BY SemaphoresStart, SemaphoresStep, PTL DEF Lab14!SemaphoresSpec
<1>3. SemaphoresInv /\ [Lab14!SemaphoresNext]_(Lab14!vars)
        => [Lab14!StepsLeft' = Lab14!StepsLeft - 1]_(Lab14!vars)
  BY SemaphoresCount
<1> QED
  BY <1>1, <1>2, <1>3, PTL DEF Lab14!SemaphoresSpec, Lab14!StepsCount


-----------------------------------------------------------------------------

(* lab16, two processes.  Nothing is printed and nobody waits before the   *)
(* semaphores are there.                                                   *)
Starting ==
  /\ pc["parent"] \in {"open", "open_empty", "fork"} <=> pc["child"] = "unborn"
  /\ pc["child"] \in {"unborn", "wait", "say", "post", "clear", "done"}
  /\ pc["parent"] # "unborn"
  /\ pc["child"] = "unborn" => \A p \in Everyone : printed[p] = 0
  /\ pc["parent"] = "open" => names = {}
  /\ pc["parent"] = "open_empty" =>
       names = {"filled"} /\ semaphore["filled"] = 1

(* What a process has closed and unlinked by the time it is at its end. *)
Closing ==
  /\ pc["parent"] = "unlink_empty" => names \subseteq {"empty"}
  /\ pc["parent"] \in {"reap", "done"} => names = {}
  /\ pc["parent"] \in {"open", "open_empty", "unlink", "unlink_empty", "reap", "done"}
       => "parent" \notin opened
  /\ pc["child"] \in {"unborn", "done"} => "child" \notin opened

OneRightForked ==
  pc["parent"] \notin {"open", "open_empty"} =>
    OneRight(Turn, Lab16!Waits(Turn), Lab16!Posts(Turn))

(* Who has left the loop has printed all lines. *)
ProcAllSaid ==
  \A p \in Everyone :
    pc[p] \in {"clear", "unlink", "unlink_empty", "reap", "done"} => printed[p] = Lines

ProcessesInv ==
  /\ Lab16!ProcessesTypeOK /\ Balanced /\ SemMoreToSay /\ ProcAllSaid
  /\ Starting /\ Closing /\ OneRightForked

LEMMA ProcessesStart == Lab16!ProcessesInit => ProcessesInv
<1> SUFFICES ASSUME Lab16!ProcessesInit PROVE ProcessesInv
  OBVIOUS
<1>1. /\ pc = [parent |-> "open", child |-> "unborn"]
      /\ printed = [p \in {"parent", "child"} |-> 0]
      /\ semaphore = [s \in {"filled", "empty"} |-> 0]
      /\ names = {} /\ opened = {}
  BY DEF Lab16!ProcessesInit, Lab16!Init, Lab16!Everyone, Lab16!Both
<1>2. Lab16!ProcessesTypeOK
  BY <1>1, LinesAssumption, SMT DEF Lab16!ProcessesTypeOK, Lab16!Both, Lab16!Everyone
<1>3. Balanced /\ Starting /\ Closing /\ SemMoreToSay /\ ProcAllSaid
  BY <1>1, SMT DEF Balanced, Starting, Closing, SemMoreToSay, ProcAllSaid, Everyone
<1>4. OneRightForked
  BY <1>1, SMT DEF OneRightForked
<1> QED
  BY <1>2, <1>3, <1>4 DEF ProcessesInv

LEMMA ProcessesStep ==
  ASSUME ProcessesInv, [Lab16!ProcessesNext]_(Lab16!vars)
  PROVE  ProcessesInv'
<1> USE LinesAssumption
<1> USE DEF ProcessesInv, Lab16!ProcessesTypeOK, Balanced, Starting, Closing,
            OneRightForked, OneRight, InSemaphore, Held, InHand, OnItsWay, Away,
            Partner, Lab16!Waits, Lab16!Posts, SemMoreToSay, ProcAllSaid, Turn,
            Everyone, Lab16!Everyone, Lab16!Both, Lab16!Goto
<1>1. ASSUME NEW p \in Everyone, Lab16!Wait(p) PROVE ProcessesInv'
  BY <1>1, SMT DEF Lab16!Wait
<1>2. ASSUME NEW p \in Everyone, Lab16!Say(p) PROVE ProcessesInv'
  BY <1>2, SMT DEF Lab16!Say
<1>3. ASSUME NEW p \in Everyone, Lab16!Post(p) PROVE ProcessesInv'
  BY <1>3, SMT DEF Lab16!Post
<1>4. ASSUME NEW p \in Everyone, Lab16!Clear(p) PROVE ProcessesInv'
  BY <1>4, SMT DEF Lab16!Clear
<1>5. CASE Lab16!OpenFilled
  <2>1. /\ pc["parent"] = "open" /\ pc["child"] = "unborn" /\ names = {}
        /\ pc' = [pc EXCEPT !["parent"] = "open_empty"]
        /\ semaphore' = [semaphore EXCEPT !["filled"] = 1]
        /\ names' = {"filled"} /\ opened' = opened /\ printed' = printed
    BY <1>5 DEF Lab16!OpenFilled, Lab16!Open, Lab16!InitialCount
  <2>2. Lab16!ProcessesTypeOK'
    BY <2>1, SMT
  <2>3. Balanced' /\ Starting' /\ Closing' /\ SemMoreToSay' /\ ProcAllSaid'
    BY <2>1, SMT
  <2>4. pc'["parent"] = "open_empty"
    BY <2>1, SMT
  <2> QED
    BY <2>2, <2>3, <2>4
<1>6. CASE Lab16!OpenEmpty
  BY <1>6, SMT DEF Lab16!OpenEmpty, Lab16!Open, Lab16!InitialCount
<1>7. CASE Lab16!Fork
  BY <1>7, SMT DEF Lab16!Fork
<1>8. CASE Lab16!UnlinkFilled
  BY <1>8, SMT DEF Lab16!UnlinkFilled, Lab16!Unlink
<1>9. CASE Lab16!UnlinkEmpty
  BY <1>9, SMT DEF Lab16!UnlinkEmpty, Lab16!Unlink
<1>10. CASE Lab16!Reap
  BY <1>10, SMT DEF Lab16!Reap
<1>11. CASE UNCHANGED Lab16!vars
  BY <1>11, SMT DEF Lab16!vars
<1> QED
  BY <1>1, <1>2, <1>3, <1>4, <1>5, <1>6, <1>7, <1>8, <1>9, <1>10, <1>11
     DEF Lab16!ProcessesNext, Lab16!Process

LEMMA ProcessesPrint ==
  ASSUME ProcessesInv, [Lab16!ProcessesNext]_(Lab16!vars)
  PROVE  [Next]_printed
<1>1. ASSUME NEW p \in Everyone, Lab16!Say(p) PROVE PrintLine(p)
  <2>1. p = Turn
    BY <1>1, SMT DEF ProcessesInv, Starting, OneRightForked, OneRight,
       InSemaphore, InHand, OnItsWay, Away, Lab16!Say, Everyone, Turn, Partner
  <2> QED
    BY <1>1, <2>1 DEF PrintLine, Lab16!Say, ProcessesInv, SemMoreToSay
<1>2. ASSUME NEW p \in Everyone,
             \/ Lab16!Wait(p) \/ Lab16!Post(p) \/ Lab16!Clear(p) \/ Lab16!Reap
             \/ Lab16!Fork \/ Lab16!OpenFilled \/ Lab16!OpenEmpty
             \/ Lab16!UnlinkFilled \/ Lab16!UnlinkEmpty
      PROVE UNCHANGED printed
  BY <1>2 DEF Lab16!Wait, Lab16!Post, Lab16!Clear, Lab16!OpenFilled,
     Lab16!OpenEmpty, Lab16!Open, Lab16!Fork, Lab16!UnlinkFilled,
     Lab16!UnlinkEmpty, Lab16!Unlink, Lab16!Reap
<1> QED
  BY <1>1, <1>2 DEF Lab16!ProcessesNext, Lab16!Process, Next, Lab16!vars,
     Everyone, Lab16!Everyone

(* The lines of lab16 come in turn, the parent's first, for any number of  *)
(* lines (Alternates), when no earlier run has left its semaphores behind, *)
(* also while a process closes or unlinks them.                            *)
THEOREM ProcessesAlternate == Lab16!ProcessesSpec => Alternates
<1>1. Lab16!ProcessesInit => Init
  BY DEF Lab16!ProcessesInit, Lab16!Init, Init, Everyone, Lab16!Everyone
<1>2. Lab16!ProcessesSpec => []ProcessesInv
  BY ProcessesStart, ProcessesStep, PTL DEF Lab16!ProcessesSpec
<1> QED
  BY <1>1, <1>2, ProcessesPrint, PTL DEF Lab16!ProcessesSpec, Alternates, Spec

LEMMA ProcessesCount ==
  ASSUME ProcessesInv, Lab16!ProcessesNext
  PROVE  Lab16!StepsLeft' = Lab16!StepsLeft - 1
<1> DEFINE Fewer == Lab16!StepsLeft' = Lab16!StepsLeft - 1
<1> SUFFICES Fewer
  OBVIOUS
<1> USE LinesAssumption
<1> USE DEF ProcessesInv, Lab16!ProcessesTypeOK, Everyone, Lab16!Everyone,
            Lab16!StepsLeft, Lab16!StepsOf, Lab16!Ending, Lab16!Goto
<1>1. ASSUME NEW p \in Everyone, Lab16!Wait(p) PROVE Fewer
  BY <1>1, SMT DEF Lab16!Wait
<1>2. ASSUME NEW p \in Everyone, Lab16!Say(p) PROVE Fewer
  BY <1>2, SMT DEF Lab16!Say
<1>3. ASSUME NEW p \in Everyone, Lab16!Post(p) PROVE Fewer
  BY <1>3, SMT DEF Lab16!Post, ProcAllSaid
<1>4. ASSUME NEW p \in Everyone, Lab16!Clear(p) PROVE Fewer
  BY <1>4, SMT DEF Lab16!Clear
<1>5. CASE Lab16!OpenFilled \/ Lab16!OpenEmpty
  BY <1>5, SMT DEF Lab16!OpenFilled, Lab16!OpenEmpty, Lab16!Open
<1>6. CASE Lab16!Fork
  BY <1>6, SMT DEF Lab16!Fork, Starting
<1>7. CASE Lab16!UnlinkFilled \/ Lab16!UnlinkEmpty \/ Lab16!Reap
  BY <1>7, SMT DEF Lab16!UnlinkFilled, Lab16!UnlinkEmpty, Lab16!Unlink, Lab16!Reap
<1> QED
  BY <1>1, <1>2, <1>3, <1>4, <1>5, <1>6, <1>7 DEF Lab16!ProcessesNext, Lab16!Process

(* lab16 ends, for any number of lines, when no earlier run has left its   *)
(* semaphores behind: the child goes on with a semaphore that has lost its *)
(* name, wait() waits for a child that does not wait for it (NobodyStuck), *)
(* and every step leaves one fewer (StepsCount).                           *)
THEOREM ProcessesEnd == Lab16!ProcessesSpec => []Lab16!NobodyStuck /\ Lab16!StepsCount
<1>1. ProcessesInv => Lab16!NobodyStuck
  <2> USE LinesAssumption
  <2> SUFFICES ASSUME ProcessesInv PROVE Lab16!NobodyStuck
    OBVIOUS
  <2> USE DEF ProcessesInv, Lab16!ProcessesTypeOK, Everyone, Lab16!Everyone,
              SemMoreToSay, ProcAllSaid, Starting
  <2>1. \A p \in Everyone :
          /\ Lab16!StepsOf(p) \in Nat
          /\ Lab16!StepsOf(p) = 0 <=> pc[p] = "done"
          /\ pc[p] = "done" => printed[p] = Lines
    BY SMT DEF Lab16!StepsOf, Lab16!Ending
  <2>2. ASSUME \A p \in Everyone : ~Lab16!CanGo(p)
        PROVE  \A p \in Everyone : pc[p] = "done"
    <3>1. \A p \in Everyone : pc[p] \in {"unborn", "wait", "reap", "done"}
      BY <2>2 DEF Lab16!CanGo
    <3>2. pc["parent"] \in {"wait", "reap", "done"} /\ pc["child"] \in {"wait", "done"}
      BY <3>1
    <3>3. pc[Turn] # "wait"
      <4>1. InSemaphore(Turn, Lab16!Waits(Turn), Lab16!Posts(Turn))
        BY <3>1, <3>2 DEF OneRightForked, OneRight, InHand, OnItsWay, Turn, Partner
      <4> QED
        BY <2>2, <4>1 DEF InSemaphore, Held, Lab16!CanGo, Turn
    <3>4. pc[Partner(Turn)] # "wait"
      BY <3>2, <3>3, SMT DEF Balanced, Turn, Partner
    <3>5. pc["parent"] \in {"reap", "done"} /\ pc["child"] = "done"
      BY <3>2, <3>3, <3>4 DEF Turn, Partner
    <3> QED
      BY <2>2, <3>5, SMT DEF Lab16!CanGo
  <2> QED
    BY <2>1, <2>2, SMT DEF Lab16!NobodyStuck, Lab16!StepsLeft
<1>2. Lab16!ProcessesSpec => []ProcessesInv
  BY ProcessesStart, ProcessesStep, PTL DEF Lab16!ProcessesSpec
<1>3. ProcessesInv /\ [Lab16!ProcessesNext]_(Lab16!vars)
        => [Lab16!StepsLeft' = Lab16!StepsLeft - 1]_(Lab16!vars)
  BY ProcessesCount
<1> QED
  BY <1>1, <1>2, <1>3, PTL DEF Lab16!ProcessesSpec, Lab16!StepsCount


-----------------------------------------------------------------------------

(* lab11-3-mutex, a ring of three mutexes.  The mutex a thread counts      *)
(* from, and its neighbours.                                               *)
Before(p) == Lab11C!Old(p)

Here(p) == Lab11C!Current(p) % Lab11C!N

After(p) == Lab11C!NextOne(p)

(* Where a thread is in its round tells which mutexes of the ring it has:  *)
(* the one it counts from, the one before until it is given back, and the  *)
(* one after once it may print.                                            *)
Has(p, m) ==
  \/ m = Here(p) /\ pc[p] \notin {"start", "done"}
  \/ m = Before(p) /\ pc[p] \in {"release", "drop"}
  \/ m = After(p) /\ pc[p] = "say"

Owners == \A p \in Everyone, m \in Lab11C!Ring : mutexes[m] = p <=> Has(p, m)

(* Whose turn it is has no mutex to give back, unless it has printed all;  *)
(* the other does not print.                                               *)
TurnReady ==
  /\ pc[Turn] \in {"start", "sleep", "lock", "say"} \/ printed[Turn] = Lines
  /\ pc[Partner(Turn)] # "say"

(* Nobody goes beyond the sleep before both have their first mutex. *)
StartTogether ==
  \A p, q \in Everyone : pc[p] \notin {"start", "sleep"} => pc[q] # "start"

ChainMoreToSay ==
  /\ \A p \in Everyone :
       pc[p] \in {"start", "sleep", "release", "lock", "say"}
         => printed[p] < Lines
  /\ \A p \in Everyone :
       pc[p] \in {"drop", "dropnext", "done"} => printed[p] = Lines
  /\ \A p \in Everyone :
       pc[p] \in {"start", "sleep"} => printed[p] = 0

ChainInv ==
  /\ Lab11C!ChainTypeOK /\ Balanced /\ Owners
  /\ TurnReady /\ StartTogether /\ ChainMoreToSay

LEMMA ChainStart == Lab11C!ChainInit => ChainInv
  BY LinesAssumption, SMT DEF Lab11C!ChainInit, Lab11C!Init, ChainInv,
     Lab11C!ChainTypeOK, Balanced, Owners, Has, Before, Here, After, Lab11C!Old,
     Lab11C!NextOne, Lab11C!Current, Lab11C!StartWith, Lab11C!N, Lab11C!Ring,
     TurnReady, Partner, StartTogether, ChainMoreToSay, Turn, Everyone,
     Lab11C!Everyone

(* The three places of a thread are the whole ring. *)
LEMMA Places ==
  ASSUME Lab11C!ChainTypeOK, NEW p \in Everyone
  PROVE  /\ {Before(p), Here(p), After(p)} \subseteq Lab11C!Ring
         /\ Before(p) # Here(p) /\ Here(p) # After(p) /\ Before(p) # After(p)
<1>1. Lab11C!Current(p) \in Nat
  BY SMT DEF Lab11C!ChainTypeOK, Lab11C!Current, Lab11C!StartWith,
     Everyone, Lab11C!Everyone
<1> QED
  BY <1>1, SMT DEF Before, Here, After, Lab11C!Old, Lab11C!NextOne,
     Lab11C!Ring, Lab11C!N

(* Whose turn it is waits for nobody: what it needs next is the one that   *)
(* the other does not count from.                                          *)
LEMMA Apart ==
  ASSUME Lab11C!ChainTypeOK
  PROVE  /\ printed["parent"] = printed["child"] =>
              /\ Here("parent") = After("child")
              /\ Before("parent") = Here("child")
              /\ After("parent") = Before("child")
         /\ printed["parent"] = printed["child"] + 1 =>
              /\ Here("parent") = Before("child")
              /\ Before("parent") = After("child")
              /\ After("parent") = Here("child")
<1>1. printed["parent"] \in Nat /\ printed["child"] \in Nat
  BY SMT DEF Lab11C!ChainTypeOK, Everyone, Lab11C!Everyone
<1>2. /\ Lab11C!Current("parent") = printed["parent"] + 1
      /\ Lab11C!Current("child") = printed["child"]
  BY <1>1, SMT DEF Lab11C!Current, Lab11C!StartWith
<1> QED
  BY <1>1, <1>2, SMT DEF Before, Here, After, Lab11C!Old, Lab11C!NextOne,
     Lab11C!N

(* With a line printed the three places move on. *)
LEMMA Advance ==
  ASSUME Lab11C!ChainTypeOK, NEW p \in Everyone,
         printed' = [printed EXCEPT ![p] = @ + 1]
  PROVE  /\ Before(p)' = Here(p) /\ Here(p)' = After(p) /\ After(p)' = Before(p)
         /\ \A q \in Everyone \ {p} :
              Before(q)' = Before(q) /\ Here(q)' = Here(q) /\ After(q)' = After(q)
<1>1. Lab11C!Current(p) \in Nat /\ Lab11C!Current(p)' = Lab11C!Current(p) + 1
  BY SMT DEF Lab11C!ChainTypeOK, Lab11C!Current, Lab11C!StartWith,
     Everyone, Lab11C!Everyone
<1>2. \A q \in Everyone \ {p} : Lab11C!Current(q)' = Lab11C!Current(q)
  BY SMT DEF Lab11C!ChainTypeOK, Lab11C!Current, Everyone, Lab11C!Everyone
<1>3. Before(p)' = Here(p) /\ Here(p)' = After(p) /\ After(p)' = Before(p)
  BY <1>1, SMT DEF Before, Here, After, Lab11C!Old, Lab11C!NextOne, Lab11C!N
<1> QED
  BY <1>2, <1>3 DEF Before, Here, After, Lab11C!Old, Lab11C!NextOne

LEMMA Rest ==
  ASSUME UNCHANGED printed, NEW p \in Everyone
  PROVE  Before(p)' = Before(p) /\ Here(p)' = Here(p) /\ After(p)' = After(p)
  BY DEF Before, Here, After, Lab11C!Old, Lab11C!NextOne, Lab11C!Current

LEMMA ChainStep ==
  ASSUME ChainInv, [Lab11C!ChainNext]_(Lab11C!vars)
  PROVE  ChainInv'
<1> USE LinesAssumption
<1> USE DEF ChainInv
<1>a. \A p \in Everyone :
        /\ {Before(p), Here(p), After(p)} \subseteq Lab11C!Ring
        /\ Before(p) # Here(p) /\ Here(p) # After(p) /\ Before(p) # After(p)
  BY Places
<1>b. UNCHANGED printed =>
        \A p \in Everyone :
          Before(p)' = Before(p) /\ Here(p)' = Here(p) /\ After(p)' = After(p)
  BY Rest
<1> USE DEF Lab11C!ChainTypeOK, Balanced, Owners, Has, TurnReady, Partner,
            StartTogether, ChainMoreToSay, Turn, Everyone, Lab11C!Everyone,
            Lab11C!Take, Lab11C!Drop
<1>1. ASSUME NEW p \in Everyone, Lab11C!LockFirst(p) PROVE ChainInv'
  <2>0. Lab11C!StartWith(p) = Here(p)
    BY <1>1, SMT DEF Lab11C!LockFirst, Here, Lab11C!Current, Lab11C!StartWith,
       Lab11C!N
  <2>1. Lab11C!ChainTypeOK'
    BY <1>a, <1>1, <2>0, SMTT(30) DEF Lab11C!LockFirst
  <2>2. (Balanced /\ TurnReady /\ StartTogether /\ ChainMoreToSay)'
    BY <1>a, <1>1, <2>0, SMTT(30) DEF Lab11C!LockFirst
  <2>3. Owners'
    BY <1>a, <1>1, <2>0, <1>b, SMTT(30) DEF Lab11C!LockFirst
  <2> QED
    BY <2>1, <2>2, <2>3 DEF ChainInv
<1>2. ASSUME NEW p \in Everyone, Lab11C!WakeUp(p) PROVE ChainInv'
  <2>1. Lab11C!ChainTypeOK'
    BY <1>a, <1>2, SMTT(30) DEF Lab11C!WakeUp, Lab11C!SleptLongEnough
  <2>2. (Balanced /\ TurnReady /\ StartTogether /\ ChainMoreToSay)'
    BY <1>a, <1>2, SMTT(30) DEF Lab11C!WakeUp, Lab11C!SleptLongEnough
  <2>3. Owners'
    BY <1>a, <1>2, <1>b, SMTT(30) DEF Lab11C!WakeUp, Lab11C!SleptLongEnough
  <2> QED
    BY <2>1, <2>2, <2>3 DEF ChainInv
<1>3. ASSUME NEW p \in Everyone, Lab11C!Release(p) PROVE ChainInv'
  <2>1. Lab11C!ChainTypeOK'
    BY <1>a, <1>3, SMTT(30) DEF Lab11C!Release, Before
  <2>2. (Balanced /\ TurnReady /\ StartTogether /\ ChainMoreToSay)'
    BY <1>a, <1>3, SMTT(30) DEF Lab11C!Release, Before
  <2>3. Owners'
    BY <1>a, <1>3, <1>b, SMTT(30) DEF Lab11C!Release, Before
  <2> QED
    BY <2>1, <2>2, <2>3 DEF ChainInv
<1>4. ASSUME NEW p \in Everyone, Lab11C!LockNext(p) PROVE ChainInv'
  <2>1. Lab11C!ChainTypeOK'
    BY <1>a, <1>4, SMTT(30) DEF Lab11C!LockNext, After
  <2>2. (Balanced /\ TurnReady /\ StartTogether /\ ChainMoreToSay)'
    BY <1>a, <1>4, Apart, SMTT(30) DEF Lab11C!LockNext, After
  <2>3. Owners'
    BY <1>a, <1>4, <1>b, SMTT(30) DEF Lab11C!LockNext, After
  <2> QED
    BY <2>1, <2>2, <2>3 DEF ChainInv
<1>5. ASSUME NEW p \in Everyone, Lab11C!Say(p) PROVE ChainInv'
  <2>0. /\ Before(p)' = Here(p) /\ Here(p)' = After(p) /\ After(p)' = Before(p)
        /\ \A q \in Everyone \ {p} :
             Before(q)' = Before(q) /\ Here(q)' = Here(q) /\ After(q)' = After(q)
    BY <1>5, Advance DEF Lab11C!Say
  <2>1. Lab11C!ChainTypeOK'
    BY <1>a, <1>5, <2>0, SMTT(30) DEF Lab11C!Say
  <2>2. (Balanced /\ TurnReady /\ StartTogether /\ ChainMoreToSay)'
    BY <1>a, <1>5, <2>0, Apart, SMTT(30) DEF Lab11C!Say
  <2>3. Owners'
    BY <1>a, <1>5, <2>0, <1>b, SMTT(30) DEF Lab11C!Say
  <2> QED
    BY <2>1, <2>2, <2>3 DEF ChainInv
<1>6. ASSUME NEW p \in Everyone, Lab11C!DropOld(p) PROVE ChainInv'
  <2>1. Lab11C!ChainTypeOK'
    BY <1>a, <1>6, SMTT(30) DEF Lab11C!DropOld, Before
  <2>2. (Balanced /\ TurnReady /\ StartTogether /\ ChainMoreToSay)'
    BY <1>a, <1>6, SMTT(30) DEF Lab11C!DropOld, Before
  <2>3. Owners'
    BY <1>a, <1>6, <1>b, SMTT(30) DEF Lab11C!DropOld, Before
  <2> QED
    BY <2>1, <2>2, <2>3 DEF ChainInv
<1>7. ASSUME NEW p \in Everyone, Lab11C!DropNext(p) PROVE ChainInv'
  <2>0. Lab11C!Drop(Here(p))
    BY <1>7 DEF Lab11C!DropNext, Here
  <2>1. Lab11C!ChainTypeOK'
    BY <1>a, <1>7, <2>0, SMTT(30) DEF Lab11C!DropNext
  <2>2. (Balanced /\ TurnReady /\ StartTogether /\ ChainMoreToSay)'
    BY <1>a, <1>7, <2>0, SMTT(30) DEF Lab11C!DropNext
  <2>3. Owners'
    BY <1>a, <1>7, <2>0, <1>b, SMTT(30) DEF Lab11C!DropNext
  <2> QED
    BY <2>1, <2>2, <2>3 DEF ChainInv
<1>8. CASE UNCHANGED Lab11C!vars
  BY <1>b, <1>8, SMT DEF Lab11C!vars
<1> QED
  BY <1>1, <1>2, <1>3, <1>4, <1>5, <1>6, <1>7, <1>8
     DEF Lab11C!ChainNext, Lab11C!Thread

LEMMA ChainPrints ==
  ASSUME ChainInv, [Lab11C!ChainNext]_(Lab11C!vars)
  PROVE  [Next]_printed
<1>1. ASSUME NEW p \in Everyone, Lab11C!Say(p) PROVE PrintLine(p)
  <2>1. p = Turn
    BY <1>1, SMT DEF ChainInv, Lab11C!Say, TurnReady, Partner, Everyone, Turn
  <2> QED
    BY <1>1, <2>1 DEF PrintLine, Lab11C!Say, ChainInv, ChainMoreToSay
<1>2. ASSUME NEW p \in Everyone,
             \/ Lab11C!LockFirst(p) \/ Lab11C!WakeUp(p) \/ Lab11C!Release(p)
             \/ Lab11C!LockNext(p) \/ Lab11C!DropOld(p) \/ Lab11C!DropNext(p)
      PROVE UNCHANGED printed
  BY <1>2 DEF Lab11C!LockFirst, Lab11C!WakeUp, Lab11C!Release,
     Lab11C!LockNext, Lab11C!DropOld, Lab11C!DropNext
<1> QED
  BY <1>1, <1>2 DEF Lab11C!ChainNext, Lab11C!Thread, Next, Lab11C!vars,
     Everyone, Lab11C!Everyone

(* The lines of lab11-3-mutex come in turn, the parent's first, for any    *)
(* number of lines (Alternates): with three mutexes for two threads, who   *)
(* has printed waits for one that the other holds until it has printed.    *)
THEOREM ChainAlternates == Lab11C!ChainSpec => Alternates
<1>1. Lab11C!ChainInit => Init
  BY DEF Lab11C!ChainInit, Lab11C!Init, Init, Everyone, Lab11C!Everyone
<1>2. Lab11C!ChainSpec => []ChainInv
  BY ChainStart, ChainStep, PTL DEF Lab11C!ChainSpec
<1> QED
  BY <1>1, <1>2, ChainPrints, PTL DEF Lab11C!ChainSpec, Alternates, Spec

LEMMA ChainCount ==
  ASSUME ChainInv, Lab11C!ChainNext
  PROVE  Lab11C!StepsLeft' = Lab11C!StepsLeft - 1
<1> DEFINE Fewer == Lab11C!StepsLeft' = Lab11C!StepsLeft - 1
<1> SUFFICES Fewer
  OBVIOUS
<1> USE LinesAssumption
<1> USE DEF ChainInv, Lab11C!ChainTypeOK, Everyone, Lab11C!Everyone,
            Lab11C!StepsLeft, Lab11C!StepsOf
<1>1. ASSUME NEW p \in Everyone,
             Lab11C!LockFirst(p) \/ Lab11C!WakeUp(p) \/ Lab11C!Release(p)
      PROVE  Fewer
  BY <1>1, SMT DEF Lab11C!LockFirst, Lab11C!WakeUp, Lab11C!Release
<1>2. ASSUME NEW p \in Everyone, Lab11C!Say(p) PROVE Fewer
  <2>1. Lab11C!StepsOf(p)' = Lab11C!StepsOf(p) - 1
    BY <1>2, SMT DEF Lab11C!Say, ChainMoreToSay
  <2>2. \A q \in Everyone \ {p} : Lab11C!StepsOf(q)' = Lab11C!StepsOf(q)
    BY <1>2, SMT DEF Lab11C!Say
  <2>3. \A q \in Everyone : Lab11C!StepsOf(q) \in Int
    BY SMT
  <2> HIDE DEF Lab11C!StepsOf
  <2> QED
    BY <2>1, <2>2, <2>3, SMT
<1>3. ASSUME NEW p \in Everyone,
             Lab11C!LockNext(p) \/ Lab11C!DropOld(p) \/ Lab11C!DropNext(p)
      PROVE  Fewer
  BY <1>3, SMT DEF Lab11C!LockNext, Lab11C!DropOld, Lab11C!DropNext
<1> QED
  BY <1>1, <1>2, <1>3 DEF Lab11C!ChainNext, Lab11C!Thread

(* Of two that are not done one can go on: the mutex that he whose turn it *)
(* is has to wait for is the one that the other is about to give back.     *)
LEMMA ChainGoesOn ==
  ASSUME ChainInv, \A p \in Everyone : ~Lab11C!CanGo(p)
  PROVE  \A p \in Everyone : pc[p] = "done"
<1> USE DEF ChainInv, Everyone, Lab11C!Everyone
<1>1. \A p \in Everyone :
        /\ {Before(p), Here(p), After(p)} \subseteq Lab11C!Ring
        /\ Before(p) # Here(p) /\ Here(p) # After(p) /\ Before(p) # After(p)
  BY Places
<1>2. \A m \in Lab11C!Ring : (\A p \in Everyone : ~Has(p, m)) => mutexes[m] = "nobody"
  BY DEF Owners, Lab11C!ChainTypeOK
<1>3. \A p \in Everyone : pc[p] \in {"start", "sleep", "lock", "done"}
  BY DEF Lab11C!CanGo, Lab11C!ChainTypeOK
<1>4. /\ printed["parent"] \in Nat /\ printed["child"] \in Nat
      /\ \/ /\ printed["parent"] = printed["child"]
            /\ Here("parent") = After("child")
            /\ Before("parent") = Here("child")
            /\ After("parent") = Before("child")
         \/ /\ printed["parent"] = printed["child"] + 1
            /\ Here("parent") = Before("child")
            /\ Before("parent") = After("child")
            /\ After("parent") = Here("child")
  BY Apart DEF Balanced, Lab11C!ChainTypeOK
<1>5. \A p \in Everyone : pc[p] # "start"
  <2> SUFFICES ASSUME NEW p \in Everyone, pc[p] = "start" PROVE FALSE
    OBVIOUS
  <2>1. \A q \in Everyone : pc[q] \in {"start", "sleep"}
    BY <1>3 DEF StartTogether
  <2>2. Lab11C!StartWith(p) = Here(p)
    BY SMT DEF ChainMoreToSay, Here, Lab11C!Current, Lab11C!StartWith, Lab11C!N
  <2>3. Here("parent") # Here("child")
    BY <1>1, <1>4
  <2>4. \A q \in Everyone : ~Has(q, Here(p))
    BY <2>1, <2>3 DEF Has
  <2> QED
    BY <1>1, <1>2, <2>2, <2>4 DEF Lab11C!CanGo
<1>6. \A p \in Everyone : pc[p] \in {"lock", "done"}
  BY <1>3, <1>5 DEF Lab11C!CanGo, Lab11C!SleptLongEnough
<1>7. pc[Turn] # "lock"
  <2>1. After(Turn) # Here("parent") /\ After(Turn) # Here("child")
    BY <1>1, <1>4, SMT DEF Turn
  <2>2. \A q \in Everyone : ~Has(q, After(Turn))
    BY <1>6, <2>1 DEF Has
  <2>3. mutexes[After(Turn)] = "nobody"
    BY <1>1, <1>2, <2>2 DEF Turn
  <2> QED
    BY <2>3 DEF Lab11C!CanGo, After, Turn
<1>8. printed[Turn] = Lines
  BY <1>6, <1>7 DEF ChainMoreToSay, Turn
<1>9. \A p \in Everyone : printed[p] >= Lines
  BY <1>4, <1>8, LinesAssumption, SMT DEF Turn
<1> QED
  BY <1>4, <1>6, <1>9, LinesAssumption, SMT DEF ChainMoreToSay

(* lab11-3-mutex ends, for any number of lines: the ring never has both    *)
(* wait (NobodyStuck), and every step leaves one fewer, whomever the       *)
(* scheduler favours (StepsCount).                                         *)
THEOREM ChainEnd == Lab11C!ChainSpec => []Lab11C!NobodyStuck /\ Lab11C!StepsCount
<1>1. ChainInv => Lab11C!NobodyStuck
  <2> SUFFICES ASSUME ChainInv PROVE Lab11C!NobodyStuck
    OBVIOUS
  <2>1. \A p \in Everyone :
          /\ Lab11C!StepsOf(p) \in Nat
          /\ Lab11C!StepsOf(p) = 0 <=> pc[p] = "done"
          /\ pc[p] = "done" => printed[p] = Lines
    BY LinesAssumption, SMT DEF ChainInv, Lab11C!ChainTypeOK, ChainMoreToSay,
       Lab11C!StepsOf, Everyone, Lab11C!Everyone
  <2> QED
    BY <2>1, ChainGoesOn, SMT DEF Lab11C!NobodyStuck, Lab11C!StepsLeft, Everyone,
       Lab11C!Everyone
<1>2. Lab11C!ChainSpec => []ChainInv
  BY ChainStart, ChainStep, PTL DEF Lab11C!ChainSpec
<1>3. ChainInv /\ [Lab11C!ChainNext]_(Lab11C!vars)
        => [Lab11C!StepsLeft' = Lab11C!StepsLeft - 1]_(Lab11C!vars)
  BY ChainCount
<1> QED
  BY <1>1, <1>2, <1>3, PTL DEF Lab11C!ChainSpec, Lab11C!StepsCount

=============================================================================
