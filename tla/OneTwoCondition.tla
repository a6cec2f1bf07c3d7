--------------------------- MODULE OneTwoCondition --------------------------
(***************************************************************************)
(* lab13/one-two.c: a mutex, a condition variable and a flag.  In every    *)
(* round but its first a thread waits before it has looked at the flag.    *)
(***************************************************************************)
EXTENDS OneTwo

VARIABLES
  pc,       \* what a thread does next
  holder,   \* who has the mutex, or "nobody"
  who,      \* who: whose turn the program takes it to be
  asleep    \* the threads waiting on cv

vars == <<printed, pc, holder, who, asleep>>

Other(p) == IF p = "parent" THEN "child" ELSE "parent"

ConditionInit ==
  /\ Init
  /\ pc = [p \in Everyone |-> "lock"]
  /\ holder = "nobody"
  /\ who = "parent"
  /\ asleep = {}

Goto(p, label) == pc' = [pc EXCEPT ![p] = label]

\* The mutex for a new round.  i is printed[p].
Lock(p) ==
  /\ pc[p] = "lock"
  /\ holder = "nobody"
  /\ holder' = p
  /\ Goto(p, "look")
  /\ UNCHANGED <<printed, who, asleep>>

\* pthread_cond_wait: to sleep and off the mutex in one step.
Sleep(p) ==
  /\ holder' = "nobody"
  /\ asleep' = asleep \cup {p}
  /\ Goto(p, "asleep")
  /\ UNCHANGED <<printed, who>>

\* The condition of the if: waits without a look at who when i # 0.
MustWait(p) == printed[p] # 0 \/ who # p

Look(p) ==
  /\ pc[p] = "look"
  /\ IF MustWait(p) THEN Sleep(p)
     ELSE Goto(p, "say") /\ UNCHANGED <<printed, holder, who, asleep>>

\* pthread_cond_wait may return unsignalled.
SpuriousWakeup(p) ==
  /\ p \in asleep
  /\ asleep' = asleep \ {p}
  /\ Goto(p, "relock")
  /\ UNCHANGED <<printed, holder, who>>

\* Signalled, a thread has the mutex again before pthread_cond_wait returns.
Relock(p) ==
  /\ pc[p] = "relock"
  /\ holder = "nobody"
  /\ holder' = p
  /\ Goto(p, "again")
  /\ UNCHANGED <<printed, who, asleep>>

\* The while: not its turn, and it waits once more.
LookAgain(p) ==
  /\ pc[p] = "again"
  /\ IF who # p THEN Sleep(p)
     ELSE Goto(p, "say") /\ UNCHANGED <<printed, holder, who, asleep>>

Say(p) ==
  /\ pc[p] = "say"
  /\ printed' = [printed EXCEPT ![p] = @ + 1]
  /\ Goto(p, "hand")
  /\ UNCHANGED <<holder, who, asleep>>

HandOver(p) ==
  /\ pc[p] = "hand"
  /\ who' = Other(p)
  /\ Goto(p, "unlock")
  /\ UNCHANGED <<printed, holder, asleep>>

Unlock(p) ==
  /\ pc[p] = "unlock"
  /\ holder' = "nobody"
  /\ Goto(p, "signal")
  /\ UNCHANGED <<printed, who, asleep>>

AfterSignal(p) == IF printed[p] < Lines THEN "lock" ELSE "done"

\* pthread_cond_signal, with the mutex given back: wakes who sleeps, if any.
Signal(p) ==
  /\ pc[p] = "signal"
  /\ IF asleep = {}
     THEN Goto(p, AfterSignal(p)) /\ UNCHANGED asleep
     ELSE \E q \in asleep :
            /\ asleep' = asleep \ {q}
            /\ pc' = [pc EXCEPT ![p] = AfterSignal(p), ![q] = "relock"]
  /\ UNCHANGED <<printed, holder, who>>

Thread(p) ==
  \/ Lock(p) \/ Look(p) \/ Relock(p) \/ LookAgain(p)
  \/ Say(p) \/ HandOver(p) \/ Unlock(p) \/ Signal(p)

ConditionNext == \E p \in Everyone : Thread(p) \/ SpuriousWakeup(p)

ConditionSpec == ConditionInit /\ [][ConditionNext]_vars

ConditionTypeOK ==
  /\ printed \in [Everyone -> 0..Lines]
  /\ pc \in [Everyone -> {"lock", "look", "asleep", "relock", "again", "say",
                          "hand", "unlock", "signal", "done"}]
  /\ holder \in Everyone \cup {"nobody"}
  /\ who \in Everyone
  /\ asleep = {p \in Everyone : pc[p] = "asleep"}

(* A thread that is scheduled goes on; no one relies on a spurious wakeup. *)
Fairness == \A p \in Everyone : WF_vars(Thread(p))

FairSpec == ConditionSpec /\ Fairness

(* The task asks for all the lines of both (tasks.html:97). *)
AllLines == <>(\A p \in Everyone : printed[p] = Lines)
=============================================================================
