----------------------------- MODULE OneTwoChain ----------------------------
(***************************************************************************)
(* lab11-3-mutex/one-two.c: three mutexes in a ring and no flag.  A thread *)
(* prints while it holds two neighbours of the ring, gives back the first  *)
(* and waits for the one after the second, which the other thread holds    *)
(* until it has printed in its turn.                                       *)
(*                                                                         *)
(* Before its first line a thread locks the mutex it starts with and       *)
(* sleeps a millisecond, which stands in for waiting until the other has   *)
(* locked its own: SleptLongEnough is that assumption.                     *)
(***************************************************************************)
EXTENDS OneTwo

VARIABLES
  pc,       \* what a thread does next
  mutexes   \* who holds each of the three mutexes, or "nobody"

vars == <<printed, pc, mutexes>>

N == 3

Ring == 0..(N - 1)

StartWith(p) == IF p = "parent" THEN 1 ELSE 0

\* current counts on from start_with with every line.
Current(p) == StartWith(p) + printed[p]

Old(p) == (Current(p) + N - 1) % N

NextOne(p) == (Current(p) + 1) % N

ChainInit ==
  /\ Init
  /\ pc = [p \in Everyone |-> "start"]
  /\ mutexes = [m \in Ring |-> "nobody"]

Take(p, m) == mutexes[m] = "nobody" /\ mutexes' = [mutexes EXCEPT ![m] = p]

Drop(m) == mutexes' = [mutexes EXCEPT ![m] = "nobody"]

LockFirst(p) ==
  /\ pc[p] = "start"
  /\ Take(p, StartWith(p))
  /\ pc' = [pc EXCEPT ![p] = "sleep"]
  /\ UNCHANGED printed

\* No sleep, and no assumption.
NoSleep == TRUE

SleptLongEnough == \A p \in Everyone : pc[p] # "start"

WakeUp(p) ==
  /\ pc[p] = "sleep"
  /\ SleptLongEnough
  /\ pc' = [pc EXCEPT ![p] = "lock"]
  /\ UNCHANGED <<printed, mutexes>>

\* The round begins: but for the first, the older of the two is given back.
Release(p) ==
  /\ pc[p] = "release"
  /\ Drop(Old(p))
  /\ pc' = [pc EXCEPT ![p] = "lock"]
  /\ UNCHANGED printed

LockNext(p) ==
  /\ pc[p] = "lock"
  /\ Take(p, NextOne(p))
  /\ pc' = [pc EXCEPT ![p] = "say"]
  /\ UNCHANGED printed

Say(p) ==
  /\ pc[p] = "say"
  /\ printed' = [printed EXCEPT ![p] = @ + 1]
  /\ pc' = [pc EXCEPT ![p] = IF printed'[p] < Lines THEN "release" ELSE "drop"]
  /\ UNCHANGED mutexes

\* After the loop: the older of the two, and then next, which the last line
\* has left where current now points.
DropOld(p) ==
  /\ pc[p] = "drop"
  /\ Drop(Old(p))
  /\ pc' = [pc EXCEPT ![p] = "dropnext"]
  /\ UNCHANGED printed

\* The mutex kept.
KeepNext(p) ==
  /\ pc[p] = "dropnext"
  /\ pc' = [pc EXCEPT ![p] = "done"]
  /\ UNCHANGED <<printed, mutexes>>

DropNext(p) ==
  /\ pc[p] = "dropnext"
  /\ Drop(Current(p) % N)
  /\ pc' = [pc EXCEPT ![p] = "done"]
  /\ UNCHANGED printed

Thread(p) ==
  \/ LockFirst(p) \/ WakeUp(p) \/ Release(p) \/ LockNext(p)
  \/ Say(p) \/ DropOld(p) \/ DropNext(p)

ChainNext == \E p \in Everyone : Thread(p)

ChainSpec == ChainInit /\ [][ChainNext]_vars

ChainTypeOK ==
  /\ printed \in [Everyone -> 0..Lines]
  /\ pc \in [Everyone -> {"start", "sleep", "release", "lock", "say",
                          "drop", "dropnext", "done"}]
  /\ mutexes \in [Ring -> Everyone \cup {"nobody"}]

\* What a thread needs to go on.
CanGo(p) ==
  \/ pc[p] = "start" /\ mutexes[StartWith(p)] = "nobody"
  \/ pc[p] = "sleep" /\ SleptLongEnough
  \/ pc[p] = "lock" /\ mutexes[NextOne(p)] = "nobody"
  \/ pc[p] \in {"release", "say", "drop", "dropnext"}

\* Three steps for a line, and what comes before the first and after the last.
StepsOf(p) ==
  3 * (Lines - printed[p]) +
    (CASE pc[p] = "start" -> 3 [] pc[p] \in {"sleep", "release", "drop"} -> 2
       [] pc[p] \in {"lock", "dropnext"} -> 1 [] OTHER -> 0)

StepsLeft == StepsOf("parent") + StepsOf("child")

(* The ring of mutexes never has both wait: as long as there are steps     *)
(* left somebody can take one, and with the last all lines are printed.    *)
NobodyStuck ==
  IF StepsLeft = 0
  THEN \A p \in Everyone : pc[p] = "done" /\ printed[p] = Lines
  ELSE StepsLeft \in Nat /\ \E p \in Everyone : CanGo(p)

(* No step is taken in vain: whoever runs, there is one fewer left.        *)
StepsCount == [][StepsLeft' = StepsLeft - 1]_vars
=============================================================================
