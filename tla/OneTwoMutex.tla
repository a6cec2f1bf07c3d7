----------------------------- MODULE OneTwoMutex ----------------------------
(***************************************************************************)
(* lab11/one-two.c: one error-checking mutex and a flag.  A thread that    *)
(* finds it is not its turn gives the mutex back and tries again.          *)
(*                                                                         *)
(* The loop counter i is printed[p]: a round without a line takes its      *)
(* increment back.                                                         *)
(***************************************************************************)
EXTENDS OneTwo

VARIABLES
  pc,       \* what a thread does next
  holder,   \* who has mutex1, or "nobody"
  who       \* who: whose turn the program takes it to be

vars == <<printed, pc, holder, who>>

Other(p) == IF p = "parent" THEN "child" ELSE "parent"

\* main creates the child before it calls parent(): both are about to lock.
\* who = 1 stands for the parent, who = 0 for the child.
MutexInit ==
  /\ Init
  /\ pc = [p \in Everyone |-> "lock"]
  /\ holder = "nobody"
  /\ who = "parent"

Lock(p) ==
  /\ pc[p] = "lock"
  /\ holder = "nobody"
  /\ holder' = p
  /\ pc' = [pc EXCEPT ![p] = "look"]
  /\ UNCHANGED <<printed, who>>

\* Not its turn: i-- and the same round again.
Look(p) ==
  /\ pc[p] = "look"
  /\ pc' = [pc EXCEPT ![p] = IF who = p THEN "say" ELSE "unlock"]
  /\ UNCHANGED <<printed, holder, who>>

Say(p) ==
  /\ pc[p] = "say"
  /\ printed' = [printed EXCEPT ![p] = @ + 1]
  /\ pc' = [pc EXCEPT ![p] = "hand"]
  /\ UNCHANGED <<holder, who>>

\* The flag left as it is.
KeepTurn(p) ==
  /\ pc[p] = "hand"
  /\ pc' = [pc EXCEPT ![p] = "unlock"]
  /\ UNCHANGED <<printed, holder, who>>

HandOver(p) ==
  /\ pc[p] = "hand"
  /\ who' = Other(p)
  /\ pc' = [pc EXCEPT ![p] = "unlock"]
  /\ UNCHANGED <<printed, holder>>

Unlock(p) ==
  /\ pc[p] = "unlock"
  /\ holder' = "nobody"
  /\ pc' = [pc EXCEPT ![p] = IF printed[p] < Lines THEN "lock" ELSE "done"]
  /\ UNCHANGED <<printed, who>>

Thread(p) ==
  Lock(p) \/ Look(p) \/ Say(p) \/ HandOver(p) \/ Unlock(p)

MutexNext == \E p \in Everyone : Thread(p)

MutexSpec == MutexInit /\ [][MutexNext]_vars

MutexTypeOK ==
  /\ printed \in [Everyone -> 0..Lines]
  /\ pc \in [Everyone -> {"lock", "look", "say", "hand", "unlock", "done"}]
  /\ holder \in Everyone \cup {"nobody"}
  /\ who \in Everyone

\* What a thread needs to go on.
CanGo(p) == (pc[p] = "lock" /\ holder = "nobody") \/ pc[p] \notin {"lock", "done"}

(* The two never wait for each other: the mutex is free, or who has it can *)
(* go on, until both are done.                                             *)
NobodyStuck ==
  (\E p \in Everyone : CanGo(p)) \/ \A p \in Everyone : pc[p] = "done"
=============================================================================
