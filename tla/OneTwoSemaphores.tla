-------------------------- MODULE OneTwoSemaphores --------------------------
(***************************************************************************)
(* lab14/one-two.c: two counting semaphores, one for the right to print of *)
(* each thread.  rk_sema_wait (sem_polyfill.h) tries again when a signal   *)
(* interrupts it, so that an interruption changes nothing.                 *)
(***************************************************************************)
EXTENDS OneTwo

VARIABLES
  pc,         \* what a thread does next
  semaphore   \* "empty" and "filled": the counts of the two semaphores

vars == <<printed, pc, semaphore>>

\* The semaphore a thread waits for, and the one it posts.
Waits(p) == IF p = "parent" THEN "empty" ELSE "filled"

Posts(p) == IF p = "parent" THEN "filled" ELSE "empty"

\* A buffer of two.
TwoFree == [empty |-> 2, filled |-> 0]

InitialCount == [empty |-> 1, filled |-> 0]

SemaphoresInit ==
  /\ Init
  /\ pc = [p \in Everyone |-> "wait"]
  /\ semaphore = InitialCount

Wait(p) ==
  /\ pc[p] = "wait"
  /\ semaphore[Waits(p)] > 0
  /\ semaphore' = [semaphore EXCEPT ![Waits(p)] = @ - 1]
  /\ pc' = [pc EXCEPT ![p] = "say"]
  /\ UNCHANGED printed

Say(p) ==
  /\ pc[p] = "say"
  /\ printed' = [printed EXCEPT ![p] = @ + 1]
  /\ pc' = [pc EXCEPT ![p] = "post"]
  /\ UNCHANGED semaphore

Post(p) ==
  /\ pc[p] = "post"
  /\ semaphore' = [semaphore EXCEPT ![Posts(p)] = @ + 1]
  /\ pc' = [pc EXCEPT ![p] = IF printed[p] < Lines THEN "wait" ELSE "done"]
  /\ UNCHANGED printed

Thread(p) == Wait(p) \/ Say(p) \/ Post(p)

SemaphoresNext == \E p \in Everyone : Thread(p)

SemaphoresSpec == SemaphoresInit /\ [][SemaphoresNext]_vars

SemaphoresTypeOK ==
  /\ printed \in [Everyone -> 0..Lines]
  /\ pc \in [Everyone -> {"wait", "say", "post", "done"}]
  /\ semaphore \in [{"empty", "filled"} -> 0..1]

\* What a thread needs to go on.
CanGo(p) == (pc[p] = "wait" /\ semaphore[Waits(p)] > 0) \/ pc[p] \in {"say", "post"}

\* Three steps for a line.
StepsOf(p) ==
  3 * (Lines - printed[p]) +
    (CASE pc[p] = "say" -> -1 [] pc[p] = "post" -> 1 [] OTHER -> 0)

StepsLeft == StepsOf("parent") + StepsOf("child")

(* The two never wait for each other's post: as long as there are steps    *)
(* left somebody can take one, and with the last all lines are printed.    *)
NobodyStuck ==
  IF StepsLeft = 0
  THEN \A p \in Everyone : pc[p] = "done" /\ printed[p] = Lines
  ELSE StepsLeft \in Nat /\ \E p \in Everyone : CanGo(p)

(* No step is taken in vain: whoever runs, there is one fewer left.        *)
StepsCount == [][StepsLeft' = StepsLeft - 1]_vars
=============================================================================
