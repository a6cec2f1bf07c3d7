-------------------------- MODULE OneTwoProcesses ---------------------------
(***************************************************************************)
(* lab16/one-two.c: two processes and two named semaphores, which outlive  *)
(* the processes until their names are unlinked.  The parent unlinks them  *)
(* after its last line, while the child may still wait: the child has them *)
(* open.  The names are free when the program starts, and no call fails:   *)
(* OneTwoRestarted is the same program without these assumptions.          *)
(***************************************************************************)
EXTENDS OneTwo

VARIABLES
  pc,          \* what a process does next; the child "unborn" before fork()
  semaphore,   \* "filled" and "empty": the counts of the two semaphores
  names,       \* the names that exist
  opened       \* the processes that have the semaphores open

vars == <<printed, pc, semaphore, names, opened>>

Both == {"filled", "empty"}

\* Here the parent waits for filled, which starts at 1.
Waits(p) == IF p = "parent" THEN "filled" ELSE "empty"

Posts(p) == IF p = "parent" THEN "empty" ELSE "filled"

Goto(p, label) == pc' = [pc EXCEPT ![p] = label]

ProcessesInit ==
  /\ Init
  /\ pc = [parent |-> "open", child |-> "unborn"]
  /\ semaphore = [s \in Both |-> 0]
  /\ names = {}
  /\ opened = {}

InitialCount(s) == IF s = "filled" THEN 1 ELSE 0

(* Mutant of Open: the count is set although the name existed. *)
OpenAnew(s, next) ==
  /\ semaphore' = [semaphore EXCEPT ![s] = InitialCount(s)]
  /\ names' = names \cup {s}
  /\ Goto("parent", next)
  /\ UNCHANGED printed

\* sem_open: O_CREAT sets the count of a name that did not exist.
Open(s, next) ==
  /\ semaphore' = IF s \in names THEN semaphore ELSE [semaphore EXCEPT ![s] = InitialCount(s)]
  /\ names' = names \cup {s}
  /\ Goto("parent", next)
  /\ UNCHANGED printed

OpenFilled ==
  /\ pc["parent"] = "open"
  /\ Open("filled", "open_empty")
  /\ UNCHANGED opened

OpenEmpty ==
  /\ pc["parent"] = "open_empty"
  /\ Open("empty", "fork")
  /\ opened' = {"parent"}

Fork ==
  /\ pc["parent"] = "fork"
  /\ pc' = [parent |-> "wait", child |-> "wait"]
  /\ opened' = opened \cup {"child"}
  /\ UNCHANGED <<printed, semaphore, names>>

Wait(p) ==
  /\ pc[p] = "wait"
  /\ semaphore[Waits(p)] > 0
  /\ semaphore' = [semaphore EXCEPT ![Waits(p)] = @ - 1]
  /\ Goto(p, "say")
  /\ UNCHANGED <<printed, names, opened>>

Say(p) ==
  /\ pc[p] = "say"
  /\ printed' = [printed EXCEPT ![p] = @ + 1]
  /\ Goto(p, "post")
  /\ UNCHANGED <<semaphore, names, opened>>

Post(p) ==
  /\ pc[p] = "post"
  /\ semaphore' = [semaphore EXCEPT ![Posts(p)] = @ + 1]
  /\ Goto(p, IF printed[p] < Lines THEN "wait" ELSE "clear")
  /\ UNCHANGED <<printed, names, opened>>

\* clear_all: sem_close of both.  The child exits after it.
Clear(p) ==
  /\ pc[p] = "clear"
  /\ opened' = opened \ {p}
  /\ Goto(p, IF p = "parent" THEN "unlink" ELSE "done")
  /\ UNCHANGED <<printed, semaphore, names>>

\* unlink_all.
Unlink(s, next) ==
  /\ names' = names \ {s}
  /\ Goto("parent", next)
  /\ UNCHANGED <<printed, semaphore, opened>>

UnlinkFilled == pc["parent"] = "unlink" /\ Unlink("filled", "unlink_empty")

UnlinkEmpty == pc["parent"] = "unlink_empty" /\ Unlink("empty", "reap")

\* wait(NULL).
Reap ==
  /\ pc["parent"] = "reap"
  /\ pc["child"] = "done"
  /\ Goto("parent", "done")
  /\ UNCHANGED <<printed, semaphore, names, opened>>

Process(p) ==
  \/ Wait(p) \/ Say(p) \/ Post(p) \/ Clear(p)
  \/ p = "parent" /\ (OpenFilled \/ OpenEmpty \/ Fork \/ UnlinkFilled \/ UnlinkEmpty \/ Reap)

ProcessesNext == \E p \in Everyone : Process(p)

ProcessesSpec == ProcessesInit /\ [][ProcessesNext]_vars

ProcessesTypeOK ==
  /\ printed \in [Everyone -> 0..Lines]
  /\ pc \in [Everyone -> {"unborn", "open", "open_empty", "fork", "wait", "say", "post",
                          "clear", "unlink", "unlink_empty", "reap", "done"}]
  /\ semaphore \in [Both -> 0..1]
  /\ names \subseteq Both
  /\ opened \subseteq Everyone

\* What a process needs to go on.
CanGo(p) ==
  \/ pc[p] = "wait" /\ semaphore[Waits(p)] > 0
  \/ pc[p] = "reap" /\ pc["child"] = "done"
  \/ pc[p] \notin {"unborn", "wait", "reap", "done"}

\* clear_all, and for the parent unlink_all and wait().
Ending(p) == IF p = "parent" THEN 4 ELSE 1

\* Three steps for a line, and what comes before the first and after the last.
StepsOf(p) ==
  3 * (Lines - printed[p]) +
    (CASE pc[p] = "open" -> 7 [] pc[p] = "open_empty" -> 6 [] pc[p] = "fork" -> 5
       [] pc[p] \in {"unborn", "wait", "clear"} -> Ending(p)
       [] pc[p] = "say" -> Ending(p) - 1 [] pc[p] = "post" -> Ending(p) + 1
       [] pc[p] = "unlink" -> 3 [] pc[p] = "unlink_empty" -> 2
       [] pc[p] = "reap" -> 1 [] pc[p] = "done" -> 0)

StepsLeft == StepsOf("parent") + StepsOf("child")

(* Neither process waits for one that waits for it, nor for a semaphore    *)
(* that has lost its name: as long as there are steps left one can be      *)
(* taken, and with the last all lines are printed.                         *)
NobodyStuck ==
  IF StepsLeft = 0
  THEN \A p \in Everyone : pc[p] = "done" /\ printed[p] = Lines
  ELSE StepsLeft \in Nat /\ \E p \in Everyone : CanGo(p)

(* No step is taken in vain: whoever runs, there is one fewer left.        *)
StepsCount == [][StepsLeft' = StepsLeft - 1]_vars
=============================================================================
