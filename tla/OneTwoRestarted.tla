-------------------------- MODULE OneTwoRestarted ---------------------------
(***************************************************************************)
(* lab16/one-two.c started again and again: a run may be killed at any     *)
(* line, both processes at once, and what it leaves under the names of the *)
(* semaphores is what the next run finds.  fork() may fail as well.        *)
(***************************************************************************)
EXTENDS OneTwoProcesses, FiniteSets

CONSTANT MaxRuns   \* bound: runs after the first

VARIABLES
  runs,   \* runs that have ended
  half    \* of these, the ones that ended between their two sem_unlinks

RestartedInit == ProcessesInit /\ runs = 0 /\ half = 0

\* fork() = -1 is not > 0: the one process there is takes the child's branch.
ForkFails ==
  /\ pc["parent"] = "fork"
  /\ pc' = [parent |-> "done", child |-> "wait"]
  /\ opened' = {"child"}
  /\ UNCHANGED <<printed, semaphore, names>>

\* The run ends, by itself or killed; the system closes what is open, and names stay.
StartAgain ==
  /\ runs < MaxRuns
  /\ runs' = runs + 1
  /\ half' = IF pc["parent"] = "unlink_empty" THEN half + 1 ELSE half
  /\ pc' = [parent |-> "open", child |-> "unborn"]
  /\ printed' = [p \in Everyone |-> 0]
  /\ opened' = {}
  /\ UNCHANGED <<semaphore, names>>

RestartedNext ==
  \/ (ProcessesNext \/ ForkFails) /\ UNCHANGED <<runs, half>>
  \/ StartAgain

RestartedTypeOK ==
  /\ printed \in [Everyone -> 0..Lines]
  /\ pc["parent"] # "unborn" /\ pc["child"] \notin {"open", "open_empty", "fork"}
  /\ semaphore \in [Both -> 0..(MaxRuns + 1)]
  /\ runs \in 0..MaxRuns /\ half \in 0..runs

\* A semaphore without a name exists as long as a process has it open.
Exists(s) == s \in names \/ opened # {}

Rights ==
  (IF Exists("filled") THEN semaphore["filled"] ELSE 0) +
  (IF Exists("empty") THEN semaphore["empty"] ELSE 0) +
  Cardinality({p \in Everyone : pc[p] \in {"say", "post"}})

(* However many runs were killed before, there is at most one right to     *)
(* print, so that no two lines are printed at once: a count left behind is *)
(* taken over, not added to (sem_open without O_EXCL).  Only a run that is *)
(* killed after unlinking "filled" and before unlinking "empty" can add a  *)
(* right, because the next one gets a new "filled" and the old "empty".    *)
RightsAccountedFor == Rights <= 1 + half
=============================================================================
