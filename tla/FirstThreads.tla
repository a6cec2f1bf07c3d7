---------------------------- MODULE FirstThreads -----------------------------
(***************************************************************************)
(* lab1/one-thread.c in its four builds and lab3/four-threads.c: main      *)
(* creates threads that print lines, prints lines of its own (lab1), and   *)
(* joins them or does not.  A return from main ends the process with every *)
(* thread that is left; pthread_exit ends main only.  No call fails.       *)
(***************************************************************************)
EXTENDS Integers

VARIABLES
  build,    \* the macro that lab1 is compiled with, "plain" without, or "lab3"
  main,     \* what main does next
  created,  \* threads created
  said      \* lines that each has printed; main is 0

Builds == {"plain", "exit", "join", "v2", "lab3"}

Children == 1..(IF build = "lab3" THEN 4 ELSE 1)

LinesOf(t) == IF build # "lab3" THEN 10 ELSE IF t = 0 THEN 0 ELSE 3

FirstInit ==
  /\ build \in Builds
  /\ main = "create"
  /\ created = 0
  /\ said = [t \in {0} \cup Children |-> 0]

Finished(t) == said[t] = LinesOf(t)

CreateChild ==
  /\ main = "create"
  /\ created' = created + 1
  /\ main' = IF created' + 1 \in Children THEN main
             ELSE IF build = "v2" THEN "join_first" ELSE "say"
  /\ UNCHANGED <<build, said>>

\* print_lines, in a thread that runs or in main.
SayLine(t) ==
  /\ IF t = 0 THEN main = "say" ELSE t <= created /\ main # "returned"
  /\ ~Finished(t)
  /\ said' = [said EXCEPT ![t] = @ + 1]
  /\ UNCHANGED <<build, main, created>>

\* v2: pthread_join before main's own lines.
JoinFirst ==
  /\ main = "join_first"
  /\ \A t \in Children : Finished(t)
  /\ main' = "say"
  /\ UNCHANGED <<build, created, said>>

\* After main's lines, if any: pthread_join of all, pthread_exit, or neither.
LeaveMain ==
  /\ main = "say" /\ Finished(0)
  /\ build \in {"join", "lab3"} => \A t \in Children : Finished(t)
  /\ main' = IF build = "exit" THEN "exited" ELSE "returned"
  /\ UNCHANGED <<build, created, said>>

FirstNext ==
  \/ CreateChild \/ JoinFirst \/ LeaveMain
  \/ \E t \in {0} \cup Children : SayLine(t)

FirstTypeOK ==
  /\ build \in Builds /\ created \in 0..4
  /\ main \in {"create", "join_first", "say", "returned", "exited"}
  /\ said \in [{0} \cup Children -> 0..10]

(* No thread is cut short by main's return, except in the plain build,     *)
(* which does not wait for its child; and with v2 the child's lines come   *)
(* before all of main's.                                                   *)
NobodyCutShort ==
  /\ main = "returned" /\ build # "plain" => \A t \in Children : Finished(t)
  /\ build = "v2" /\ said[0] > 0 => Finished(1)
=============================================================================
