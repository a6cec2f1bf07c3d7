---------------------------- MODULE Cancellation -----------------------------
(***************************************************************************)
(* lab4: main cancels its thread.  thread-cancel.c prints until a          *)
(* cancellation point finds the request, in build v2 with a handler on the *)
(* cleanup stack; async-test.c may be cancelled between any two            *)
(* instructions once it has said so, and counts to an end otherwise.       *)
(* pthread_cleanup_pop(1) takes the handler off and then calls it.         *)
(***************************************************************************)
EXTENDS Integers

VARIABLES
  build,      \* "plain" and "v2" of thread-cancel.c, or "async"
  main,       \* what main does next
  pc,         \* what the thread does next
  requested,  \* pthread_cancel has been called
  pushed,     \* a handler is on the cleanup stack
  begun       \* how often a handler has begun to print

Builds == {"plain", "v2", "async"}

CancelInit ==
  /\ build \in Builds
  /\ main = "create" /\ pc = "unborn"
  /\ requested = FALSE /\ pushed = FALSE
  /\ begun = 0

CreateIt ==
  /\ main = "create"
  /\ main' = "cancel"
  /\ pc' = IF build = "async" THEN "settype" ELSE "push"
  /\ UNCHANGED <<build, requested, pushed, begun>>

\* After sleep(2), or a loop, which the thread may have overtaken or not begun.
\* A thread that has returned may no longer be found.
Cancel ==
  /\ main = "cancel"
  /\ main' \in IF pc = "returned" THEN {"exited", "failed"} ELSE {"exited"}
  /\ requested' = TRUE
  /\ UNCHANGED <<build, pc, pushed, begun>>

\* pthread_setcanceltype(PTHREAD_CANCEL_ASYNCHRONOUS, NULL).
SetType ==
  /\ pc = "settype"
  /\ pc' = "push"
  /\ UNCHANGED <<build, main, requested, pushed, begun>>

\* pthread_cleanup_push; the plain build has none.
Push ==
  /\ pc = "push"
  /\ pc' = IF build = "async" THEN "loop" ELSE "print"
  /\ pushed' = (build # "plain")
  /\ UNCHANGED <<build, main, requested, begun>>

\* printf, which need not find the request, and pthread_testcancel, which does.
GoRound ==
  /\ \/ pc = "print" /\ pc' = "testcancel"
     \/ pc = "testcancel" /\ ~requested /\ pc' = "print"
  /\ UNCHANGED <<build, main, requested, pushed, begun>>

\* The count has come to its end.
EndLoop ==
  /\ pc = "loop"
  /\ pc' = "pop"
  /\ UNCHANGED <<build, main, requested, pushed, begun>>

\* pthread_cleanup_pop(1).
Pop ==
  /\ pc = "pop"
  /\ pushed' = FALSE
  /\ begun' = begun + 1
  /\ pc' = "return"
  /\ UNCHANGED <<build, main, requested>>

\* printf_d to its end, and return NULL.
Return ==
  /\ pc = "return"
  /\ pc' = "returned"
  /\ UNCHANGED <<build, main, requested, pushed, begun>>

\* Where a request takes effect: at a cancellation point, or anywhere after SetType.
MayBeCancelled ==
  pc \in IF build = "async" THEN {"push", "loop", "pop", "return"} ELSE {"print", "testcancel"}

\* The thread ends, and what is on the cleanup stack is called.
BeCancelled ==
  /\ requested /\ MayBeCancelled
  /\ pc' = "cancelled"
  /\ pushed' = FALSE
  /\ begun' = IF pushed THEN begun + 1 ELSE begun
  /\ UNCHANGED <<build, main, requested>>

ThreadStep == SetType \/ Push \/ GoRound \/ EndLoop \/ Pop \/ Return \/ BeCancelled

CancelNext == CreateIt \/ Cancel \/ ThreadStep

Over == pc \in {"returned", "cancelled"}

CancelTypeOK ==
  /\ build \in Builds /\ main \in {"create", "cancel", "exited", "failed"}
  /\ pc \in {"unborn", "settype", "push", "print", "testcancel", "loop", "pop",
             "return", "returned", "cancelled"}
  /\ {requested, pushed} \subseteq BOOLEAN /\ begun \in Nat

(* The handler is called once, by pthread_cleanup_pop or by the            *)
(* cancellation, also when one comes while the other is at it.  Only       *)
(* async-test.c can be cancelled before it has pushed its handler.         *)
CleanedOnce ==
  /\ begun <= 1
  /\ pc = "returned" \/ (pc = "cancelled" /\ build = "v2") => begun = 1
=============================================================================
