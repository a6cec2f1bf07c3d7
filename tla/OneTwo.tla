------------------------------- MODULE OneTwo -------------------------------
(***************************************************************************)
(* What five programs of the repository are written to do (tasks.html:97): *)
(* a parent and its child print Lines lines each, in turn, the parent      *)
(* first.  lab11, lab11-3-mutex, lab13, lab14 and lab16 are refinements.   *)
(***************************************************************************)
EXTENDS Integers

CONSTANT Lines    \* lines that each of the two prints; the programs say 10

ASSUME LinesAssumption == Lines \in Nat \ {0}

VARIABLE printed  \* lines printed so far, by each of the two

Everyone == {"parent", "child"}

\* Whose line is next.
Turn == IF printed["parent"] = printed["child"] THEN "parent" ELSE "child"

Init == printed = [p \in Everyone |-> 0]

PrintLine(p) ==
  /\ p = Turn
  /\ printed[p] < Lines
  /\ printed' = [printed EXCEPT ![p] = @ + 1]

Next == \E p \in Everyone : PrintLine(p)

Spec == Init /\ [][Next]_printed

(* The lines come in turn, the parent's first (tasks.html:97), whichever   *)
(* way the program hands the turn over.                                    *)
Alternates == Spec
=============================================================================
