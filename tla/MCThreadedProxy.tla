-------------------------- MODULE MCThreadedProxy ---------------------------
(* Small instances of ThreadedProxy. *)
EXTENDS ThreadedProxy, TLC

(* Clients, cache keys and socket numbers are interchangeable; only runs   *)
(* that check invariants may use this.                                     *)
Interchangeable ==
  Permutations(Clients) \cup Permutations(Keys) \cup Permutations(Fds)
=============================================================================
