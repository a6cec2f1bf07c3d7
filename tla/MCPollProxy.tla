----------------------------- MODULE MCPollProxy -----------------------------
(***************************************************************************)
(* The poll proxy for TLC.  Clients are interchangeable: nothing but who   *)
(* is in Stalled tells them apart.  So are keys.                           *)
(***************************************************************************)
EXTENDS PollProxy

Interchangeable == Permutations(Clients) \cup Permutations(Keys)
=============================================================================
