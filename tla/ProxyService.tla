---------------------------- MODULE ProxyService ----------------------------
(***************************************************************************)
(* What a caching proxy promises, with no locks, threads or cache in       *)
(* sight.  A fetch is one download of a reply from an origin server: its   *)
(* body only grows while it is open, and it ends complete or broken.  A    *)
(* client is attached to at most one fetch, is sent a growing prefix of    *)
(* that fetch's body, and is released without an error only when the fetch *)
(* is complete and the client has been sent all of it.                     *)
(***************************************************************************)
EXTENDS Naturals

CONSTANTS Clients,   \* the connections of the proxy
          Fetches,   \* the downloads it may start
          NoFetch,   \* "attached to nothing yet", not a fetch
          Lengths    \* the lengths a body may have

VARIABLES source,    \* source[c]: the fetch client c is attached to
          got,       \* got[c]: how much of the body c has been sent
          reply,     \* reply[c]: "pending", then "ok" or "error"
          body,      \* body[f]: length of what fetch f has stored
          fate       \* fate[f]: "open", then "complete" or "broken"

vars == <<source, got, reply, body, fate>>

Init ==
  /\ source = [c \in Clients |-> NoFetch]
  /\ got    = [c \in Clients |-> 0]
  /\ reply  = [c \in Clients |-> "pending"]
  /\ body   = [f \in Fetches |-> 0]
  /\ fate   = [f \in Fetches |-> "open"]

(* A client is attached once, and stays with its fetch. *)
Attach(c, f) ==
  /\ reply[c] = "pending" /\ source[c] = NoFetch
  /\ source' = [source EXCEPT ![c] = f]
  /\ UNCHANGED <<got, reply, body, fate>>

(* An open fetch's body grows to n units, perhaps with its last ones. *)
Store(f, n, last) ==
  /\ fate[f] = "open" /\ n >= body[f]
  /\ body' = [body EXCEPT ![f] = n]
  /\ fate' = [fate EXCEPT ![f] = IF last THEN "complete" ELSE "open"]
  /\ UNCHANGED <<source, got, reply>>

(* The origin failed: whatever was stored is no reply, and clients that    *)
(* are attached may at once be released with an error.                     *)
Break(f, n, S) ==
  /\ fate[f] = "open" /\ n >= body[f]
  /\ \A c \in S : reply[c] = "pending" /\ source[c] = f
  /\ fate' = [fate EXCEPT ![f] = "broken"]
  /\ body' = [body EXCEPT ![f] = n]
  /\ reply' = [c \in Clients |-> IF c \in S THEN "error" ELSE reply[c]]
  /\ UNCHANGED <<source, got>>

(* The client is sent what its fetch has stored, up to its n-th unit.  It  *)
(* may be released without an error if there is and will be no more.       *)
Send(c, n, last) ==
  /\ reply[c] = "pending" /\ source[c] # NoFetch
  /\ got[c] <= n /\ n <= body[source[c]]
  /\ last => fate[source[c]] = "complete" /\ n = body[source[c]]
  /\ got' = [got EXCEPT ![c] = n]
  /\ reply' = [reply EXCEPT ![c] = IF last THEN "ok" ELSE "pending"]
  /\ UNCHANGED <<source, body, fate>>

(* Released with an error, at any time. *)
Fail(c) ==
  /\ reply[c] = "pending"
  /\ reply' = [reply EXCEPT ![c] = "error"]
  /\ UNCHANGED <<source, got, body, fate>>

Next ==
  \/ \E c \in Clients, f \in Fetches : Attach(c, f)
  \/ \E f \in Fetches, n \in Lengths, last \in BOOLEAN : Store(f, n, last)
  \/ \E f \in Fetches, n \in Lengths, S \in SUBSET Clients : Break(f, n, S)
  \/ \E c \in Clients, n \in Lengths, last \in BOOLEAN : Send(c, n, last)
  \/ \E c \in Clients : Fail(c)

Spec == Init /\ [][Next]_vars
=============================================================================
