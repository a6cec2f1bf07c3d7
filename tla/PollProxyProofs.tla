-------------------------- MODULE PollProxyProofs ---------------------------
(***************************************************************************)
(* Proofs about the poll proxy, for any number of clients, keys and        *)
(* descriptors, whatever origins and sockets do.                           *)
(***************************************************************************)
EXTENDS PollListProofs

(* What is being sent on a descriptor. *)
ReplyWriter == [data : Clients \cup {Nobody, Request}, written : Nat,
                action : {"none", "read", "pause", "clean"}]

Types ==
  /\ clientAt \in [Fds -> Clients \cup {Nobody}]
  /\ clientParsers \subseteq Fds
  /\ writers \in [Fds -> ReplyWriter]
  /\ cache \in [Keys -> Clients \cup {Nobody}]
  /\ loaders \in [Fds -> Clients \cup {Nobody}]
  /\ waiting \in [Clients -> SUBSET Fds]
  /\ fetch \in [Clients -> {"absent", "loading", "done", "failed"}]
  /\ client \in [Clients -> {"new", "asking", "waiting", "ok", "error"}]
  /\ key \in [Clients -> Keys]
  /\ joined \in [Clients -> Clients \cup {Nobody}]

(* A connection has one number at most, and none before it is accepted.    *)
(* While a client's request is being read, it has no entry.                *)
Numbers ==
  /\ \A f, g \in Fds : clientAt[f] = clientAt[g] /\ clientAt[f] # Nobody
       => f = g
  /\ \A f \in clientParsers :
       clientAt[f] # Nobody => client[clientAt[f]] = "asking"
  /\ \A c \in Clients :
       client[c] = "new" => \A f \in Fds : clientAt[f] # c
  /\ \A c \in Clients : client[c] \in {"new", "asking"} => fetch[c] = "absent"

(* One number loads an entry, and only as long as it is loading. *)
Downloads ==
  /\ \A f \in Fds : loaders[f] # Nobody => fetch[loaders[f]] = "loading"
  /\ \A f, g \in Fds : loaders[f] = loaders[g] /\ loaders[f] # Nobody => f = g

(* An entry that a request is filed with has been made. *)
Filed == \A c \in Clients : joined[c] # Nobody => fetch[joined[c]] # "absent"

(* NobodyForgotten, and a request that has been read is filed. *)
Found ==
  \A f \in Fds : clientAt[f] # Nobody /\ f \notin clientParsers =>
    LET e == joined[clientAt[f]]
    IN  /\ e # Nobody
        /\ \/ f \in waiting[e] /\ fetch[e] = "loading"
           \/ writers[f].action = "clean" /\ fetch[e] = "done"

IInv == Types /\ Numbers /\ Downloads /\ Filed /\ CacheUsable /\ Found

USE PollAssumption DEF Entries
-----------------------------------------------------------------------------

(* The lowest free number exists, if one is free. *)
LEMMA LowestFree == Free # {} => NewFd \in Free /\ clientAt[NewFd] = Nobody
<1> SUFFICES ASSUME Free # {} PROVE NewFd \in Free /\ clientAt[NewFd] = Nobody
  OBVIOUS
<1>1. \E f \in Free : \A g \in Free : f <= g
  BY Least DEF Free
<1>2. NewFd \in Free
  BY <1>1, Zenon DEF NewFd
<1> QED
  BY <1>2 DEF Free, Open

(* What Serve does to the writers. *)
LEMMA Served ==
  ASSUME Types, NEW e \in Clients, NEW action \in {"pause", "clean"}
  PROVE  /\ Serve(e, action) \in [Fds -> ReplyWriter]
         /\ \A f \in Fds : writers[f].action = "clean"
                            => Serve(e, action)[f].action = "clean"
         /\ action = "clean" =>
              \A f \in waiting[e] : Serve(e, action)[f].action = "clean"
  BY SMT DEF Types, Serve, NoWriter, ReplyWriter

(* The client whose request is being read, and its key. *)
LEMMA Asker ==
  ASSUME Types, NEW f \in clientParsers, clientAt[f] # Nobody
  PROVE  /\ clientAt[f] \in Clients /\ key[clientAt[f]] \in Keys
         /\ cache[key[clientAt[f]]] \in Clients \cup {Nobody}
<1>1. f \in Fds /\ clientAt[f] \in Clients
  BY DEF Types
<1> QED
  BY <1>1 DEF Types

(* A client whose request is being read has no entry yet. *)
LEMMA Asking ==
  ASSUME Types, Numbers, NEW f \in clientParsers, clientAt[f] # Nobody
  PROVE  clientAt[f] \in Clients /\ fetch[clientAt[f]] = "absent"
<1>1. f \in Fds /\ clientAt[f] \in Clients
  BY DEF Types
<1> QED
  BY <1>1 DEF Numbers

(* What the invariant is about. *)
about == <<clientAt, clientParsers, writers, cache, loaders, waiting, fetch,
           client, key, joined>>

(* poll() itself, a client that has not sent all yet and a number without  *)
(* a handler change nothing of it.                                         *)
LEMMA Quiet ==
  ASSUME \/ UNCHANGED vars
         \/ \E S \in SUBSET DOMAIN polled : Poll(S)
         \/ Dies
         \/ \E f \in Fds : ReadMore(f) \/ WhatIsIt(f)
  PROVE  UNCHANGED about
  BY Zenon DEF vars, about, Poll, Dies, ReadMore, WhatIsIt, sockets,
               tables, entries, customers

LEMMA TypesStep == IInv /\ [Next]_vars => Types'
<1> SUFFICES ASSUME IInv, [Next]_vars PROVE Types'
  OBVIOUS
<1>i. Types
  BY DEF IInv
<1>j. CacheUsable
  BY DEF IInv
<1>1. CASE UNCHANGED about
  BY <1>1, <1>i, Zenon DEF about, Types
<1>2. CASE Connect
  <2>1. PICK c \in Clients :
          /\ NewFd \in Fds /\ clientAt[NewFd] = Nobody
          /\ client' = [client EXCEPT ![c] = "asking"]
          /\ clientAt' = [clientAt EXCEPT ![NewFd] = c]
          /\ clientParsers' = clientParsers \cup {NewFd}
          /\ UNCHANGED <<writers, cache, loaders, waiting, fetch, key, joined>>
    BY <1>2, LowestFree DEF Connect, Turn, entries, Free
  <2>2. clientAt' \in [Fds -> Clients \cup {Nobody}]
    BY <1>i, <2>1, SMT DEF Types
  <2>3. clientParsers' \subseteq Fds
    BY <1>i, <2>1, SMT DEF Types
  <2>4. client' \in [Clients -> {"new", "asking", "waiting", "ok", "error"}]
    BY <1>i, <2>1, SMT DEF Types
  <2> QED
    BY <1>i, <2>1, <2>2, <2>3, <2>4 DEF Types
<1>3. ASSUME NEW f \in Fds, RejectRequest(f)
      PROVE  Types'
  <2>1. /\ clientAt' = [clientAt EXCEPT ![f] = Nobody]
        /\ clientParsers' = clientParsers \ {f}
        /\ client' = IF clientAt[f] = Nobody THEN client
                     ELSE [client EXCEPT ![clientAt[f]] = "error"]
        /\ UNCHANGED <<writers, cache, loaders, waiting, fetch, key, joined>>
    BY <1>3 DEF RejectRequest, Ends, entries
  <2>2. clientAt' \in [Fds -> Clients \cup {Nobody}]
    BY <1>i, <2>1, SMT DEF Types
  <2>3. clientParsers' \subseteq Fds
    BY <1>i, <2>1, SMT DEF Types
  <2>4. client' \in [Clients -> {"new", "asking", "waiting", "ok", "error"}]
    BY <1>i, <2>1, SMT DEF Types
  <2> QED
    BY <1>i, <2>1, <2>2, <2>3, <2>4 DEF Types
<1>4. ASSUME NEW f \in Fds, AnswerFromCache(f)
      PROVE  Types'
  <2>1. /\ f \in clientParsers /\ clientAt[f] # Nobody
        /\ cache[key[clientAt[f]]] # Nobody
             /\ fetch[cache[key[clientAt[f]]]] = "done"
        /\ writers' = [writers EXCEPT ![f] =
                       [data |-> cache[key[clientAt[f]]], written |-> 0,
                         action |-> "clean"]]
        /\ clientParsers' = clientParsers \ {f}
        /\ client' = [client EXCEPT ![clientAt[f]] = "waiting"]
        /\ joined' = [joined EXCEPT ![clientAt[f]] = cache[key[clientAt[f]]]]
        /\ UNCHANGED <<clientAt, cache, loaders, waiting, fetch, key>>
    BY <1>4 DEF AnswerFromCache, Sends, Asks, Loaded, Files, sockets, entries
  <2>c. clientAt[f] \in Clients /\ key[clientAt[f]] \in Keys
        /\ cache[key[clientAt[f]]] \in Clients
    BY <1>i, <2>1, Asker
  <2>2. clientParsers' \subseteq Fds
    <3>1. clientParsers' = clientParsers \ {f}
      BY <2>1
    <3> QED
      BY <1>i, <3>1 DEF Types
  <2>3. writers' \in [Fds -> ReplyWriter]
    <3>1. [data |-> cache[key[clientAt[f]]], written |-> 0, action |-> "clean"]
            \in ReplyWriter
      BY <1>i, <2>1, <2>c, SMT DEF Types, ReplyWriter
    <3> QED
      BY <1>i, <2>1, <3>1 DEF Types
  <2>4. client' \in [Clients -> {"new", "asking", "waiting", "ok", "error"}]
    <3>1. client' = [client EXCEPT ![clientAt[f]] = "waiting"]
      BY <2>1
    <3> QED
      BY <1>i, <2>c, <3>1, SMT DEF Types
  <2>5. joined' \in [Clients -> Clients \cup {Nobody}]
    <3>1. joined' = [joined EXCEPT ![clientAt[f]] = cache[key[clientAt[f]]]]
      BY <2>1
    <3> QED
      BY <1>i, <2>c, <3>1, SMT DEF Types
  <2> QED
    BY <1>i, <2>1, <2>2, <2>3, <2>4, <2>5 DEF Types
<1>5. ASSUME NEW f \in Fds, AwaitLoading(f)
      PROVE  Types'
  <2>1. /\ f \in clientParsers /\ clientAt[f] # Nobody
        /\ cache[key[clientAt[f]]] # Nobody
             /\ fetch[cache[key[clientAt[f]]]] # "done"
        /\ waiting' = [waiting EXCEPT ![cache[key[clientAt[f]]]] =
                       waiting[cache[key[clientAt[f]]]] \cup {f}]
        /\ clientParsers' = clientParsers \ {f}
        /\ client' = [client EXCEPT ![clientAt[f]] = "waiting"]
        /\ joined' = [joined EXCEPT ![clientAt[f]] = cache[key[clientAt[f]]]]
        /\ UNCHANGED <<clientAt, writers, cache, loaders, fetch, key>>
    BY <1>5 DEF AwaitLoading, Sends, Asks, Loaded, Files, sockets
  <2>c. clientAt[f] \in Clients /\ key[clientAt[f]] \in Keys
        /\ cache[key[clientAt[f]]] \in Clients
    BY <1>i, <2>1, Asker
  <2>2. clientParsers' \subseteq Fds
    <3>1. clientParsers' = clientParsers \ {f}
      BY <2>1
    <3> QED
      BY <1>i, <3>1 DEF Types
  <2>3. waiting' \in [Clients -> SUBSET Fds]
    <3>1. waiting' = [waiting EXCEPT ![cache[key[clientAt[f]]]] =
                       waiting[cache[key[clientAt[f]]]] \cup {f}]
      BY <2>1
    <3> QED
      BY <1>i, <2>c, <3>1, SMT DEF Types
  <2>4. client' \in [Clients -> {"new", "asking", "waiting", "ok", "error"}]
    <3>1. client' = [client EXCEPT ![clientAt[f]] = "waiting"]
      BY <2>1
    <3> QED
      BY <1>i, <2>c, <3>1, SMT DEF Types
  <2>5. joined' \in [Clients -> Clients \cup {Nobody}]
    <3>1. joined' = [joined EXCEPT ![clientAt[f]] = cache[key[clientAt[f]]]]
      BY <2>1
    <3> QED
      BY <1>i, <2>c, <3>1, SMT DEF Types
  <2> QED
    BY <1>i, <2>1, <2>2, <2>3, <2>4, <2>5 DEF Types
<1>6. ASSUME NEW f \in Fds, StartDownload(f)
      PROVE  Types'
  <2>1. /\ f \in clientParsers /\ clientAt[f] # Nobody
        /\ NewFd \in Fds /\ clientAt[NewFd] = Nobody
        /\ cache' = [cache EXCEPT ![key[clientAt[f]]] = clientAt[f]]
        /\ fetch' = [fetch EXCEPT ![clientAt[f]] = "loading"]
        /\ waiting' = [waiting EXCEPT ![clientAt[f]] = {f}]
        /\ clientParsers' = clientParsers \ {f}
        /\ client' = [client EXCEPT ![clientAt[f]] = "waiting"]
        /\ joined' = [joined EXCEPT ![clientAt[f]] = clientAt[f]]
        /\ writers' = [writers EXCEPT ![NewFd] =
                       [data |-> Request, written |-> 0, action |-> "read"]]
        /\ loaders' = [loaders EXCEPT ![NewFd] = clientAt[f]]
        /\ UNCHANGED <<clientAt, key>>
    BY <1>6, LowestFree DEF StartDownload, NewEntry, Sends, Asks, Files, Free
  <2>c. clientAt[f] \in Clients /\ key[clientAt[f]] \in Keys
    BY <1>i, <2>1, Asker
  <2>2. clientParsers' \subseteq Fds
    <3>1. clientParsers' = clientParsers \ {f}
      BY <2>1
    <3> QED
      BY <1>i, <3>1 DEF Types
  <2>3. writers' \in [Fds -> ReplyWriter]
    <3>1. [data |-> Request, written |-> 0, action |-> "read"] \in ReplyWriter
      BY SMT DEF ReplyWriter
    <3>2. \A r \in ReplyWriter :
            [writers EXCEPT ![NewFd] = r] \in [Fds -> ReplyWriter]
      BY <1>i DEF Types
    <3> DEFINE r == [data |-> Request, written |-> 0, action |-> "read"]
    <3>3. writers' = [writers EXCEPT ![NewFd] = r]
      BY <2>1
    <3>4. r \in ReplyWriter
      BY <3>1
    <3> HIDE DEF r
    <3> QED
      BY <3>2, <3>3, <3>4
  <2>4. cache' \in [Keys -> Clients \cup {Nobody}]
    <3>1. cache' = [cache EXCEPT ![key[clientAt[f]]] = clientAt[f]]
      BY <2>1
    <3> QED
      BY <1>i, <2>c, <3>1, SMT DEF Types
  <2>5. loaders' \in [Fds -> Clients \cup {Nobody}]
    <3>1. NewFd \in Fds /\ loaders' = [loaders EXCEPT ![NewFd] = clientAt[f]]
      BY <2>1
    <3> QED
      BY <1>i, <2>c, <3>1, SMT DEF Types
  <2>6. waiting' \in [Clients -> SUBSET Fds]
    <3>1. waiting' = [waiting EXCEPT ![clientAt[f]] = {f}]
      BY <2>1
    <3> QED
      BY <1>i, <2>c, <3>1, SMT DEF Types
  <2>7. fetch' \in [Clients -> {"absent", "loading", "done", "failed"}]
    <3>1. fetch' = [fetch EXCEPT ![clientAt[f]] = "loading"]
      BY <2>1
    <3> QED
      BY <1>i, <2>c, <3>1, SMT DEF Types
  <2>8. client' \in [Clients -> {"new", "asking", "waiting", "ok", "error"}]
    <3>1. client' = [client EXCEPT ![clientAt[f]] = "waiting"]
      BY <2>1
    <3> QED
      BY <1>i, <2>c, <3>1, SMT DEF Types
  <2>9. joined' \in [Clients -> Clients \cup {Nobody}]
    <3>1. joined' = [joined EXCEPT ![clientAt[f]] = clientAt[f]]
      BY <2>1
    <3> QED
      BY <1>i, <2>c, <3>1, SMT DEF Types
  <2> QED
    BY <1>i, <2>1, <2>2, <2>3, <2>4, <2>5, <2>6, <2>7, <2>8, <2>9 DEF Types
<1>7. ASSUME NEW f \in Fds, StartWithoutSocket(f)
      PROVE  Types'
  <2>1. /\ f \in clientParsers /\ clientAt[f] # Nobody
        /\ cache' = [cache EXCEPT ![key[clientAt[f]]] = clientAt[f]]
        /\ fetch' = [fetch EXCEPT ![clientAt[f]] = "loading"]
        /\ waiting' = [waiting EXCEPT ![clientAt[f]] = {f}]
        /\ clientParsers' = clientParsers \ {f}
        /\ client' = [client EXCEPT ![clientAt[f]] = "waiting"]
        /\ joined' = [joined EXCEPT ![clientAt[f]] = clientAt[f]]
        /\ UNCHANGED <<clientAt, writers, loaders, key>>
    BY <1>7 DEF StartWithoutSocket, NewEntry, Sends, Asks, Files, sockets
  <2>c. clientAt[f] \in Clients /\ key[clientAt[f]] \in Keys
    BY <1>i, <2>1, Asker
  <2>2. clientParsers' \subseteq Fds
    <3>1. clientParsers' = clientParsers \ {f}
      BY <2>1
    <3> QED
      BY <1>i, <3>1 DEF Types
  <2>3. cache' \in [Keys -> Clients \cup {Nobody}]
    <3>1. cache' = [cache EXCEPT ![key[clientAt[f]]] = clientAt[f]]
      BY <2>1
    <3> QED
      BY <1>i, <2>c, <3>1, SMT DEF Types
  <2>4. waiting' \in [Clients -> SUBSET Fds]
    <3>1. waiting' = [waiting EXCEPT ![clientAt[f]] = {f}]
      BY <2>1
    <3> QED
      BY <1>i, <2>c, <3>1, SMT DEF Types
  <2>5. fetch' \in [Clients -> {"absent", "loading", "done", "failed"}]
    <3>1. fetch' = [fetch EXCEPT ![clientAt[f]] = "loading"]
      BY <2>1
    <3> QED
      BY <1>i, <2>c, <3>1, SMT DEF Types
  <2>6. client' \in [Clients -> {"new", "asking", "waiting", "ok", "error"}]
    <3>1. client' = [client EXCEPT ![clientAt[f]] = "waiting"]
      BY <2>1
    <3> QED
      BY <1>i, <2>c, <3>1, SMT DEF Types
  <2>7. joined' \in [Clients -> Clients \cup {Nobody}]
    <3>1. joined' = [joined EXCEPT ![clientAt[f]] = clientAt[f]]
      BY <2>1
    <3> QED
      BY <1>i, <2>c, <3>1, SMT DEF Types
  <2> QED
    BY <1>i, <2>1, <2>2, <2>3, <2>4, <2>5, <2>6, <2>7 DEF Types
<1>8. ASSUME NEW f \in Fds, NEW n \in 0..BufSize, LoadSome(f, n)
      PROVE  Types'
  <2>1. /\ loaders[f] # Nobody
        /\ writers' = Serve(loaders[f], "pause")
        /\ UNCHANGED <<clientAt, clientParsers, cache, loaders, waiting,
             fetch, client, key, joined>>
    BY <1>8 DEF LoadSome, Answers, Loads, sockets, customers
  <2>2. writers' \in [Fds -> ReplyWriter]
    <3>1. loaders[f] \in Clients
      BY <1>i, <2>1, SMT DEF Types
    <3> QED
      BY <1>i, <2>1, <3>1, Served
  <2> QED
    BY <1>i, <2>1, <2>2 DEF Types
<1>9. ASSUME NEW f \in Fds, NEW n \in 0..BufSize, NEW b \in BOOLEAN,
        LoadLast(f, n, b)
      PROVE  Types'
  <2>1. /\ loaders[f] # Nobody
        /\ writers' = Serve(loaders[f], "clean")
        /\ waiting' = [waiting EXCEPT ![loaders[f]] = {}]
        /\ fetch' = [fetch EXCEPT ![loaders[f]] = "done"]
        /\ cache' \in {cache, [cache EXCEPT ![key[loaders[f]]] = Nobody]}
        /\ loaders' = [loaders EXCEPT ![f] = Nobody]
        /\ UNCHANGED <<clientAt, clientParsers, client, key, joined>>
    BY <1>9 DEF LoadLast, Answers, Loads, Uncached, customers
  <2>2. writers' \in [Fds -> ReplyWriter]
    <3>1. loaders[f] \in Clients
      BY <1>i, <2>1, SMT DEF Types
    <3> QED
      BY <1>i, <2>1, <3>1, Served
  <2>3. waiting' \in [Clients -> SUBSET Fds]
    BY <1>i, <2>1, SMT DEF Types
  <2>4. fetch' \in [Clients -> {"absent", "loading", "done", "failed"}]
    BY <1>i, <2>1, SMT DEF Types
  <2>5. cache' \in [Keys -> Clients \cup {Nobody}]
    BY <1>i, <2>1, SMT DEF Types
  <2>6. loaders' \in [Fds -> Clients \cup {Nobody}]
    BY <1>i, <2>1, SMT DEF Types
  <2> QED
    BY <1>i, <2>1, <2>2, <2>3, <2>4, <2>5, <2>6 DEF Types
<1>10. ASSUME NEW f \in Fds, LoadFails(f)
      PROVE  Types'
  <2>1. /\ loaders[f] # Nobody
        /\ clientAt' = [g \in Fds |-> IF g \in waiting[loaders[f]] \cup {f}
                                  THEN Nobody ELSE clientAt[g]]
        /\ client' = [c \in Clients |->
               IF \E g \in waiting[loaders[f]] \cup {f} : clientAt[g] = c
               THEN "error" ELSE client[c]]
        /\ waiting' = [waiting EXCEPT ![loaders[f]] = {}]
        /\ fetch' = [fetch EXCEPT ![loaders[f]] = "failed"]
        /\ cache' = [cache EXCEPT ![key[loaders[f]]] = Nobody]
        /\ loaders' = [loaders EXCEPT ![f] = Nobody]
        /\ UNCHANGED <<clientParsers, writers, key, joined>>
    BY <1>10 DEF LoadFails, Loads, Uncached
  <2>2. clientAt' \in [Fds -> Clients \cup {Nobody}]
    BY <1>i, <2>1, SMT DEF Types
  <2>3. client' \in [Clients -> {"new", "asking", "waiting", "ok", "error"}]
    BY <1>i, <2>1, SMT DEF Types
  <2>4. waiting' \in [Clients -> SUBSET Fds]
    BY <1>i, <2>1, SMT DEF Types
  <2>5. fetch' \in [Clients -> {"absent", "loading", "done", "failed"}]
    BY <1>i, <2>1, SMT DEF Types
  <2>6. cache' \in [Keys -> Clients \cup {Nobody}]
    BY <1>i, <2>1, SMT DEF Types
  <2>7. loaders' \in [Fds -> Clients \cup {Nobody}]
    BY <1>i, <2>1, SMT DEF Types
  <2> QED
    BY <1>i, <2>1, <2>2, <2>3, <2>4, <2>5, <2>6, <2>7 DEF Types
<1>11. ASSUME NEW f \in Fds, NEW n \in 0..BufSize, WriteSome(f, n)
      PROVE  Types'
  <2>1. /\ \/ /\ writers' = [writers EXCEPT ![f] = NoWriter]
                /\ clientAt' = [clientAt EXCEPT ![f] = Nobody]
                /\ client' = IF clientAt[f] = Nobody THEN client
                             ELSE [client EXCEPT ![clientAt[f]] = "ok"]
             \/ /\ writers' = [writers EXCEPT ![f] = NoWriter]
                /\ writers[f].action # "clean"
                /\ UNCHANGED <<clientAt, client>>
             \/ /\ writers' = [writers EXCEPT ![f] =
                               [writers[f] EXCEPT !.written =
                                 writers[f].written + n]]
                /\ UNCHANGED <<clientAt, client>>
        /\ UNCHANGED <<clientParsers, cache, loaders, waiting, fetch, key,
             joined>>
    <3>1. CASE HasAll(f, n) /\ writers[f].action = "clean"
      BY <1>11, <3>1 DEF WriteSome, Written, Ends, sockets, entries
    <3>2. CASE HasAll(f, n) /\ writers[f].action \notin {"clean", "pause"}
      BY <1>11, <3>2 DEF WriteSome, Written, Ends, sockets, entries
    <3>3. CASE ~HasAll(f, n) \/ writers[f].action = "pause"
      BY <1>11, <3>3 DEF WriteSome, Written, Ends, sockets, entries
    <3> QED
      BY <3>1, <3>2, <3>3
  <2>2. clientAt' \in [Fds -> Clients \cup {Nobody}]
    BY <1>i, <2>1, SMT DEF Types
  <2>3. client' \in [Clients -> {"new", "asking", "waiting", "ok", "error"}]
    BY <1>i, <2>1, SMT DEF Types
  <2>4. writers' \in [Fds -> ReplyWriter]
    <3>1. NoWriter \in ReplyWriter
      BY SMT DEF NoWriter, ReplyWriter
    <3>2. writers[f] \in ReplyWriter
      BY <1>i DEF Types
    <3>3. [writers[f] EXCEPT !.written = writers[f].written + n]
            \in ReplyWriter
      BY <3>2, SMT DEF ReplyWriter
    <3> QED
      BY <1>i, <2>1, <3>1, <3>3, SMT DEF Types
  <2> QED
    BY <1>i, <2>1, <2>2, <2>3, <2>4 DEF Types
<1>12. ASSUME NEW f \in Fds, WriteFails(f)
      PROVE  Types'
  <2>1. /\ clientAt' = [clientAt EXCEPT ![f] = Nobody]
        /\ writers' = [writers EXCEPT ![f] = NoWriter]
        /\ waiting' = IF writers[f].data = Request THEN waiting
                     ELSE [waiting EXCEPT ![writers[f].data] =
                             waiting[writers[f].data] \ {f}]
        /\ client' = IF clientAt[f] = Nobody THEN client
                     ELSE [client EXCEPT ![clientAt[f]] = "error"]
        /\ UNCHANGED <<clientParsers, cache, loaders, fetch, key, joined>>
    BY <1>12 DEF WriteFails, Ends
  <2>2. clientAt' \in [Fds -> Clients \cup {Nobody}]
    BY <1>i, <2>1, SMT DEF Types
  <2>3. client' \in [Clients -> {"new", "asking", "waiting", "ok", "error"}]
    BY <1>i, <2>1, SMT DEF Types
  <2>4. waiting' \in [Clients -> SUBSET Fds]
    <3>1. waiting \in [Clients -> SUBSET Fds]
      BY <1>i DEF Types
    <3>2. ASSUME NEW x
          PROVE  [waiting EXCEPT ![x] = waiting[x] \ {f}]
            \in [Clients -> SUBSET Fds]
      <4>1. CASE x \in Clients
        <5>1. waiting[x] \ {f} \in SUBSET Fds
          BY <3>1, <4>1
        <5> QED
          BY <3>1, <4>1, <5>1
      <4>2. CASE x \notin Clients
        <5>1. [waiting EXCEPT ![x] = waiting[x] \ {f}] = waiting
          BY <3>1, <4>2
        <5> QED
          BY <3>1, <5>1
      <4> QED
        BY <4>1, <4>2
    <3> QED
      BY <2>1, <3>1, <3>2
  <2>5. writers' \in [Fds -> ReplyWriter]
    <3>1. NoWriter \in ReplyWriter
      BY SMT DEF NoWriter, ReplyWriter
    <3> QED
      BY <1>i, <2>1, <3>1, SMT DEF Types
  <2> QED
    BY <1>i, <2>1, <2>2, <2>3, <2>4, <2>5 DEF Types
<1> QED
  BY <1>1, <1>2, <1>3, <1>4, <1>5, <1>6, <1>7, <1>8, <1>9, <1>10, <1>11,
    <1>12, Quiet
     DEF Next, Dispatch, ReadFromClient, ReadFromResource, Write, Idle

LEMMA NumbersStep == IInv /\ [Next]_vars => Numbers'
<1> SUFFICES ASSUME IInv, [Next]_vars PROVE Numbers'
  OBVIOUS
<1>t. /\ clientAt \in [Fds -> Clients \cup {Nobody}]
      /\ clientParsers \subseteq Fds
      /\ client \in [Clients -> {"new", "asking", "waiting", "ok", "error"}]
      /\ fetch \in [Clients -> {"absent", "loading", "done", "failed"}]
      /\ loaders \in [Fds -> Clients \cup {Nobody}]
      /\ waiting \in [Clients -> SUBSET Fds]
  BY DEF IInv, Types
<1>i. Numbers /\ Downloads
  BY DEF IInv
<1>1. CASE UNCHANGED about
  BY <1>1, <1>i, Zenon DEF about, Numbers
<1>2. CASE Connect
  <2>1. /\ NewFd \in Fds /\ clientAt[NewFd] = Nobody
        /\ \E c \in Clients : client[c] = "new"
             /\ client' = [client EXCEPT ![c] = "asking"]
             /\ clientAt' = [clientAt EXCEPT ![NewFd] = c]
        /\ clientParsers' = clientParsers \cup {NewFd}
        /\ fetch' = fetch
    BY <1>2, LowestFree DEF Connect, Turn, entries, Free
  <2> QED
    BY <1>t, <1>i, <2>1, SMT DEF Numbers, Downloads
<1>3. ASSUME NEW f \in Fds, RejectRequest(f)
      PROVE  Numbers'
  <2>1. /\ clientAt' = [clientAt EXCEPT ![f] = Nobody]
        /\ clientParsers' = clientParsers \ {f}
        /\ client' = IF clientAt[f] = Nobody THEN client
                     ELSE [client EXCEPT ![clientAt[f]] = "error"]
        /\ fetch' = fetch
    BY <1>3 DEF RejectRequest, Ends, entries
  <2> QED
    BY <1>t, <1>i, <2>1, SMT DEF Numbers, Downloads
<1>4. ASSUME NEW f \in Fds, AnswerFromCache(f)
      PROVE  Numbers'
  <2>1. /\ f \in clientParsers /\ clientAt[f] # Nobody
        /\ clientParsers' = clientParsers \ {f}
        /\ client' = [client EXCEPT ![clientAt[f]] = "waiting"]
        /\ UNCHANGED <<clientAt, fetch>>
    BY <1>4 DEF AnswerFromCache, Sends, Asks, Loaded, Files, sockets, entries
  <2> QED
    BY <1>t, <1>i, <2>1, SMT DEF Numbers, Downloads
<1>5. ASSUME NEW f \in Fds, AwaitLoading(f)
      PROVE  Numbers'
  <2>1. /\ f \in clientParsers /\ clientAt[f] # Nobody
        /\ clientParsers' = clientParsers \ {f}
        /\ client' = [client EXCEPT ![clientAt[f]] = "waiting"]
        /\ UNCHANGED <<clientAt, fetch>>
    BY <1>5 DEF AwaitLoading, Sends, Asks, Loaded, Files, sockets
  <2> QED
    BY <1>t, <1>i, <2>1, SMT DEF Numbers, Downloads
<1>6. ASSUME NEW f \in Fds, StartDownload(f)
      PROVE  Numbers'
  <2>1. /\ f \in clientParsers /\ clientAt[f] # Nobody
        /\ NewFd \in Fds /\ clientAt[NewFd] = Nobody
        /\ fetch' = [fetch EXCEPT ![clientAt[f]] = "loading"]
        /\ clientParsers' = clientParsers \ {f}
        /\ client' = [client EXCEPT ![clientAt[f]] = "waiting"]
        /\ clientAt' = clientAt
    BY <1>6, LowestFree DEF StartDownload, NewEntry, Sends, Asks, Files, Free
  <2> QED
    BY <1>t, <1>i, <2>1, SMT DEF Numbers, Downloads
<1>7. ASSUME NEW f \in Fds, StartWithoutSocket(f)
      PROVE  Numbers'
  <2>1. /\ f \in clientParsers /\ clientAt[f] # Nobody
        /\ fetch' = [fetch EXCEPT ![clientAt[f]] = "loading"]
        /\ clientParsers' = clientParsers \ {f}
        /\ client' = [client EXCEPT ![clientAt[f]] = "waiting"]
        /\ clientAt' = clientAt
    BY <1>7 DEF StartWithoutSocket, NewEntry, Sends, Asks, Files, sockets
  <2> QED
    BY <1>t, <1>i, <2>1, SMT DEF Numbers, Downloads
<1>8. ASSUME NEW f \in Fds, NEW n \in 0..BufSize, LoadSome(f, n)
      PROVE  Numbers'
  <2>1. /\ loaders[f] # Nobody
        /\ UNCHANGED <<clientAt, clientParsers, client, fetch>>
    BY <1>8 DEF LoadSome, Answers, Loads, sockets, customers
  <2> QED
    BY <1>t, <1>i, <2>1, SMT DEF Numbers, Downloads
<1>9. ASSUME NEW f \in Fds, NEW n \in 0..BufSize, NEW b \in BOOLEAN,
        LoadLast(f, n, b)
      PROVE  Numbers'
  <2>1. /\ loaders[f] # Nobody
        /\ fetch' = [fetch EXCEPT ![loaders[f]] = "done"]
        /\ UNCHANGED <<clientAt, clientParsers, client>>
    BY <1>9 DEF LoadLast, Answers, Loads, Uncached, customers
  <2> QED
    BY <1>t, <1>i, <2>1, SMT DEF Numbers, Downloads
<1>10. ASSUME NEW f \in Fds, LoadFails(f)
      PROVE  Numbers'
  <2>1. /\ loaders[f] # Nobody
        /\ clientAt' = [g \in Fds |-> IF g \in waiting[loaders[f]] \cup {f}
                                  THEN Nobody ELSE clientAt[g]]
        /\ client' = [c \in Clients |->
               IF \E g \in waiting[loaders[f]] \cup {f} : clientAt[g] = c
               THEN "error" ELSE client[c]]
        /\ fetch' = [fetch EXCEPT ![loaders[f]] = "failed"]
        /\ clientParsers' = clientParsers
    BY <1>10 DEF LoadFails, Loads, Uncached
  <2>2. \A g \in Fds : clientAt'[g] \in {clientAt[g], Nobody}
    BY <1>t, <2>1, SMT
  <2>3. \A c \in Clients :
          \/ client'[c] = client[c]
          \/ client'[c] = "error" /\ \A g \in Fds : clientAt'[g] # c
    BY <1>t, <1>i, <2>1, SMT DEF Numbers
  <2>4. \A c \in Clients : fetch'[c] = "absent" <=> fetch[c] = "absent"
    BY <1>t, <1>i, <2>1, SMT DEF Downloads
  <2>5. clientParsers' = clientParsers
    BY <2>1
  <2>6. \A g, h \in Fds :
          clientAt'[g] = clientAt'[h] /\ clientAt'[g] # Nobody => g = h
    BY <1>i, <2>2, SMT DEF Numbers
  <2>7. \A g \in clientParsers : clientAt'[g] # Nobody
          => client'[clientAt'[g]] = "asking"
    <3> SUFFICES ASSUME NEW g \in clientParsers, clientAt'[g] # Nobody
                 PROVE  client'[clientAt'[g]] = "asking"
      OBVIOUS
    <3>1. g \in Fds /\ clientAt'[g] = clientAt[g] /\ clientAt[g] \in Clients
      BY <1>t, <2>2
    <3>2. client[clientAt[g]] = "asking"
      BY <1>i, <3>1 DEF Numbers
    <3> QED
      BY <2>3, <3>1, <3>2
  <2>8. \A c \in Clients :
          client'[c] = "new" => \A g \in Fds : clientAt'[g] # c
    BY <1>t, <1>i, <2>2, <2>3, SMT DEF Numbers
  <2>9. \A c \in Clients : client'[c] \in {"new", "asking"}
          => fetch'[c] = "absent"
    BY <1>i, <2>3, <2>4, SMT DEF Numbers
  <2> QED
    BY <2>5, <2>6, <2>7, <2>8, <2>9, Zenon DEF Numbers
<1>11. ASSUME NEW f \in Fds, NEW n \in 0..BufSize, WriteSome(f, n)
      PROVE  Numbers'
  <2>1. /\ \/ /\ writers' = [writers EXCEPT ![f] = NoWriter]
                /\ clientAt' = [clientAt EXCEPT ![f] = Nobody]
                /\ client' = IF clientAt[f] = Nobody THEN client
                             ELSE [client EXCEPT ![clientAt[f]] = "ok"]
             \/ /\ writers' = [writers EXCEPT ![f] = NoWriter]
                /\ writers[f].action # "clean"
                /\ UNCHANGED <<clientAt, client>>
             \/ /\ writers' = [writers EXCEPT ![f] =
                               [writers[f] EXCEPT !.written =
                                 writers[f].written + n]]
                /\ UNCHANGED <<clientAt, client>>
        /\ UNCHANGED <<clientParsers, fetch>>
    <3>1. CASE HasAll(f, n) /\ writers[f].action = "clean"
      BY <1>11, <3>1 DEF WriteSome, Written, Ends, sockets, entries
    <3>2. CASE HasAll(f, n) /\ writers[f].action \notin {"clean", "pause"}
      BY <1>11, <3>2 DEF WriteSome, Written, Ends, sockets, entries
    <3>3. CASE ~HasAll(f, n) \/ writers[f].action = "pause"
      BY <1>11, <3>3 DEF WriteSome, Written, Ends, sockets, entries
    <3> QED
      BY <3>1, <3>2, <3>3
  <2> QED
    BY <1>t, <1>i, <2>1, SMT DEF Numbers, Downloads
<1>12. ASSUME NEW f \in Fds, WriteFails(f)
      PROVE  Numbers'
  <2>1. /\ clientAt' = [clientAt EXCEPT ![f] = Nobody]
        /\ client' = IF clientAt[f] = Nobody THEN client
                     ELSE [client EXCEPT ![clientAt[f]] = "error"]
        /\ UNCHANGED <<clientParsers, fetch>>
    BY <1>12 DEF WriteFails, Ends
  <2> QED
    BY <1>t, <1>i, <2>1, SMT DEF Numbers, Downloads
<1> QED
  BY <1>1, <1>2, <1>3, <1>4, <1>5, <1>6, <1>7, <1>8, <1>9, <1>10, <1>11,
    <1>12, Quiet
     DEF Next, Dispatch, ReadFromClient, ReadFromResource, Write, Idle

LEMMA DownloadsStep == IInv /\ [Next]_vars => Downloads'
<1> SUFFICES ASSUME IInv, [Next]_vars PROVE Downloads'
  OBVIOUS
<1>t. /\ loaders \in [Fds -> Clients \cup {Nobody}]
      /\ fetch \in [Clients -> {"absent", "loading", "done", "failed"}]
      /\ clientAt \in [Fds -> Clients \cup {Nobody}]
  BY DEF IInv, Types
<1>i. Downloads /\ Numbers
  BY DEF IInv
<1>1. CASE UNCHANGED about
  BY <1>1, <1>i, Zenon DEF about, Downloads
<1>2. CASE Connect
  <2>1. /\ NewFd \in Fds /\ clientAt[NewFd] = Nobody
        /\ UNCHANGED <<loaders, fetch>>
    BY <1>2, LowestFree DEF Connect, Turn, entries, Free
  <2> QED
    BY <1>t, <1>i, <2>1, SMT DEF Downloads, Numbers
<1>3. ASSUME NEW f \in Fds, RejectRequest(f)
      PROVE  Downloads'
  <2>1. /\ UNCHANGED <<loaders, fetch>>
    BY <1>3 DEF RejectRequest, Ends, entries
  <2> QED
    BY <1>t, <1>i, <2>1, SMT DEF Downloads, Numbers
<1>4. ASSUME NEW f \in Fds, AnswerFromCache(f)
      PROVE  Downloads'
  <2>1. /\ f \in clientParsers /\ clientAt[f] # Nobody
        /\ UNCHANGED <<loaders, fetch>>
    BY <1>4 DEF AnswerFromCache, Sends, Asks, Loaded, Files, sockets, entries
  <2> QED
    BY <1>t, <1>i, <2>1, SMT DEF Downloads, Numbers
<1>5. ASSUME NEW f \in Fds, AwaitLoading(f)
      PROVE  Downloads'
  <2>1. /\ f \in clientParsers /\ clientAt[f] # Nobody
        /\ UNCHANGED <<loaders, fetch>>
    BY <1>5 DEF AwaitLoading, Sends, Asks, Loaded, Files, sockets
  <2> QED
    BY <1>t, <1>i, <2>1, SMT DEF Downloads, Numbers
<1>6. ASSUME NEW f \in Fds, StartDownload(f)
      PROVE  Downloads'
  <2>1. /\ f \in clientParsers /\ clientAt[f] # Nobody
        /\ NewFd \in Fds /\ clientAt[NewFd] = Nobody
        /\ fetch' = [fetch EXCEPT ![clientAt[f]] = "loading"]
        /\ loaders' = [loaders EXCEPT ![NewFd] = clientAt[f]]
    BY <1>6, LowestFree DEF StartDownload, NewEntry, Sends, Asks, Files, Free
  <2> QED
    BY <1>t, <1>i, <2>1, SMT DEF Downloads, Numbers
<1>7. ASSUME NEW f \in Fds, StartWithoutSocket(f)
      PROVE  Downloads'
  <2>1. /\ f \in clientParsers /\ clientAt[f] # Nobody
        /\ fetch' = [fetch EXCEPT ![clientAt[f]] = "loading"]
        /\ loaders' = loaders
    BY <1>7 DEF StartWithoutSocket, NewEntry, Sends, Asks, Files, sockets
  <2> QED
    BY <1>t, <1>i, <2>1, SMT DEF Downloads, Numbers
<1>8. ASSUME NEW f \in Fds, NEW n \in 0..BufSize, LoadSome(f, n)
      PROVE  Downloads'
  <2>1. /\ loaders[f] # Nobody
        /\ UNCHANGED <<loaders, fetch>>
    BY <1>8 DEF LoadSome, Answers, Loads, sockets, customers
  <2> QED
    BY <1>t, <1>i, <2>1, SMT DEF Downloads, Numbers
<1>9. ASSUME NEW f \in Fds, NEW n \in 0..BufSize, NEW b \in BOOLEAN,
        LoadLast(f, n, b)
      PROVE  Downloads'
  <2>1. /\ loaders[f] # Nobody
        /\ fetch' = [fetch EXCEPT ![loaders[f]] = "done"]
        /\ loaders' = [loaders EXCEPT ![f] = Nobody]
    BY <1>9 DEF LoadLast, Answers, Loads, Uncached, customers
  <2> QED
    BY <1>t, <1>i, <2>1, SMT DEF Downloads, Numbers
<1>10. ASSUME NEW f \in Fds, LoadFails(f)
      PROVE  Downloads'
  <2>1. /\ loaders[f] # Nobody
        /\ fetch' = [fetch EXCEPT ![loaders[f]] = "failed"]
        /\ loaders' = [loaders EXCEPT ![f] = Nobody]
    BY <1>10 DEF LoadFails, Loads, Uncached
  <2> QED
    BY <1>t, <1>i, <2>1, SMT DEF Downloads, Numbers
<1>11. ASSUME NEW f \in Fds, NEW n \in 0..BufSize, WriteSome(f, n)
      PROVE  Downloads'
  <2>1. /\ UNCHANGED <<loaders, fetch>>
    BY <1>11 DEF WriteSome, Written, Ends, sockets, entries
  <2> QED
    BY <1>t, <1>i, <2>1, SMT DEF Downloads, Numbers
<1>12. ASSUME NEW f \in Fds, WriteFails(f)
      PROVE  Downloads'
  <2>1. /\ UNCHANGED <<loaders, fetch>>
    BY <1>12 DEF WriteFails, Ends
  <2> QED
    BY <1>t, <1>i, <2>1, SMT DEF Downloads, Numbers
<1> QED
  BY <1>1, <1>2, <1>3, <1>4, <1>5, <1>6, <1>7, <1>8, <1>9, <1>10, <1>11,
    <1>12, Quiet
     DEF Next, Dispatch, ReadFromClient, ReadFromResource, Write, Idle

LEMMA FiledStep == IInv /\ [Next]_vars => Filed'
<1> SUFFICES ASSUME IInv, [Next]_vars PROVE Filed'
  OBVIOUS
<1>t. /\ joined \in [Clients -> Clients \cup {Nobody}]
      /\ fetch \in [Clients -> {"absent", "loading", "done", "failed"}]
      /\ clientAt \in [Fds -> Clients \cup {Nobody}]
      /\ key \in [Clients -> Keys]
      /\ cache \in [Keys -> Clients \cup {Nobody}]
      /\ loaders \in [Fds -> Clients \cup {Nobody}]
  BY DEF IInv, Types
<1>i. Filed /\ CacheUsable
  BY DEF IInv
<1>1. CASE UNCHANGED about
  BY <1>1, <1>i, Zenon DEF about, Filed
<1>2. CASE Connect
  <2>1. /\ UNCHANGED <<joined, fetch>>
    BY <1>2 DEF Connect, Turn, entries, Free
  <2> QED
    BY <1>t, <1>i, <2>1, SMT DEF Filed, CacheUsable
<1>3. ASSUME NEW f \in Fds, RejectRequest(f)
      PROVE  Filed'
  <2>1. /\ UNCHANGED <<joined, fetch>>
    BY <1>3 DEF RejectRequest, Ends, entries
  <2> QED
    BY <1>t, <1>i, <2>1, SMT DEF Filed, CacheUsable
<1>4. ASSUME NEW f \in Fds, AnswerFromCache(f)
      PROVE  Filed'
  <2>1. /\ f \in clientParsers /\ clientAt[f] # Nobody
        /\ cache[key[clientAt[f]]] # Nobody
             /\ fetch[cache[key[clientAt[f]]]] = "done"
        /\ joined' = [joined EXCEPT ![clientAt[f]] = cache[key[clientAt[f]]]]
        /\ fetch' = fetch
    BY <1>4 DEF AnswerFromCache, Sends, Asks, Loaded, Files, sockets, entries
  <2> QED
    BY <1>t, <1>i, <2>1, SMT DEF Filed, CacheUsable
<1>5. ASSUME NEW f \in Fds, AwaitLoading(f)
      PROVE  Filed'
  <2>1. /\ f \in clientParsers /\ clientAt[f] # Nobody
        /\ cache[key[clientAt[f]]] # Nobody
             /\ fetch[cache[key[clientAt[f]]]] # "done"
        /\ joined' = [joined EXCEPT ![clientAt[f]] = cache[key[clientAt[f]]]]
        /\ fetch' = fetch
    BY <1>5 DEF AwaitLoading, Sends, Asks, Loaded, Files, sockets
  <2> QED
    BY <1>t, <1>i, <2>1, SMT DEF Filed, CacheUsable
<1>6. ASSUME NEW f \in Fds, StartDownload(f)
      PROVE  Filed'
  <2>1. /\ f \in clientParsers /\ clientAt[f] # Nobody
        /\ fetch' = [fetch EXCEPT ![clientAt[f]] = "loading"]
        /\ joined' = [joined EXCEPT ![clientAt[f]] = clientAt[f]]
    BY <1>6 DEF StartDownload, NewEntry, Sends, Asks, Files, Free
  <2> QED
    BY <1>t, <1>i, <2>1, SMT DEF Filed, CacheUsable
<1>7. ASSUME NEW f \in Fds, StartWithoutSocket(f)
      PROVE  Filed'
  <2>1. /\ f \in clientParsers /\ clientAt[f] # Nobody
        /\ fetch' = [fetch EXCEPT ![clientAt[f]] = "loading"]
        /\ joined' = [joined EXCEPT ![clientAt[f]] = clientAt[f]]
    BY <1>7 DEF StartWithoutSocket, NewEntry, Sends, Asks, Files, sockets
  <2> QED
    BY <1>t, <1>i, <2>1, SMT DEF Filed, CacheUsable
<1>8. ASSUME NEW f \in Fds, NEW n \in 0..BufSize, LoadSome(f, n)
      PROVE  Filed'
  <2>1. /\ loaders[f] # Nobody
        /\ UNCHANGED <<joined, fetch>>
    BY <1>8 DEF LoadSome, Answers, Loads, sockets, customers
  <2> QED
    BY <1>t, <1>i, <2>1, SMT DEF Filed, CacheUsable
<1>9. ASSUME NEW f \in Fds, NEW n \in 0..BufSize, NEW b \in BOOLEAN,
        LoadLast(f, n, b)
      PROVE  Filed'
  <2>1. /\ loaders[f] # Nobody
        /\ fetch' = [fetch EXCEPT ![loaders[f]] = "done"]
        /\ joined' = joined
    BY <1>9 DEF LoadLast, Answers, Loads, Uncached, customers
  <2> QED
    BY <1>t, <1>i, <2>1, SMT DEF Filed, CacheUsable
<1>10. ASSUME NEW f \in Fds, LoadFails(f)
      PROVE  Filed'
  <2>1. /\ loaders[f] # Nobody
        /\ fetch' = [fetch EXCEPT ![loaders[f]] = "failed"]
        /\ joined' = joined
    BY <1>10 DEF LoadFails, Loads, Uncached
  <2> QED
    BY <1>t, <1>i, <2>1, SMT DEF Filed, CacheUsable
<1>11. ASSUME NEW f \in Fds, NEW n \in 0..BufSize, WriteSome(f, n)
      PROVE  Filed'
  <2>1. /\ UNCHANGED <<joined, fetch>>
    BY <1>11 DEF WriteSome, Written, Ends, sockets, entries
  <2> QED
    BY <1>t, <1>i, <2>1, SMT DEF Filed, CacheUsable
<1>12. ASSUME NEW f \in Fds, WriteFails(f)
      PROVE  Filed'
  <2>1. /\ UNCHANGED <<joined, fetch>>
    BY <1>12 DEF WriteFails, Ends
  <2> QED
    BY <1>t, <1>i, <2>1, SMT DEF Filed, CacheUsable
<1> QED
  BY <1>1, <1>2, <1>3, <1>4, <1>5, <1>6, <1>7, <1>8, <1>9, <1>10, <1>11,
    <1>12, Quiet
     DEF Next, Dispatch, ReadFromClient, ReadFromResource, Write, Idle

LEMMA CacheUsableStep == IInv /\ [Next]_vars => CacheUsable'
<1> SUFFICES ASSUME IInv, [Next]_vars PROVE CacheUsable'
  OBVIOUS
<1>t. /\ cache \in [Keys -> Clients \cup {Nobody}]
      /\ key \in [Clients -> Keys]
      /\ fetch \in [Clients -> {"absent", "loading", "done", "failed"}]
      /\ clientAt \in [Fds -> Clients \cup {Nobody}]
      /\ loaders \in [Fds -> Clients \cup {Nobody}]
  BY DEF IInv, Types
<1>i. CacheUsable /\ Numbers
  BY DEF IInv
<1>1. CASE UNCHANGED about
  BY <1>1, <1>i, Zenon DEF about, CacheUsable
<1>2. CASE Connect
  <2>1. /\ UNCHANGED <<cache, key, fetch>>
    BY <1>2 DEF Connect, Turn, entries, Free
  <2> QED
    BY <1>t, <1>i, <2>1, SMT DEF CacheUsable, Numbers
<1>3. ASSUME NEW f \in Fds, RejectRequest(f)
      PROVE  CacheUsable'
  <2>1. /\ UNCHANGED <<cache, key, fetch>>
    BY <1>3 DEF RejectRequest, Ends, entries
  <2> QED
    BY <1>t, <1>i, <2>1, SMT DEF CacheUsable, Numbers
<1>4. ASSUME NEW f \in Fds, AnswerFromCache(f)
      PROVE  CacheUsable'
  <2>1. /\ f \in clientParsers /\ clientAt[f] # Nobody
        /\ UNCHANGED <<cache, key, fetch>>
    BY <1>4 DEF AnswerFromCache, Sends, Asks, Loaded, Files, sockets, entries
  <2> QED
    BY <1>t, <1>i, <2>1, SMT DEF CacheUsable, Numbers
<1>5. ASSUME NEW f \in Fds, AwaitLoading(f)
      PROVE  CacheUsable'
  <2>1. /\ f \in clientParsers /\ clientAt[f] # Nobody
        /\ UNCHANGED <<cache, key, fetch>>
    BY <1>5 DEF AwaitLoading, Sends, Asks, Loaded, Files, sockets
  <2> QED
    BY <1>t, <1>i, <2>1, SMT DEF CacheUsable, Numbers
<1>6. ASSUME NEW f \in Fds, StartDownload(f)
      PROVE  CacheUsable'
  <2>1. /\ f \in clientParsers /\ clientAt[f] # Nobody
        /\ cache[key[clientAt[f]]] = Nobody
        /\ cache' = [cache EXCEPT ![key[clientAt[f]]] = clientAt[f]]
        /\ fetch' = [fetch EXCEPT ![clientAt[f]] = "loading"]
        /\ key' = key
    BY <1>6 DEF StartDownload, NewEntry, Sends, Asks, Files, Free
  <2>2. clientAt[f] \in Clients /\ fetch[clientAt[f]] = "absent"
    BY <2>1, Asking DEF IInv
  <2> QED
    BY <1>t, <1>i, <2>1, <2>2, SMT DEF CacheUsable
<1>7. ASSUME NEW f \in Fds, StartWithoutSocket(f)
      PROVE  CacheUsable'
  <2>1. /\ f \in clientParsers /\ clientAt[f] # Nobody
        /\ cache[key[clientAt[f]]] = Nobody
        /\ cache' = [cache EXCEPT ![key[clientAt[f]]] = clientAt[f]]
        /\ fetch' = [fetch EXCEPT ![clientAt[f]] = "loading"]
        /\ key' = key
    BY <1>7 DEF StartWithoutSocket, NewEntry, Sends, Asks, Files, sockets
  <2>2. clientAt[f] \in Clients /\ fetch[clientAt[f]] = "absent"
    BY <2>1, Asking DEF IInv
  <2> QED
    BY <1>t, <1>i, <2>1, <2>2, SMT DEF CacheUsable
<1>8. ASSUME NEW f \in Fds, NEW n \in 0..BufSize, LoadSome(f, n)
      PROVE  CacheUsable'
  <2>1. /\ loaders[f] # Nobody
        /\ UNCHANGED <<cache, key, fetch>>
    BY <1>8 DEF LoadSome, Answers, Loads, sockets, customers
  <2> QED
    BY <1>t, <1>i, <2>1, SMT DEF CacheUsable, Numbers
<1>9. ASSUME NEW f \in Fds, NEW n \in 0..BufSize, NEW b \in BOOLEAN,
        LoadLast(f, n, b)
      PROVE  CacheUsable'
  <2>1. /\ loaders[f] # Nobody
        /\ fetch' = [fetch EXCEPT ![loaders[f]] = "done"]
        /\ cache' \in {cache, [cache EXCEPT ![key[loaders[f]]] = Nobody]}
        /\ key' = key
    BY <1>9 DEF LoadLast, Answers, Loads, Uncached, customers
  <2> QED
    BY <1>t, <1>i, <2>1, SMT DEF CacheUsable, Numbers
<1>10. ASSUME NEW f \in Fds, LoadFails(f)
      PROVE  CacheUsable'
  <2>1. /\ loaders[f] # Nobody
        /\ fetch' = [fetch EXCEPT ![loaders[f]] = "failed"]
        /\ cache' = [cache EXCEPT ![key[loaders[f]]] = Nobody]
        /\ key' = key
    BY <1>10 DEF LoadFails, Loads, Uncached
  <2> QED
    BY <1>t, <1>i, <2>1, SMT DEF CacheUsable, Numbers
<1>11. ASSUME NEW f \in Fds, NEW n \in 0..BufSize, WriteSome(f, n)
      PROVE  CacheUsable'
  <2>1. /\ UNCHANGED <<cache, key, fetch>>
    BY <1>11 DEF WriteSome, Written, Ends, sockets, entries
  <2> QED
    BY <1>t, <1>i, <2>1, SMT DEF CacheUsable, Numbers
<1>12. ASSUME NEW f \in Fds, WriteFails(f)
      PROVE  CacheUsable'
  <2>1. /\ UNCHANGED <<cache, key, fetch>>
    BY <1>12 DEF WriteFails, Ends
  <2> QED
    BY <1>t, <1>i, <2>1, SMT DEF CacheUsable, Numbers
<1> QED
  BY <1>1, <1>2, <1>3, <1>4, <1>5, <1>6, <1>7, <1>8, <1>9, <1>10, <1>11,
    <1>12, Quiet
     DEF Next, Dispatch, ReadFromClient, ReadFromResource, Write, Idle

LEMMA FoundStep == IInv /\ [Next]_vars => Found'
<1> SUFFICES ASSUME IInv, [Next]_vars PROVE Found'
  OBVIOUS
<1>t. /\ clientAt \in [Fds -> Clients \cup {Nobody}]
      /\ clientParsers \subseteq Fds
      /\ joined \in [Clients -> Clients \cup {Nobody}]
      /\ waiting \in [Clients -> SUBSET Fds]
      /\ fetch \in [Clients -> {"absent", "loading", "done", "failed"}]
      /\ writers \in [Fds -> ReplyWriter]
      /\ key \in [Clients -> Keys]
      /\ cache \in [Keys -> Clients \cup {Nobody}]
      /\ loaders \in [Fds -> Clients \cup {Nobody}]
  BY DEF IInv, Types
<1>i. Found /\ Numbers /\ Downloads /\ Filed /\ CacheUsable
  BY DEF IInv
<1>1. CASE UNCHANGED about
  BY <1>1, <1>i, Zenon DEF about, Found
<1>2. CASE Connect
  <2>1. /\ NewFd \in Fds /\ clientAt[NewFd] = Nobody
        /\ \E c \in Clients : client[c] = "new"
             /\ client' = [client EXCEPT ![c] = "asking"]
             /\ clientAt' = [clientAt EXCEPT ![NewFd] = c]
        /\ clientParsers' = clientParsers \cup {NewFd}
        /\ UNCHANGED <<joined, waiting, fetch, writers>>
    BY <1>2, LowestFree DEF Connect, Turn, entries, Free
  <2> SUFFICES ASSUME NEW g \in Fds, clientAt'[g] # Nobody,
        g \notin clientParsers'
               PROVE  /\ joined'[clientAt'[g]] # Nobody
                      /\ \/ /\ g \in waiting'[joined'[clientAt'[g]]]
                            /\ fetch'[joined'[clientAt'[g]]] = "loading"
                         \/ /\ writers'[g].action = "clean"
                            /\ fetch'[joined'[clientAt'[g]]] = "done"
    BY Zenon DEF Found
  <2> QED
    BY <1>t, <1>i, <2>1, SMT DEF Found, Numbers, Downloads, Filed, CacheUsable
<1>3. ASSUME NEW f \in Fds, RejectRequest(f)
      PROVE  Found'
  <2>1. /\ clientAt' = [clientAt EXCEPT ![f] = Nobody]
        /\ clientParsers' = clientParsers \ {f}
        /\ UNCHANGED <<joined, waiting, fetch, writers>>
    BY <1>3 DEF RejectRequest, Ends, entries
  <2> SUFFICES ASSUME NEW g \in Fds, clientAt'[g] # Nobody,
        g \notin clientParsers'
               PROVE  /\ joined'[clientAt'[g]] # Nobody
                      /\ \/ /\ g \in waiting'[joined'[clientAt'[g]]]
                            /\ fetch'[joined'[clientAt'[g]]] = "loading"
                         \/ /\ writers'[g].action = "clean"
                            /\ fetch'[joined'[clientAt'[g]]] = "done"
    BY Zenon DEF Found
  <2> QED
    BY <1>t, <1>i, <2>1, SMT DEF Found, Numbers, Downloads, Filed, CacheUsable
<1>4. ASSUME NEW f \in Fds, AnswerFromCache(f)
      PROVE  Found'
  <2>1. /\ f \in clientParsers /\ clientAt[f] # Nobody
        /\ cache[key[clientAt[f]]] # Nobody
             /\ fetch[cache[key[clientAt[f]]]] = "done"
        /\ writers' = [writers EXCEPT ![f] =
                       [data |-> cache[key[clientAt[f]]], written |-> 0,
                         action |-> "clean"]]
        /\ clientParsers' = clientParsers \ {f}
        /\ joined' = [joined EXCEPT ![clientAt[f]] = cache[key[clientAt[f]]]]
        /\ UNCHANGED <<clientAt, waiting, fetch>>
    BY <1>4 DEF AnswerFromCache, Sends, Asks, Loaded, Files, sockets, entries
  <2> SUFFICES ASSUME NEW g \in Fds, clientAt'[g] # Nobody,
        g \notin clientParsers'
               PROVE  /\ joined'[clientAt'[g]] # Nobody
                      /\ \/ /\ g \in waiting'[joined'[clientAt'[g]]]
                            /\ fetch'[joined'[clientAt'[g]]] = "loading"
                         \/ /\ writers'[g].action = "clean"
                            /\ fetch'[joined'[clientAt'[g]]] = "done"
    BY Zenon DEF Found
  <2> QED
    BY <1>t, <1>i, <2>1, SMT DEF Found, Numbers, Downloads, Filed, CacheUsable
<1>5. ASSUME NEW f \in Fds, AwaitLoading(f)
      PROVE  Found'
  <2>1. /\ f \in clientParsers /\ clientAt[f] # Nobody
        /\ cache[key[clientAt[f]]] # Nobody
             /\ fetch[cache[key[clientAt[f]]]] # "done"
        /\ waiting' = [waiting EXCEPT ![cache[key[clientAt[f]]]] =
                       waiting[cache[key[clientAt[f]]]] \cup {f}]
        /\ clientParsers' = clientParsers \ {f}
        /\ joined' = [joined EXCEPT ![clientAt[f]] = cache[key[clientAt[f]]]]
        /\ UNCHANGED <<clientAt, fetch, writers>>
    BY <1>5 DEF AwaitLoading, Sends, Asks, Loaded, Files, sockets
  <2> SUFFICES ASSUME NEW g \in Fds, clientAt'[g] # Nobody,
        g \notin clientParsers'
               PROVE  /\ joined'[clientAt'[g]] # Nobody
                      /\ \/ /\ g \in waiting'[joined'[clientAt'[g]]]
                            /\ fetch'[joined'[clientAt'[g]]] = "loading"
                         \/ /\ writers'[g].action = "clean"
                            /\ fetch'[joined'[clientAt'[g]]] = "done"
    BY Zenon DEF Found
  <2> QED
    BY <1>t, <1>i, <2>1, SMT DEF Found, Numbers, Downloads, Filed, CacheUsable
<1>6. ASSUME NEW f \in Fds, StartDownload(f)
      PROVE  Found'
  <2>1. /\ f \in clientParsers /\ clientAt[f] # Nobody
        /\ NewFd \in Fds /\ clientAt[NewFd] = Nobody
        /\ fetch' = [fetch EXCEPT ![clientAt[f]] = "loading"]
        /\ waiting' = [waiting EXCEPT ![clientAt[f]] = {f}]
        /\ clientParsers' = clientParsers \ {f}
        /\ joined' = [joined EXCEPT ![clientAt[f]] = clientAt[f]]
        /\ writers' = [writers EXCEPT ![NewFd] =
                       [data |-> Request, written |-> 0, action |-> "read"]]
        /\ clientAt' = clientAt
    BY <1>6, LowestFree DEF StartDownload, NewEntry, Sends, Asks, Files, Free
  <2> SUFFICES ASSUME NEW g \in Fds, clientAt'[g] # Nobody,
        g \notin clientParsers'
               PROVE  /\ joined'[clientAt'[g]] # Nobody
                      /\ \/ /\ g \in waiting'[joined'[clientAt'[g]]]
                            /\ fetch'[joined'[clientAt'[g]]] = "loading"
                         \/ /\ writers'[g].action = "clean"
                            /\ fetch'[joined'[clientAt'[g]]] = "done"
    BY Zenon DEF Found
  <2> QED
    BY <1>t, <1>i, <2>1, SMT DEF Found, Numbers, Downloads, Filed, CacheUsable
<1>7. ASSUME NEW f \in Fds, StartWithoutSocket(f)
      PROVE  Found'
  <2>1. /\ f \in clientParsers /\ clientAt[f] # Nobody
        /\ fetch' = [fetch EXCEPT ![clientAt[f]] = "loading"]
        /\ waiting' = [waiting EXCEPT ![clientAt[f]] = {f}]
        /\ clientParsers' = clientParsers \ {f}
        /\ joined' = [joined EXCEPT ![clientAt[f]] = clientAt[f]]
        /\ UNCHANGED <<clientAt, writers>>
    BY <1>7 DEF StartWithoutSocket, NewEntry, Sends, Asks, Files, sockets
  <2> SUFFICES ASSUME NEW g \in Fds, clientAt'[g] # Nobody,
        g \notin clientParsers'
               PROVE  /\ joined'[clientAt'[g]] # Nobody
                      /\ \/ /\ g \in waiting'[joined'[clientAt'[g]]]
                            /\ fetch'[joined'[clientAt'[g]]] = "loading"
                         \/ /\ writers'[g].action = "clean"
                            /\ fetch'[joined'[clientAt'[g]]] = "done"
    BY Zenon DEF Found
  <2>2. clientAt[f] \in Clients /\ fetch[clientAt[f]] = "absent"
    BY <2>1, Asking DEF IInv
  <2>3. CASE g = f
    BY <1>t, <2>1, <2>2, <2>3, SMT
  <2>4. CASE g # f
    <3>1. clientAt[g] # clientAt[f] /\ clientAt[g] # Nobody
            /\ g \notin clientParsers
      <4>1. clientAt[g] # Nobody /\ g \notin clientParsers
        BY <2>1, <2>4
      <4>2. \A h \in Fds : clientAt[g] = clientAt[h] => g = h
        BY <1>i, <4>1 DEF Numbers
      <4> QED
        BY <2>4, <4>1, <4>2
    <3>2. joined'[clientAt[g]] = joined[clientAt[g]]
      BY <1>t, <2>1, <3>1, SMT
    <3>3. joined[clientAt[g]] # clientAt[f] /\ joined[clientAt[g]] \in Clients
      BY <1>t, <1>i, <2>1, <2>2, <3>1, SMT DEF Filed, Found
    <3> QED
      BY <1>t, <1>i, <2>1, <2>2, <3>1, <3>2, <3>3, SMT DEF Found
  <2> QED
    BY <2>3, <2>4
<1>8. ASSUME NEW f \in Fds, NEW n \in 0..BufSize, LoadSome(f, n)
      PROVE  Found'
  <2>1. /\ loaders[f] # Nobody
        /\ writers' = Serve(loaders[f], "pause")
        /\ UNCHANGED <<clientAt, clientParsers, joined, waiting, fetch>>
    BY <1>8 DEF LoadSome, Answers, Loads, sockets, customers
  <2> SUFFICES ASSUME NEW g \in Fds, clientAt'[g] # Nobody,
        g \notin clientParsers'
               PROVE  /\ joined'[clientAt'[g]] # Nobody
                      /\ \/ /\ g \in waiting'[joined'[clientAt'[g]]]
                            /\ fetch'[joined'[clientAt'[g]]] = "loading"
                         \/ /\ writers'[g].action = "clean"
                            /\ fetch'[joined'[clientAt'[g]]] = "done"
    BY Zenon DEF Found
  <2>2. loaders[f] \in Clients /\ Types
    BY <1>t, <2>1 DEF IInv
  <2>3. /\ \A h \in Fds : writers[h].action = "clean"
             => writers'[h].action = "clean"
    BY <2>1, <2>2, Served
  <2>4. joined[clientAt[g]] # Nobody /\ joined[clientAt[g]] \in Clients
    BY <1>t, <1>i, <2>1, SMT DEF Found
  <2> QED
    BY <1>t, <1>i, <2>1, <2>2, <2>3, <2>4, SMT DEF Found, Downloads
<1>9. ASSUME NEW f \in Fds, NEW n \in 0..BufSize, NEW b \in BOOLEAN,
        LoadLast(f, n, b)
      PROVE  Found'
  <2>1. /\ loaders[f] # Nobody
        /\ writers' = Serve(loaders[f], "clean")
        /\ waiting' = [waiting EXCEPT ![loaders[f]] = {}]
        /\ fetch' = [fetch EXCEPT ![loaders[f]] = "done"]
        /\ UNCHANGED <<clientAt, clientParsers, joined>>
    BY <1>9 DEF LoadLast, Answers, Loads, Uncached, customers
  <2> SUFFICES ASSUME NEW g \in Fds, clientAt'[g] # Nobody,
        g \notin clientParsers'
               PROVE  /\ joined'[clientAt'[g]] # Nobody
                      /\ \/ /\ g \in waiting'[joined'[clientAt'[g]]]
                            /\ fetch'[joined'[clientAt'[g]]] = "loading"
                         \/ /\ writers'[g].action = "clean"
                            /\ fetch'[joined'[clientAt'[g]]] = "done"
    BY Zenon DEF Found
  <2>2. loaders[f] \in Clients /\ Types
    BY <1>t, <2>1 DEF IInv
  <2>3. /\ \A h \in Fds : writers[h].action = "clean"
             => writers'[h].action = "clean"
        /\ \A h \in waiting[loaders[f]] : writers'[h].action = "clean"
    BY <2>1, <2>2, Served
  <2>4. joined[clientAt[g]] # Nobody /\ joined[clientAt[g]] \in Clients
    BY <1>t, <1>i, <2>1, SMT DEF Found
  <2> QED
    BY <1>t, <1>i, <2>1, <2>2, <2>3, <2>4, SMT DEF Found, Downloads
<1>10. ASSUME NEW f \in Fds, LoadFails(f)
      PROVE  Found'
  <2>1. /\ loaders[f] # Nobody
        /\ clientAt' = [g \in Fds |-> IF g \in waiting[loaders[f]] \cup {f}
                                  THEN Nobody ELSE clientAt[g]]
        /\ waiting' = [waiting EXCEPT ![loaders[f]] = {}]
        /\ fetch' = [fetch EXCEPT ![loaders[f]] = "failed"]
        /\ UNCHANGED <<clientParsers, joined, writers>>
    BY <1>10 DEF LoadFails, Loads, Uncached
  <2> SUFFICES ASSUME NEW g \in Fds, clientAt'[g] # Nobody,
        g \notin clientParsers'
               PROVE  /\ joined'[clientAt'[g]] # Nobody
                      /\ \/ /\ g \in waiting'[joined'[clientAt'[g]]]
                            /\ fetch'[joined'[clientAt'[g]]] = "loading"
                         \/ /\ writers'[g].action = "clean"
                            /\ fetch'[joined'[clientAt'[g]]] = "done"
    BY Zenon DEF Found
  <2>2. /\ g \notin waiting[loaders[f]] /\ clientAt'[g] = clientAt[g]
        /\ clientAt[g] # Nobody /\ g \notin clientParsers
    BY <2>1
  <2> DEFINE j == joined[clientAt[g]]
  <2>3. j \in Clients
    BY <1>t, <1>i, <2>2 DEF Found
  <2>4. \/ g \in waiting[j] /\ fetch[j] = "loading"
        \/ writers[g].action = "clean" /\ fetch[j] = "done"
    BY <1>i, <2>2 DEF Found
  <2>5. j # loaders[f]
    BY <1>i, <2>1, <2>2, <2>4, SMT DEF Downloads
  <2>6. waiting'[j] = waiting[j] /\ fetch'[j] = fetch[j]
    BY <1>t, <2>1, <2>3, <2>5
  <2>7. joined'[clientAt'[g]] = j
    BY <2>1, <2>2
  <2> QED
    BY <2>1, <2>3, <2>4, <2>6, <2>7
<1>11. ASSUME NEW f \in Fds, NEW n \in 0..BufSize, WriteSome(f, n)
      PROVE  Found'
  <2>1. /\ \/ /\ writers' = [writers EXCEPT ![f] = NoWriter]
                /\ clientAt' = [clientAt EXCEPT ![f] = Nobody]
                /\ client' = IF clientAt[f] = Nobody THEN client
                             ELSE [client EXCEPT ![clientAt[f]] = "ok"]
             \/ /\ writers' = [writers EXCEPT ![f] = NoWriter]
                /\ writers[f].action # "clean"
                /\ UNCHANGED <<clientAt, client>>
             \/ /\ writers' = [writers EXCEPT ![f] =
                               [writers[f] EXCEPT !.written =
                                 writers[f].written + n]]
                /\ UNCHANGED <<clientAt, client>>
        /\ UNCHANGED <<clientParsers, joined, waiting, fetch>>
    <3>1. CASE HasAll(f, n) /\ writers[f].action = "clean"
      BY <1>11, <3>1 DEF WriteSome, Written, Ends, sockets, entries
    <3>2. CASE HasAll(f, n) /\ writers[f].action \notin {"clean", "pause"}
      BY <1>11, <3>2 DEF WriteSome, Written, Ends, sockets, entries
    <3>3. CASE ~HasAll(f, n) \/ writers[f].action = "pause"
      BY <1>11, <3>3 DEF WriteSome, Written, Ends, sockets, entries
    <3> QED
      BY <3>1, <3>2, <3>3
  <2> SUFFICES ASSUME NEW g \in Fds, clientAt'[g] # Nobody,
        g \notin clientParsers'
               PROVE  /\ joined'[clientAt'[g]] # Nobody
                      /\ \/ /\ g \in waiting'[joined'[clientAt'[g]]]
                            /\ fetch'[joined'[clientAt'[g]]] = "loading"
                         \/ /\ writers'[g].action = "clean"
                            /\ fetch'[joined'[clientAt'[g]]] = "done"
    BY Zenon DEF Found
  <2>2. clientAt[g] = clientAt'[g] /\ clientAt[g] # Nobody
          /\ g \notin clientParsers
    BY <1>t, <2>1, SMT
  <2>3. writers[g].action = "clean" => writers'[g].action = "clean"
    BY <1>t, <2>1, <2>2, SMT DEF NoWriter, ReplyWriter
  <2> QED
    BY <1>i, <2>1, <2>2, <2>3, SMT DEF Found
<1>12. ASSUME NEW f \in Fds, WriteFails(f)
      PROVE  Found'
  <2>1. /\ clientAt' = [clientAt EXCEPT ![f] = Nobody]
        /\ writers' = [writers EXCEPT ![f] = NoWriter]
        /\ waiting' = IF writers[f].data = Request THEN waiting
                     ELSE [waiting EXCEPT ![writers[f].data] =
                             waiting[writers[f].data] \ {f}]
        /\ UNCHANGED <<clientParsers, joined, fetch>>
    BY <1>12 DEF WriteFails, Ends
  <2> SUFFICES ASSUME NEW g \in Fds, clientAt'[g] # Nobody,
        g \notin clientParsers'
               PROVE  /\ joined'[clientAt'[g]] # Nobody
                      /\ \/ /\ g \in waiting'[joined'[clientAt'[g]]]
                            /\ fetch'[joined'[clientAt'[g]]] = "loading"
                         \/ /\ writers'[g].action = "clean"
                            /\ fetch'[joined'[clientAt'[g]]] = "done"
    BY Zenon DEF Found
  <2> QED
    BY <1>t, <1>i, <2>1, SMT DEF Found, Numbers, Downloads, Filed,
      CacheUsable, NoWriter
<1> QED
  BY <1>1, <1>2, <1>3, <1>4, <1>5, <1>6, <1>7, <1>8, <1>9, <1>10, <1>11,
    <1>12, Quiet
     DEF Next, Dispatch, ReadFromClient, ReadFromResource, Write, Idle

-----------------------------------------------------------------------------
(* The theorems *)

LEMMA InitInv == Init => IInv
<1> SUFFICES ASSUME Init PROVE IInv
  OBVIOUS
<1>1. Types
  BY SMT DEF Init, Types, NoWriter, ReplyWriter
<1>2. Numbers /\ Downloads /\ Filed /\ CacheUsable /\ Found
  BY SMT DEF Init, Numbers, Downloads, Filed, CacheUsable, Found
<1> QED
  BY <1>1, <1>2 DEF IInv

(* Whatever is refused, broken off, closed or given out anew, the maps     *)
(* agree on who asked for what and who loads it.                           *)
THEOREM Invariance == Spec => []IInv
<1>1. IInv /\ [Next]_vars => IInv'
  BY TypesStep, NumbersStep, DownloadsStep, FiledStep, CacheUsableStep,
     FoundStep DEF IInv
<1> QED
  BY InitInv, <1>1, PTL DEF Spec

(* A key in the cache leads to an entry that was made for it and has not   *)
(* failed (CacheUsable): wherever a download is given up, its key is       *)
(* erased. It does not say that somebody still loads the entry.            *)
THEOREM CacheNeverStale == Spec => []CacheUsable
<1>1. IInv => CacheUsable
  BY DEF IInv
<1> QED
  BY <1>1, Invariance, PTL

(* Every open connection is being read from, waits on an entry that is     *)
(* loading, or is being sent a whole reply (NobodyForgotten): no handler   *)
(* drops one between the maps, not even when a download fails.             *)
THEOREM EverybodyFound == Spec => []NobodyForgotten
<1>1. IInv => NobodyForgotten
  BY SMT DEF IInv, Found, NobodyForgotten
<1> QED
  BY <1>1, Invariance, PTL
-----------------------------------------------------------------------------
(* Every variable keeps its type                                           *)

Lists == polled \in Seq(Item) /\ round \in Seq(Fds \cup {Listen})

Plain ==
  /\ up \in BOOLEAN
  /\ originAt \in [Fds -> Clients \cup {Nobody}]
  /\ resourceParsers \subseteq Fds
  /\ got \in [Clients -> Nat]

(* Nothing is written but what the reply has. *)
WriterFits(f) ==
  \/ writers[f] = NoWriter
  \/ writers[f] \in [data : {Request}, written : {0},
                     action : {"read", "clean"}]
  \/ /\ writers[f] \in [data : Clients, written : Nat,
                        action : {"pause", "clean"}]
     /\ writers[f].written <= size[writers[f].data]

(* Only a download that failed leaves more behind than a reply has. *)
Sizes ==
  /\ size \in [Clients -> 0 .. MaxReply + BufSize]
  /\ \A e \in Clients : fetch[e] # "failed" => size[e] <= MaxReply
  /\ \A f \in Fds : WriterFits(f)

TInv == IInv /\ Lists /\ Plain /\ Sizes

(* A handler has its turn, and the list it leaves is a list. *)
LEMMA ListsStep == TInv /\ [Next]_vars => Lists'
<1> SUFFICES ASSUME TInv, [Next]_vars PROVE Lists'
  OBVIOUS
<1>t. polled \in Seq(Item) /\ round \in Seq(Fds \cup {Listen})
  BY DEF TInv, Lists
<1>w. waiting \in [Clients -> SUBSET Fds] /\ loaders \in [Fds -> Clients \cup {Nobody}]
  BY DEF TInv, IInv, Types
<1>1. CASE UNCHANGED vars \/ Idle
  BY <1>1, <1>t DEF vars, tables, Lists, Idle
<1>2. CASE \E S \in SUBSET DOMAIN polled : Poll(S)
  <2>1. PICK S \in SUBSET DOMAIN polled : Poll(S)
    BY <1>2
  <2>2. round' \in Seq(Fds \cup {Listen})
    BY <1>t, <2>1, PollRound
  <2>3. polled' = polled
    BY <2>1 DEF Poll, tables
  <2> QED
    BY <1>t, <2>2, <2>3 DEF Lists
<1>3. ASSUME NEW f, Turn(f), polled' \in Seq(Item) PROVE Lists'
  BY <1>t, <1>3, TurnRound DEF Lists
<1>4. CASE Connect
  <2>1. Turn(Listen) /\ NewFd \in Fds /\ polled' = AddFd(polled, NewFd, "in")
    BY <1>4, LowestFree DEF Connect, Free
  <2> QED
    BY <1>3, <1>t, <2>1, AddFdType
<1>5. CASE Dies
  BY <1>3, <1>5, <1>t DEF Dies, tables
<1>6. ASSUME NEW f \in Fds, ReadFromClient(f) PROVE Lists'
  <2>1. Turn(f)
    BY <1>6 DEF ReadFromClient, ReadMore, RejectRequest, AnswerFromCache,
         AwaitLoading, StartDownload, StartWithoutSocket, NewEntry, Sends, Asks
  <2>2. \/ polled' = polled
        \/ polled' = RemoveFd(polled, f)
        \/ polled' = RemoveFd(AddFd(polled, f, "out"), f)
        \/ NewFd \in Fds /\ polled' = RemoveFd(AddFd(polled, NewFd, "out"), f)
    BY <1>6, LowestFree
       DEF ReadFromClient, ReadMore, RejectRequest, AnswerFromCache,
           AwaitLoading, StartDownload, StartWithoutSocket, tables, Free
  <2>3. polled' \in Seq(Item)
    BY <1>t, <2>2, RemoveFdType, AddFdType
  <2> QED
    BY <1>3, <2>1, <2>3
<1>7. ASSUME NEW f \in Fds, ReadFromResource(f) PROVE Lists'
  <2>1. Turn(f) /\ loaders[f] # Nobody
    BY <1>7 DEF ReadFromResource, LoadSome, LoadLast, LoadFails, Answers, Loads
  <2>2. waiting[loaders[f]] \in SUBSET Fds
    BY <1>w, <2>1
  <2>3. \/ polled' \in NoticedAll(loaders[f])
        \/ \E list \in NoticedAll(loaders[f]) : polled' = RemoveFd(list, f)
        \/ polled' = RemoveFd(polled, f)
    BY <1>7 DEF ReadFromResource, LoadSome, LoadLast, LoadFails
  <2>4. \A list \in NoticedAll(loaders[f]) : list \in Seq(Item)
    BY <1>t, <2>2, NoticedType
  <2>5. polled' \in Seq(Item)
    BY <1>t, <2>3, <2>4, RemoveFdType
  <2> QED
    BY <1>3, <2>1, <2>5
<1>8. ASSUME NEW f \in Fds, Write(f) PROVE Lists'
  <2>1. Turn(f)
    BY <1>8 DEF Write, WriteSome, WriteFails, Writes
  <2>2. \/ polled' = polled
        \/ \E ev \in {"in", "none"} : polled' = SwitchFd(polled, f, ev)
        \/ polled' = RemoveFd(polled, f)
    BY <1>8 DEF Write, WriteSome, WriteFails
  <2>3. polled' \in Seq(Item)
    BY <1>t, <2>2, RemoveFdType, SwitchFdType
  <2> QED
    BY <1>3, <2>1, <2>3
<1>9. ASSUME NEW f \in Fds, WhatIsIt(f) PROVE Lists'
  BY <1>3, <1>9, <1>t DEF WhatIsIt, tables
<1> QED
  BY <1>1, <1>2, <1>4, <1>5, <1>6, <1>7, <1>8, <1>9 DEF Next, Dispatch

LEMMA PlainStep == TInv /\ [Next]_vars => Plain'
<1> SUFFICES ASSUME TInv, [Next]_vars PROVE Plain'
  OBVIOUS
<1>t. /\ up \in BOOLEAN /\ originAt \in [Fds -> Clients \cup {Nobody}]
      /\ resourceParsers \subseteq Fds /\ got \in [Clients -> Nat]
  BY DEF TInv, Plain
<1>c. clientAt \in [Fds -> Clients \cup {Nobody}]
  BY DEF TInv, IInv, Types
<1>1. CASE UNCHANGED <<originAt, resourceParsers, got>> /\ up' \in {up, FALSE}
  BY <1>1, <1>t DEF Plain
<1>2. ASSUME NEW f \in Fds, RejectRequest(f) \/ WriteFails(f) PROVE Plain'
  <2>1. /\ originAt' = [originAt EXCEPT ![f] = Nobody]
        /\ UNCHANGED <<up, resourceParsers, got>>
    BY <1>2 DEF RejectRequest, WriteFails
  <2> QED
    BY <1>t, <2>1 DEF Plain
<1>3. ASSUME NEW f \in Fds, StartDownload(f) PROVE Plain'
  <2>1. /\ NewFd \in Fds
        /\ originAt' = [originAt EXCEPT ![NewFd] = clientAt[f]]
        /\ UNCHANGED <<up, resourceParsers, got>>
    BY <1>3, LowestFree DEF StartDownload, NewEntry, Files, Free
  <2> QED
    BY <1>c, <1>t, <2>1 DEF Plain
<1>4. ASSUME NEW f \in Fds, NEW n \in 0 .. BufSize, NEW b \in BOOLEAN,
             LoadLast(f, n, b)
      PROVE  Plain'
  <2>1. /\ originAt' = [originAt EXCEPT ![f] = Nobody]
        /\ resourceParsers' = resourceParsers \ {f}
        /\ UNCHANGED <<up, got>>
    BY <1>4 DEF LoadLast, customers
  <2> QED
    BY <1>t, <2>1 DEF Plain
<1>5. ASSUME NEW f \in Fds, LoadFails(f) PROVE Plain'
  <2>1. /\ originAt' = [g \in Fds |-> IF g \in waiting[loaders[f]] \cup {f}
                                      THEN Nobody ELSE originAt[g]]
        /\ resourceParsers' = resourceParsers \ {f}
        /\ UNCHANGED <<up, got>>
    BY <1>5 DEF LoadFails
  <2> QED
    BY <1>t, <2>1 DEF Plain
<1>6. ASSUME NEW f \in Fds, NEW n \in 0 .. BufSize, WriteSome(f, n)
      PROVE  Plain'
  <2>1. /\ up' = up
        /\ originAt' \in {originAt, [originAt EXCEPT ![f] = Nobody]}
        /\ resourceParsers' \in {resourceParsers, resourceParsers \cup {f}}
        /\ got' = IF clientAt[f] = Nobody THEN got
                  ELSE [got EXCEPT ![clientAt[f]] = got[clientAt[f]] + n]
    BY <1>6 DEF WriteSome, sockets
  <2>2. got' \in [Clients -> Nat]
    BY <1>c, <1>t, <2>1
  <2> QED
    BY <1>t, <2>1, <2>2 DEF Plain
<1>7. CASE UNCHANGED vars \/ Idle \/ Connect \/ Dies
           \/ \E S \in SUBSET DOMAIN polled : Poll(S)
  BY <1>1, <1>7 DEF vars, Idle, Connect, Dies, Poll, sockets, tables, customers
<1>8. ASSUME NEW f \in Fds,
             \/ ReadMore(f) \/ AnswerFromCache(f) \/ AwaitLoading(f)
             \/ StartWithoutSocket(f) \/ WhatIsIt(f)
             \/ \E n \in 0 .. BufSize : LoadSome(f, n)
      PROVE  Plain'
  BY <1>1, <1>8 DEF ReadMore, AnswerFromCache, AwaitLoading, NewEntry, Files,
                    StartWithoutSocket, WhatIsIt, LoadSome, sockets, tables,
                    customers
<1> QED
  BY <1>2, <1>3, <1>4, <1>5, <1>6, <1>7, <1>8
     DEF Next, Dispatch, ReadFromClient, ReadFromResource, Write

LEMMA SizesStep == TInv /\ [Next]_vars => Sizes'
<1> SUFFICES ASSUME TInv, [Next]_vars PROVE Sizes'
  OBVIOUS
<1>t. /\ size \in [Clients -> 0 .. MaxReply + BufSize]
      /\ \A e \in Clients : fetch[e] # "failed" => size[e] <= MaxReply
      /\ \A f \in Fds : WriterFits(f)
  BY DEF TInv, Sizes
<1>i. IInv /\ Types /\ Numbers /\ Downloads
  BY DEF TInv, IInv
<1>y. /\ clientAt \in [Fds -> Clients \cup {Nobody}] /\ clientParsers \subseteq Fds
      /\ loaders \in [Fds -> Clients \cup {Nobody}]
      /\ fetch \in [Clients -> {"absent", "loading", "done", "failed"}]
      /\ waiting \in [Clients -> SUBSET Fds]
      /\ writers \in [Fds -> ReplyWriter]
  BY <1>i DEF Types
<1>1. CASE UNCHANGED <<size, fetch, writers>>
  BY <1>1, <1>t, Zenon DEF Sizes, WriterFits
<1>2. ASSUME NEW f \in Fds, AnswerFromCache(f) PROVE Sizes'
  <2> DEFINE e == cache[key[clientAt[f]]]
  <2>1. /\ f \in clientParsers /\ clientAt[f] # Nobody /\ e # Nobody
        /\ writers' = [writers EXCEPT ![f] =
                         [data |-> e, written |-> 0, action |-> "clean"]]
        /\ UNCHANGED <<size, fetch>>
    BY <1>2 DEF AnswerFromCache, Sends, Asks, entries
  <2>2. e \in Clients
    BY <1>i, <2>1, Asker
  <2>3. size[e] >= 0
    BY <1>t, <2>2
  <2>4. \A g \in Fds : WriterFits(g)'
    BY <1>t, <1>y, <2>1, <2>2, <2>3 DEF WriterFits
  <2> QED
    BY <1>t, <2>1, <2>4 DEF Sizes
<1>3. ASSUME NEW f \in Fds, StartDownload(f) PROVE Sizes'
  <2>1. /\ f \in clientParsers /\ clientAt[f] # Nobody /\ NewFd \in Fds
        /\ writers' = [writers EXCEPT ![NewFd] =
                         [data |-> Request, written |-> 0, action |-> "read"]]
        /\ fetch' = [fetch EXCEPT ![clientAt[f]] = "loading"]
        /\ size' = size
    BY <1>3, LowestFree DEF StartDownload, NewEntry, Sends, Asks, Free
  <2>2. clientAt[f] \in Clients /\ fetch[clientAt[f]] = "absent"
    BY <1>i, <2>1, Asking
  <2>3. \A g \in Fds : WriterFits(g)'
    <3> SUFFICES ASSUME NEW g \in Fds PROVE WriterFits(g)'
      OBVIOUS
    <3>1. CASE g = NewFd
      <4>1. writers'[g] = [data |-> Request, written |-> 0, action |-> "read"]
        BY <1>y, <2>1, <3>1
      <4> QED
        BY <4>1 DEF WriterFits
    <3>2. CASE g # NewFd
      <4>1. writers'[g] = writers[g] /\ WriterFits(g)
        BY <1>y, <1>t, <2>1, <3>2
      <4> QED
        BY <2>1, <4>1, Zenon DEF WriterFits
    <3> QED
      BY <3>1, <3>2
  <2>4. \A e \in Clients : fetch'[e] # "failed" => size'[e] <= MaxReply
    BY <1>t, <1>y, <2>1, <2>2
  <2> QED
    BY <1>t, <2>1, <2>3, <2>4 DEF Sizes
<1>4. ASSUME NEW f \in Fds, StartWithoutSocket(f) PROVE Sizes'
  <2>1. /\ f \in clientParsers /\ clientAt[f] # Nobody
        /\ fetch' = [fetch EXCEPT ![clientAt[f]] = "loading"]
        /\ size' = size /\ writers' = writers
    BY <1>4 DEF StartWithoutSocket, NewEntry, Sends, Asks
  <2>2. clientAt[f] \in Clients /\ fetch[clientAt[f]] = "absent"
    BY <1>i, <2>1, Asking
  <2>3. \A g \in Fds : WriterFits(g)'
    BY <1>t, <2>1, Zenon DEF WriterFits
  <2>4. \A e \in Clients : fetch'[e] # "failed" => size'[e] <= MaxReply
    BY <1>t, <1>y, <2>1, <2>2
  <2> QED
    BY <1>t, <2>1, <2>3, <2>4 DEF Sizes
<1>s. ASSUME NEW e \in Clients, NEW m \in Nat, size' = [size EXCEPT ![e] = m],
             m >= size[e], NEW action \in {"pause", "clean"},
             writers' = Serve(e, action)
      PROVE  \A f \in Fds : WriterFits(f)'
  <2> SUFFICES ASSUME NEW f \in Fds PROVE WriterFits(f)'
    OBVIOUS
  <2>1. size'[e] >= 0 /\ \A d \in Clients : size'[d] >= size[d]
    BY <1>s, <1>t
  <2>2. WriterFits(f)
    BY <1>t
  <2>3. CASE f \notin waiting[e] \/ (writers[f] # NoWriter /\ action # "clean")
    <3>0. Serve(e, action)[f] = writers[f]
      <4>1. CASE f \notin waiting[e]
        BY <4>1, Zenon DEF Serve
      <4>2. CASE f \in waiting[e] /\ writers[f] # NoWriter /\ action # "clean"
        BY <4>2, Zenon DEF Serve
      <4> QED
        BY <2>3, <4>1, <4>2
    <3>1. writers'[f] = writers[f]
      BY <1>s, <3>0
    <3>2. ASSUME writers[f].data \in Clients, writers[f].written \in Nat,
                 writers[f].written <= size[writers[f].data]
          PROVE  writers[f].written <= size'[writers[f].data]
      BY <1>s, <1>t, <3>2
    <3> QED
      BY <2>2, <3>1, <3>2 DEF WriterFits
  <2>4. CASE f \in waiting[e] /\ writers[f] = NoWriter
    <3>0. Serve(e, action)[f] = [data |-> e, written |-> 0, action |-> action]
      BY <2>4, SMT DEF Serve
    <3>1. writers'[f] = [data |-> e, written |-> 0, action |-> action]
      BY <1>s, <3>0
    <3> QED
      BY <2>1, <3>1 DEF WriterFits
  <2>5. CASE f \in waiting[e] /\ writers[f] # NoWriter /\ action = "clean"
    <3>0. Serve(e, action)[f] = [writers[f] EXCEPT !.action = "clean"]
      BY <2>5, SMT DEF Serve
    <3>1. writers'[f] = [writers[f] EXCEPT !.action = "clean"]
      BY <1>s, <3>0
    <3>2. CASE writers[f] \in [data : {Request}, written : {0},
                               action : {"read", "clean"}]
      BY <3>1, <3>2 DEF WriterFits
    <3>3. CASE /\ writers[f] \in [data : Clients, written : Nat,
                                  action : {"pause", "clean"}]
               /\ writers[f].written <= size[writers[f].data]
      <4>1. size[writers[f].data] <= size'[writers[f].data]
        BY <2>1, <3>3
      <4>2. /\ writers'[f] \in [data : Clients, written : Nat,
                                action : {"pause", "clean"}]
            /\ writers'[f].written = writers[f].written
            /\ writers'[f].data = writers[f].data
        BY <3>1, <3>3
      <4>3. /\ writers[f].written \in Nat /\ writers[f].data \in Clients
            /\ size[writers[f].data] \in Nat
        BY <1>t, <3>3
      <4>4. size'[writers[f].data] \in Nat
        BY <1>s, <1>t, <4>3
      <4> QED
        BY <3>3, <4>1, <4>2, <4>3, <4>4 DEF WriterFits
    <3> QED
      BY <2>2, <2>5, <3>2, <3>3 DEF WriterFits
  <2> QED
    BY <1>s, <2>3, <2>4, <2>5
<1>5. ASSUME NEW f \in Fds, NEW n \in 0 .. BufSize, LoadSome(f, n)
      PROVE  Sizes'
  <2> DEFINE e == loaders[f]
  <2>1. /\ e # Nobody /\ size[e] + n <= MaxReply
        /\ size' = [size EXCEPT ![e] = size[e] + n]
        /\ writers' = Serve(e, "pause") /\ fetch' = fetch
    BY <1>5 DEF LoadSome, Answers, Loads
  <2>2. e \in Clients /\ size[e] \in Nat /\ n \in Nat
    <3>1. e \in Clients
      BY <1>y, <2>1
    <3> HIDE DEF e
    <3> QED
      BY <1>t, <3>1
  <2> HIDE DEF e
  <2>3. \A g \in Fds : WriterFits(g)'
    <3>1. size[e] + n \in Nat /\ size[e] + n >= size[e]
      BY <2>2
    <3> QED
      BY <1>s, <2>1, <2>2, <3>1, Zenon
  <2>4. /\ size' \in [Clients -> 0 .. MaxReply + BufSize]
        /\ \A d \in Clients : fetch'[d] # "failed" => size'[d] <= MaxReply
    BY <1>t, <2>1, <2>2
  <2> QED
    BY <2>3, <2>4 DEF Sizes
<1>6. ASSUME NEW f \in Fds, NEW n \in 0 .. BufSize, NEW b \in BOOLEAN,
             LoadLast(f, n, b)
      PROVE  Sizes'
  <2> DEFINE e == loaders[f]
  <2>1. /\ e # Nobody /\ size[e] + n \in 1 .. MaxReply
        /\ size' = [size EXCEPT ![e] = size[e] + n]
        /\ writers' = Serve(e, "clean") /\ fetch' = [fetch EXCEPT ![e] = "done"]
    BY <1>6 DEF LoadLast, Answers, Loads
  <2>2. e \in Clients /\ size[e] \in Nat /\ n \in Nat
    <3>1. e \in Clients
      BY <1>y, <2>1
    <3> HIDE DEF e
    <3> QED
      BY <1>t, <3>1
  <2> HIDE DEF e
  <2>3. \A g \in Fds : WriterFits(g)'
    <3>1. size[e] + n \in Nat /\ size[e] + n >= size[e]
      BY <2>2
    <3> QED
      BY <1>s, <2>1, <2>2, <3>1, Zenon
  <2>4. /\ size' \in [Clients -> 0 .. MaxReply + BufSize]
        /\ \A d \in Clients : fetch'[d] # "failed" => size'[d] <= MaxReply
    BY <1>t, <1>y, <2>1, <2>2
  <2> QED
    BY <2>3, <2>4 DEF Sizes
<1>7. ASSUME NEW f \in Fds, LoadFails(f) PROVE Sizes'
  <2> DEFINE e == loaders[f]
  <2>1. /\ e # Nobody /\ size' = [size EXCEPT ![e] = size[e] + BufSize]
        /\ writers' = writers /\ fetch' = [fetch EXCEPT ![e] = "failed"]
    BY <1>7 DEF LoadFails, Loads
  <2>2. e \in Clients /\ fetch[e] = "loading" /\ size[e] \in 0 .. MaxReply
    BY <1>i, <1>t, <1>y, <2>1 DEF Downloads
  <2> HIDE DEF e
  <2>3. /\ size' \in [Clients -> 0 .. MaxReply + BufSize]
        /\ \A d \in Clients : fetch'[d] # "failed" => size'[d] <= MaxReply
        /\ \A d \in Clients : size[d] <= size'[d] /\ size'[d] \in Nat
    BY <1>t, <1>y, <2>1, <2>2
  <2>4. ASSUME NEW g \in Fds PROVE WriterFits(g)'
    <3>1. WriterFits(g) /\ writers'[g] = writers[g]
      BY <1>t, <2>1
    <3>2. ASSUME writers[g].data \in Clients, writers[g].written \in Nat,
                 writers[g].written <= size[writers[g].data]
          PROVE  writers[g].written <= size'[writers[g].data]
      BY <1>t, <2>3, <3>2
    <3> QED
      BY <3>1, <3>2 DEF WriterFits
  <2> QED
    BY <2>3, <2>4 DEF Sizes
<1>8. ASSUME NEW f \in Fds, NEW n \in 0 .. BufSize, WriteSome(f, n)
      PROVE  Sizes'
  <2> DEFINE w == writers[f]
  <2>1. /\ w # NoWriter /\ n \in Taken(f) /\ UNCHANGED <<size, fetch>>
        /\ writers' = [writers EXCEPT ![f] =
                         IF HasAll(f, n) /\ w.action # "pause" THEN NoWriter
                         ELSE [w EXCEPT !.written = w.written + n]]
    BY <1>8 DEF WriteSome, Writes, Written, entries
  <2>2. ASSUME NEW g \in Fds, g # f PROVE WriterFits(g)'
    <3>1. writers'[g] = writers[g] /\ WriterFits(g)
      BY <1>y, <1>t, <2>1, <2>2
    <3> QED
      BY <2>1, <3>1, Zenon DEF WriterFits
  <2>3. WriterFits(f)'
    <3>1. CASE HasAll(f, n) /\ w.action # "pause"
      <4>1. writers'[f] = NoWriter
        BY <1>y, <2>1, <3>1
      <4> QED
        BY <4>1, Zenon DEF WriterFits
    <3>2. CASE ~(HasAll(f, n) /\ w.action # "pause")
      <4>1. writers'[f] = [w EXCEPT !.written = w.written + n]
        BY <1>y, <2>1, <3>2
      <4>2. CASE w \in [data : {Request}, written : {0},
                        action : {"read", "clean"}]
        <5>1. w.data = Request /\ w.written = 0 /\ w.action # "pause"
          BY <4>2
        <5>2. n = 1
          BY <2>1, <5>1 DEF Taken, Length
        <5> QED
          BY <3>2, <5>1, <5>2 DEF HasAll, Written, Length
      <4>3. CASE /\ w \in [data : Clients, written : Nat,
                           action : {"pause", "clean"}]
                 /\ w.written <= size[w.data]
        <5>1. w.data # Request /\ w.data \in Clients /\ w.written \in Nat
              /\ size[w.data] \in Nat
          BY <1>t, <4>3
        <5>2. n \in Nat /\ n <= size[w.data] - w.written
          BY <2>1, <4>3, <5>1 DEF Taken, Length
        <5>3. /\ writers'[f] \in [data : Clients, written : Nat,
                                  action : {"pause", "clean"}]
              /\ writers'[f].written = w.written + n
              /\ writers'[f].data = w.data
          BY <4>1, <4>3, <5>1, <5>2
        <5> QED
          BY <2>1, <5>1, <5>2, <5>3 DEF WriterFits
      <4> QED
        BY <1>t, <2>1, <4>2, <4>3 DEF WriterFits
    <3> QED
      BY <3>1, <3>2
  <2> QED
    BY <1>t, <2>1, <2>2, <2>3 DEF Sizes
<1>9. ASSUME NEW f \in Fds, WriteFails(f) PROVE Sizes'
  <2>1. writers' = [writers EXCEPT ![f] = NoWriter] /\ UNCHANGED <<size, fetch>>
    BY <1>9 DEF WriteFails
  <2>2. \A g \in Fds : writers'[g] = writers[g] \/ writers'[g] = NoWriter
    BY <1>y, <2>1
  <2>3. \A g \in Fds : WriterFits(g)'
    BY <1>t, <2>1, <2>2, Zenon DEF WriterFits
  <2> QED
    BY <1>t, <2>1, <2>3 DEF Sizes
<1>10. CASE UNCHANGED vars \/ Idle \/ Connect \/ Dies
            \/ \E S \in SUBSET DOMAIN polled : Poll(S)
  BY <1>1, <1>10 DEF vars, Idle, Connect, Dies, Poll, tables, entries
<1>11. ASSUME NEW f \in Fds,
              ReadMore(f) \/ RejectRequest(f) \/ AwaitLoading(f) \/ WhatIsIt(f)
       PROVE  Sizes'
  BY <1>1, <1>11 DEF ReadMore, RejectRequest, AwaitLoading, WhatIsIt, tables,
                     entries
<1> QED
  BY <1>2, <1>3, <1>4, <1>5, <1>6, <1>7, <1>8, <1>9, <1>10, <1>11
     DEF Next, Dispatch, ReadFromClient, ReadFromResource, Write

(* Whatever fails, IInv, Lists, Plain and Sizes hold: the strengthening of *)
(* TypeOK and of the two properties above.                                 *)
THEOREM TypeInvariance == Spec => []TInv
<1>1. Init => Lists /\ Plain /\ Sizes
  <2>1. Init => Lists
    BY EmptySeq DEF Init, Lists
  <2>2. Init => Plain
    BY DEF Init, Plain
  <2>3. Init => Sizes
    BY DEF Init, Sizes, WriterFits
  <2> QED
    BY <2>1, <2>2, <2>3
<1>2. TInv /\ IInv' /\ [Next]_vars => TInv'
  BY ListsStep, PlainStep, SizesStep DEF TInv
<1>3. Init => Lists /\ Plain /\ Sizes /\ IInv
  BY <1>1, InitInv
<1>4. IInv /\ Lists /\ Plain /\ Sizes <=> TInv
  BY DEF TInv
<1> QED
  BY <1>2, <1>3, <1>4, Invariance, PTL DEF Spec

(* Whatever fails, every variable keeps its type (TypeOK).  Above all, a   *)
(* writer never claims to have written more than its reply has, although   *)
(* a failed download leaves the size of its buffer behind.                 *)
THEOREM TypeCorrect == Spec => []TypeOK
<1>1. TInv => TypeOK
  <2> SUFFICES ASSUME TInv PROVE TypeOK
    OBVIOUS
  <2>1. /\ Types /\ Lists /\ Plain /\ Sizes
    BY DEF TInv, IInv
  <2>2. ASSUME NEW f \in Fds
        PROVE  \/ writers[f] = NoWriter
               \/ writers[f] \in [data : {Request}, written : {0},
                                  action : {"read", "clean"}]
               \/ writers[f] \in [data : Entries,
                                  written : 0 .. MaxReply + BufSize,
                                  action : {"pause", "clean"}]
    <3>1. WriterFits(f) /\ size \in [Clients -> 0 .. MaxReply + BufSize]
      BY <2>1 DEF Sizes
    <3> QED
      BY <3>1 DEF WriterFits
  <2> QED
    BY <2>1, <2>2 DEF TypeOK, Types, Lists, Plain, Sizes, Item
<1> QED
  BY <1>1, TypeInvariance, PTL
=============================================================================
