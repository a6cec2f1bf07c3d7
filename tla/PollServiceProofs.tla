------------------------- MODULE PollServiceProofs --------------------------
(***************************************************************************)
(* Proofs about the poll proxy while origins neither refuse a connection   *)
(* nor break one off.  Clients may then come, stall, hang up and send      *)
(* nonsense as they like, an origin may still close without a reply, and   *)
(* a read may fail before the first unit is passed on.                     *)
(***************************************************************************)
EXTENDS PollProxyProofs

USE PollAssumption DEF Entries

NoFailures == ~OriginMayRefuse /\ ~OriginMayBreakOff

-----------------------------------------------------------------------------
(* What a number may stand for *)

(* Nobody has it, and no map and no list knows it. *)
IsClosed(f) ==
  /\ clientAt[f] = Nobody /\ originAt[f] = Nobody /\ loaders[f] = Nobody
  /\ f \notin clientParsers /\ f \notin resourceParsers
  /\ writers[f] = NoWriter
  /\ \A e \in Clients : f \notin waiting[e]

(* A client whose request is being read. *)
IsAsking(f) ==
  LET c == clientAt[f]
  IN  /\ c \in Clients /\ originAt[f] = Nobody /\ loaders[f] = Nobody
      /\ f \in clientParsers /\ f \notin resourceParsers
      /\ writers[f] = NoWriter
      /\ \A e \in Clients : f \notin waiting[e]
      /\ client[c] = "asking" /\ joined[c] = Nobody /\ got[c] = 0

(* A client that waits for the first unit of its reply. *)
IsWaiting(f) ==
  LET c == clientAt[f]
      e == joined[clientAt[f]]
  IN  /\ c \in Clients /\ originAt[f] = Nobody /\ loaders[f] = Nobody
      /\ f \notin clientParsers /\ f \notin resourceParsers
      /\ writers[f] = NoWriter
      /\ client[c] = "waiting" /\ got[c] = 0
      /\ e \in Clients /\ fetch[e] = "loading"
      /\ \A d \in Clients : f \in waiting[d] <=> d = e

(* A client that is being sent its reply: one that is loading, or a whole. *)
IsServed(f) ==
  LET c == clientAt[f]
      e == joined[clientAt[f]]
  IN  /\ c \in Clients /\ originAt[f] = Nobody /\ loaders[f] = Nobody
      /\ f \notin clientParsers /\ f \notin resourceParsers
      /\ client[c] = "waiting" /\ e \in Clients
      /\ writers[f].data = e /\ writers[f].written = got[c]
      /\ \/ /\ writers[f].action = "pause" /\ fetch[e] = "loading"
            /\ \A d \in Clients : f \in waiting[d] <=> d = e
         \/ /\ writers[f].action = "clean" /\ fetch[e] = "done"
            /\ \A d \in Clients : f \notin waiting[d]

(* An origin that is being sent its request, or read from. *)
IsOrigin(f) ==
  /\ clientAt[f] = Nobody /\ originAt[f] \in Clients
  /\ loaders[f] = originAt[f] /\ f \notin clientParsers
  /\ \A e \in Clients : f \notin waiting[e]
  /\ \/ /\ f \notin resourceParsers
        /\ writers[f] = [data |-> Request, written |-> 0, action |-> "read"]
     \/ f \in resourceParsers /\ writers[f] = NoWriter

Kind(f) ==
  IsClosed(f) \/ IsAsking(f) \/ IsWaiting(f) \/ IsServed(f) \/ IsOrigin(f)

Kinds == \A f \in Fds : Kind(f)

-----------------------------------------------------------------------------
(* The invariant *)

(* A number is polled, and once, exactly if there is a handler for it. *)
PolledExact ==
  /\ Once(polled)
  /\ \A f \in Fds : f \in Handled <=> \E p \in Items(polled) : p.fd = f

(* Who is polled for nothing has all there is. *)
Paused ==
  \A p \in Items(polled) : p.events = "none" =>
    LET w == writers[p.fd] IN w.action = "pause" /\ w.written = size[w.data]

(* A round names nobody twice, and only those there is a handler for. *)
RoundExact ==
  /\ \A i, j \in DOMAIN round : round[i] = round[j] => i = j
  /\ \A i \in DOMAIN round : round[i] # Listen => round[i] \in Handled

(* Where a connection stands, it stands with its entry. *)
Customers ==
  \A c \in Clients :
    /\ client[c] \in {"new", "asking"} => joined[c] = Nobody /\ got[c] = 0
    /\ client[c] = "ok" => /\ joined[c] \in Clients
                           /\ fetch[joined[c]] = "done"
                           /\ got[c] = size[joined[c]]

SInv == Kinds /\ PolledExact /\ Paused /\ RoundExact /\ Customers

-----------------------------------------------------------------------------
(* Lemmas *)

(* Types, as the steps below need them. *)
LEMMA Typed ==
  ASSUME TInv
  PROVE  /\ polled \in Seq(Item) /\ round \in Seq(Fds \cup {Listen})
         /\ clientAt \in [Fds -> Clients \cup {Nobody}]
         /\ originAt \in [Fds -> Clients \cup {Nobody}]
         /\ clientParsers \subseteq Fds /\ resourceParsers \subseteq Fds
         /\ writers \in [Fds -> ReplyWriter]
         /\ loaders \in [Fds -> Clients \cup {Nobody}]
         /\ waiting \in [Clients -> SUBSET Fds]
         /\ size \in [Clients -> Nat]
         /\ fetch \in [Clients -> {"absent", "loading", "done", "failed"}]
         /\ client \in [Clients -> {"new", "asking", "waiting", "ok", "error"}]
         /\ joined \in [Clients -> Clients \cup {Nobody}]
         /\ got \in [Clients -> Nat]
         /\ Nobody \notin Clients /\ Request \notin Clients
<1>1. size \in [Clients -> Nat]
  BY DEF TInv, Sizes
<1> QED
  BY <1>1 DEF TInv, IInv, Types, Lists, Plain

(* No two numbers are one client's, or load one entry. *)
LEMMA Apart ==
  ASSUME TInv, NEW f \in Fds, NEW g \in Fds, f # g
  PROVE  /\ clientAt[f] # Nobody => clientAt[g] # clientAt[f]
         /\ loaders[f] # Nobody => loaders[g] # loaders[f]
  BY DEF TInv, IInv, Numbers, Downloads

LEMMA HasHandler ==
  ASSUME NEW f \in Fds
  PROVE  f \in Handled <=> f \in clientParsers \/ f \in resourceParsers
                             \/ writers[f] # NoWriter
  BY DEF Handled

(* A free number is known nowhere. *)
LEMMA FreeIsClosed ==
  ASSUME TInv, Kinds, NEW f \in Free
  PROVE  f \in Fds /\ IsClosed(f)
<1>1. f \in Fds /\ clientAt[f] = Nobody /\ originAt[f] = Nobody
  BY DEF Free, Open
<1> QED
  BY <1>1 DEF Kinds, Kind, IsAsking, IsWaiting, IsServed, IsOrigin

(* The step leaves alone what is filed under the number. *)
Same(g) ==
  /\ clientAt'[g] = clientAt[g] /\ originAt'[g] = originAt[g]
  /\ loaders'[g] = loaders[g] /\ writers'[g] = writers[g]
  /\ g \in clientParsers' <=> g \in clientParsers
  /\ g \in resourceParsers' <=> g \in resourceParsers
  /\ \A e \in Clients : g \in waiting'[e] <=> g \in waiting[e]

(* And who has it, and the entry it was filed with. *)
SameClient(g) ==
  LET c == clientAt[g]
  IN  c # Nobody =>
        /\ client'[c] = client[c] /\ joined'[c] = joined[c]
        /\ got'[c] = got[c]
        /\ joined[c] # Nobody => fetch'[joined[c]] = fetch[joined[c]]

LEMMA KindKept ==
  ASSUME TInv, NEW g \in Fds, Kind(g), Same(g), SameClient(g)
  PROVE  Kind(g)'
<1>n. Nobody \notin Clients
  OBVIOUS
<1>1. CASE IsClosed(g)
  <2>1. IsClosed(g)'
    BY <1>1 DEF Same, IsClosed, NoWriter
  <2> QED
    BY <2>1 DEF Kind
<1>2. CASE IsAsking(g)
  <2>1. IsAsking(g)'
    BY <1>n, <1>2 DEF Same, SameClient, IsAsking, NoWriter
  <2> QED
    BY <2>1 DEF Kind
<1>3. CASE IsWaiting(g)
  <2>1. IsWaiting(g)'
    BY <1>n, <1>3 DEF Same, SameClient, IsWaiting, NoWriter
  <2> QED
    BY <2>1 DEF Kind
<1>4. CASE IsServed(g)
  <2>1. IsServed(g)'
    BY <1>n, <1>4 DEF Same, SameClient, IsServed
  <2> QED
    BY <2>1 DEF Kind
<1>5. CASE IsOrigin(g)
  <2>1. IsOrigin(g)'
    BY <1>5 DEF Same, IsOrigin, NoWriter
  <2> QED
    BY <2>1 DEF Kind
<1> QED
  BY <1>1, <1>2, <1>3, <1>4, <1>5 DEF Kind

(* A handler that takes no number but its own from the maps leaves the     *)
(* rest of the round as it should be.                                      *)
LEMMA RoundKept ==
  ASSUME TInv, RoundExact, NEW f, Turn(f),
         \A g \in Fds : g \in Handled /\ g # f => g \in Handled'
  PROVE  RoundExact'
<1>1. /\ round \in Seq(Fds \cup {Listen})
      /\ \A i, j \in DOMAIN round : round[i] = round[j] => i = j
      /\ \A i \in DOMAIN round : round[i] # Listen => round[i] \in Handled
  BY Typed DEF RoundExact
<1>2. /\ round' \in Seq(Fds \cup {Listen})
      /\ \A i, j \in DOMAIN round' : round'[i] = round'[j] => i = j
      /\ \A i \in DOMAIN round' :
           round'[i] # f /\ \E j \in DOMAIN round : round[j] = round'[i]
  BY <1>1, TurnRound
<1>3. ASSUME NEW i \in DOMAIN round', round'[i] # Listen
      PROVE  round'[i] \in Handled'
  <2>1. round'[i] \in Fds \cup {Listen}
    BY <1>2, LenProperties, ElementOfSeq
  <2>2. round'[i] \in Handled /\ round'[i] # f
    BY <1>1, <1>2, <1>3
  <2> QED
    BY <1>3, <2>1, <2>2
<1> QED
  BY <1>2, <1>3, Zenon DEF RoundExact, Listen

-----------------------------------------------------------------------------
(* Every step keeps the invariant: one lemma per action                    *)

LEMMA StillKeeps ==
  ASSUME SInv, UNCHANGED <<sockets, tables, entries, customers>>
  PROVE  Kinds' /\ PolledExact' /\ Paused' /\ Customers' /\ Handled' = Handled
<1>1. UNCHANGED <<clientAt, originAt, polled, clientParsers, resourceParsers,
                  writers, loaders, waiting, size, fetch, client, joined, got>>
  BY DEF sockets, tables, entries, customers
<1>2. Handled' = Handled
  BY <1>1 DEF Handled, NoWriter
<1>3. Kinds'
  BY <1>1 DEF SInv, Kinds, Kind, IsClosed, IsAsking, IsWaiting, IsServed,
              IsOrigin, NoWriter
<1>4. PolledExact'
  BY <1>1, <1>2, Zenon DEF SInv, PolledExact
<1>p. Paused'
  BY <1>1, Zenon DEF SInv, Paused
<1>5. Customers'
  BY <1>1 DEF SInv, Customers
<1> QED
  BY <1>2, <1>3, <1>4, <1>p, <1>5

(* poll() reports who is polled, and so has a handler. *)
LEMMA PollKeeps ==
  ASSUME TInv, SInv, NEW S \in SUBSET DOMAIN polled, Poll(S)
  PROVE  SInv'
<1>1. Kinds' /\ PolledExact' /\ Paused' /\ Customers' /\ Handled' = Handled
  BY StillKeeps DEF Poll
<1>2. /\ round' \in Seq(Fds \cup {Listen})
      /\ \A i \in DOMAIN round' :
           round'[i] # Listen => \E p \in Items(polled) : p.fd = round'[i]
      /\ \A i, j \in DOMAIN round' : round'[i] = round'[j] => i = j
  BY Typed, PollRound DEF SInv, PolledExact
<1>3. ASSUME NEW i \in DOMAIN round', round'[i] # Listen
      PROVE  round'[i] \in Handled'
  <2>1. round'[i] \in Fds
    BY <1>2, <1>3, LenProperties, ElementOfSeq
  <2>2. \E p \in Items(polled) : p.fd = round'[i]
    BY <1>2, <1>3
  <2> QED
    BY <1>1, <2>1, <2>2 DEF SInv, PolledExact
<1>4. RoundExact'
  BY <1>2, <1>3, Zenon DEF RoundExact, Listen
<1> QED
  BY <1>1, <1>4 DEF SInv

LEMMA QuietKeeps ==
  ASSUME TInv, SInv,
         \/ UNCHANGED vars \/ Idle \/ Dies
         \/ \E f \in Fds : ReadMore(f) \/ WhatIsIt(f)
  PROVE  SInv'
<1>1. UNCHANGED <<sockets, tables, entries, customers>>
  BY DEF vars, Idle, Dies, ReadMore, WhatIsIt
<1>2. Kinds' /\ PolledExact' /\ Paused' /\ Customers' /\ Handled' = Handled
  BY <1>1, StillKeeps
<1>3. CASE UNCHANGED round
  BY <1>2, <1>3 DEF SInv, RoundExact, Listen
<1>4. CASE \E f : Turn(f)
  <2>1. PICK f : Turn(f)
    BY <1>4
  <2> QED
    BY <1>2, <2>1, RoundKept DEF SInv
<1> QED
  BY <1>3, <1>4
     DEF vars, Idle, Dies, ReadMore, WhatIsIt, Sends, Asks

LEMMA ConnectKeeps ==
  ASSUME TInv, SInv, Connect
  PROVE  SInv'
<1>1. PICK c \in Clients, h \in Free :
        /\ Turn(Listen) /\ client[c] = "new"
        /\ client' = [client EXCEPT ![c] = "asking"]
        /\ clientAt' = [clientAt EXCEPT ![h] = c]
        /\ polled' = AddFd(polled, h, "in")
        /\ clientParsers' = clientParsers \cup {h}
        /\ UNCHANGED <<originAt, resourceParsers, writers, loaders, waiting,
                       size, fetch, joined, got>>
  BY LowestFree DEF Connect, entries
<1>2. h \in Fds /\ IsClosed(h) /\ Kinds /\ Customers /\ PolledExact
      /\ Paused /\ RoundExact
  BY <1>1, FreeIsClosed DEF SInv
<1>3. \A g \in Fds : clientAt[g] # c
  BY <1>1 DEF TInv, IInv, Numbers
<1>4. \A g \in Fds : g # h => Same(g) /\ SameClient(g)
  BY <1>1, <1>2, <1>3, Typed DEF Same, SameClient
<1>5. IsAsking(h)'
  <2>1. clientAt'[h] = c /\ client'[c] = "asking" /\ h \in clientParsers'
    BY <1>1, <1>2, Typed
  <2>2. joined'[c] = Nobody /\ got'[c] = 0
    BY <1>1, <1>2 DEF Customers
  <2> QED
    BY <1>1, <1>2, <2>1, <2>2 DEF IsClosed, IsAsking, NoWriter
<1>6. Kinds'
  BY <1>2, <1>4, <1>5, KindKept DEF Kinds, Kind
<1>7. \A g \in Fds : g \in Handled' <=> g \in Handled \/ g = h
  BY <1>1, <1>2 DEF Handled, NoWriter, IsClosed
<1>8. h \notin Handled
  BY <1>2, HasHandler DEF IsClosed
<1> DEFINE r == [fd |-> h, events |-> "in"]
<1>9. /\ Items(polled') = Items(polled) \cup {r}
      /\ Once(polled')
  BY <1>1, <1>2, <1>8, Typed, AddFdItems DEF PolledExact
<1>r. r.fd = h /\ r.events # "none"
  OBVIOUS
<1> HIDE DEF r
<1>10. PolledExact'
  BY <1>2, <1>7, <1>9, <1>r DEF PolledExact
<1>11. Paused'
  BY <1>1, <1>2, <1>9, <1>r DEF Paused
<1>12. RoundExact'
  BY <1>1, <1>2, <1>7, RoundKept
<1>13. Customers'
  BY <1>1, <1>2, Typed DEF Customers
<1> QED
  BY <1>6, <1>10, <1>11, <1>12, <1>13 DEF SInv

(* In client_parsers are the clients whose request is being read, and all  *)
(* of them are polled.                                                     *)
LEMMA AskingNumber ==
  ASSUME TInv, SInv, NEW f \in clientParsers
  PROVE  /\ f \in Fds /\ IsAsking(f) /\ f \in Handled
         /\ \E p \in Items(polled) : p.fd = f
<1>1. f \in Fds
  BY Typed
<1>2. IsAsking(f)
  BY <1>1 DEF SInv, Kinds, Kind, IsClosed, IsWaiting, IsServed, IsOrigin
<1>3. f \in Handled
  BY DEF Handled
<1> QED
  BY <1>1, <1>2, <1>3 DEF SInv, PolledExact

(* Nobody has joined an entry that is not made, and only those that wait   *)
(* for it one that is loading.                                             *)
LEMMA WhoJoined ==
  ASSUME TInv, Kinds, NEW e \in Clients, fetch[e] \in {"absent", "loading"},
         NEW g \in Fds
  PROVE  /\ g \notin waiting[e] /\ clientAt[g] # Nobody
              => joined[clientAt[g]] # e
         /\ g \in waiting[e] => /\ fetch[e] = "loading"
                                /\ clientAt[g] # Nobody
                                /\ joined[clientAt[g]] = e
<1>1. Kind(g)
  BY DEF Kinds
<1> QED
  BY <1>1, Typed
     DEF Kind, IsClosed, IsAsking, IsWaiting, IsServed, IsOrigin

LEMMA RejectKeeps ==
  ASSUME TInv, SInv, NEW f \in Fds, RejectRequest(f)
  PROVE  SInv'
<1>1. /\ Turn(f) /\ f \in clientParsers
      /\ polled' = RemoveFd(polled, f)
      /\ clientParsers' = clientParsers \ {f}
      /\ clientAt' = [clientAt EXCEPT ![f] = Nobody]
      /\ originAt' = [originAt EXCEPT ![f] = Nobody]
      /\ client' = IF clientAt[f] = Nobody THEN client
                   ELSE [client EXCEPT ![clientAt[f]] = "error"]
      /\ UNCHANGED <<resourceParsers, writers, loaders, waiting, size, fetch,
                     joined, got>>
  BY DEF RejectRequest, Asks, Ends, entries
<1>2. IsAsking(f) /\ Kinds /\ Customers /\ PolledExact /\ Paused /\ RoundExact
  BY <1>1, AskingNumber DEF SInv
<1>3. clientAt[f] \in Clients
      /\ client' = [client EXCEPT ![clientAt[f]] = "error"]
  BY <1>1, <1>2 DEF IsAsking
<1>4. \A g \in Fds : g # f => Same(g) /\ SameClient(g)
  BY <1>1, <1>3, Apart, Typed DEF Same, SameClient
<1>5. IsClosed(f)'
  BY <1>1, <1>2, Typed DEF IsClosed, IsAsking, NoWriter
<1>6. Kinds'
  BY <1>2, <1>4, <1>5, KindKept DEF Kinds, Kind
<1>7. \A g \in Fds : g \in Handled' <=> g \in Handled /\ g # f
  BY <1>1, <1>2 DEF Handled, NoWriter, IsAsking
<1>9. /\ Items(polled') = {p \in Items(polled) : p.fd # f}
      /\ Once(polled')
  BY <1>1, <1>2, Typed, RemoveFdItems DEF PolledExact
<1>10. PolledExact'
  BY <1>2, <1>7, <1>9 DEF PolledExact
<1>11. Paused'
  BY <1>1, <1>2, <1>9 DEF Paused
<1>12. RoundExact'
  BY <1>1, <1>2, <1>7, RoundKept
<1>13. Customers'
  BY <1>1, <1>2, <1>3, Typed DEF Customers
<1> QED
  BY <1>6, <1>10, <1>11, <1>12, <1>13 DEF SInv

LEMMA AnswerKeeps ==
  ASSUME TInv, SInv, NEW f \in Fds, AnswerFromCache(f)
  PROVE  SInv'
<1> DEFINE k == cache[key[clientAt[f]]]
<1>0. k \in Clients
  <2>1. f \in clientParsers /\ clientAt[f] # Nobody /\ k # Nobody
    BY DEF AnswerFromCache, Sends, Asks
  <2> QED
    BY <2>1, Asker DEF TInv, IInv
<1>1. PICK e \in Clients :
        /\ Turn(f) /\ f \in clientParsers /\ fetch[e] = "done"
        /\ writers' = [writers EXCEPT ![f] =
                         [data |-> e, written |-> 0, action |-> "clean"]]
        /\ polled' = RemoveFd(AddFd(polled, f, "out"), f)
        /\ clientParsers' = clientParsers \ {f}
        /\ client' = [client EXCEPT ![clientAt[f]] = "waiting"]
        /\ joined' = [joined EXCEPT ![clientAt[f]] = e]
        /\ UNCHANGED <<clientAt, originAt, resourceParsers, loaders, waiting,
                       size, fetch, got>>
  BY <1>0 DEF AnswerFromCache, Sends, Asks, Loaded, Files, sockets, entries
<1>2. IsAsking(f) /\ Kinds /\ Customers /\ PolledExact /\ Paused /\ RoundExact
      /\ \E p \in Items(polled) : p.fd = f
  BY <1>1, AskingNumber DEF SInv
<1>3. PICK c \in Clients : c = clientAt[f]
  BY <1>2 DEF IsAsking
<1>4. \A g \in Fds : g # f => Same(g) /\ SameClient(g)
  BY <1>1, <1>3, Apart, Typed DEF Same, SameClient
<1>w. writers'[f] = [data |-> e, written |-> 0, action |-> "clean"]
  BY <1>1, Typed
<1>5. IsServed(f)'
  <2>1. /\ clientAt'[f] = c /\ client'[c] = "waiting" /\ joined'[c] = e
        /\ got'[c] = 0 /\ fetch'[e] = "done" /\ f \notin clientParsers'
    BY <1>1, <1>2, <1>3, Typed DEF IsAsking
  <2> QED
    BY <1>1, <1>2, <1>w, <2>1 DEF IsServed, IsAsking
<1>6. Kinds'
  BY <1>2, <1>4, <1>5, KindKept DEF Kinds, Kind
<1>7. \A g \in Fds : g \in Handled' <=> g \in Handled
  <2>1. writers'[f] # NoWriter
    BY <1>w DEF NoWriter
  <2>2. \A g \in Fds : g # f => writers'[g] = writers[g]
    BY <1>1, Typed
  <2> QED
    BY <1>1, <1>2, <2>1, <2>2 DEF Handled, NoWriter
<1> DEFINE r == [fd |-> f, events |-> "out"]
<1>9. /\ Items(polled') = {p \in Items(polled) : p.fd # f} \cup {r}
      /\ Once(polled')
  BY <1>1, <1>2, Typed, ReplacedItems DEF PolledExact
<1>r. r.fd = f /\ r.events # "none"
  OBVIOUS
<1> HIDE DEF r
<1>10. PolledExact'
  BY <1>2, <1>7, <1>9, <1>r DEF PolledExact
<1>11. Paused'
  <2>1. \A p \in Items(polled') : p.events = "none" =>
          p \in Items(polled) /\ writers'[p.fd] = writers[p.fd]
    BY <1>1, <1>9, <1>r, Typed
  <2> QED
    BY <1>1, <1>2, <2>1 DEF Paused
<1>12. RoundExact'
  BY <1>1, <1>2, <1>7, RoundKept
<1>13. Customers'
  BY <1>1, <1>2, <1>3, Typed DEF Customers
<1> QED
  BY <1>6, <1>10, <1>11, <1>12, <1>13 DEF SInv

LEMMA AwaitKeeps ==
  ASSUME TInv, SInv, NEW f \in Fds, AwaitLoading(f)
  PROVE  SInv'
<1> DEFINE k == cache[key[clientAt[f]]]
<1>0. k \in Clients /\ fetch[k] = "loading"
  <2>1. f \in clientParsers /\ clientAt[f] # Nobody /\ k # Nobody
        /\ fetch[k] # "done"
    BY DEF AwaitLoading, Sends, Asks, Loaded
  <2>2. key[clientAt[f]] \in Keys /\ k \in Clients
    BY <2>1, Asker DEF TInv, IInv
  <2> QED
    BY <2>1, <2>2 DEF TInv, IInv, CacheUsable
<1>1. PICK e \in Clients :
        /\ Turn(f) /\ f \in clientParsers /\ fetch[e] = "loading"
        /\ waiting' = [waiting EXCEPT ![e] = waiting[e] \cup {f}]
        /\ polled' = RemoveFd(polled, f)
        /\ clientParsers' = clientParsers \ {f}
        /\ client' = [client EXCEPT ![clientAt[f]] = "waiting"]
        /\ joined' = [joined EXCEPT ![clientAt[f]] = e]
        /\ UNCHANGED <<clientAt, originAt, resourceParsers, loaders, writers,
                       size, fetch, got>>
  BY <1>0 DEF AwaitLoading, Sends, Asks, Files, sockets
<1>2. IsAsking(f) /\ Kinds /\ Customers /\ PolledExact /\ Paused /\ RoundExact
  BY <1>1, AskingNumber DEF SInv
<1>3. PICK c \in Clients : c = clientAt[f]
  BY <1>2 DEF IsAsking
<1>w. \A d \in Clients, g \in Fds :
        g \in waiting'[d] <=> g \in waiting[d] \/ (d = e /\ g = f)
  BY <1>1, Typed
<1>4. \A g \in Fds : g # f => Same(g) /\ SameClient(g)
  BY <1>1, <1>3, <1>w, Apart, Typed DEF Same, SameClient
<1>5. IsWaiting(f)'
  <2>1. /\ clientAt'[f] = c /\ client'[c] = "waiting" /\ joined'[c] = e
        /\ got'[c] = 0 /\ fetch'[e] = "loading" /\ f \notin clientParsers'
    BY <1>1, <1>2, <1>3, Typed DEF IsAsking
  <2>2. \A d \in Clients : f \in waiting'[d] <=> d = e
    BY <1>2, <1>w DEF IsAsking
  <2> QED
    BY <1>1, <1>2, <2>1, <2>2 DEF IsWaiting, IsAsking, NoWriter
<1>6. Kinds'
  BY <1>2, <1>4, <1>5, KindKept DEF Kinds, Kind
<1>7. \A g \in Fds : g \in Handled' <=> g \in Handled /\ g # f
  BY <1>1, <1>2 DEF Handled, NoWriter, IsAsking
<1>9. /\ Items(polled') = {p \in Items(polled) : p.fd # f}
      /\ Once(polled')
  BY <1>1, <1>2, Typed, RemoveFdItems DEF PolledExact
<1>10. PolledExact'
  BY <1>2, <1>7, <1>9 DEF PolledExact
<1>11. Paused'
  BY <1>1, <1>2, <1>9 DEF Paused
<1>12. RoundExact'
  BY <1>1, <1>2, <1>7, RoundKept
<1>13. Customers'
  BY <1>1, <1>2, <1>3, Typed DEF Customers
<1> QED
  BY <1>6, <1>10, <1>11, <1>12, <1>13 DEF SInv

(* The part that both ways of starting a download have in common. *)
LEMMA NewEntryKinds ==
  ASSUME TInv, SInv, NEW f \in Fds, NewEntry(f), clientAt' = clientAt,
         resourceParsers' = resourceParsers, size' = size
  PROVE  /\ clientAt[f] \in Clients /\ IsAsking(f)
         /\ originAt'[f] = originAt[f] /\ loaders'[f] = loaders[f]
              /\ writers'[f] = writers[f] => IsWaiting(f)'
         /\ \A g \in Fds : g # f =>
              /\ SameClient(g)
              /\ g \in clientParsers' <=> g \in clientParsers
              /\ \A e \in Clients : g \in waiting'[e] <=> g \in waiting[e]
         /\ Customers'
<1>1. /\ f \in clientParsers /\ clientAt[f] # Nobody
      /\ fetch' = [fetch EXCEPT ![clientAt[f]] = "loading"]
      /\ waiting' = [waiting EXCEPT ![clientAt[f]] = {f}]
      /\ clientParsers' = clientParsers \ {f}
      /\ client' = [client EXCEPT ![clientAt[f]] = "waiting"]
      /\ joined' = [joined EXCEPT ![clientAt[f]] = clientAt[f]]
      /\ got' = got
  BY DEF NewEntry, Sends, Asks, Files
<1>2. IsAsking(f) /\ Kinds /\ Customers
  BY <1>1, AskingNumber DEF SInv
<1>3. PICK c \in Clients : c = clientAt[f]
  BY <1>2 DEF IsAsking
<1>4. fetch[c] = "absent"
  BY <1>1, <1>3, Asking DEF TInv, IInv
<1>5. \A g \in Fds : /\ g \notin waiting[c]
                     /\ clientAt[g] # Nobody => joined[clientAt[g]] # c
  BY <1>2, <1>4, WhoJoined
<1>w. \A d \in Clients, g \in Fds :
        g \in waiting'[d] <=> g \in waiting[d] \/ (d = c /\ g = f)
  BY <1>1, <1>3, <1>5, Typed
<1>6. ASSUME originAt'[f] = originAt[f], loaders'[f] = loaders[f],
             writers'[f] = writers[f]
      PROVE  IsWaiting(f)'
  <2>1. /\ clientAt'[f] = c /\ client'[c] = "waiting" /\ joined'[c] = c
        /\ got'[c] = 0 /\ fetch'[c] = "loading" /\ f \notin clientParsers'
    BY <1>1, <1>2, <1>3, Typed DEF IsAsking
  <2>2. \A d \in Clients : f \in waiting'[d] <=> d = c
    BY <1>2, <1>w DEF IsAsking
  <2> QED
    BY <1>2, <1>6, <2>1, <2>2 DEF IsWaiting, IsAsking, NoWriter
<1>7. ASSUME NEW g \in Fds, g # f
      PROVE  /\ SameClient(g)
             /\ g \in clientParsers' <=> g \in clientParsers
             /\ \A e \in Clients : g \in waiting'[e] <=> g \in waiting[e]
  <2>1. clientAt[g] # Nobody => clientAt[g] # c /\ joined[clientAt[g]] # c
    BY <1>3, <1>5, <1>7, Apart
  <2>2. SameClient(g)
    BY <1>1, <1>3, <2>1, Typed DEF SameClient
  <2> QED
    BY <1>1, <1>7, <1>w, <2>2
<1>8. Customers'
  <2> SUFFICES ASSUME NEW d \in Clients
               PROVE  /\ client'[d] \in {"new", "asking"}
                           => joined'[d] = Nobody /\ got'[d] = 0
                      /\ client'[d] = "ok" => /\ joined'[d] \in Clients
                                              /\ fetch'[joined'[d]] = "done"
                                              /\ got'[d] = size'[joined'[d]]
    BY DEF Customers
  <2>1. CASE d = c
    BY <1>1, <1>3, <2>1, Typed
  <2>2. CASE d # c
    <3>1. client'[d] = client[d] /\ joined'[d] = joined[d]
      BY <1>1, <1>3, <2>2, Typed
    <3>2. \A e \in Clients : fetch[e] = "done" => fetch'[e] = "done"
      BY <1>1, <1>3, <1>4, Typed
    <3> QED
      BY <1>1, <1>2, <3>1, <3>2 DEF Customers
  <2> QED
    BY <2>1, <2>2
<1> QED
  BY <1>2, <1>3, <1>6, <1>7, <1>8

LEMMA DownloadKeeps ==
  ASSUME TInv, SInv, NEW f \in Fds, StartDownload(f)
  PROVE  SInv'
<1>1. PICK h \in Free :
        /\ Turn(f) /\ f \in clientParsers /\ NewEntry(f)
        /\ clientParsers' = clientParsers \ {f}
        /\ originAt' = [originAt EXCEPT ![h] = clientAt[f]]
        /\ writers' = [writers EXCEPT ![h] =
                         [data |-> Request, written |-> 0, action |-> "read"]]
        /\ polled' = RemoveFd(AddFd(polled, h, "out"), f)
        /\ loaders' = [loaders EXCEPT ![h] = clientAt[f]]
        /\ UNCHANGED <<clientAt, resourceParsers, size>>
  BY LowestFree DEF StartDownload, NewEntry, Sends, Asks
<1>2. h \in Fds /\ IsClosed(h) /\ Kinds /\ PolledExact /\ Paused /\ RoundExact
      /\ f \in Handled
  BY <1>1, FreeIsClosed, AskingNumber DEF SInv
<1>3. /\ clientAt[f] \in Clients /\ IsAsking(f)
      /\ originAt'[f] = originAt[f] /\ loaders'[f] = loaders[f]
           /\ writers'[f] = writers[f] => IsWaiting(f)'
      /\ \A g \in Fds : g # f =>
           /\ SameClient(g)
           /\ g \in clientParsers' <=> g \in clientParsers
           /\ \A e \in Clients : g \in waiting'[e] <=> g \in waiting[e]
      /\ Customers'
  BY <1>1, NewEntryKinds
<1>h. h # f
  BY <1>2, <1>3 DEF IsClosed, IsAsking
<1>4. \A g \in Fds : g # h => /\ originAt'[g] = originAt[g]
                              /\ writers'[g] = writers[g]
                              /\ loaders'[g] = loaders[g]
  BY <1>1, <1>2, Typed
<1>w. /\ writers'[h] = [data |-> Request, written |-> 0, action |-> "read"]
      /\ originAt'[h] = clientAt[f] /\ loaders'[h] = clientAt[f]
  BY <1>1, <1>2, Typed
<1>5. IsWaiting(f)'
  BY <1>3, <1>4, <1>h
<1>6. IsOrigin(h)'
  BY <1>1, <1>2, <1>3, <1>h, <1>w DEF IsOrigin, IsClosed
<1>7. \A g \in Fds : g # f /\ g # h => Same(g) /\ SameClient(g)
  BY <1>1, <1>3, <1>4 DEF Same
<1>8. Kinds'
  BY <1>2, <1>5, <1>6, <1>7, KindKept DEF Kinds, Kind
<1>9. \A g \in Fds : g \in Handled' <=> (g \in Handled /\ g # f) \/ g = h
  <2>1. writers'[h] # NoWriter
    BY <1>w DEF NoWriter
  <2> QED
    BY <1>1, <1>2, <1>3, <1>4, <1>h, <2>1 DEF Handled, NoWriter, IsAsking
<1> DEFINE r == [fd |-> h, events |-> "out"]
<1>10. /\ Items(polled') = {p \in Items(polled) \cup {r} : p.fd # f}
       /\ Once(polled')
  <2>1. h \notin Handled
    BY <1>2, HasHandler DEF IsClosed
  <2>2. /\ AddFd(polled, h, "out") \in Seq(Item)
        /\ Items(AddFd(polled, h, "out")) = Items(polled) \cup {r}
        /\ Once(AddFd(polled, h, "out"))
    BY <1>2, <2>1, Typed, AddFdType, AddFdItems DEF PolledExact
  <2> HIDE DEF r
  <2> QED
    BY <1>1, <2>2, RemoveFdItems
<1>r. r.fd = h /\ r.events # "none"
  OBVIOUS
<1> HIDE DEF r
<1>11. PolledExact'
  BY <1>2, <1>9, <1>10, <1>h, <1>r DEF PolledExact
<1>12. Paused'
  <2>1. \A p \in Items(polled') : p.events = "none" => p \in Items(polled)
    BY <1>10, <1>r
  <2>2. \A p \in Items(polled) : writers'[p.fd] = writers[p.fd] \/ p.fd = h
    BY <1>1, <1>2, Typed
  <2>3. \A p \in Items(polled) : p.fd # h
    BY <1>2, HasHandler DEF PolledExact, IsClosed
  <2> QED
    BY <1>1, <1>2, <2>1, <2>2, <2>3 DEF Paused
<1>13. RoundExact'
  BY <1>1, <1>2, <1>9, RoundKept
<1> QED
  BY <1>3, <1>8, <1>11, <1>12, <1>13 DEF SInv

LEMMA NoSocketKeeps ==
  ASSUME TInv, SInv, NEW f \in Fds, StartWithoutSocket(f)
  PROVE  SInv'
<1>1. /\ Turn(f) /\ f \in clientParsers /\ NewEntry(f)
      /\ clientParsers' = clientParsers \ {f}
      /\ polled' = RemoveFd(polled, f)
      /\ UNCHANGED <<clientAt, originAt, writers, loaders, resourceParsers, size>>
  BY DEF StartWithoutSocket, NewEntry, Sends, Asks, sockets
<1>2. Kinds /\ PolledExact /\ Paused /\ RoundExact
  BY DEF SInv
<1>3. /\ IsAsking(f) /\ IsWaiting(f)' /\ Customers'
      /\ \A g \in Fds : g # f => Same(g) /\ SameClient(g)
  BY <1>1, NewEntryKinds DEF Same
<1>4. Kinds'
  BY <1>2, <1>3, KindKept DEF Kinds, Kind
<1>7. \A g \in Fds : g \in Handled' <=> g \in Handled /\ g # f
  BY <1>1, <1>3 DEF Handled, NoWriter, IsAsking
<1>9. /\ Items(polled') = {p \in Items(polled) : p.fd # f}
      /\ Once(polled')
  BY <1>1, <1>2, Typed, RemoveFdItems DEF PolledExact
<1>10. PolledExact'
  BY <1>2, <1>7, <1>9 DEF PolledExact
<1>11. Paused'
  BY <1>1, <1>2, <1>9 DEF Paused
<1>12. RoundExact'
  BY <1>1, <1>2, <1>7, RoundKept
<1> QED
  BY <1>3, <1>4, <1>10, <1>11, <1>12 DEF SInv

(* Who is polled for nothing is being sent a reply that is loading. *)
LEMMA PausedServed ==
  ASSUME TInv, Kinds, Paused, NEW p \in Items(polled), p.events = "none"
  PROVE  /\ p.fd \in Fds /\ writers[p.fd].action = "pause"
         /\ writers[p.fd].data \in Clients
         /\ p.fd \in waiting[writers[p.fd].data]
         /\ writers[p.fd].written = size[writers[p.fd].data]
<1>1. polled \in Seq(Item)
  BY Typed
<1>2. DOMAIN polled = 1 .. Len(polled)
  BY <1>1, LenProperties
<1>3. PICK i \in DOMAIN polled : p = polled[i]
  BY DEF Items
<1>4. p \in Item
  BY <1>1, <1>2, <1>3, ElementOfSeq
<1>5. p.fd \in Fds
  BY <1>4 DEF Item
<1>6. /\ writers[p.fd].action = "pause"
      /\ writers[p.fd].written = size[writers[p.fd].data]
  BY DEF Paused
<1>7. writers[p.fd] # NoWriter
  BY <1>6 DEF NoWriter
<1>8. Kind(p.fd)
  BY <1>5 DEF Kinds
<1>9. IsServed(p.fd)
  <2>1. ~IsOrigin(p.fd)
    BY <1>6, <1>7 DEF IsOrigin
  <2>2. ~IsClosed(p.fd) /\ ~IsAsking(p.fd) /\ ~IsWaiting(p.fd)
    BY <1>7 DEF IsClosed, IsAsking, IsWaiting
  <2> QED
    BY <1>8, <2>1, <2>2 DEF Kind
<1> QED
  BY <1>5, <1>6, <1>9 DEF IsServed

(* Whose entries are now in the list, by who waits. *)
LEMMA PolledNow ==
  ASSUME NEW list, NEW W \in SUBSET Fds,
         Items(list) = {p \in Items(polled) : p.fd \notin W}
                         \cup {[fd |-> g, events |-> "out"] : g \in W}
  PROVE  \A g \in Fds : (\E p \in Items(list) : p.fd = g)
           <=> g \in W \/ \E p \in Items(polled) : p.fd = g
<1> SUFFICES ASSUME NEW g \in Fds
             PROVE  (\E p \in Items(list) : p.fd = g)
                      <=> g \in W \/ \E p \in Items(polled) : p.fd = g
  OBVIOUS
<1>1. CASE g \in W
  <2>1. [fd |-> g, events |-> "out"] \in Items(list)
        /\ [fd |-> g, events |-> "out"].fd = g
    BY <1>1
  <2> QED
    BY <1>1, <2>1
<1>2. CASE g \notin W
  BY <1>2
<1> QED
  BY <1>1, <1>2

(* In resource_parsers are the origins that have their request. *)
LEMMA LoadingNumber ==
  ASSUME TInv, SInv, NEW f \in Fds, Loads(f)
  PROVE  /\ IsOrigin(f) /\ f \in Handled /\ writers[f] = NoWriter
         /\ loaders[f] \in Clients /\ fetch[loaders[f]] = "loading"
<1>1. f \in resourceParsers /\ loaders[f] # Nobody
  BY DEF Loads
<1>2. IsOrigin(f)
  BY <1>1 DEF SInv, Kinds, Kind, IsClosed, IsAsking, IsWaiting, IsServed
<1>3. loaders[f] \in Clients /\ writers[f] = NoWriter
  BY <1>1, <1>2 DEF IsOrigin
<1>4. fetch[loaders[f]] = "loading"
  BY <1>1 DEF TInv, IInv, Downloads
<1> QED
  BY <1>1, <1>2, <1>3, <1>4 DEF Handled

(* Who waits for an entry, and what Serve makes of its writer. *)
LEMMA ServeOwn ==
  ASSUME TInv, Kinds, NEW e \in Clients, NEW action \in {"pause", "clean"},
         NEW g \in Fds
  PROVE  /\ g \notin waiting[e] => Serve(e, action)[g] = writers[g]
         /\ g \in waiting[e] =>
              /\ clientAt[g] \in Clients /\ joined[clientAt[g]] = e
              /\ client[clientAt[g]] = "waiting"
              /\ originAt[g] = Nobody /\ loaders[g] = Nobody
              /\ g \notin clientParsers /\ g \notin resourceParsers
              /\ \A d \in Clients : g \in waiting[d] <=> d = e
              /\ Serve(e, action)[g].data = e
              /\ Serve(e, action)[g].written = got[clientAt[g]]
              /\ Serve(e, action)[g].action = action
<1>1. writers \in [Fds -> ReplyWriter]
  BY Typed
<1>2. CASE g \notin waiting[e]
  BY <1>2 DEF Serve
<1>3. CASE g \in waiting[e]
  <2>1. IsWaiting(g) \/ IsServed(g)
    BY <1>3 DEF Kinds, Kind, IsClosed, IsAsking, IsOrigin
  <2>2. /\ clientAt[g] \in Clients /\ joined[clientAt[g]] = e
        /\ client[clientAt[g]] = "waiting"
        /\ originAt[g] = Nobody /\ loaders[g] = Nobody
        /\ g \notin clientParsers /\ g \notin resourceParsers
        /\ \A d \in Clients : g \in waiting[d] <=> d = e
    BY <1>3, <2>1 DEF IsWaiting, IsServed
  <2>3. CASE IsWaiting(g)
    <3>1. Serve(e, action)[g] = [data |-> e, written |-> 0, action |-> action]
      BY <1>3, <2>3 DEF Serve, IsWaiting
    <3> QED
      BY <1>3, <2>2, <2>3, <3>1 DEF IsWaiting
  <2>4. CASE IsServed(g)
    <3>0. /\ writers[g].data = e /\ writers[g].written = got[clientAt[g]]
          /\ writers[g].action = "pause"
      BY <1>3, <2>2, <2>4 DEF IsServed
    <3>1. /\ writers[g] \in ReplyWriter /\ writers[g] # NoWriter
          /\ writers[g].data = e /\ writers[g].written = got[clientAt[g]]
          /\ writers[g].action = "pause"
      BY <1>1, <3>0 DEF NoWriter
    <3>2. Serve(e, action)[g] = IF action = "clean"
                                THEN [writers[g] EXCEPT !.action = action]
                                ELSE writers[g]
      BY <1>3, <3>1 DEF Serve
    <3> QED
      BY <1>3, <2>2, <3>1, <3>2 DEF ReplyWriter
  <2> QED
    BY <2>1, <2>3, <2>4
<1> QED
  BY <1>2, <1>3

LEMMA LoadSomeKeeps ==
  ASSUME TInv, SInv, NEW f \in Fds, NEW n \in 0 .. BufSize, LoadSome(f, n)
  PROVE  SInv'
<1>0. IsOrigin(f) /\ loaders[f] \in Clients /\ fetch[loaders[f]] = "loading"
  BY LoadingNumber DEF LoadSome, Answers
<1>1. PICK e \in Clients :
        /\ Turn(f) /\ fetch[e] = "loading"
        /\ size' = [size EXCEPT ![e] = size[e] + n]
        /\ writers' = Serve(e, "pause")
        /\ polled' \in NoticedAll(e)
        /\ UNCHANGED <<clientAt, originAt, clientParsers, resourceParsers,
                       loaders, waiting, fetch, client, joined, got>>
  BY <1>0 DEF LoadSome, Answers, Loads, sockets, customers
<1>2. Kinds /\ Customers /\ PolledExact /\ Paused /\ RoundExact
  BY DEF SInv
<1>3. \A g \in Fds : g \notin waiting[e] => Same(g) /\ SameClient(g)
  BY <1>1, <1>2, ServeOwn DEF Same, SameClient
<1>4. ASSUME NEW g \in waiting[e]
      PROVE  IsServed(g)' /\ writers'[g] # NoWriter
  <2>1. g \in Fds
    BY Typed
  <2>2. /\ clientAt[g] \in Clients /\ joined[clientAt[g]] = e
        /\ client[clientAt[g]] = "waiting"
        /\ originAt[g] = Nobody /\ loaders[g] = Nobody
        /\ g \notin clientParsers /\ g \notin resourceParsers
        /\ \A d \in Clients : g \in waiting[d] <=> d = e
        /\ writers'[g].data = e /\ writers'[g].written = got[clientAt[g]]
        /\ writers'[g].action = "pause"
    BY <1>1, <1>2, <2>1, ServeOwn
  <2> QED
    BY <1>1, <2>2 DEF IsServed, NoWriter
<1>5. Kinds'
  BY <1>2, <1>3, <1>4, KindKept DEF Kinds, Kind
<1>6. \A g \in Fds : g \in Handled' <=> g \in Handled \/ g \in waiting[e]
  <2> SUFFICES ASSUME NEW g \in Fds
               PROVE  g \in Handled' <=> g \in Handled \/ g \in waiting[e]
    OBVIOUS
  <2>1. CASE g \in waiting[e]
    BY <1>4, <2>1 DEF Handled, NoWriter
  <2>2. CASE g \notin waiting[e]
    BY <1>3, <2>2 DEF Same, Handled, NoWriter
  <2> QED
    BY <2>1, <2>2
<1>7. \A g \in waiting[e] :
        writers[g] # NoWriter <=> \E p \in Items(polled) : p.fd = g
  <2> SUFFICES ASSUME NEW g \in waiting[e]
               PROVE  writers[g] # NoWriter <=> \E p \in Items(polled) : p.fd = g
    OBVIOUS
  <2>1. g \in Fds
    BY Typed
  <2>2. g \notin clientParsers /\ g \notin resourceParsers
    BY <1>2, <2>1, ServeOwn
  <2> QED
    BY <1>2, <2>1, <2>2, HasHandler DEF PolledExact
<1>8. /\ Items(polled') = {p \in Items(polled) : p.fd \notin waiting[e]}
                 \cup {[fd |-> g, events |-> "out"] : g \in waiting[e]}
      /\ Once(polled')
  BY <1>1, <1>2, <1>7, Typed, NoticedItems DEF PolledExact
<1>9. PolledExact'
  <2>1. \A g \in Fds : (\E p \in Items(polled') : p.fd = g)
          <=> g \in waiting[e] \/ \E p \in Items(polled) : p.fd = g
    BY <1>8, Typed, PolledNow
  <2> QED
    BY <1>2, <1>6, <1>8, <2>1 DEF PolledExact
<1>10. Paused'
  <2> SUFFICES ASSUME NEW p \in Items(polled'), p.events = "none"
               PROVE  /\ writers'[p.fd].action = "pause"
                      /\ writers'[p.fd].written = size'[writers'[p.fd].data]
    BY Zenon DEF Paused
  <2>1. p \in Items(polled) /\ p.fd \notin waiting[e]
    BY <1>8
  <2>2. /\ p.fd \in Fds /\ writers[p.fd].action = "pause"
        /\ writers[p.fd].data \in Clients /\ writers[p.fd].data # e
        /\ writers[p.fd].written = size[writers[p.fd].data]
    BY <1>2, <2>1, PausedServed
  <2>3. writers'[p.fd] = writers[p.fd]
    BY <1>3, <2>1, <2>2 DEF Same
  <2> QED
    BY <1>1, <2>2, <2>3, Typed
<1>11. RoundExact'
  BY <1>1, <1>2, <1>6, RoundKept
<1>12. Customers'
  BY <1>1, <1>2, Typed DEF Customers
<1> QED
  BY <1>5, <1>9, <1>10, <1>11, <1>12 DEF SInv

LEMMA LoadLastKeeps ==
  ASSUME TInv, SInv, NEW f \in Fds, NEW n \in 0 .. BufSize,
         NEW b \in BOOLEAN, LoadLast(f, n, b)
  PROVE  SInv'
<1>0. /\ IsOrigin(f) /\ loaders[f] \in Clients
      /\ fetch[loaders[f]] = "loading"
  BY LoadingNumber DEF LoadLast, Answers
<1>1. PICK e \in Clients :
        /\ e = loaders[f] /\ Turn(f) /\ fetch[e] = "loading"
        /\ f \in resourceParsers /\ writers[f] = NoWriter
        /\ size' = [size EXCEPT ![e] = size[e] + n]
        /\ writers' = Serve(e, "clean")
        /\ \E list \in NoticedAll(e) : polled' = RemoveFd(list, f)
        /\ waiting' = [waiting EXCEPT ![e] = {}]
        /\ resourceParsers' = resourceParsers \ {f}
        /\ fetch' = [fetch EXCEPT ![e] = "done"]
        /\ loaders' = [loaders EXCEPT ![f] = Nobody]
        /\ originAt' = [originAt EXCEPT ![f] = Nobody]
        /\ UNCHANGED <<clientAt, clientParsers, client, joined, got>>
  BY <1>0 DEF LoadLast, Answers, Loads, customers
<1>2. Kinds /\ Customers /\ PolledExact /\ Paused /\ RoundExact
  BY DEF SInv
<1>f. f \notin waiting[e]
  BY <1>0 DEF IsOrigin
<1>w. \A d \in Clients, g \in Fds :
        g \in waiting'[d] <=> g \in waiting[d] /\ d # e
  BY <1>1, Typed
<1>3. ASSUME NEW g \in Fds, g \notin waiting[e], g # f
      PROVE  Same(g) /\ SameClient(g)
  <2>1. clientAt[g] # Nobody => joined[clientAt[g]] # e
    BY <1>1, <1>2, <1>3, WhoJoined
  <2>2. writers'[g] = writers[g]
    BY <1>1, <1>2, <1>3, ServeOwn
  <2>3. SameClient(g)
    BY <1>1, <2>1, Typed DEF SameClient
  <2> QED
    BY <1>1, <1>3, <1>w, <2>2, <2>3, Typed DEF Same
<1>4. ASSUME NEW g \in waiting[e]
      PROVE  IsServed(g)' /\ writers'[g] # NoWriter
  <2>1. g \in Fds /\ g # f
    BY <1>f, Typed
  <2>2. /\ clientAt[g] \in Clients /\ joined[clientAt[g]] = e
        /\ client[clientAt[g]] = "waiting"
        /\ originAt[g] = Nobody /\ loaders[g] = Nobody
        /\ g \notin clientParsers /\ g \notin resourceParsers
        /\ \A d \in Clients : g \in waiting[d] <=> d = e
        /\ writers'[g].data = e /\ writers'[g].written = got[clientAt[g]]
        /\ writers'[g].action = "clean"
    BY <1>1, <1>2, <2>1, ServeOwn
  <2>3. \A d \in Clients : g \notin waiting'[d]
    BY <1>w, <2>1, <2>2
  <2>4. /\ fetch'[e] = "done" /\ originAt'[g] = Nobody
        /\ loaders'[g] = Nobody /\ g \notin resourceParsers'
    BY <1>1, <2>1, <2>2, Typed
  <2> QED
    BY <1>1, <2>2, <2>3, <2>4 DEF IsServed, NoWriter
<1>5. IsClosed(f)'
  <2>1. writers'[f] = NoWriter
    BY <1>1, <1>2, <1>f, ServeOwn
  <2>2. /\ clientAt'[f] = Nobody /\ originAt'[f] = Nobody
        /\ loaders'[f] = Nobody /\ f \notin clientParsers'
        /\ f \notin resourceParsers' /\ \A d \in Clients : f \notin waiting'[d]
    BY <1>0, <1>1, <1>w, Typed DEF IsOrigin
  <2> QED
    BY <2>1, <2>2 DEF IsClosed, NoWriter
<1>6. Kinds'
  BY <1>2, <1>3, <1>4, <1>5, KindKept DEF Kinds, Kind
<1>7. \A g \in Fds : g \in Handled' <=>
                       (g \in Handled \/ g \in waiting[e]) /\ g # f
  <2> SUFFICES ASSUME NEW g \in Fds
               PROVE  g \in Handled' <=>
                        (g \in Handled \/ g \in waiting[e]) /\ g # f
    OBVIOUS
  <2>1. CASE g = f
    BY <1>5, <2>1 DEF IsClosed, Handled, NoWriter
  <2>2. CASE g # f /\ g \in waiting[e]
    BY <1>4, <2>2 DEF Handled, NoWriter
  <2>3. CASE g # f /\ g \notin waiting[e]
    BY <1>3, <2>3 DEF Same, Handled, NoWriter
  <2> QED
    BY <2>1, <2>2, <2>3
<1>8. \A g \in waiting[e] :
        writers[g] # NoWriter <=> \E p \in Items(polled) : p.fd = g
  <2> SUFFICES ASSUME NEW g \in waiting[e]
               PROVE  writers[g] # NoWriter <=> \E p \in Items(polled) : p.fd = g
    OBVIOUS
  <2>1. g \in Fds
    BY Typed
  <2>2. g \notin clientParsers /\ g \notin resourceParsers
    BY <1>2, <2>1, ServeOwn
  <2> QED
    BY <1>2, <2>1, <2>2, HasHandler DEF PolledExact
<1>9. PICK list \in NoticedAll(e) : polled' = RemoveFd(list, f)
  BY <1>1
<1>10. /\ list \in Seq(Item)
       /\ Items(list) = {p \in Items(polled) : p.fd \notin waiting[e]}
                 \cup {[fd |-> g, events |-> "out"] : g \in waiting[e]}
       /\ Once(list)
  BY <1>2, <1>8, Typed, NoticedItems DEF PolledExact
<1>11. /\ Items(polled') = {p \in Items(list) : p.fd # f}
       /\ Once(polled')
  BY <1>9, <1>10, RemoveFdItems
<1>12. PolledExact'
  <2>1. \A g \in Fds : (\E p \in Items(list) : p.fd = g)
          <=> g \in waiting[e] \/ \E p \in Items(polled) : p.fd = g
    BY <1>10, Typed, PolledNow
  <2>2. \A g \in Fds : (\E p \in Items(polled') : p.fd = g)
          <=> g # f /\ \E p \in Items(list) : p.fd = g
    BY <1>11
  <2> QED
    BY <1>2, <1>7, <1>11, <2>1, <2>2 DEF PolledExact
<1>13. Paused'
  <2> SUFFICES ASSUME NEW p \in Items(polled'), p.events = "none"
               PROVE  /\ writers'[p.fd].action = "pause"
                      /\ writers'[p.fd].written = size'[writers'[p.fd].data]
    BY Zenon DEF Paused
  <2>1. p \in Items(polled) /\ p.fd \notin waiting[e] /\ p.fd # f
    BY <1>10, <1>11
  <2>2. /\ p.fd \in Fds /\ writers[p.fd].action = "pause"
        /\ writers[p.fd].data \in Clients /\ writers[p.fd].data # e
        /\ writers[p.fd].written = size[writers[p.fd].data]
    BY <1>2, <2>1, PausedServed
  <2>3. writers'[p.fd] = writers[p.fd]
    BY <1>3, <2>1, <2>2 DEF Same
  <2> QED
    BY <1>1, <2>2, <2>3, Typed
<1>14. RoundExact'
  BY <1>1, <1>2, <1>7, RoundKept
<1>15. Customers'
  <2>1. \A d \in Clients : fetch[d] = "done" =>
          fetch'[d] = "done" /\ size'[d] = size[d]
    BY <1>1, Typed
  <2> QED
    BY <1>1, <1>2, <2>1 DEF Customers
<1> QED
  BY <1>6, <1>12, <1>13, <1>14, <1>15 DEF SInv

(* A read that fails before the first unit is passed on: all that wait for *)
(* the entry wait for that unit, so nothing is polled or written for them. *)
LEMMA LoadFailsKeeps ==
  ASSUME TInv, SInv, NoFailures, NEW f \in Fds, LoadFails(f)
  PROVE  SInv'
<1>0. /\ IsOrigin(f) /\ loaders[f] \in Clients
      /\ fetch[loaders[f]] = "loading"
  BY LoadingNumber DEF LoadFails
<1>1. PICK e \in Clients :
        /\ e = loaders[f] /\ Turn(f) /\ fetch[e] = "loading"
        /\ f \in resourceParsers
        /\ \A w \in waiting[e] : writers[w] = NoWriter
        /\ size' = [size EXCEPT ![e] = size[e] + BufSize]
        /\ clientAt' = [g \in Fds |-> IF g \in waiting[e] \cup {f}
                                     THEN Nobody ELSE clientAt[g]]
        /\ originAt' = [g \in Fds |-> IF g \in waiting[e] \cup {f}
                                     THEN Nobody ELSE originAt[g]]
        /\ client' = [c \in Clients |->
                        IF \E g \in waiting[e] \cup {f} : clientAt[g] = c
                        THEN "error" ELSE client[c]]
        /\ waiting' = [waiting EXCEPT ![e] = {}]
        /\ polled' = RemoveFd(polled, f)
        /\ resourceParsers' = resourceParsers \ {f}
        /\ fetch' = [fetch EXCEPT ![e] = "failed"]
        /\ loaders' = [loaders EXCEPT ![f] = Nobody]
        /\ UNCHANGED <<clientParsers, writers, joined, got>>
  BY <1>0 DEF LoadFails, Loads, NoFailures
<1>2. Kinds /\ Customers /\ PolledExact /\ Paused /\ RoundExact
  BY DEF SInv
<1>w. \A d \in Clients, g \in Fds :
        g \in waiting'[d] <=> g \in waiting[d] /\ d # e
  BY <1>1, Typed
<1>3. ASSUME NEW g \in Fds, g \notin waiting[e], g # f
      PROVE  Same(g) /\ SameClient(g)
  <2>1. clientAt[g] # Nobody => joined[clientAt[g]] # e
    BY <1>1, <1>2, <1>3, WhoJoined
  <2>2. \A h \in waiting[e] \cup {f} :
          clientAt[g] # Nobody => clientAt[h] # clientAt[g]
    BY <1>3, Apart, Typed
  <2>3. SameClient(g)
    BY <1>1, <2>1, <2>2, Typed DEF SameClient
  <2> QED
    BY <1>1, <1>3, <1>w, <2>3, Typed DEF Same
<1>4. ASSUME NEW g \in waiting[e]
      PROVE  IsClosed(g)' /\ g \notin Handled
  <2>1. g \in Fds /\ Kind(g) /\ writers[g] = NoWriter
    BY <1>1, <1>2, Typed DEF Kinds
  <2>2. IsWaiting(g)
    <3>1. ~IsServed(g)
      BY <2>1 DEF IsServed, NoWriter
    <3> QED
      BY <2>1, <3>1 DEF Kind, IsClosed, IsAsking, IsOrigin
  <2>3. /\ loaders[g] = Nobody /\ g \notin clientParsers
        /\ g \notin resourceParsers /\ \A d \in Clients : d # e => g \notin waiting[d]
    BY <2>2 DEF IsWaiting
  <2>4. g # f
    BY <1>1, <2>3
  <2>5. clientAt'[g] = Nobody /\ originAt'[g] = Nobody /\ loaders'[g] = Nobody
        /\ \A d \in Clients : g \notin waiting'[d]
    BY <1>1, <1>w, <2>1, <2>3, <2>4, Typed
  <2>6. IsClosed(g)'
    BY <1>1, <2>1, <2>3, <2>5 DEF IsClosed, NoWriter
  <2> QED
    BY <2>1, <2>3, <2>6, HasHandler
<1>5. IsClosed(f)'
  <2>1. /\ clientAt'[f] = Nobody /\ originAt'[f] = Nobody
        /\ loaders'[f] = Nobody /\ f \notin clientParsers'
        /\ f \notin resourceParsers' /\ \A d \in Clients : f \notin waiting'[d]
    BY <1>0, <1>1, <1>w, Typed DEF IsOrigin
  <2>2. writers[f] = NoWriter
    BY <1>0, <1>1 DEF IsOrigin
  <2> QED
    BY <1>1, <2>1, <2>2 DEF IsClosed, NoWriter
<1>6. Kinds'
  BY <1>2, <1>3, <1>4, <1>5, KindKept DEF Kinds, Kind
<1>7. \A g \in Fds : g \in Handled' <=> g \in Handled /\ g # f
  <2>1. f \notin clientParsers /\ writers[f] = NoWriter
    BY <1>0, <1>1 DEF IsOrigin
  <2> QED
    BY <1>1, <2>1 DEF Handled, NoWriter
<1>9. /\ Items(polled') = {p \in Items(polled) : p.fd # f}
      /\ Once(polled')
  BY <1>1, <1>2, Typed, RemoveFdItems DEF PolledExact
<1>10. PolledExact'
  BY <1>2, <1>7, <1>9 DEF PolledExact
<1>11. Paused'
  <2> SUFFICES ASSUME NEW p \in Items(polled'), p.events = "none"
               PROVE  /\ writers'[p.fd].action = "pause"
                      /\ writers'[p.fd].written = size'[writers'[p.fd].data]
    BY Zenon DEF Paused
  <2>1. p \in Items(polled)
    BY <1>9
  <2>2. /\ p.fd \in Fds /\ writers[p.fd].action = "pause"
        /\ writers[p.fd].data \in Clients
        /\ p.fd \in waiting[writers[p.fd].data]
        /\ writers[p.fd].written = size[writers[p.fd].data]
    BY <1>2, <2>1, PausedServed
  <2>3. writers[p.fd].data # e
    BY <1>1, <2>2 DEF NoWriter
  <2> QED
    BY <1>1, <2>2, <2>3, Typed
<1>12. RoundExact'
  BY <1>1, <1>2, <1>7, RoundKept
<1>13. Customers'
  <2>1. \A d \in Clients : fetch[d] = "done" =>
          fetch'[d] = "done" /\ size'[d] = size[d]
    BY <1>1, Typed
  <2>2. \A d \in Clients : client'[d] = "error" \/ client'[d] = client[d]
    BY <1>1
  <2> QED
    BY <1>1, <1>2, <2>1, <2>2 DEF Customers
<1> QED
  BY <1>6, <1>10, <1>11, <1>12, <1>13 DEF SInv

(* In writers are origins that have no request yet, and clients. *)
LEMMA WritingNumber ==
  ASSUME TInv, SInv, NEW f \in Fds, Writes(f)
  PROVE  /\ f \in Handled /\ Turn(f) /\ f \notin clientParsers
         /\ f \notin resourceParsers /\ \E p \in Items(polled) : p.fd = f
         /\ \/ IsServed(f)
            \/ /\ IsOrigin(f)
               /\ writers[f] = [data |-> Request, written |-> 0, action |-> "read"]
<1>1. Turn(f) /\ f \notin clientParsers /\ f \notin resourceParsers
      /\ writers[f] # NoWriter
  BY DEF Writes
<1>2. f \in Handled
  BY <1>1 DEF Handled
<1>3. Kind(f)
  BY DEF SInv, Kinds
<1>4. IsServed(f) \/ IsOrigin(f)
  BY <1>1, <1>3 DEF Kind, IsClosed, IsAsking, IsWaiting
<1>5. IsOrigin(f) =>
        writers[f] = [data |-> Request, written |-> 0, action |-> "read"]
  BY <1>1 DEF IsOrigin
<1> QED
  BY <1>1, <1>2, <1>4, <1>5 DEF SInv, PolledExact

(* The request goes out in one piece. *)
LEMMA RequestKeeps ==
  ASSUME TInv, SInv, NEW f \in Fds, NEW n \in 0 .. BufSize, WriteSome(f, n),
         IsOrigin(f)
  PROVE  SInv'
<1>1. /\ Turn(f) /\ writers[f].data = Request /\ writers[f].written = 0
      /\ writers[f].action = "read" /\ f \in Handled
      /\ f \notin clientParsers /\ f \notin resourceParsers
      /\ \E p \in Items(polled) : p.fd = f
  <2>1. Writes(f)
    BY DEF WriteSome
  <2>2. ~IsServed(f)
    BY DEF IsServed, IsOrigin
  <2> QED
    BY <2>1, <2>2, WritingNumber
<1>2. HasAll(f, n)
  <2>1. Length(writers[f].data) = 1
    BY <1>1 DEF Length
  <2>2. n \in IF AcceptInherits THEN 1 .. 1 ELSE {1}
    BY <1>1, <2>1 DEF WriteSome, Taken
  <2>3. n = 1
    BY <2>2
  <2> QED
    BY <1>1, <2>1, <2>3 DEF HasAll, Written
<1>3. /\ writers' = [writers EXCEPT ![f] = NoWriter]
      /\ polled' = SwitchFd(polled, f, "in")
      /\ resourceParsers' = resourceParsers \cup {f}
      /\ UNCHANGED <<clientAt, originAt, clientParsers, loaders, waiting,
                     size, fetch, client, joined, got>>
  BY <1>1, <1>2 DEF WriteSome, sockets, entries, IsOrigin
<1>4. Kinds /\ Customers /\ PolledExact /\ Paused /\ RoundExact
  BY DEF SInv
<1>5. \A g \in Fds : g # f => Same(g) /\ SameClient(g)
  BY <1>3, Typed DEF Same, SameClient
<1>w. writers'[f] = NoWriter
  BY <1>3, Typed
<1>6. IsOrigin(f)'
  BY <1>3, <1>w DEF IsOrigin, NoWriter
<1>7. Kinds'
  BY <1>4, <1>5, <1>6, KindKept DEF Kinds, Kind
<1>8. \A g \in Fds : g \in Handled' <=> g \in Handled
  <2>1. \A g \in Fds : g # f => writers'[g] = writers[g]
    BY <1>3, Typed
  <2> QED
    BY <1>1, <1>3, <2>1 DEF Handled, NoWriter
<1> DEFINE r == [fd |-> f, events |-> "in"]
<1>9. /\ Items(polled') = {p \in Items(polled) : p.fd # f} \cup {r}
      /\ Once(polled')
  BY <1>1, <1>3, <1>4, Typed, SwitchFdItems DEF PolledExact
<1>r. r.fd = f /\ r.events # "none"
  OBVIOUS
<1> HIDE DEF r
<1>10. PolledExact'
  BY <1>1, <1>4, <1>8, <1>9, <1>r DEF PolledExact
<1>11. Paused'
  <2>1. \A p \in Items(polled') : p.events = "none" =>
          p \in Items(polled) /\ writers'[p.fd] = writers[p.fd]
    BY <1>3, <1>9, <1>r, Typed
  <2> QED
    BY <1>3, <1>4, <2>1 DEF Paused
<1>12. RoundExact'
  BY <1>1, <1>4, <1>8, RoundKept
<1>13. Customers'
  BY <1>3, <1>4 DEF Customers
<1> QED
  BY <1>7, <1>10, <1>11, <1>12, <1>13 DEF SInv

(* What a step of writing to a client starts from. *)
LEMMA Writing ==
  ASSUME TInv, SInv, NEW f \in Fds, NEW n \in 0 .. BufSize, WriteSome(f, n),
         IsServed(f)
  PROVE  /\ f \in Handled /\ Turn(f) /\ f \notin clientParsers
         /\ f \notin resourceParsers /\ \E p \in Items(polled) : p.fd = f
         /\ clientAt[f] \in Clients /\ writers[f].data \in Clients
         /\ writers[f] \in ReplyWriter
         /\ Written(f, n) = got[clientAt[f]] + n
         /\ HasAll(f, n) <=> Written(f, n) = size[writers[f].data]
         /\ got' = [got EXCEPT ![clientAt[f]] = got[clientAt[f]] + n]
         /\ UNCHANGED <<clientParsers, loaders, waiting, size, fetch, joined>>
<1>1. Writes(f) /\ UNCHANGED <<clientParsers, loaders, waiting, size, fetch, joined>>
  BY DEF WriteSome, entries
<1>2. clientAt[f] \in Clients /\ writers[f].data \in Clients
      /\ writers[f].written = got[clientAt[f]]
  BY DEF IsServed
<1>3. got' = [got EXCEPT ![clientAt[f]] = got[clientAt[f]] + n]
  BY <1>2 DEF WriteSome
<1>4. Length(writers[f].data) = size[writers[f].data]
  BY <1>2 DEF Length
<1> QED
  BY <1>1, <1>2, <1>3, <1>4, WritingNumber, Typed DEF HasAll, Written

(* A part goes out, or all there is of a reply that is still loading. *)
LEMMA PartKeeps ==
  ASSUME TInv, SInv, NEW f \in Fds, NEW n \in 0 .. BufSize, WriteSome(f, n),
         IsServed(f), ~HasAll(f, n) \/ writers[f].action = "pause"
  PROVE  SInv'
<1>1. /\ f \in Handled /\ Turn(f) /\ f \notin clientParsers
      /\ f \notin resourceParsers /\ \E p \in Items(polled) : p.fd = f
      /\ clientAt[f] \in Clients /\ writers[f].data \in Clients
      /\ writers[f] \in ReplyWriter
      /\ Written(f, n) = got[clientAt[f]] + n
      /\ HasAll(f, n) <=> Written(f, n) = size[writers[f].data]
      /\ got' = [got EXCEPT ![clientAt[f]] = got[clientAt[f]] + n]
      /\ UNCHANGED <<clientParsers, loaders, waiting, size, fetch, joined>>
  BY Writing
<1>2. /\ writers' = [writers EXCEPT ![f] =
                       [writers[f] EXCEPT !.written = Written(f, n)]]
      /\ UNCHANGED <<clientAt, originAt, resourceParsers, client>>
  <2>1. ~(HasAll(f, n) /\ writers[f].action = "clean")
        /\ ~(HasAll(f, n) /\ writers[f].action = "read")
        /\ ~(HasAll(f, n) /\ writers[f].action # "pause")
    OBVIOUS
  <2> QED
    BY <2>1, Zenon DEF WriteSome, sockets
<1>3. polled' = IF HasAll(f, n) THEN SwitchFd(polled, f, "none") ELSE polled
  BY Zenon DEF WriteSome
<1>4. Kinds /\ Customers /\ PolledExact /\ Paused /\ RoundExact
  BY DEF SInv
<1>5. \A g \in Fds : g # f => Same(g) /\ SameClient(g)
  BY <1>1, <1>2, Apart, Typed DEF Same, SameClient
<1>w. /\ writers'[f].data = writers[f].data
      /\ writers'[f].written = Written(f, n)
      /\ writers'[f].action = writers[f].action
  <2>1. writers'[f] = [writers[f] EXCEPT !.written = Written(f, n)]
    BY <1>2, Typed
  <2> QED
    BY <1>1, <2>1 DEF ReplyWriter
<1>6. IsServed(f)'
  <2>1. /\ clientAt'[f] = clientAt[f] /\ originAt'[f] = originAt[f]
        /\ got'[clientAt[f]] = Written(f, n)
    BY <1>1, <1>2, Typed
  <2> QED
    BY <1>1, <1>2, <1>w, <2>1 DEF IsServed
<1>7. Kinds'
  BY <1>4, <1>5, <1>6, KindKept DEF Kinds, Kind
<1>8. \A g \in Fds : g \in Handled' <=> g \in Handled
  <2>1. writers'[f] # NoWriter
    BY <1>1, <1>w DEF NoWriter
  <2>2. \A g \in Fds : g # f => writers'[g] = writers[g]
    BY <1>2, Typed
  <2> QED
    BY <1>1, <1>2, <2>1, <2>2 DEF Handled, NoWriter
<1>9. RoundExact'
  BY <1>1, <1>4, <1>8, RoundKept
<1>10. Customers'
  <2>1. client[clientAt[f]] = "waiting"
    BY DEF IsServed
  <2> QED
    BY <1>1, <1>2, <1>4, <2>1, Typed DEF Customers
<1>11. CASE HasAll(f, n)
  <2>1. writers[f].action = "pause"
    BY <1>11
  <2> DEFINE r == [fd |-> f, events |-> "none"]
  <2>2. /\ Items(polled') = {p \in Items(polled) : p.fd # f} \cup {r}
        /\ Once(polled')
    BY <1>1, <1>3, <1>4, <1>11, Typed, SwitchFdItems DEF PolledExact
  <2>r. r.fd = f
    OBVIOUS
  <2> HIDE DEF r
  <2>3. PolledExact'
    BY <1>1, <1>4, <1>8, <2>2, <2>r DEF PolledExact
  <2>4. Paused'
    <3>1. \A p \in Items(polled') :
            \/ p = r
            \/ p \in Items(polled) /\ writers'[p.fd] = writers[p.fd]
      BY <1>2, <2>2, Typed
    <3>2. writers'[f].action = "pause"
          /\ writers'[f].written = size'[writers'[f].data]
      BY <1>1, <1>11, <1>w, <2>1
    <3> QED
      BY <1>1, <1>4, <2>r, <3>1, <3>2 DEF Paused
  <2> QED
    BY <1>7, <1>9, <1>10, <2>3, <2>4 DEF SInv
<1>12. CASE ~HasAll(f, n)
  <2>1. polled' = polled
    BY <1>3, <1>12
  <2>2. PolledExact'
    BY <1>4, <1>8, <2>1 DEF PolledExact
  <2>3. ASSUME NEW p \in Items(polled), p.events = "none" PROVE p.fd # f
    <3> SUFFICES ASSUME p.fd = f PROVE FALSE
      OBVIOUS
    <3>1. writers[f].written = size[writers[f].data]
      BY <1>4, <2>3 DEF Paused
    <3>2. Length(writers[f].data) - writers[f].written = 0
      BY <1>1, <3>1, Typed DEF Length
    <3>3. Taken(f) = {0}
      BY <3>2 DEF Taken
    <3>4. n = 0
      BY <3>3 DEF WriteSome
    <3>5. Written(f, n) = size[writers[f].data]
      BY <1>1, <3>1, <3>4, Typed DEF Written
    <3> QED
      BY <1>1, <1>12, <3>5
  <2>4. Paused'
    <3>1. \A p \in Items(polled) : p.fd # f => writers'[p.fd] = writers[p.fd]
      BY <1>2, Typed
    <3> QED
      BY <1>1, <1>4, <2>1, <2>3, <3>1 DEF Paused
  <2> QED
    BY <1>7, <1>9, <1>10, <2>2, <2>4 DEF SInv
<1> QED
  BY <1>11, <1>12

(* The rest of a whole reply goes out: the client is closed. *)
LEMMA AllKeeps ==
  ASSUME TInv, SInv, NEW f \in Fds, NEW n \in 0 .. BufSize, WriteSome(f, n),
         IsServed(f), HasAll(f, n), writers[f].action # "pause"
  PROVE  SInv'
<1>1. /\ f \in Handled /\ Turn(f) /\ f \notin clientParsers
      /\ f \notin resourceParsers
      /\ Written(f, n) = got[clientAt[f]] + n
      /\ HasAll(f, n) <=> Written(f, n) = size[writers[f].data]
      /\ got' = [got EXCEPT ![clientAt[f]] = got[clientAt[f]] + n]
      /\ UNCHANGED <<clientParsers, loaders, waiting, size, fetch, joined>>
  BY Writing
<1>2. PICK c \in Clients, e \in Clients :
        /\ c = clientAt[f] /\ e = joined[c] /\ e = writers[f].data
        /\ fetch[e] = "done" /\ loaders[f] = Nobody
        /\ \A d \in Clients : f \notin waiting[d]
        /\ writers[f].action = "clean"
  BY DEF IsServed
<1>3. /\ writers' = [writers EXCEPT ![f] = NoWriter]
      /\ polled' = RemoveFd(polled, f)
      /\ clientAt' = [clientAt EXCEPT ![f] = Nobody]
      /\ originAt' = [originAt EXCEPT ![f] = Nobody]
      /\ client' = [client EXCEPT ![c] = "ok"]
      /\ resourceParsers' = resourceParsers
  BY <1>2 DEF WriteSome, Ends
<1>4. Kinds /\ Customers /\ PolledExact /\ Paused /\ RoundExact
  BY DEF SInv
<1>5. \A g \in Fds : g # f => Same(g) /\ SameClient(g)
  BY <1>1, <1>2, <1>3, Apart, Typed DEF Same, SameClient
<1>6. IsClosed(f)'
  BY <1>1, <1>2, <1>3, Typed DEF IsClosed, NoWriter
<1>7. Kinds'
  BY <1>4, <1>5, <1>6, KindKept DEF Kinds, Kind
<1>8. \A g \in Fds : g \in Handled' <=> g \in Handled /\ g # f
  <2>1. \A g \in Fds : g # f => writers'[g] = writers[g]
    BY <1>3, Typed
  <2>2. writers'[f] = NoWriter
    BY <1>3, Typed
  <2> QED
    BY <1>1, <1>3, <2>1, <2>2 DEF Handled, NoWriter
<1>9. /\ Items(polled') = {p \in Items(polled) : p.fd # f}
      /\ Once(polled')
  BY <1>3, <1>4, Typed, RemoveFdItems DEF PolledExact
<1>10. PolledExact'
  BY <1>4, <1>8, <1>9 DEF PolledExact
<1>11. Paused'
  <2>1. \A p \in Items(polled') :
          p \in Items(polled) /\ writers'[p.fd] = writers[p.fd]
    BY <1>3, <1>9, Typed
  <2> QED
    BY <1>1, <1>4, <2>1 DEF Paused
<1>12. RoundExact'
  BY <1>1, <1>4, <1>8, RoundKept
<1>13. Customers'
  <2>1. /\ client'[c] = "ok" /\ joined'[c] = e /\ fetch'[e] = "done"
        /\ got'[c] = size'[e]
    BY <1>1, <1>2, <1>3, Typed
  <2>2. \A d \in Clients : d # c => client'[d] = client[d] /\ got'[d] = got[d]
    BY <1>1, <1>2, <1>3, Typed
  <2> SUFFICES ASSUME NEW d \in Clients
               PROVE  /\ client'[d] \in {"new", "asking"}
                           => joined'[d] = Nobody /\ got'[d] = 0
                      /\ client'[d] = "ok" => /\ joined'[d] \in Clients
                                              /\ fetch'[joined'[d]] = "done"
                                              /\ got'[d] = size'[joined'[d]]
    BY DEF Customers
  <2>3. CASE d = c
    BY <1>2, <2>1, <2>3
  <2>4. CASE d # c
    BY <1>1, <1>4, <2>2, <2>4 DEF Customers
  <2> QED
    BY <2>3, <2>4
<1> QED
  BY <1>7, <1>10, <1>11, <1>12, <1>13 DEF SInv

LEMMA WriteSomeKeeps ==
  ASSUME TInv, SInv, NEW f \in Fds, NEW n \in 0 .. BufSize, WriteSome(f, n)
  PROVE  SInv'
<1>1. IsServed(f) \/ IsOrigin(f)
  BY WritingNumber DEF WriteSome
<1> QED
  BY <1>1, RequestKeeps, PartKeeps, AllKeeps

(* A client that has gone is forgotten everywhere. *)
LEMMA WriteFailsKeeps ==
  ASSUME TInv, SInv, NoFailures, NEW f \in Fds, WriteFails(f)
  PROVE  SInv'
<1>1. /\ f \in Handled /\ Turn(f) /\ f \notin clientParsers
      /\ f \notin resourceParsers /\ IsServed(f)
  <2>1. Writes(f) /\ originAt[f] = Nobody
    BY DEF WriteFails, NoFailures
  <2>2. ~IsOrigin(f)
    BY <2>1 DEF IsOrigin
  <2> QED
    BY <2>1, <2>2, WritingNumber
<1>2. PICK c \in Clients, e \in Clients :
        /\ c = clientAt[f] /\ e = writers[f].data /\ loaders[f] = Nobody
        /\ \A d \in Clients : d # e => f \notin waiting[d]
  BY <1>1 DEF IsServed
<1>3. /\ writers' = [writers EXCEPT ![f] = NoWriter]
      /\ polled' = RemoveFd(polled, f)
      /\ waiting' = [waiting EXCEPT ![e] = waiting[e] \ {f}]
      /\ clientAt' = [clientAt EXCEPT ![f] = Nobody]
      /\ originAt' = [originAt EXCEPT ![f] = Nobody]
      /\ client' = [client EXCEPT ![c] = "error"]
      /\ UNCHANGED <<clientParsers, resourceParsers, loaders, size, fetch,
                     joined, got>>
  BY <1>2 DEF WriteFails, Ends
<1>4. Kinds /\ Customers /\ PolledExact /\ Paused /\ RoundExact
  BY DEF SInv
<1>w. \A d \in Clients, g \in Fds :
        g \in waiting'[d] <=> g \in waiting[d] /\ g # f
  BY <1>2, <1>3, Typed
<1>5. \A g \in Fds : g # f => Same(g) /\ SameClient(g)
  BY <1>2, <1>3, <1>w, Apart, Typed DEF Same, SameClient
<1>6. IsClosed(f)'
  BY <1>1, <1>2, <1>3, <1>w, Typed DEF IsClosed, NoWriter
<1>7. Kinds'
  BY <1>4, <1>5, <1>6, KindKept DEF Kinds, Kind
<1>8. \A g \in Fds : g \in Handled' <=> g \in Handled /\ g # f
  <2>1. \A g \in Fds : g # f => writers'[g] = writers[g]
    BY <1>3, Typed
  <2>2. writers'[f] = NoWriter
    BY <1>3, Typed
  <2> QED
    BY <1>1, <1>3, <2>1, <2>2 DEF Handled, NoWriter
<1>9. /\ Items(polled') = {p \in Items(polled) : p.fd # f}
      /\ Once(polled')
  BY <1>3, <1>4, Typed, RemoveFdItems DEF PolledExact
<1>10. PolledExact'
  BY <1>4, <1>8, <1>9 DEF PolledExact
<1>11. Paused'
  <2>1. \A p \in Items(polled') :
          p \in Items(polled) /\ writers'[p.fd] = writers[p.fd]
    BY <1>3, <1>9, Typed
  <2> QED
    BY <1>3, <1>4, <2>1 DEF Paused
<1>12. RoundExact'
  BY <1>1, <1>4, <1>8, RoundKept
<1>13. Customers'
  BY <1>2, <1>3, <1>4, Typed DEF Customers
<1> QED
  BY <1>7, <1>10, <1>11, <1>12, <1>13 DEF SInv

-----------------------------------------------------------------------------

LEMMA InitKeeps == Init => SInv
<1> SUFFICES ASSUME Init PROVE SInv
  OBVIOUS
<1>1. Kinds
  BY DEF Init, Kinds, Kind, IsClosed
<1>2. Items(polled) = {} /\ Once(polled)
  BY DEF Init, Items, Once
<1>3. Handled = {}
  BY DEF Init, Handled
<1>4. PolledExact /\ Paused
  BY <1>2, <1>3 DEF PolledExact, Paused
<1>5. RoundExact
  BY DEF Init, RoundExact
<1>6. Customers
  BY DEF Init, Customers
<1> QED
  BY <1>1, <1>4, <1>5, <1>6 DEF SInv

LEMMA StepKeeps == ASSUME NoFailures PROVE TInv /\ SInv /\ [Next]_vars => SInv'
<1> SUFFICES ASSUME TInv, SInv, [Next]_vars PROVE SInv'
  OBVIOUS
<1>1. ASSUME NEW S \in SUBSET DOMAIN polled, Poll(S) PROVE SInv'
  BY <1>1, PollKeeps
<1>2. ASSUME NEW f \in Fds, ReadFromClient(f) PROVE SInv'
  BY <1>2, QuietKeeps, RejectKeeps, AnswerKeeps, AwaitKeeps, DownloadKeeps,
     NoSocketKeeps DEF ReadFromClient
<1>3. ASSUME NEW f \in Fds, ReadFromResource(f) PROVE SInv'
  BY <1>3, LoadSomeKeeps, LoadLastKeeps, LoadFailsKeeps DEF ReadFromResource
<1>4. ASSUME NEW f \in Fds, Write(f) PROVE SInv'
  BY <1>4, WriteSomeKeeps, WriteFailsKeeps DEF Write
<1>5. CASE Connect
  BY <1>5, ConnectKeeps
<1>6. CASE UNCHANGED vars \/ Idle \/ Dies \/ \E f \in Fds : WhatIsIt(f)
  BY <1>6, QuietKeeps
<1> QED
  BY <1>1, <1>2, <1>3, <1>4, <1>5, <1>6 DEF Next, Dispatch

(* Without failures every number is of one of the kinds above, and the     *)
(* list, the round and the connections fit it.                             *)
THEOREM ServiceInvariance == ASSUME NoFailures PROVE Spec => [](TInv /\ SInv)
<1>1. Init => SInv
  BY InitKeeps
<1>2. TInv /\ SInv /\ [Next]_vars => SInv'
  BY StepKeeps
<1>3. Spec => []TInv
  BY TypeInvariance
<1> QED
  BY <1>1, <1>2, <1>3, PTL DEF Spec

-----------------------------------------------------------------------------
(* What follows from it                                                    *)

(* poll_entries and the maps agree: a number is polled once if it is open  *)
(* and one map names its handler, and not at all otherwise.                *)
THEOREM ListExact == ASSUME NoFailures PROVE Spec => []PollListExact
<1>1. TInv /\ SInv => PollListExact
  <2> SUFFICES ASSUME TInv, SInv PROVE PollListExact
    OBVIOUS
  <2>0. Kinds /\ PolledExact
    BY DEF SInv
  <2>1. ASSUME NEW f \in Fds
        PROVE  Cardinality({i \in DOMAIN polled : polled[i].fd = f})
                 = IF f \in Handled THEN 1 ELSE 0
    <3> DEFINE I == {i \in DOMAIN polled : polled[i].fd = f}
    <3>1. CASE f \in Handled
      <4>1. PICK i \in DOMAIN polled : polled[i].fd = f
        BY <2>0, <3>1 DEF PolledExact, Items
      <4>2. I = {i}
        BY <2>0, <4>1 DEF PolledExact, Once
      <4>3. Cardinality({i}) = 1
        BY FS_Singleton
      <4> QED
        BY <3>1, <4>2, <4>3
    <3>2. CASE f \notin Handled
      <4>1. I = {}
        BY <2>0, <3>2 DEF PolledExact, Items
      <4> QED
        BY <3>2, <4>1, FS_EmptySet
    <3> QED
      BY <3>1, <3>2
  <2>2. ASSUME NEW f \in Handled PROVE f \in Open
    <3>1. f \in Fds /\ ~IsClosed(f)
      BY Typed, HasHandler DEF Handled, IsClosed
    <3>2. f \in Fds /\ Kind(f)
      BY <2>0, <3>1 DEF Kinds
    <3> QED
      BY <3>1, <3>2
         DEF Kind, IsAsking, IsWaiting, IsServed, IsOrigin, Open
  <2>3. ASSUME NEW f \in clientParsers PROVE f \notin resourceParsers /\ writers[f] = NoWriter
    BY AskingNumber DEF IsAsking
  <2>4. ASSUME NEW f \in resourceParsers PROVE writers[f] = NoWriter
    <3>1. f \in Fds /\ Kind(f)
      BY <2>0, Typed DEF Kinds
    <3> QED
      BY <3>1 DEF Kind, IsClosed, IsAsking, IsWaiting, IsServed, IsOrigin
  <2> QED
    BY <2>1, <2>2, <2>3, <2>4 DEF PollListExact
<1> QED
  BY <1>1, ServiceInvariance, PTL

(* A number that poll() reported still means the connection it meant then. *)
THEOREM RoundStaysFresh == ASSUME NoFailures PROVE Spec => []RoundFresh
<1>1. SInv => RoundFresh
  BY DEF SInv, RoundExact, RoundFresh
<1> QED
  BY <1>1, ServiceInvariance, PTL

(* What is under way to a client is the reply to its own request, from the *)
(* unit after the last it was sent.                                        *)
THEOREM OwnReplyOnly == ASSUME NoFailures PROVE Spec => []OwnReply
<1>1. SInv => OwnReply
  <2> SUFFICES ASSUME SInv PROVE OwnReply
    OBVIOUS
  <2> SUFFICES ASSUME NEW f \in Fds, clientAt[f] # Nobody, writers[f] # NoWriter
               PROVE  /\ writers[f].data = joined[clientAt[f]]
                      /\ writers[f].written = got[clientAt[f]]
    BY DEF OwnReply
  <2>1. Kind(f)
    BY DEF SInv, Kinds
  <2>2. IsServed(f)
    BY <2>1 DEF Kind, IsClosed, IsAsking, IsWaiting, IsOrigin
  <2> QED
    BY <2>2 DEF IsServed
<1> QED
  BY <1>1, ServiceInvariance, PTL

(* A paused client has all there is, and will be noticed when there is more. *)
THEOREM PausedHasAll == ASSUME NoFailures PROVE Spec => []PausedUpToDate
<1>1. TInv /\ SInv => PausedUpToDate
  <2> SUFFICES ASSUME TInv, SInv PROVE PausedUpToDate
    OBVIOUS
  <2> SUFFICES ASSUME NEW i \in DOMAIN polled, polled[i].events = "none"
               PROVE  /\ writers[polled[i].fd].written
                            = size[writers[polled[i].fd].data]
                      /\ polled[i].fd \in waiting[writers[polled[i].fd].data]
    BY DEF PausedUpToDate
  <2>1. polled[i] \in Items(polled)
    BY DEF Items
  <2> QED
    BY <2>1, PausedServed DEF SInv
<1> QED
  BY <1>1, ServiceInvariance, PTL

(* A client closed without an error has the whole of a whole reply. *)
THEOREM ReplyComplete == ASSUME NoFailures PROVE Spec => []CompleteReply
<1>1. SInv => CompleteReply
  BY DEF SInv, Customers, CompleteReply
<1> QED
  BY <1>1, ServiceInvariance, PTL

-----------------------------------------------------------------------------
(* With a number for every connection and every download, whoever waits    *)
(* waits for a download that is under way.                                 *)

Room == IsFiniteSet(Clients) /\ 2 * Cardinality(Clients) <= Cardinality(Fds)

(* An entry that is loading has a number, which is its origin's. *)
Loading ==
  \A e \in Clients : fetch[e] = "loading" =>
    \E f \in Fds : loaders[f] = e /\ originAt[f] = e

(* While a request is being read, a number is free: its client has none    *)
(* for a download yet.                                                     *)
LEMMA NumberLeft ==
  ASSUME TInv, SInv, Room, NEW f \in clientParsers
  PROVE  Free # {}
<1> SUFFICES ASSUME Free = {} PROVE FALSE
  OBVIOUS
<1> DEFINE T == Clients \X {1, 2}
           at == [g \in Fds |-> IF clientAt[g] # Nobody THEN <<clientAt[g], 1>>
                               ELSE <<originAt[g], 2>>]
<1>1. PICK c \in Clients : c = clientAt[f] /\ fetch[c] = "absent"
  <2>1. clientAt[f] \in Clients
    BY AskingNumber DEF IsAsking
  <2> QED
    BY <2>1, Asking DEF TInv, IInv
<1>2. ASSUME NEW g \in Fds, clientAt[g] = Nobody
      PROVE  originAt[g] \in Clients /\ loaders[g] = originAt[g] /\ originAt[g] # c
  <2>1. originAt[g] # Nobody
    BY <1>2 DEF Free, Open
  <2>2. IsOrigin(g)
    BY <1>2, <2>1
       DEF SInv, Kinds, Kind, IsClosed, IsAsking, IsWaiting, IsServed
  <2>3. originAt[g] \in Clients /\ loaders[g] = originAt[g]
    BY <2>2 DEF IsOrigin
  <2>4. fetch[loaders[g]] = "loading"
    BY <2>3 DEF TInv, IInv, Downloads
  <2> QED
    BY <1>1, <2>3, <2>4
<1>3. \A g \in Fds : at[g] \in T /\ at[g] # <<c, 2>>
  BY <1>2, Typed
<1>4. ASSUME NEW g \in Fds, NEW h \in Fds, at[g] = at[h] PROVE g = h
  <2>1. CASE clientAt[g] # Nobody /\ clientAt[h] # Nobody
    <3>1. clientAt[g] = clientAt[h]
      BY <1>4, <2>1
    <3> QED
      BY <2>1, <3>1, Apart
  <2>2. CASE clientAt[g] = Nobody /\ clientAt[h] = Nobody
    <3>1. originAt[g] = originAt[h]
      BY <1>4, <2>2
    <3> QED
      BY <1>2, <2>2, <3>1, Apart
  <2>3. CASE clientAt[g] # Nobody <=> clientAt[h] = Nobody
    BY <1>4, <2>3
  <2> QED
    BY <2>1, <2>2, <2>3
<1>5. at \in Injection(Fds, T)
  BY <1>3, <1>4 DEF Injection, IsInjective
<1>6. /\ IsFiniteSet(T) /\ Cardinality(T) = 2 * Cardinality(Clients)
      /\ Cardinality(Clients) \in Nat /\ Cardinality(Fds) \in Nat
  <2>1. IsFiniteSet({1}) /\ Cardinality({1}) = 1
    BY FS_Singleton
  <2>2. IsFiniteSet({1, 2}) /\ Cardinality({1, 2}) = 2
    <3>1. {1, 2} = {1} \cup {2} /\ 2 \notin {1}
      OBVIOUS
    <3>2. /\ IsFiniteSet({1} \cup {2})
          /\ Cardinality({1} \cup {2}) = IF 2 \in {1} THEN Cardinality({1})
                                        ELSE Cardinality({1}) + 1
      BY <2>1, FS_AddElement
    <3> QED
      BY <2>1, <3>1, <3>2
  <2>3. IsFiniteSet(Clients) /\ Cardinality(Clients) \in Nat
        /\ Cardinality(Fds) \in Nat
    BY FS_CardinalityType DEF Room
  <2>4. IsFiniteSet(T) /\ Cardinality(T) = Cardinality(Clients) * Cardinality({1, 2})
    BY <2>2, <2>3, FS_Product
  <2> QED
    BY <2>2, <2>3, <2>4
<1> HIDE DEF at, T
<1>7. /\ Cardinality(Fds) <= Cardinality(T)
      /\ Cardinality(Fds) = Cardinality(T) <=> at \in Surjection(Fds, T)
  BY <1>5, <1>6, FS_Injection
<1>8. at \in Surjection(Fds, T)
  BY <1>6, <1>7 DEF Room
<1>9. <<c, 2>> \in T
  BY DEF T
<1> QED
  BY <1>3, <1>8, <1>9 DEF Surjection

(* A download goes on unless its own handler ends it. *)
LEMMA StillLoading ==
  ASSUME Loading,
         \A e \in Clients : fetch'[e] = "loading" =>
           /\ fetch[e] = "loading"
           /\ \A g \in Fds : loaders[g] = e /\ originAt[g] = e =>
                loaders'[g] = e /\ originAt'[g] = e
  PROVE  Loading'
BY DEF Loading

LEMMA LoadingStep ==
  ASSUME NoFailures, Room
  PROVE  TInv /\ SInv /\ Loading /\ [Next]_vars => Loading'
<1> SUFFICES ASSUME TInv, SInv, Loading, [Next]_vars PROVE Loading'
  OBVIOUS
<1>1. CASE UNCHANGED <<originAt, loaders, fetch>>
  BY <1>1, StillLoading
<1>2. ASSUME NEW f \in Fds, RejectRequest(f) PROVE Loading'
  <2>1. originAt[f] = Nobody
    BY <1>2, AskingNumber DEF RejectRequest, Asks, IsAsking
  <2>2. originAt' = [originAt EXCEPT ![f] = Nobody]
        /\ loaders' = loaders /\ fetch' = fetch
    BY <1>2 DEF RejectRequest, entries
  <2> QED
    BY <2>1, <2>2, Typed, StillLoading
<1>3. ASSUME NEW f \in Fds, StartDownload(f) PROVE Loading'
  <2>1. PICK h \in Free :
          /\ originAt' = [originAt EXCEPT ![h] = clientAt[f]]
          /\ loaders' = [loaders EXCEPT ![h] = clientAt[f]]
          /\ fetch' = [fetch EXCEPT ![clientAt[f]] = "loading"]
    BY <1>3, LowestFree DEF StartDownload, NewEntry
  <2>2. h \in Fds /\ originAt[h] = Nobody
    BY <2>1 DEF Free, Open
  <2>3. clientAt[f] \in Clients
    BY <1>3, AskingNumber DEF StartDownload, NewEntry, Sends, Asks, IsAsking
  <2>4. loaders'[h] = clientAt[f] /\ originAt'[h] = clientAt[f]
    BY <2>1, <2>2, Typed
  <2>5. ASSUME NEW e \in Clients, e # clientAt[f], fetch'[e] = "loading"
        PROVE  \E g \in Fds : loaders'[g] = e /\ originAt'[g] = e
    <3>1. PICK g \in Fds : loaders[g] = e /\ originAt[g] = e
      BY <2>1, <2>5, Typed DEF Loading
    <3> QED
      BY <2>1, <2>2, <3>1, Typed
  <2> QED
    BY <2>2, <2>4, <2>5 DEF Loading
<1>4. ASSUME NEW f \in Fds, StartWithoutSocket(f) PROVE FALSE
  BY <1>4, NumberLeft DEF StartWithoutSocket, NewEntry, Sends, Asks
<1>5. ASSUME NEW f \in Fds, NEW n, NEW b, LoadLast(f, n, b) PROVE Loading'
  <2>1. /\ loaders[f] \in Clients
        /\ loaders' = [loaders EXCEPT ![f] = Nobody]
        /\ originAt' = [originAt EXCEPT ![f] = Nobody]
        /\ fetch' = [fetch EXCEPT ![loaders[f]] = "done"]
    BY <1>5, LoadingNumber DEF LoadLast, Answers
  <2> QED
    BY <2>1, Typed, StillLoading
<1>6. ASSUME NEW f \in Fds, LoadFails(f) PROVE Loading'
  <2>1. PICK e \in Clients :
          /\ e = loaders[f]
          /\ loaders' = [loaders EXCEPT ![f] = Nobody]
          /\ originAt' = [g \in Fds |-> IF g \in waiting[e] \cup {f}
                                       THEN Nobody ELSE originAt[g]]
          /\ fetch' = [fetch EXCEPT ![e] = "failed"]
    BY <1>6, LoadingNumber DEF LoadFails
  <2>2. \A g \in Fds : g \in waiting[e] => loaders[g] = Nobody
    BY ServeOwn DEF SInv
  <2> QED
    BY <2>1, <2>2, Typed, StillLoading
<1>7. ASSUME NEW f \in Fds, NEW n, WriteSome(f, n) PROVE Loading'
  <2>1. loaders' = loaders /\ fetch' = fetch
    BY <1>7 DEF WriteSome, entries
  <2>2. CASE originAt' = originAt
    BY <2>1, <2>2, StillLoading
  <2>3. CASE originAt' # originAt
    <3>1. originAt' = [originAt EXCEPT ![f] = Nobody] /\ writers[f].action = "clean"
      BY <1>7, <2>3, Zenon DEF WriteSome, sockets
    <3>2. IsServed(f)
      BY <1>7, <3>1, WritingNumber DEF WriteSome
    <3> QED
      BY <2>1, <3>1, <3>2, Typed, StillLoading DEF IsServed
  <2> QED
    BY <2>2, <2>3
<1>8. ASSUME NEW f \in Fds, WriteFails(f) PROVE Loading'
  <2>1. /\ originAt[f] = Nobody /\ loaders' = loaders /\ fetch' = fetch
        /\ originAt' = [originAt EXCEPT ![f] = Nobody]
    BY <1>8 DEF WriteFails, NoFailures
  <2> QED
    BY <2>1, Typed, StillLoading
<1>9. ASSUME NEW f \in Fds, ReadFromClient(f) PROVE Loading'
  <2>1. CASE ReadMore(f) \/ AnswerFromCache(f) \/ AwaitLoading(f)
    BY <1>1, <2>1 DEF ReadMore, AnswerFromCache, AwaitLoading, sockets, tables,
                      entries
  <2> QED
    BY <1>2, <1>3, <1>4, <1>9, <2>1 DEF ReadFromClient
<1>10. ASSUME NEW f \in Fds, NEW n, LoadSome(f, n) PROVE Loading'
  BY <1>1, <1>10 DEF LoadSome, sockets
<1>11. CASE \/ UNCHANGED vars \/ Idle \/ Dies \/ Connect
            \/ \E S \in SUBSET DOMAIN polled : Poll(S)
            \/ \E f \in Fds : WhatIsIt(f)
  BY <1>1, <1>11 DEF vars, Idle, Dies, Connect, Poll, WhatIsIt, sockets,
                     tables, entries
<1> QED
  BY <1>5, <1>6, <1>7, <1>8, <1>9, <1>10, <1>11
     DEF Next, Dispatch, ReadFromResource, Write

(* Who waits on an entry waits for a download that is under way.           *)
THEOREM WaitersAreLoadedFor ==
  ASSUME NoFailures, Room PROVE Spec => []WaitedForIsLoading
<1>1. Init => Loading
  BY DEF Init, Loading
<1>2. TInv /\ SInv /\ Loading /\ [Next]_vars => Loading'
  BY LoadingStep
<1>3. TInv /\ SInv /\ Loading => WaitedForIsLoading
  <2> SUFFICES ASSUME TInv, SInv, Loading, NEW e \in Clients, NEW g \in waiting[e]
               PROVE  \E f \in Handled : loaders[f] = e /\ originAt[f] = e
    BY DEF WaitedForIsLoading
  <2>1. g \in Fds
    BY Typed
  <2>2. fetch[e] = "loading"
    <3>1. Kind(g)
      BY <2>1 DEF SInv, Kinds
    <3> QED
      BY <3>1 DEF Kind, IsClosed, IsAsking, IsWaiting, IsServed, IsOrigin
  <2>3. PICK f \in Fds : loaders[f] = e /\ originAt[f] = e
    BY <2>2 DEF Loading
  <2>4. IsOrigin(f)
    BY <2>3 DEF SInv, Kinds, Kind, IsClosed, IsAsking, IsWaiting, IsServed
  <2>5. f \in Handled
    BY <2>4, HasHandler DEF IsOrigin, NoWriter
  <2> QED
    BY <2>3, <2>5
<1> QED
  BY <1>1, <1>2, <1>3, ServiceInvariance, PTL DEF Spec

-----------------------------------------------------------------------------
(* Every step of the loop is a step of the service, or none of it          *)

LEMMA RepliesNow ==
  ASSUME TInv, NEW c \in Clients, NEW how, client' = [client EXCEPT ![c] = how]
  PROVE  Replies' = [Replies EXCEPT ![c] = IF how \in {"ok", "error"} THEN how
                                           ELSE "pending"]
  BY Typed DEF Replies

LEMMA FatesNow ==
  ASSUME TInv, NEW e \in Clients, NEW how, fetch' = [fetch EXCEPT ![e] = how]
  PROVE  Fates' = [Fates EXCEPT ![e] = IF how = "done" THEN "complete"
                                       ELSE IF how = "failed" THEN "broken"
                                       ELSE "open"]
  BY Typed DEF Fates

(* Nothing of a connection or a download changes that is seen outside. *)
LEMMA Unseen ==
  ASSUME UNCHANGED <<client, fetch, joined, size, got>>
  PROVE  [Service!Next]_Service!vars
  BY DEF Service!vars, Replies, Fates

LEMMA AcceptRefined ==
  ASSUME TInv, Connect
  PROVE  [Service!Next]_Service!vars
<1>1. PICK c \in Clients :
        /\ client[c] = "new" /\ client' = [client EXCEPT ![c] = "asking"]
        /\ UNCHANGED <<fetch, size, joined, got>>
  BY DEF Connect, entries
<1>2. Replies' = Replies /\ Fates' = Fates
  BY <1>1, Typed DEF Replies, Fates
<1> QED
  BY <1>1, <1>2 DEF Service!vars

LEMMA RejectRefined ==
  ASSUME TInv, SInv, NEW f \in Fds, RejectRequest(f)
  PROVE  [Service!Next]_Service!vars
<1>1. PICK c \in Clients :
        /\ client[c] = "asking" /\ client' = [client EXCEPT ![c] = "error"]
        /\ UNCHANGED <<fetch, size, joined, got>>
  <2>1. IsAsking(f)
    BY AskingNumber DEF RejectRequest, Asks
  <2> QED
    BY <2>1 DEF RejectRequest, Ends, IsAsking, entries
<1>2. Replies[c] = "pending" /\ Replies' = [Replies EXCEPT ![c] = "error"]
  BY <1>1, RepliesNow DEF Replies
<1>3. Service!Fail(c)
  BY <1>1, <1>2 DEF Service!Fail, Fates
<1> QED
  BY <1>3 DEF Service!Next

(* The request has been read: its client is attached to an entry. *)
LEMMA FilesRefined ==
  ASSUME TInv, SInv, NEW f \in clientParsers, NEW e \in Clients,
         Files(clientAt[f], e), UNCHANGED <<Fates, size>>
  PROVE  [Service!Next]_Service!vars
<1>1. PICK c \in Clients : c = clientAt[f] /\ client[c] = "asking"
                            /\ joined[c] = Nobody
  BY AskingNumber DEF IsAsking
<1>2. /\ client' = [client EXCEPT ![c] = "waiting"]
      /\ joined' = [joined EXCEPT ![c] = e] /\ got' = got
  BY <1>1 DEF Files
<1>3. Replies[c] = "pending" /\ Replies' = Replies
  BY <1>1, <1>2, Typed DEF Replies
<1>4. Service!Attach(c, e)
  BY <1>1, <1>2, <1>3 DEF Service!Attach
<1> QED
  BY <1>4 DEF Service!Next

LEMMA ReadRefined ==
  ASSUME TInv, SInv, NEW f \in Fds,
         \/ AnswerFromCache(f) \/ AwaitLoading(f)
         \/ StartDownload(f) \/ StartWithoutSocket(f)
  PROVE  [Service!Next]_Service!vars
<1>1. f \in clientParsers /\ clientAt[f] \in Clients /\ size' = size
      /\ fetch[clientAt[f]] = "absent"
  <2>1. f \in clientParsers /\ clientAt[f] # Nobody /\ size' = size
    BY DEF AnswerFromCache, AwaitLoading, StartDownload, StartWithoutSocket,
           NewEntry, Sends, Asks, entries
  <2> QED
    BY <2>1, Asking DEF TInv, IInv
<1>2. CASE AnswerFromCache(f) \/ AwaitLoading(f)
  <2>1. PICK e \in Clients : Files(clientAt[f], e)
    <3> DEFINE k == cache[key[clientAt[f]]]
    <3>1. k # Nobody /\ Files(clientAt[f], k)
      BY <1>2 DEF AnswerFromCache, AwaitLoading
    <3>2. k \in Clients
      BY <1>1, <3>1, Asker DEF TInv, IInv
    <3> QED
      BY <3>1, <3>2
  <2>2. Fates' = Fates
    BY <1>2 DEF AnswerFromCache, AwaitLoading, entries, Fates
  <2> QED
    BY <1>1, <2>1, <2>2, FilesRefined
<1>3. CASE StartDownload(f) \/ StartWithoutSocket(f)
  <2>1. /\ Files(clientAt[f], clientAt[f])
        /\ fetch' = [fetch EXCEPT ![clientAt[f]] = "loading"]
    BY <1>3 DEF StartDownload, StartWithoutSocket, NewEntry
  <2>2. Fates' = Fates
    BY <1>1, <2>1, Typed DEF Fates
  <2> QED
    BY <1>1, <2>1, <2>2, FilesRefined
<1> QED
  BY <1>2, <1>3

(* What has been stored, and of what entry. *)
LEMMA EntrySize ==
  ASSUME TInv, NEW e \in Clients
  PROVE  /\ size[e] \in Nat /\ size[e] <= MaxReply + BufSize
         /\ fetch[e] # "failed" => size[e] <= MaxReply
  BY DEF TInv, Sizes

LEMMA StoreRefined ==
  ASSUME TInv, SInv, NEW f \in Fds, NEW n \in 0 .. BufSize,
         LoadSome(f, n) \/ \E b \in BOOLEAN : LoadLast(f, n, b)
  PROVE  [Service!Next]_Service!vars
<1>1. PICK e \in Clients :
        /\ fetch[e] = "loading" /\ size[e] + n <= MaxReply
        /\ size' = [size EXCEPT ![e] = size[e] + n]
        /\ fetch' = fetch \/ fetch' = [fetch EXCEPT ![e] = "done"]
        /\ UNCHANGED <<client, joined, got>>
  <2>1. Loads(f)
    BY DEF LoadSome, LoadLast, Answers
  <2>2. loaders[f] \in Clients /\ fetch[loaders[f]] = "loading"
    BY <2>1, LoadingNumber
  <2>3. size[loaders[f]] + n <= MaxReply
    BY <2>2, Typed DEF LoadSome, LoadLast
  <2> QED
    BY <2>2, <2>3 DEF LoadSome, LoadLast, customers
<1> DEFINE m == size[e] + n
<1>2. m \in 0 .. MaxReply + BufSize /\ m >= size[e]
  BY <1>1, EntrySize
<1>3. Fates[e] = "open" /\ Replies' = Replies
  BY <1>1 DEF Fates, Replies
<1>4. CASE fetch' = fetch
  <2>1. Fates' = [Fates EXCEPT ![e] = "open"]
    BY <1>3, <1>4 DEF Fates
  <2>2. Service!Store(e, m, FALSE)
    BY <1>1, <1>2, <1>3, <2>1 DEF Service!Store
  <2> QED
    BY <1>2, <2>2 DEF Service!Next
<1>5. CASE fetch' = [fetch EXCEPT ![e] = "done"]
  <2>1. Fates' = [Fates EXCEPT ![e] = "complete"]
    BY <1>5, FatesNow
  <2>2. Service!Store(e, m, TRUE)
    BY <1>1, <1>2, <1>3, <2>1 DEF Service!Store
  <2> QED
    BY <1>2, <2>2 DEF Service!Next
<1> QED
  BY <1>1, <1>4, <1>5

LEMMA BreakRefined ==
  ASSUME TInv, SInv, NEW f \in Fds, LoadFails(f)
  PROVE  [Service!Next]_Service!vars
<1>1. PICK e \in Clients :
        /\ e = loaders[f] /\ fetch[e] = "loading" /\ clientAt[f] = Nobody
        /\ size' = [size EXCEPT ![e] = size[e] + BufSize]
        /\ fetch' = [fetch EXCEPT ![e] = "failed"]
        /\ client' = [c \in Clients |->
                        IF \E g \in waiting[e] \cup {f} : clientAt[g] = c
                        THEN "error" ELSE client[c]]
        /\ UNCHANGED <<joined, got>>
  BY LoadingNumber DEF LoadFails, IsOrigin
<1> DEFINE m == size[e] + BufSize
           S == {c \in Clients : \E g \in waiting[e] : clientAt[g] = c}
<1>2. m \in 0 .. MaxReply + BufSize /\ m >= size[e]
  BY <1>1, EntrySize
<1>3. Fates[e] = "open" /\ Fates' = [Fates EXCEPT ![e] = "broken"]
  BY <1>1, FatesNow DEF Fates
<1>4. ASSUME NEW c \in S PROVE Replies[c] = "pending" /\ joined[c] = e
  <2>1. PICK g \in waiting[e] : clientAt[g] = c
    OBVIOUS
  <2>2. g \in Fds
    BY Typed
  <2>3. client[c] = "waiting" /\ joined[c] = e
    BY <2>1, <2>2, ServeOwn DEF SInv
  <2> QED
    BY <2>3 DEF Replies
<1>5. Replies' = [c \in Clients |-> IF c \in S THEN "error" ELSE Replies[c]]
  <2>1. \A c \in Clients : client'[c] = IF c \in S THEN "error" ELSE client[c]
    BY <1>1
  <2> HIDE DEF S
  <2> QED
    BY <2>1 DEF Replies
<1>6. Service!Break(e, m, S)
  BY <1>1, <1>2, <1>3, <1>4, <1>5 DEF Service!Break
<1> QED
  BY <1>2, <1>6 DEF Service!Next

LEMMA SendRefined ==
  ASSUME TInv, SInv, NEW f \in Fds, NEW n \in 0 .. BufSize, WriteSome(f, n)
  PROVE  [Service!Next]_Service!vars
<1>1. UNCHANGED <<joined, size, fetch>>
  BY DEF WriteSome, entries
<1>2. CASE IsOrigin(f)
  <2>1. clientAt[f] = Nobody
    BY <1>2 DEF IsOrigin
  <2>2. got' = got /\ client' = client
    BY <2>1 DEF WriteSome, Ends
  <2> QED
    BY <1>1, <2>2, Unseen
<1>3. CASE IsServed(f)
  <2>1. PICK c \in Clients, e \in Clients :
          /\ c = clientAt[f] /\ e = joined[c] /\ e = writers[f].data
          /\ client[c] = "waiting" /\ writers[f].written = got[c]
          /\ writers[f].action = "clean" => fetch[e] = "done"
    BY <1>3 DEF IsServed
  <2> DEFINE m == got[c] + n
             last == HasAll(f, n) /\ writers[f].action = "clean"
  <2>2. /\ got' = [got EXCEPT ![c] = m]
        /\ HasAll(f, n) <=> m = size[e]
    BY <1>3, <2>1, Writing
  <2>3. m \in 0 .. MaxReply + BufSize /\ got[c] <= m /\ m <= size[e]
    <3>1. size[e] \in Nat /\ size[e] <= MaxReply + BufSize
      BY EntrySize
    <3>2. got[c] \in Nat /\ got[c] <= size[e]
      <4>1. WriterFits(f)
        BY DEF TInv, Sizes
      <4> QED
        BY <2>1, <4>1, Typed DEF WriterFits, NoWriter
    <3>3. Length(writers[f].data) = size[e]
      BY <2>1 DEF Length
    <3>4. n <= size[e] - got[c]
      BY <2>1, <3>1, <3>2, <3>3 DEF WriteSome, Taken
    <3> QED
      BY <3>1, <3>2, <3>4
  <2>4. Replies[c] = "pending" /\ Fates' = Fates /\ joined[c] # Nobody
    BY <1>1, <2>1 DEF Replies, Fates
  <2>5. CASE last
    <3>1. client' = [client EXCEPT ![c] = "ok"]
      BY <2>1, <2>5 DEF WriteSome, Ends
    <3>2. Replies' = [Replies EXCEPT ![c] = "ok"]
      BY <3>1, RepliesNow
    <3>3. Fates[e] = "complete" /\ m = size[e]
      BY <2>1, <2>2, <2>5 DEF Fates
    <3>4. Service!Send(c, m, TRUE)
      BY <1>1, <2>1, <2>2, <2>3, <2>4, <3>2, <3>3 DEF Service!Send
    <3> QED
      BY <2>3, <3>4 DEF Service!Next
  <2>6. CASE ~last
    <3>1. client' = client
      BY <2>6, Zenon DEF WriteSome
    <3>2. Replies' = [Replies EXCEPT ![c] = "pending"]
      BY <2>4, <3>1 DEF Replies
    <3>3. Service!Send(c, m, FALSE)
      BY <1>1, <2>1, <2>2, <2>3, <2>4, <3>2 DEF Service!Send
    <3> QED
      BY <2>3, <3>3 DEF Service!Next
  <2> QED
    BY <2>5, <2>6
<1> QED
  BY <1>2, <1>3, WritingNumber DEF WriteSome

LEMMA GoneRefined ==
  ASSUME TInv, SInv, NoFailures, NEW f \in Fds, WriteFails(f)
  PROVE  [Service!Next]_Service!vars
<1>1. PICK c \in Clients :
        /\ client[c] = "waiting" /\ client' = [client EXCEPT ![c] = "error"]
        /\ UNCHANGED <<fetch, size, joined, got>>
  <2>1. IsServed(f)
    BY WritingNumber DEF WriteFails, NoFailures, IsOrigin
  <2> QED
    BY <2>1 DEF WriteFails, Ends, IsServed
<1>2. Replies[c] = "pending" /\ Replies' = [Replies EXCEPT ![c] = "error"]
  BY <1>1, RepliesNow DEF Replies
<1>3. Service!Fail(c)
  BY <1>1, <1>2 DEF Service!Fail, Fates
<1> QED
  BY <1>3 DEF Service!Next

LEMMA StepRefined ==
  ASSUME NoFailures
  PROVE  TInv /\ SInv /\ [Next]_vars => [Service!Next]_Service!vars
<1> SUFFICES ASSUME TInv, SInv, [Next]_vars
             PROVE  [Service!Next]_Service!vars
  OBVIOUS
<1>1. CASE \/ UNCHANGED vars \/ Idle \/ Dies
           \/ \E S \in SUBSET DOMAIN polled : Poll(S)
           \/ \E f \in Fds : ReadMore(f) \/ WhatIsIt(f)
  BY <1>1, Unseen DEF vars, Idle, Dies, Poll, ReadMore, WhatIsIt, customers,
                      entries
<1>2. CASE Connect
  BY <1>2, AcceptRefined
<1>3. ASSUME NEW f \in Fds, ReadFromClient(f) PROVE [Service!Next]_Service!vars
  BY <1>1, <1>3, RejectRefined, ReadRefined DEF ReadFromClient
<1>4. ASSUME NEW f \in Fds, ReadFromResource(f) PROVE [Service!Next]_Service!vars
  BY <1>4, StoreRefined, BreakRefined DEF ReadFromResource
<1>5. ASSUME NEW f \in Fds, Write(f) PROVE [Service!Next]_Service!vars
  BY <1>5, SendRefined, GoneRefined DEF Write
<1> QED
  BY <1>1, <1>2, <1>3, <1>4, <1>5 DEF Next, Dispatch

(* The loop promises what the threaded proxy does.                         *)
THEOREM Refinement == ASSUME NoFailures PROVE Spec => Implements
<1>1. Init => Service!Init
  BY DEF Init, Service!Init, Replies, Fates
<1>2. TInv /\ SInv /\ [Next]_vars => [Service!Next]_Service!vars
  BY StepRefined
<1> QED
  BY <1>1, <1>2, ServiceInvariance, PTL DEF Spec, Implements, Service!Spec

-----------------------------------------------------------------------------
(* What a client is sent                                                   *)

(* A step sends a client the next units of its reply, or leaves alone what *)
(* it was sent.                                                            *)
LEMMA SentStep ==
  ASSUME TInv, SInv, [Next]_vars, NEW f \in Fds, clientAt[f] # Nobody,
         got'[clientAt[f]] # got[clientAt[f]]
  PROVE  /\ writers[f].data = joined[clientAt[f]]
         /\ writers[f].written = got[clientAt[f]]
<1>1. PICK g \in Fds, n \in 0 .. BufSize : WriteSome(g, n)
  BY DEF Next, vars, customers, Poll, Idle, Dispatch, Connect, Dies, Write,
         WriteFails, WhatIsIt, ReadFromClient, ReadMore, RejectRequest,
         AnswerFromCache, AwaitLoading, StartDownload, StartWithoutSocket,
         NewEntry, Files, ReadFromResource, LoadSome, LoadLast, LoadFails
<1>2. clientAt[g] # Nobody
      /\ got' = [got EXCEPT ![clientAt[g]] = got[clientAt[g]] + n]
  BY <1>1 DEF WriteSome
<1>3. IsServed(g)
  <2>1. ~IsOrigin(g)
    BY <1>2 DEF IsOrigin
  <2> QED
    BY <1>1, <2>1, WritingNumber DEF WriteSome
<1>4. f = g
  <2>1. clientAt[f] = clientAt[g]
    BY <1>2, Typed
  <2> QED
    BY <2>1, Apart
<1> QED
  BY <1>3, <1>4 DEF IsServed

(* Whatever a client is sent is the next of the reply to its own request.  *)
THEOREM OnlyOwnReplySent == ASSUME NoFailures PROVE Spec => SentOwnReply
<1> DEFINE Sent == \A f \in Fds : LET c == clientAt[f] IN
                     c # Nobody /\ got'[c] # got[c] =>
                       writers[f].data = joined[c] /\ writers[f].written = got[c]
<1>1. TInv /\ SInv /\ [Next]_vars => [Sent]_vars
  BY SentStep
<1> QED
  BY <1>1, ServiceInvariance, PTL DEF Spec, SentOwnReply
=============================================================================
