----------------------------- MODULE PollProxy ------------------------------
(***************************************************************************)
(* lab31: the caching HTTP proxy that serves every connection from one     *)
(* thread around poll().                                                   *)
(*                                                                         *)
(* poll() returns the ready descriptors in the order of its list; run()    *)
(* hands each to the handler that the maps client_parsers, resource_parsers*)
(* and writers name for its number.  A step is one call of poll() or of    *)
(* one handler.  Descriptor numbers are reused, and what the handlers know *)
(* of a connection is filed under its number only.                         *)
(*                                                                         *)
(* A client makes at most one request and so at most one cache entry,      *)
(* which carries its name.  Replies are lengths, in units; a request to an *)
(* origin is written in one piece.                                         *)
(***************************************************************************)
EXTENDS Integers, SequencesExt

CONSTANTS Clients,            \* the connections
          Keys,               \* cache keys: host header plus url
          Fds,                \* descriptors the process may have: 1..n
          Nobody,             \* "no client", "no entry"
          Request,            \* the data of a request to an origin
          MaxReply,           \* bound: units in a reply
          BufSize,            \* READ_BUF_SIZE and SEND_BUF_SIZE, in units
          Stalled,            \* clients that may stop reading their socket
          AcceptInherits,     \* is an accepted socket non-blocking?
          OriginMayRefuse,    \* may an origin refuse the connection?
          OriginMayBreakOff,  \* may an origin fail in mid-reply?
          OriginMayBeSilent   \* may an origin close without a reply?

ASSUME PollAssumption ==
  /\ Nobody \notin Clients /\ Request \notin Clients
  /\ Fds \subseteq Nat \ {0} /\ IsFiniteSet(Fds)
  /\ MaxReply \in Nat /\ BufSize \in Nat \ {0}
  /\ Stalled \subseteq Clients
  /\ {AcceptInherits, OriginMayRefuse, OriginMayBreakOff, OriginMayBeSilent}
       \subseteq BOOLEAN

VARIABLES
  up,              \* the process runs
  polled,          \* PollfdsManager::poll_entries, listening socket apart
  round,           \* active_fds still to be handled; Listen for the socket
  clientAt,        \* clientAt[f]: the connection that has number f
  originAt,        \* originAt[f]: the entry whose download has number f
  clientParsers,   \* the keys of Proxy::client_parsers
  resourceParsers, \* the keys of Proxy::resource_parsers
  writers,         \* Proxy::writers
  cache,           \* Proxy::cache, from keys to entries
  loaders,         \* Proxy::cache_loaders, from numbers to entries
  waiting,         \* waiting[e]: CacheEntry::waiting_sockets
  size,            \* size[e]: length of CacheEntry::data
  fetch,           \* fetch[e]: "absent", "loading", CacheEntry::done, "failed"
  client,          \* client[c]: how far the connection has come
  key,             \* key[c]: the cache_key c asks for
  joined,          \* joined[c]: the entry c's request was filed with
  got              \* got[c]: how much c was sent

sockets   == <<clientAt, originAt>>
tables    == <<polled, clientParsers, resourceParsers, writers, cache,
               loaders>>
entries   == <<waiting, size, fetch>>
customers == <<client, key, joined, got>>
vars == <<up, round, sockets, tables, entries, customers>>

Entries == Clients
Listen == 0
NoWriter == [data |-> Nobody, written |-> 0, action |-> "none"]

Init ==
  /\ up = TRUE
  /\ polled = <<>> /\ round = <<>>
  /\ clientAt = [f \in Fds |-> Nobody]
  /\ originAt = [f \in Fds |-> Nobody]
  /\ clientParsers = {} /\ resourceParsers = {}
  /\ writers = [f \in Fds |-> NoWriter]
  /\ cache   = [k \in Keys |-> Nobody]
  /\ loaders = [f \in Fds |-> Nobody]
  /\ waiting = [e \in Entries |-> {}]
  /\ size    = [e \in Entries |-> 0]
  /\ fetch   = [e \in Entries |-> "absent"]
  /\ client  = [c \in Clients |-> "new"]
  /\ key     \in [Clients -> Keys]
  /\ joined  = [c \in Clients |-> Nobody]
  /\ got     = [c \in Clients |-> 0]

-----------------------------------------------------------------------------
(* PollfdsManager *)

AddFd(list, f, events) == Append(list, [fd |-> f, events |-> events])

(* find_if stops at the first entry with the number. *)
First(list, f) == SelectInSeq(list, LAMBDA p : p.fd = f)

(* Mutant of SwitchFd: another entry for the number. *)
AddAgain(list, f, events) == AddFd(list, f, events)

(* With no entry for the number the code writes past the end of the list;  *)
(* PollListExact says where that cannot be.                                *)
SwitchFd(list, f, events) ==
  IF First(list, f) = 0 THEN list
  ELSE [list EXCEPT ![First(list, f)].events = events]

(* Mutant of RemoveFd: the entry stays. *)
RemoveNothing(list, f) == list

RemoveFd(list, f) ==
  IF First(list, f) = 0 THEN list ELSE RemoveAt(list, First(list, f))

-----------------------------------------------------------------------------
(* The descriptors *)

Open == {f \in Fds : clientAt[f] # Nobody \/ originAt[f] # Nobody}
Free == Fds \ Open

(* The kernel gives out the lowest number that is not in use. *)
NewFd == CHOOSE f \in Free : \A g \in Free : f <= g

(* S in the order of the list: its members, each once, ascending. *)
Ascending(S) ==
  {at \in [1..Cardinality(S) -> S] :
     \A m, n \in DOMAIN at : m < n => at[m] < at[n]}

(* poll() returns when some entries are ready.  The listening socket comes *)
(* first, as it was the first to be added.  A closed number is always      *)
(* ready, with POLLNVAL; one that waits for nothing, if its peer hangs up. *)
Poll(S) ==
  /\ up /\ round = <<>>
  /\ S \subseteq DOMAIN polled
  /\ \A i \in DOMAIN polled : polled[i].fd \notin Open => i \in S
  /\ \E listen \in {<<>>, <<Listen>>}, at \in Ascending(S) :
       /\ listen = <<>> \/ \E c \in Clients : client[c] = "new"
       /\ round' = listen \o [n \in DOMAIN at |-> polled[at[n]].fd]
       /\ round' # <<>>
  /\ UNCHANGED <<up, sockets, tables, entries, customers>>

(* run() hands the next of the ready descriptors to its handler. *)
Turn(f) == up /\ round # <<>> /\ f = Head(round) /\ round' = Tail(round)

(* The connection behind f ends, for its client, in this way. *)
Ends(f, how) ==
  IF clientAt[f] = Nobody THEN client ELSE [client EXCEPT ![clientAt[f]] = how]

-----------------------------------------------------------------------------
(* connect *)

(* accept(): the lowest free number is polled, with a parser of its own.   *)
Connect ==
  /\ Turn(Listen) /\ Free # {}
  /\ \E c \in Clients :
       /\ client[c] = "new"
       /\ client' = [client EXCEPT ![c] = "asking"]
       /\ clientAt' = [clientAt EXCEPT ![NewFd] = c]
  /\ polled' = AddFd(polled, NewFd, "in")
  /\ clientParsers' = clientParsers \cup {NewFd}
  /\ UNCHANGED <<up, originAt, resourceParsers, writers, cache, loaders,
                 entries, key, joined, got>>

(* accept() finds no number free.  Or the number is one whose download is  *)
(* gone from cache_loaders: find() is then followed past the end.          *)
Fatal(f) ==
  IF f = Listen THEN Free = {}
  ELSE f \in resourceParsers \ clientParsers /\ loaders[f] = Nobody

(* Nobody catches what connect throws; the other is undefined, and ends    *)
(* the process too.                                                        *)
Dies ==
  /\ \E f \in Fds \cup {Listen} : Turn(f) /\ Fatal(f)
  /\ up' = FALSE
  /\ UNCHANGED <<sockets, tables, entries, customers>>

-----------------------------------------------------------------------------
(* read_from_client *)

Asks(f) == Turn(f) /\ f \in clientParsers

(* The number is still the client's that the parser was made for. *)
Sends(f) == Asks(f) /\ clientAt[f] # Nobody

(* The headers are not complete, or the client closed without a byte. *)
ReadMore(f) ==
  /\ Sends(f)
  /\ UNCHANGED <<up, sockets, tables, entries, customers>>

(* The catch clause: read(), the parser, the method or the connection to   *)
(* the origin failed.  The client is sent an error and closed.             *)
RejectRequest(f) ==
  /\ Asks(f)
  /\ polled' = RemoveFd(polled, f)
  /\ clientParsers' = clientParsers \ {f}
  /\ clientAt' = [clientAt EXCEPT ![f] = Nobody]
  /\ originAt' = [originAt EXCEPT ![f] = Nobody]
  /\ client' = Ends(f, "error")
  /\ UNCHANGED <<up, resourceParsers, writers, cache, loaders, entries,
                 key, joined, got>>

(* The request of c is filed with entry e. *)
Files(c, e) ==
  /\ client' = [client EXCEPT ![c] = "waiting"]
  /\ joined' = [joined EXCEPT ![c] = e]
  /\ UNCHANGED <<key, got>>

(* Mutant of Loaded: every entry found is taken for one still loading. *)
NeverLoaded(e) == FALSE

(* cache_value->done *)
Loaded(e) == fetch[e] = "done"

(* A whole reply is in the cache: write it out, then close.  The number is *)
(* added for POLLOUT, and its first entry, for POLLIN, is removed.         *)
AnswerFromCache(f) ==
  LET c == clientAt[f]
      e == cache[key[c]]
  IN  /\ Sends(f) /\ e # Nobody /\ Loaded(e)
      /\ writers' = [writers EXCEPT ![f] =
                       [data |-> e, written |-> 0, action |-> "clean"]]
      /\ polled' = RemoveFd(AddFd(polled, f, "out"), f)
      /\ clientParsers' = clientParsers \ {f}
      /\ Files(c, e)
      /\ UNCHANGED <<up, sockets, resourceParsers, cache, loaders, entries>>

(* The reply is being loaded: wait with the others. *)
AwaitLoading(f) ==
  LET c == clientAt[f]
      e == cache[key[c]]
  IN  /\ Sends(f) /\ e # Nobody /\ ~Loaded(e)
      /\ waiting' = [waiting EXCEPT ![e] = @ \cup {f}]
      /\ polled' = RemoveFd(polled, f)
      /\ clientParsers' = clientParsers \ {f}
      /\ Files(c, e)
      /\ UNCHANGED <<up, sockets, resourceParsers, writers, cache, loaders,
                     size, fetch>>

(* A new entry, filed under the key, with its client waiting. *)
NewEntry(f) ==
  LET c == clientAt[f]
  IN  /\ Sends(f) /\ cache[key[c]] = Nobody
      /\ cache' = [cache EXCEPT ![key[c]] = c]
      /\ fetch' = [fetch EXCEPT ![c] = "loading"]
      /\ waiting' = [waiting EXCEPT ![c] = {f}]
      /\ clientParsers' = clientParsers \ {f}
      /\ Files(c, c)

(* A miss: connect to the origin without waiting, and queue the request.   *)
StartDownload(f) ==
  /\ NewEntry(f) /\ Free # {}
  /\ originAt' = [originAt EXCEPT ![NewFd] = clientAt[f]]
  /\ writers' = [writers EXCEPT ![NewFd] =
                   [data |-> Request, written |-> 0, action |-> "read"]]
  /\ polled' = RemoveFd(AddFd(polled, NewFd, "out"), f)
  /\ loaders' = [loaders EXCEPT ![NewFd] = clientAt[f]]
  /\ UNCHANGED <<up, clientAt, resourceParsers, size>>

(* socket() finds no number free: all is filed under -1, which poll()      *)
(* passes over.                                                            *)
StartWithoutSocket(f) ==
  /\ NewEntry(f) /\ Free = {}
  /\ polled' = RemoveFd(polled, f)
  /\ UNCHANGED <<up, sockets, resourceParsers, writers, loaders, size>>

-----------------------------------------------------------------------------
(* read_from_resource *)

Loads(f) ==
  Turn(f) /\ f \notin clientParsers /\ f \in resourceParsers /\ loaders[f] # Nobody

(* The number is still the origin's that was asked for the entry. *)
Answers(f) ==
  Loads(f) /\ originAt[f] = loaders[f] /\ writers[f] = NoWriter

(* Mutant of Woken: who is paused stays so. *)
NotWoken(S) == polled

(* switch_fd for each of S, wherever it stands in the list. *)
Woken(S) ==
  [i \in DOMAIN polled |->
     IF \E f \in S : First(polled, f) = i
     THEN [polled[i] EXCEPT !.events = "out"] ELSE polled[i]]

(* Each waiting client gets a writer, and is added to the list, or has its *)
(* writer woken.  waiting_sockets is a hash set: there is no order.        *)
NoticedAll(e) ==
  LET new == {f \in waiting[e] : writers[f] = NoWriter}
  IN  {Woken(waiting[e] \ new)
         \o [n \in DOMAIN order |-> [fd |-> order[n], events |-> "out"]] :
       order \in SetToSeqs(new)}

(* Mutant of Serve: the writers there were are left as they are. *)
ServeNew(e, action) ==
  [f \in Fds |-> IF f \in waiting[e] /\ writers[f] = NoWriter
                 THEN [data |-> e, written |-> 0, action |-> action]
                 ELSE writers[f]]

(* The writers of the waiting clients: new ones, and once the reply is     *)
(* complete all of them, are to do this when they have written all.        *)
Serve(e, action) ==
  [f \in Fds |->
     IF f \notin waiting[e] THEN writers[f]
     ELSE IF writers[f] = NoWriter
     THEN [data |-> e, written |-> 0, action |-> action]
     ELSE IF action = "clean" THEN [writers[f] EXCEPT !.action = action]
     ELSE writers[f]]

(* Mutant of Uncached: the entry stays. *)
StillCached(e) == cache

(* cache.erase(cache_value->key) *)
Uncached(e) == [cache EXCEPT ![key[e]] = Nobody]

(* n more units, not the last. *)
LoadSome(f, n) ==
  LET e == loaders[f]
  IN  /\ Answers(f)
      /\ n = 0 => OriginMayBeSilent /\ size[e] = 0
      /\ size[e] + n <= MaxReply
      /\ size' = [size EXCEPT ![e] = @ + n]
      /\ writers' = Serve(e, "pause")
      /\ polled' \in NoticedAll(e)
      /\ UNCHANGED <<up, sockets, clientParsers, resourceParsers, cache,
                     loaders, waiting, fetch, customers>>

(* n more units, or the end of the connection, complete the reply.  One    *)
(* with a status other than 200 and 304 leaves the cache.                  *)
LoadLast(f, n, cacheable) ==
  LET e == loaders[f]
  IN  /\ Answers(f)
      /\ size[e] + n \in 1..MaxReply
      /\ size' = [size EXCEPT ![e] = @ + n]
      /\ writers' = Serve(e, "clean")
      /\ \E list \in NoticedAll(e) : polled' = RemoveFd(list, f)
      /\ waiting' = [waiting EXCEPT ![e] = {}]
      /\ resourceParsers' = resourceParsers \ {f}
      /\ fetch' = [fetch EXCEPT ![e] = "done"]
      /\ cache' = IF cacheable THEN cache ELSE Uncached(e)
      /\ loaders' = [loaders EXCEPT ![f] = Nobody]
      /\ originAt' = [originAt EXCEPT ![f] = Nobody]
      /\ UNCHANGED <<up, clientAt, clientParsers, customers>>

(* The catch clause: read() or the parser failed.  The clients that wait   *)
(* are closed, but neither poll_entries nor writers forgets their numbers, *)
(* and the error message goes to the origin's socket.  The data stay as    *)
(* long as they were made for the read().                                  *)
LoadFails(f) ==
  LET e == loaders[f]
      closed == waiting[e] \cup {f}
  IN  /\ Loads(f)
      /\ OriginMayBreakOff \/ \A w \in waiting[e] : writers[w] = NoWriter
      /\ size' = [size EXCEPT ![e] = @ + BufSize]
      /\ clientAt' = [g \in Fds |-> IF g \in closed THEN Nobody ELSE clientAt[g]]
      /\ originAt' = [g \in Fds |-> IF g \in closed THEN Nobody ELSE originAt[g]]
      /\ client' = [c \in Clients |-> IF \E g \in closed : clientAt[g] = c
                                      THEN "error" ELSE client[c]]
      /\ waiting' = [waiting EXCEPT ![e] = {}]
      /\ polled' = RemoveFd(polled, f)
      /\ resourceParsers' = resourceParsers \ {f}
      /\ fetch' = [fetch EXCEPT ![e] = "failed"]
      /\ cache' = Uncached(e)
      /\ loaders' = [loaders EXCEPT ![f] = Nobody]
      /\ UNCHANGED <<up, clientParsers, writers, key, joined, got>>

-----------------------------------------------------------------------------
(* write *)

Writes(f) ==
  /\ Turn(f) /\ f \notin clientParsers \cup resourceParsers
  /\ writers[f] # NoWriter

(* Mutant of Length: a request counted with the NUL that ends it. *)
LengthWithNul(data) == IF data = Request THEN 2 ELSE size[data]

(* writer.data->size() *)
Length(data) == IF data = Request THEN 1 ELSE size[data]

(* What one call of write() may take: of a non-blocking socket a part. *)
Taken(f) ==
  LET left == Length(writers[f].data) - writers[f].written
      most == IF left < BufSize THEN left ELSE BufSize
  IN  IF AcceptInherits /\ most > 0 THEN 1..most ELSE {most}

(* Mutant of Written: what was written before is forgotten. *)
WrittenNow(f, n) == n

(* writer.written += rc *)
Written(f, n) == writers[f].written + n

(* Mutant of HasAll: one round of writing is taken for all. *)
HasSome(f, n) == TRUE

(* writer.written == writer.data->size() *)
HasAll(f, n) == Written(f, n) = Length(writers[f].data)

(* write() takes n units.  Having all there is, a client of a reply that   *)
(* is not yet complete is paused, one of a complete reply is closed, and   *)
(* an origin that has its request is read from.                            *)
WriteSome(f, n) ==
  LET w == writers[f]
      all == HasAll(f, n)
  IN  /\ Writes(f) /\ f \in Open /\ n \in Taken(f)
      /\ got' = IF clientAt[f] = Nobody THEN got
                ELSE [got EXCEPT ![clientAt[f]] = @ + n]
      /\ writers' = [writers EXCEPT ![f] =
                       IF all /\ w.action # "pause" THEN NoWriter
                       ELSE [w EXCEPT !.written = Written(f, n)]]
      /\ polled' = IF ~all THEN polled
                   ELSE CASE w.action = "pause" -> SwitchFd(polled, f, "none")
                          [] w.action = "clean" -> RemoveFd(polled, f)
                          [] OTHER              -> SwitchFd(polled, f, "in")
      /\ resourceParsers' = IF all /\ w.action = "read"
                            THEN resourceParsers \cup {f} ELSE resourceParsers
      /\ IF all /\ w.action = "clean"
         THEN /\ clientAt' = [clientAt EXCEPT ![f] = Nobody]
              /\ originAt' = [originAt EXCEPT ![f] = Nobody]
              /\ client' = Ends(f, "ok")
         ELSE UNCHANGED <<sockets, client>>
      /\ UNCHANGED <<up, clientParsers, cache, loaders, entries, key, joined>>

(* write() fails: the peer is gone, refused the connection, or the number  *)
(* is closed.  The client no longer waits; a download is not given up.     *)
WriteFails(f) ==
  LET w == writers[f]
  IN  /\ Writes(f)
      /\ originAt[f] # Nobody => OriginMayRefuse
      /\ polled' = RemoveFd(polled, f)
      /\ waiting' = IF w.data = Request THEN waiting
                    ELSE [waiting EXCEPT ![w.data] = @ \ {f}]
      /\ writers' = [writers EXCEPT ![f] = NoWriter]
      /\ clientAt' = [clientAt EXCEPT ![f] = Nobody]
      /\ originAt' = [originAt EXCEPT ![f] = Nobody]
      /\ client' = Ends(f, "error")
      /\ UNCHANGED <<up, clientParsers, resourceParsers, cache, loaders,
                     size, fetch, key, joined, got>>

(* "What is it?": a number with neither parser nor writer. *)
WhatIsIt(f) ==
  /\ Turn(f) /\ f # Listen
  /\ f \notin clientParsers \cup resourceParsers /\ writers[f] = NoWriter
  /\ UNCHANGED <<up, sockets, tables, entries, customers>>

-----------------------------------------------------------------------------

ReadFromClient(f) ==
  \/ ReadMore(f) \/ RejectRequest(f) \/ AnswerFromCache(f) \/ AwaitLoading(f)
  \/ StartDownload(f) \/ StartWithoutSocket(f)

ReadFromResource(f) ==
  \/ \E n \in 0..BufSize : \/ LoadSome(f, n)
                           \/ \E b \in BOOLEAN : LoadLast(f, n, b)
  \/ LoadFails(f)

Write(f) == WriteFails(f) \/ \E n \in 0..BufSize : WriteSome(f, n)

Dispatch ==
  \/ Connect \/ Dies
  \/ \E f \in Fds : \/ ReadFromClient(f) \/ ReadFromResource(f)
                    \/ Write(f) \/ WhatIsIt(f)

(* The process has ended, or has nobody left to serve. *)
Idle ==
  /\ ~up \/ (polled = <<>> /\ \A c \in Clients : client[c] \in {"ok", "error"})
  /\ UNCHANGED vars

Next == (\E S \in SUBSET DOMAIN polled : Poll(S)) \/ Dispatch \/ Idle

(* poll() is level-triggered: what can be read or written stays ready      *)
(* until it is, so the loop finds it in the end.  An origin takes its      *)
(* request and answers; a client that has not stalled takes what it is     *)
(* sent.                                                                   *)
Finds(Ready(_)) ==
  \E S \in SUBSET DOMAIN polled : Poll(S) /\ \E i \in S : Ready(polled[i])

FindsOrigin(e) == Finds(LAMBDA p : originAt[p.fd] = e)
FindsReader(c) == Finds(LAMBDA p : clientAt[p.fd] = c /\ p.events = "out")

(* A handler runs to its end, unless it writes on a blocking socket that   *)
(* nobody reads.                                                           *)
Blocks ==
  /\ ~AcceptInherits /\ round # <<>> /\ Head(round) \in Fds
  /\ clientAt[Head(round)] \in Stalled
  /\ writers[Head(round)] # NoWriter

Fairness ==
  /\ WF_vars(Dispatch /\ ~Blocks)
  /\ \A e \in Entries : SF_vars(FindsOrigin(e))
  /\ \A c \in Clients \ Stalled : SF_vars(FindsReader(c))

Spec == Init /\ [][Next]_vars /\ Fairness
-----------------------------------------------------------------------------
(* Properties                                                              *)

(* Every variable keeps its type: what a map holds under a number is of    *)
(* the kind its handler takes it for.  (A number that a failed client left *)
(* in a waiting set may by then be an origin's, whose request writer is    *)
(* told to clean with the others when that set's reply is complete.)       *)
TypeOK ==
  /\ up \in BOOLEAN
  /\ polled \in Seq([fd : Fds, events : {"in", "out", "none"}])
  /\ round \in Seq(Fds \cup {Listen})
  /\ clientAt \in [Fds -> Clients \cup {Nobody}]
  /\ originAt \in [Fds -> Entries \cup {Nobody}]
  /\ {clientParsers, resourceParsers} \subseteq SUBSET Fds
  /\ \A f \in Fds :
       \/ writers[f] = NoWriter
       \/ writers[f] \in [data : {Request}, written : {0},
                          action : {"read", "clean"}]
       \/ writers[f] \in [data : Entries, written : 0 .. MaxReply + BufSize,
                          action : {"pause", "clean"}]
  /\ cache \in [Keys -> Entries \cup {Nobody}]
  /\ loaders \in [Fds -> Entries \cup {Nobody}]
  /\ waiting \in [Entries -> SUBSET Fds]
  /\ size \in [Entries -> 0 .. MaxReply + BufSize]
  /\ fetch \in [Entries -> {"absent", "loading", "done", "failed"}]
  /\ client \in [Clients -> {"new", "asking", "waiting", "ok", "error"}]
  /\ joined \in [Clients -> Entries \cup {Nobody}]
  /\ got \in [Clients -> Nat]

(* The numbers run() has a handler for. *)
Handled == clientParsers \cup resourceParsers
             \cup {f \in Fds : writers[f] # NoWriter}

(* poll_entries and the maps agree: a number is polled once if it is open  *)
(* and one map names its handler, and not at all otherwise.  So find_if    *)
(* always finds, what it finds is the only entry, and poll() never comes   *)
(* back for a number that nothing will be done about.                      *)
PollListExact ==
  /\ \A f \in Fds :
       Cardinality({i \in DOMAIN polled : polled[i].fd = f})
         = IF f \in Handled THEN 1 ELSE 0
  /\ Handled \subseteq Open
  /\ clientParsers \cap resourceParsers = {}
  /\ \A f \in clientParsers \cup resourceParsers : writers[f] = NoWriter

(* A number that poll() reported still means the connection it meant then: *)
(* no handler of the same round has closed it, or let it be given out anew.*)
RoundFresh == \A i \in DOMAIN round : round[i] # Listen => round[i] \in Handled

(* No connection is forgotten: its request is being read, or it waits on   *)
(* the entry it was filed with and that entry is being loaded, or a writer *)
(* has the rest of a whole reply for it.                                   *)
NobodyForgotten ==
  \A f \in Fds : clientAt[f] # Nobody =>
    LET e == joined[clientAt[f]]
    IN  \/ f \in clientParsers
        \/ f \in waiting[e] /\ fetch[e] = "loading"
        \/ writers[f].action = "clean" /\ fetch[e] = "done"

(* Who waits on an entry waits for a download that is under way: one open  *)
(* number leads to the entry, and to its origin.                           *)
WaitedForIsLoading ==
  \A e \in Entries : waiting[e] # {} =>
    \E f \in Handled : loaders[f] = e /\ originAt[f] = e

(* What is under way to a client is the reply to its own request, from the *)
(* unit after the last it was sent.                                        *)
OwnReply ==
  \A f \in Fds : clientAt[f] # Nobody /\ writers[f] # NoWriter =>
    /\ writers[f].data = joined[clientAt[f]]
    /\ writers[f].written = got[clientAt[f]]

(* A paused client, whose number is polled for nothing, has all there is,  *)
(* and will be noticed when there is more.                                 *)
PausedUpToDate ==
  \A i \in DOMAIN polled : polled[i].events = "none" =>
    LET w == writers[polled[i].fd]
    IN  w.written = size[w.data] /\ polled[i].fd \in waiting[w.data]

(* A client closed without an error has the whole of a whole reply. *)
CompleteReply ==
  \A c \in Clients : client[c] = "ok" =>
    fetch[joined[c]] = "done" /\ got[c] = size[joined[c]]

(* The cache leads a key to an entry made for it, never to a failed one. *)
CacheUsable ==
  \A k \in Keys : cache[k] # Nobody =>
    key[cache[k]] = k /\ fetch[cache[k]] \in {"loading", "done"}

(* The wget test compares what comes through the proxy with what comes     *)
(* past it: whatever a client is sent is the next of its own reply.        *)
SentOwnReply ==
  [][\A f \in Fds : LET c == clientAt[f] IN
       c # Nobody /\ got'[c] # got[c] =>
         writers[f].data = joined[c] /\ writers[f].written = got[c]]_vars

(* The task text asks that no client wait for another: whose request was   *)
(* read is sent its reply, or closed, even if others stop reading.         *)
EventuallyAnswered ==
  \A c \in Clients \ Stalled :
    client[c] = "waiting" ~> client[c] \in {"ok", "error"}

(* What a client and a download have come to, for those outside. *)
Replies ==
  [c \in Clients |-> IF client[c] \in {"ok", "error"} THEN client[c]
                     ELSE "pending"]
Fates ==
  [e \in Entries |-> IF fetch[e] = "done" THEN "complete"
                     ELSE IF fetch[e] = "failed" THEN "broken" ELSE "open"]

(* This proxy promises what the threaded one does. *)
Service ==
  INSTANCE ProxyService WITH
    Fetches <- Entries, NoFetch <- Nobody, Lengths <- 0 .. MaxReply + BufSize,
    source <- joined, body <- size, reply <- Replies, fate <- Fates

(* Every step of the loop is a step of that service, or none of it. *)
Implements == Service!Spec
=============================================================================
