--------------------------- MODULE ThreadedProxy ----------------------------
(***************************************************************************)
(* lab32: the caching HTTP proxy that runs one detached thread for each    *)
(* client connection and one for each download from an origin server.      *)
(*                                                                         *)
(* A client thread runs process_client_connection, a loader thread runs    *)
(* process_resource_connection.  They share the cache and fd_to_cache,     *)
(* both under cache_lock, and the cache entries, each with its own lock,   *)
(* condition variable and atomic count of listeners.  A client makes at    *)
(* most one entry and starts at most one loader, so the entry it makes and *)
(* the loader it starts carry its name.                                    *)
(*                                                                         *)
(* A step runs from one acquisition of a lock, or one access to unlocked   *)
(* shared state, to the next; a lock held across steps is a variable.      *)
(* Replies are lengths, in units.  A local that is written before it is    *)
(* next read (chunk, toWrite, ending) is reset as soon as it is dead.      *)
(***************************************************************************)
EXTENDS Integers, FiniteSets

CONSTANTS Clients,            \* the connections
          Keys,               \* cache keys: host header plus url
          Fds,                \* numbers a resource socket may get
          Nobody, NoFd,       \* "no entry" and "no socket"
          MaxReply,           \* bound: units in a reply
          BufSize,            \* BUF_SIZE, in units
          Stalled,            \* clients that may stop reading their socket
          ThreadsMayFail,     \* may pthread_create fail?
          AcceptMayFail,      \* may accept() fail?
          OriginMayBeSilent   \* may an origin close without a reply?

ASSUME ProxyAssumption ==
  /\ IsFiniteSet(Clients)
  /\ Nobody \notin Clients /\ NoFd \notin Fds
  /\ MaxReply \in Nat /\ BufSize \in Nat \ {0}
  /\ Stalled \subseteq Clients
  /\ {ThreadsMayFail, AcceptMayFail, OriginMayBeSilent} \subseteq BOOLEAN

VARIABLES
  up,           \* the process runs
  cacheLocked,  \* Proxy::cache_lock
  cache,        \* Proxy::cache, from keys to entries
  fdToCache,    \* Proxy::fd_to_cache, from socket numbers to entries
  locked,       \* locked[e]: CacheEntry::lock
  state,        \* state[e]: CacheEntry::state, "absent" before make_shared
  size,         \* size[e]: length of CacheEntry::data
  listeners,    \* listeners[e]: CacheEntry::listeners_count
  pc,           \* pc[c]: where client thread c is
  key,          \* key[c]: cache_key of c, and of the entry it makes
  joined,       \* joined[c]: the entry client c listens to
  written,      \* written[c]: already_written
  toWrite,      \* toWrite[c]: to_write
  lpc,          \* lpc[l]: where loader thread l is
  fd,           \* fd[l]: its resource_fd
  loads,        \* loads[l]: its cache_entry
  chunk,        \* chunk[l]: units the last read() returned
  verdict,      \* verdict[l]: what the parser says of the reply so far
  ending,       \* ending[l]: its local "end"
  silent        \* silent[l]: the origin closed without a reply

maps       == <<cacheLocked, cache, fdToCache>>
entryVars  == <<locked, state, size, listeners>>
shared     == <<maps, entryVars>>
clientVars == <<pc, key, joined, written, toWrite>>
loaderVars == <<lpc, fd, loads, chunk, verdict, ending, silent>>
vars == <<up, shared, clientVars, loaderVars>>

Entries == Clients
Loaders == Clients

Init ==
  /\ up = TRUE
  /\ cacheLocked = FALSE
  /\ cache     = [k \in Keys |-> Nobody]
  /\ fdToCache = [f \in Fds |-> Nobody]
  /\ locked    = [e \in Entries |-> FALSE]
  /\ state     = [e \in Entries |-> "absent"]
  /\ size      = [e \in Entries |-> 0]
  /\ listeners = [e \in Entries |-> 0]
  /\ pc        = [c \in Clients |-> "accept"]
  /\ key       \in [Clients -> Keys]
  /\ joined    = [c \in Clients |-> Nobody]
  /\ written   = [c \in Clients |-> 0]
  /\ toWrite   = [c \in Clients |-> 0]
  /\ lpc       = [l \in Loaders |-> "none"]
  /\ fd        = [l \in Loaders |-> NoFd]
  /\ loads     = [l \in Loaders |-> Nobody]
  /\ chunk     = [l \in Loaders |-> 0]
  /\ verdict   = [l \in Loaders |-> "partial"]
  /\ ending    = [l \in Loaders |-> FALSE]
  /\ silent    = [l \in Loaders |-> FALSE]

Goto(c, there)   == pc'  = [pc  EXCEPT ![c] = there]
LGoto(l, there)  == lpc' = [lpc EXCEPT ![l] = there]

-----------------------------------------------------------------------------
(* The client thread                                                       *)

(* run() accepts the connection and makes a thread for it; when it cannot, *)
(* it closes the connection.                                               *)
Accept(c) ==
  /\ pc[c] = "accept"
  /\ \/ Goto(c, "read")
     \/ ThreadsMayFail /\ Goto(c, "refused")
  /\ UNCHANGED <<shared, key, joined, written, toWrite, loaderVars>>

(* The request is read and parsed.  A failed read(), a parse error, an     *)
(* early end or a method other than GET throws.                            *)
ReadRequest(c) ==
  /\ pc[c] = "read"
  /\ \/ Goto(c, "lookup")
     \/ Goto(c, "error")
  /\ UNCHANGED <<shared, key, joined, written, toWrite, loaderVars>>

(* cache.find under cache_lock.  On a miss the lock is released for the    *)
(* time it takes to connect to the origin.                                 *)
Lookup(c) ==
  /\ pc[c] = "lookup" /\ ~cacheLocked
  /\ \/ /\ cache[key[c]] = Nobody
        /\ Goto(c, "connect")
        /\ UNCHANGED cacheLocked
     \/ /\ cache[key[c]] # Nobody
        /\ Goto(c, "join")
        /\ cacheLocked' = TRUE
  /\ UNCHANGED <<cache, fdToCache, entryVars,
                 key, joined, written, toWrite, loaderVars>>

(* The numbers of the resource sockets that are open. *)
OpenFds == {fd[l] : l \in Loaders} \ {NoFd}

(* create_resource_request: resolve, connect and send the request.  The    *)
(* kernel may give the socket any number that is not in use.               *)
Connect(c) ==
  /\ pc[c] = "connect"
  /\ \/ \E f \in Fds \ OpenFds : fd' = [fd EXCEPT ![c] = f] /\ Goto(c, "insert")
     \/ Goto(c, "error") /\ UNCHANGED fd
  /\ UNCHANGED <<shared, key, joined, written, toWrite,
                 lpc, loads, chunk, verdict, ending, silent>>

(* Mutant of Register: emplace(), which leaves a stale entry in place. *)
RegisterIfAbsent(c) ==
  IF fdToCache[fd[c]] = Nobody THEN [fdToCache EXCEPT ![fd[c]] = c] ELSE fdToCache

(* fd_to_cache[resource_fd] = cache_entry, over whatever a closed socket of *)
(* the same number left there.                                             *)
Register(c) == [fdToCache EXCEPT ![fd[c]] = c]

(* With cache_lock taken again: a new entry goes into both maps, whatever  *)
(* the cache holds by now.                                                 *)
Insert(c) ==
  /\ pc[c] = "insert" /\ ~cacheLocked
  /\ cacheLocked' = TRUE
  /\ state'     = [state EXCEPT ![c] = "LOADING"]
  /\ cache'     = [cache EXCEPT ![key[c]] = c]
  /\ fdToCache' = Register(c)
  /\ Goto(c, "spawn")
  /\ UNCHANGED <<locked, size, listeners,
                 key, joined, written, toWrite, loaderVars>>

(* pthread_create of the loader.  When it fails the lock is released, the  *)
(* socket closed, and the client thread throws.                            *)
Spawn(c) ==
  /\ pc[c] = "spawn"
  /\ \/ /\ LGoto(c, "start") /\ Goto(c, "join")
        /\ UNCHANGED <<cacheLocked, fd>>
     \/ /\ ThreadsMayFail
        /\ cacheLocked' = FALSE
        /\ fd' = [fd EXCEPT ![c] = NoFd]
        /\ Goto(c, "error")
        /\ UNCHANGED lpc
  /\ UNCHANGED <<cache, fdToCache, entryVars,
                 key, joined, written, toWrite,
                 loads, chunk, verdict, ending, silent>>

(* Still under cache_lock: take the entry and count as its listener. *)
Join(c) ==
  /\ pc[c] = "join"
  /\ joined' = [joined EXCEPT ![c] = cache[key[c]]]
  /\ listeners' = [listeners EXCEPT ![cache[key[c]]] = @ + 1]
  /\ cacheLocked' = FALSE
  /\ Goto(c, "start")
  /\ UNCHANGED <<cache, fdToCache, locked, state, size,
                 key, written, toWrite, loaderVars>>

(* Mutant of Start: the entry's lock is not taken. *)
StartUnlocked(c) ==
  /\ pc[c] = "start"
  /\ Goto(c, "top")
  /\ UNCHANGED <<shared, key, joined, written, toWrite, loaderVars>>

(* The entry's lock is taken on the way into the loop. *)
Start(c) ==
  /\ pc[c] = "start" /\ ~locked[joined[c]]
  /\ locked' = [locked EXCEPT ![joined[c]] = TRUE]
  /\ Goto(c, "top")
  /\ UNCHANGED <<maps, state, size, listeners,
                 key, joined, written, toWrite, loaderVars>>

(* Mutant of NextWrite: a whole buffer, however little there is. *)
WholeBuffer(c) == BufSize

(* std::min(data.size() - already_written, BUF_SIZE) *)
NextWrite(c) ==
  LET left == size[joined[c]] - written[c]
  IN  IF left < BufSize THEN left ELSE BufSize

(* The top of the loop, entry lock held: leave a failed entry, or copy     *)
(* what comes next; either way the lock is released.                       *)
CopyOut(c) ==
  /\ pc[c] = "top"
  /\ \/ /\ state[joined[c]] = "FAILED"
        /\ Goto(c, "leave")
        /\ UNCHANGED toWrite
     \/ /\ state[joined[c]] # "FAILED"
        /\ toWrite' = [toWrite EXCEPT ![c] = NextWrite(c)]
        /\ Goto(c, "write")
  /\ locked' = [locked EXCEPT ![joined[c]] = FALSE]
  /\ UNCHANGED <<maps, state, size, listeners,
                 key, joined, written, loaderVars>>

(* write() to the client, with no lock held: all of it, or an error or a   *)
(* short count, which both throw.                                          *)
Write(c) ==
  /\ pc[c] = "write"
  /\ \/ /\ written' = [written EXCEPT ![c] = @ + toWrite[c]]
        /\ Goto(c, "check")
     \/ /\ Goto(c, "leave")
        /\ UNCHANGED written
  /\ toWrite' = [toWrite EXCEPT ![c] = 0]
  /\ UNCHANGED <<shared, key, joined, loaderVars>>

(* Mutant of Unlisten: an exit that forgets its count. *)
KeepListening(c) == listeners

(* listeners_count.change(-1) *)
Unlisten(c) == [listeners EXCEPT ![joined[c]] = @ - 1]

(* Mutant of HasAll: the comparison the wrong way round. *)
HasNoMore(c) == written[c] <= size[joined[c]]

(* already_written == cache_entry->data.size() *)
HasAll(c) == written[c] = size[joined[c]]

(* Back under the entry's lock after a write.  A client that has all of a  *)
(* SUCCESS entry leaves the loop; one that has all of a LOADING entry      *)
(* waits on data_change_cv, which releases the lock; any other goes on,    *)
(* lock in hand.                                                           *)
Check(c) ==
  /\ pc[c] = "check" /\ ~locked[joined[c]]
  /\ \/ /\ state[joined[c]] = "SUCCESS" /\ HasAll(c)
        /\ listeners' = Unlisten(c)
        /\ Goto(c, "done")
        /\ UNCHANGED locked
     \/ /\ state[joined[c]] = "LOADING" /\ HasAll(c)
        /\ Goto(c, "wait")
        /\ UNCHANGED <<locked, listeners>>
     \/ /\ state[joined[c]] = "FAILED" \/ ~HasAll(c)
        /\ locked' = [locked EXCEPT ![joined[c]] = TRUE]
        /\ Goto(c, "top")
        /\ UNCHANGED listeners
  /\ UNCHANGED <<maps, state, size,
                 key, joined, written, toWrite, loaderVars>>

(* pthread_cond_wait may return for no reason. *)
SpuriousWakeup(c) ==
  /\ pc[c] = "wait"
  /\ Goto(c, "woken")
  /\ UNCHANGED <<shared, key, joined, written, toWrite, loaderVars>>

(* pthread_cond_wait takes the lock again and the condition is retested. *)
Wake(c) ==
  /\ pc[c] = "woken" /\ ~locked[joined[c]]
  /\ \/ /\ state[joined[c]] = "LOADING" /\ HasAll(c)
        /\ Goto(c, "wait")
        /\ UNCHANGED locked
     \/ /\ state[joined[c]] # "LOADING" \/ ~HasAll(c)
        /\ locked' = [locked EXCEPT ![joined[c]] = TRUE]
        /\ Goto(c, "top")
  /\ UNCHANGED <<maps, state, size, listeners,
                 key, joined, written, toWrite, loaderVars>>

(* Every throw from the loop gives up the listener's count first. *)
Leave(c) ==
  /\ pc[c] = "leave"
  /\ listeners' = Unlisten(c)
  /\ Goto(c, "error")
  /\ UNCHANGED <<maps, locked, state, size,
                 key, joined, written, toWrite, loaderVars>>

(* The catch clause: send_http_error, then the connection is closed. *)
SendError(c) ==
  /\ pc[c] = "error"
  /\ Goto(c, "failed")
  /\ UNCHANGED <<shared, key, joined, written, toWrite, loaderVars>>
-----------------------------------------------------------------------------
(* The loader thread                                                       *)

(* Its entry comes out of fd_to_cache, under cache_lock. *)
Begin(l) ==
  /\ lpc[l] = "start" /\ ~cacheLocked
  /\ loads' = [loads EXCEPT ![l] = fdToCache[fd[l]]]
  /\ LGoto(l, "read")
  /\ UNCHANGED <<shared, clientVars, fd, chunk, verdict, ending, silent>>

(* What http_parser_execute makes of an end of file: the message is        *)
(* complete if its body runs to the end of the connection, an error if it  *)
(* broke off, and nothing at all, neither done nor an error, if it never   *)
(* began.                                                                  *)
AtEof(l) ==
  IF size[loads[l]] = 0
  THEN IF OriginMayBeSilent THEN {"partial"} ELSE {}
  ELSE {"complete", "uncacheable"}

(* read() from the origin and the parse of what came: n units, which may   *)
(* complete the reply, with a status that may be cached or not; the end of *)
(* the connection; or a failure of either call, which throws.              *)
Read(l) ==
  /\ lpc[l] = "read"
  /\ \/ \E n \in 1..BufSize, v \in {"partial", "complete", "uncacheable"} :
           /\ ~silent[l] /\ size[loads[l]] + n <= MaxReply
           /\ chunk' = [chunk EXCEPT ![l] = n]
           /\ verdict' = [verdict EXCEPT ![l] = v]
           /\ LGoto(l, "append")
           /\ UNCHANGED silent
     \/ \E v \in AtEof(l) :
           /\ chunk' = [chunk EXCEPT ![l] = 0]
           /\ verdict' = [verdict EXCEPT ![l] = v]
           /\ silent' = [silent EXCEPT ![l] = (v = "partial")]
           /\ LGoto(l, "append")
     \/ /\ ~silent[l]
        /\ LGoto(l, "fail")
        /\ UNCHANGED <<chunk, verdict, silent>>
  /\ UNCHANGED <<shared, clientVars, fd, loads, ending>>

(* Under the entry's lock, which it keeps until Notify: store what was     *)
(* read, and close the entry if the reply is complete.                     *)
AppendData(l) ==
  /\ lpc[l] = "append" /\ ~locked[loads[l]]
  /\ locked' = [locked EXCEPT ![loads[l]] = TRUE]
  /\ size' = [size EXCEPT ![loads[l]] = @ + chunk[l]]
  /\ state' = [state EXCEPT ![loads[l]] =
                 IF verdict[l] = "partial" THEN @ ELSE "SUCCESS"]
  /\ ending' = [ending EXCEPT ![l] = verdict[l] # "partial"]
  /\ chunk' = [chunk EXCEPT ![l] = 0]
  /\ LGoto(l, IF verdict[l] = "uncacheable" THEN "evict" ELSE "poll")
  /\ UNCHANGED <<maps, listeners, clientVars, fd, loads, verdict, silent>>

(* Mutant of CacheWithout: an entry someone listens to is kept. *)
CacheWithoutUnheard(e) ==
  IF listeners[e] = 0 THEN [cache EXCEPT ![key[e]] = Nobody] ELSE cache

(* cache.erase(cache_entry->key): whichever entry the key now leads to. *)
CacheWithout(e) == [cache EXCEPT ![key[e]] = Nobody]

(* A reply that is not to be cached leaves the cache, under cache_lock. *)
Evict(l) ==
  /\ lpc[l] = "evict" /\ ~cacheLocked
  /\ cache' = CacheWithout(loads[l])
  /\ LGoto(l, "poll")
  /\ UNCHANGED <<cacheLocked, fdToCache, entryVars, clientVars,
                 fd, loads, chunk, verdict, ending, silent>>

(* listeners_count.get(), with cache_lock not held. *)
Poll(l) ==
  /\ lpc[l] = "poll"
  /\ LGoto(l, IF listeners[loads[l]] = 0 THEN "recheck" ELSE "notify")
  /\ UNCHANGED <<shared, clientVars, fd, loads, chunk, verdict, ending, silent>>

(* Mutant of Unwanted: the first look is trusted. *)
UnwantedUnchecked(e) == TRUE

(* listeners_count.get() again, now under cache_lock, where no client can  *)
(* find the entry and join it.                                             *)
Unwanted(e) == listeners[e] = 0

(* An entry with no listeners leaves the cache and its download ends. *)
Recheck(l) ==
  /\ lpc[l] = "recheck" /\ ~cacheLocked
  /\ IF Unwanted(loads[l])
     THEN /\ cache' = CacheWithout(loads[l])
          /\ ending' = [ending EXCEPT ![l] = TRUE]
     ELSE UNCHANGED <<cache, ending>>
  /\ LGoto(l, "notify")
  /\ UNCHANGED <<cacheLocked, fdToCache, entryVars, clientVars,
                 fd, loads, chunk, verdict, silent>>

(* Mutant of Broadcast: nobody is woken. *)
WakeNobody(e) == pc

(* data_change_cv.broadcast(): every client waiting on the entry. *)
Broadcast(e) ==
  [c \in Clients |-> IF pc[c] = "wait" /\ joined[c] = e THEN "woken" ELSE pc[c]]

(* Wake the listeners, release the lock, and read on or stop. *)
Notify(l) ==
  /\ lpc[l] = "notify"
  /\ pc' = Broadcast(loads[l])
  /\ locked' = [locked EXCEPT ![loads[l]] = FALSE]
  /\ LGoto(l, IF ending[l] THEN "close" ELSE "read")
  /\ ending' = [ending EXCEPT ![l] = FALSE]
  /\ UNCHANGED <<maps, state, size, listeners, key, joined, written, toWrite,
                 fd, loads, chunk, verdict, silent>>

(* The catch clause: the entry has failed, for all who listen. *)
Fail(l) ==
  /\ lpc[l] = "fail" /\ ~locked[loads[l]]
  /\ pc' = Broadcast(loads[l])
  /\ state' = [state EXCEPT ![loads[l]] = "FAILED"]
  /\ LGoto(l, "close")
  /\ UNCHANGED <<maps, locked, size, listeners, key, joined, written, toWrite,
                 fd, loads, chunk, verdict, ending, silent>>

(* close(resource_fd): the number may be given out again. *)
Close(l) ==
  /\ lpc[l] = "close"
  /\ fd' = [fd EXCEPT ![l] = NoFd]
  /\ LGoto(l, "done")
  /\ UNCHANGED <<shared, clientVars, loads, chunk, verdict, ending, silent>>

-----------------------------------------------------------------------------

(* accept() fails, run() throws, nobody catches, and the process ends. *)
AcceptFails ==
  /\ up /\ AcceptMayFail
  /\ \E c \in Clients : pc[c] = "accept"
  /\ up' = FALSE
  /\ UNCHANGED <<shared, clientVars, loaderVars>>

Arrive(c) == Accept(c) \/ ReadRequest(c)

(* Steps that wait for nothing but a lock or the origin's address. *)
Work(c) ==
  \/ Lookup(c) \/ Connect(c) \/ Insert(c) \/ Spawn(c) \/ Join(c)
  \/ Start(c) \/ CopyOut(c) \/ Check(c) \/ Wake(c) \/ Leave(c)

(* Steps that wait for the client to take what it is sent. *)
Deliver(c) == Write(c) \/ SendError(c)

ClientStep(c) == up /\ (Work(c) \/ Deliver(c)) /\ UNCHANGED up

LoaderStep(l) ==
  /\ up
  /\ \/ Begin(l) \/ Read(l) \/ AppendData(l) \/ Evict(l) \/ Poll(l)
     \/ Recheck(l) \/ Notify(l) \/ Fail(l) \/ Close(l)
  /\ UNCHANGED up

Finished == {"done", "failed", "refused"}

(* Nothing left to do but wait in accept(), or for ever. *)
Idle ==
  /\ \/ ~up
     \/ /\ \A c \in Clients : pc[c] \in Finished
        /\ \A l \in Loaders : lpc[l] \in {"none", "done"}
  /\ UNCHANGED vars

Next ==
  \/ AcceptFails
  \/ \E c \in Clients : up /\ (Arrive(c) \/ SpuriousWakeup(c)) /\ UNCHANGED up
  \/ \E c \in Clients : ClientStep(c)
  \/ \E l \in Loaders : LoaderStep(l)
  \/ Idle

(* The scheduler runs every thread that can go on.  Nothing makes a client *)
(* connect or send its request; a stalled client need not take what it is  *)
(* sent; an origin answers every read() in the end.                        *)
Fairness ==
  /\ \A c \in Clients : WF_vars(up /\ Work(c) /\ UNCHANGED up)
  /\ \A c \in Clients \ Stalled : WF_vars(up /\ Deliver(c) /\ UNCHANGED up)
  /\ \A l \in Loaders : WF_vars(LoaderStep(l))

Spec == Init /\ [][Next]_vars /\ Fairness
-----------------------------------------------------------------------------
(* Properties                                                              *)

ClientPCs == {"accept", "read", "lookup", "connect", "insert", "spawn", "join",
              "start", "top", "write", "check", "wait", "woken", "leave",
              "error", "done", "failed", "refused"}

LoaderPCs == {"none", "start", "read", "append", "evict", "poll", "recheck",
              "notify", "fail", "close", "done"}

(* Every variable keeps its type: sizes and counts stay natural numbers,   *)
(* no client has written more than the longest reply.                      *)
TypeOK ==
  /\ {up, cacheLocked} \subseteq BOOLEAN
  /\ cache     \in [Keys -> Entries \cup {Nobody}]
  /\ fdToCache \in [Fds -> Entries \cup {Nobody}]
  /\ {locked, ending, silent} \subseteq [Clients -> BOOLEAN]
  /\ state     \in [Entries -> {"absent", "LOADING", "SUCCESS", "FAILED"}]
  /\ {size, written, toWrite, chunk} \subseteq [Clients -> 0..MaxReply]
  /\ listeners \in [Entries -> Nat]
  /\ pc        \in [Clients -> ClientPCs]
  /\ key       \in [Clients -> Keys]
  /\ joined    \in [Clients -> Entries \cup {Nobody}]
  /\ lpc       \in [Loaders -> LoaderPCs]
  /\ fd        \in [Loaders -> Fds \cup {NoFd}]
  /\ loads     \in [Loaders -> Entries \cup {Nobody}]
  /\ verdict   \in [Loaders -> {"partial", "complete", "uncacheable"}]

(* The threads that hold a lock, read off their program counters. *)
HoldsCache(c) == pc[c] \in {"spawn", "join"}
Copying(c, e) == pc[c] = "top" /\ joined[c] = e
Storing(l)    == lpc[l] \in {"evict", "poll", "recheck", "notify"}

CacheLock ==
  /\ cacheLocked <=> \E c \in Clients : HoldsCache(c)
  /\ \A c, d \in Clients : HoldsCache(c) /\ HoldsCache(d) => c = d

EntryLock ==
  \A e \in Entries :
    /\ locked[e] <=> Storing(e) \/ \E c \in Clients : Copying(c, e)
    /\ \A c, d \in Clients : Copying(c, e) /\ Copying(d, e) => c = d
    /\ \A c \in Clients : Copying(c, e) => ~Storing(e)

(* cache_lock and each entry's lock exclude: from lock() to unlock() there *)
(* is one client in Proxy.h:158-193, and in one entry either one client    *)
(* copying out or its loader between append and broadcast, never two.      *)
Exclusion == CacheLock /\ EntryLock

(* The clients counted in an entry's listeners_count. *)
Listening(c) == pc[c] \in {"start", "top", "write", "check", "wait", "woken", "leave"}
Audience(e)  == {c \in Clients : Listening(c) /\ joined[c] = e}

(* listeners_count is exact on every way in and out of process_client_     *)
(* connection: the four exits (lines 203, 216, 221, 249) each give it back *)
(* once, so that a loader which reads 0 really has nobody to load for.     *)
ListenersAccurate == \A e \in Entries : listeners[e] = Cardinality(Audience(e))

(* A loader reads into the entry its socket was opened for: although       *)
(* socket numbers are reused and fd_to_cache is never cleaned, no loader   *)
(* finds the entry of an earlier owner of the number, whose clients would  *)
(* then be sent the reply to another request.                              *)
LoaderOwnsEntry ==
  \A l \in Loaders : lpc[l] \notin {"none", "start"} => loads[l] = l

(* The two looks at listeners_count (lines 315 and 318) abandon no one:    *)
(* when a download ends with its entry still LOADING, no client listens to *)
(* the entry, and none can come, for the cache no longer leads to it.      *)
NoAbandonedEntry ==
  \A e \in Entries :
     state[e] = "LOADING" /\ lpc[e] \in {"close", "done"}
       => Audience(e) = {} /\ cache[key[e]] # e

(* No wakeup is lost: a client asleep on data_change_cv has everything of  *)
(* an entry still loading, or the loader holds the entry's lock and has    *)
(* yet to broadcast.                                                       *)
NoLostWakeup ==
  \A c \in Clients :
     pc[c] = "wait" => (state[joined[c]] = "LOADING" /\ HasAll(c)) \/ Storing(joined[c])

\* What a thread waits for, if not for a signal: a lock, or nothing.
ClientCanGo(c) ==
  \/ pc[c] \in {"accept", "read", "connect", "spawn", "join", "top", "write", "leave", "error"}
  \/ pc[c] \in {"lookup", "insert"} /\ ~cacheLocked
  \/ pc[c] \in {"start", "check", "woken"} /\ ~locked[joined[c]]

LoaderCanGo(l) ==
  \/ lpc[l] \in {"read", "poll", "notify", "close"}
  \/ lpc[l] \in {"start", "evict", "recheck"} /\ ~cacheLocked
  \/ lpc[l] \in {"append", "fail"} /\ ~locked[loads[l]]

\* Asleep on an entry for which no loader was made: pthread_create failed.
LeftAlone(c) == pc[c] = "wait" /\ lpc[joined[c]] = "none"

(* The locks do not deadlock, although a loader takes cache_lock with its  *)
(* entry's lock in hand (Proxy.h:309, 317) and clients take both: until    *)
(* all are done some thread can go on, without a spurious wakeup.  Whoever *)
(* sleeps is slept for by a loader that has not ended, except where        *)
(* pthread_create has failed with the entry in the cache already.          *)
NoDeadlock ==
  /\ \/ \E c \in Clients : ClientCanGo(c)
     \/ \E l \in Loaders : LoaderCanGo(l)
     \/ /\ \A c \in Clients : pc[c] \in Finished \/ LeftAlone(c)
        /\ \A l \in Loaders : lpc[l] \in {"none", "done"}
  /\ \A c \in Clients :
       /\ pc[c] = "wait" => lpc[joined[c]] \notin {"close", "done"}
       /\ LeftAlone(c) => ThreadsMayFail

(* A client released without an error was sent the whole of a reply that   *)
(* arrived whole, no matter when it joined or how far it had fallen behind.*)
CompleteReply ==
  \A c \in Clients :
     pc[c] = "done" => state[joined[c]] = "SUCCESS" /\ written[c] = size[joined[c]]

(* "Not caching": once the loader of a reply that is neither 200 nor 304   *)
(* lets go of the entry's lock, no client can find that entry again.       *)
UncacheableEvicted ==
  \A l \in Loaders :
     verdict[l] = "uncacheable" /\ lpc[l] \in {"close", "done"}
       => \A k \in Keys : cache[k] # l

(* The task text asks that no client wait for another: a client whose      *)
(* request was read gets its reply or an error, though other clients stop  *)
(* reading in the middle of the same reply.                                *)
EventuallyAnswered ==
  \A c \in Clients \ Stalled : pc[c] = "lookup" ~> pc[c] \in Finished

(* What a client and a download have come to, for those outside. *)
Replies ==
  [c \in Clients |-> IF pc[c] = "done" THEN "ok"
                     ELSE IF pc[c] \in {"failed", "refused"} THEN "error"
                     ELSE "pending"]
Fates ==
  [e \in Entries |-> IF state[e] = "SUCCESS" THEN "complete"
                     ELSE IF state[e] = "FAILED" THEN "broken" ELSE "open"]

(* The proxy as ProxyService promises it: what is sent to a client is a    *)
(* growing prefix of one download, and "done" means all of a whole reply.  *)
Service ==
  INSTANCE ProxyService WITH
    Fetches <- Entries, NoFetch <- Nobody, Lengths <- 0..MaxReply,
    source <- joined, got <- written, body <- size,
    reply <- Replies, fate <- Fates

(* Every step of the threads is a step of that service, or none of it. *)
Implements == Service!Spec
=============================================================================
