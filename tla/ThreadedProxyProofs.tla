------------------------ MODULE ThreadedProxyProofs -------------------------
(***************************************************************************)
(* Proofs about the threaded proxy, for every number of clients, keys and  *)
(* sockets and every length of reply.  The inductive invariant IInv is a   *)
(* conjunction of named parts.  For each part there is a lemma saying that *)
(* every step preserves it, from the parts it depends on; the theorems at  *)
(* the end put them together, and show that the locks do not deadlock.     *)
(***************************************************************************)
EXTENDS ThreadedProxy, FiniteSetTheorems, TLAPS

(* Types, with sizes and counts only known to be integers. *)
Shapes ==
  /\ cache     \in [Keys -> Entries \cup {Nobody}]
  /\ fdToCache \in [Fds -> Entries \cup {Nobody}]
  /\ state     \in [Entries -> {"absent", "LOADING", "SUCCESS", "FAILED"}]
  /\ size      \in [Entries -> Int]
  /\ listeners \in [Entries -> Int]
  /\ pc        \in [Clients -> ClientPCs]
  /\ key       \in [Clients -> Keys]
  /\ joined    \in [Clients -> Entries \cup {Nobody}]
  /\ written   \in [Clients -> Int]
  /\ toWrite   \in [Clients -> Int]
  /\ lpc       \in [Loaders -> LoaderPCs]
  /\ fd        \in [Loaders -> Fds \cup {NoFd}]
  /\ loads     \in [Loaders -> Entries \cup {Nobody}]
  /\ chunk     \in [Loaders -> Int]
  /\ verdict   \in [Loaders -> {"partial", "complete", "uncacheable"}]

(* Truth values are apart: they need another prover than the rest. *)
Flags ==
  /\ up \in BOOLEAN /\ cacheLocked \in BOOLEAN
  /\ locked \in [Entries -> BOOLEAN]
  /\ ending \in [Loaders -> BOOLEAN]
  /\ silent \in [Loaders -> BOOLEAN]

(* A client has no loader before Spawn, no entry before Insert and no      *)
(* socket before Connect; a loader that runs has an entry and a socket.    *)
Lifecycle ==
  \A c \in Clients :
    /\ pc[c] \in {"accept", "read", "lookup", "connect", "insert", "spawn"}
         => lpc[c] = "none" /\ joined[c] = Nobody
    /\ pc[c] = "join" => joined[c] = Nobody
    /\ pc[c] \in {"accept", "read", "lookup", "connect", "insert"}
         => state[c] = "absent"
    /\ pc[c] \in {"accept", "read", "lookup", "connect"} => fd[c] = NoFd
    /\ pc[c] \in {"insert", "spawn"} => fd[c] \in Fds
    /\ pc[c] = "spawn" => state[c] = "LOADING"
    /\ lpc[c] # "none" => state[c] # "absent"
    /\ lpc[c] \notin {"none", "done"} => fd[c] \in Fds

(* No two open sockets have the same number, and fd_to_cache leads a       *)
(* loader that has not begun to its own entry.                             *)
Sockets ==
  /\ \A c, d \in Clients : fd[c] = fd[d] /\ fd[c] # NoFd => c = d
  /\ \A c \in Clients :
       pc[c] = "spawn" \/ lpc[c] = "start" => fdToCache[fd[c]] = c
  /\ LoaderOwnsEntry

(* The cache leads only to entries made for the key that leads to them; a  *)
(* client that holds cache_lock finds one.                                 *)
Cached ==
  /\ \A k \in Keys :
       cache[k] # Nobody => key[cache[k]] = k /\ state[cache[k]] # "absent"
  /\ \A c \in Clients : pc[c] = "spawn" => cache[key[c]] = c
  /\ \A c \in Clients : pc[c] = "join" => cache[key[c]] # Nobody

(* Who listens, or has listened to the end, has an entry of its key. *)
Joined ==
  \A c \in Clients :
    /\ Listening(c) \/ pc[c] = "done" => joined[c] # Nobody
    /\ joined[c] # Nobody => state[joined[c]] # "absent" /\ key[joined[c]] = key[c]

(* Nobody listens to e and nobody will: the cache no longer leads to it.   *)
Given(e) == cache[key[e]] # e /\ \A c \in Clients : Listening(c) => joined[c] # e

(* What a loader's place says of the state of its entry: it closes it once *)
(* and then ends, and it ends without closing it only if nobody cares.     *)
Stages ==
  \A e \in Entries :
    /\ lpc[e] \in {"none", "start", "read", "append", "fail"}
         => state[e] \in {"absent", "LOADING"} /\ ~ending[e]
    /\ lpc[e] \in {"evict", "poll", "recheck"}
         => (state[e] = "SUCCESS" /\ ending[e]) \/ (state[e] = "LOADING" /\ ~ending[e])
    /\ lpc[e] = "evict" => state[e] = "SUCCESS"
    /\ lpc[e] = "notify"
         => \/ state[e] = "SUCCESS" /\ ending[e]
            \/ state[e] = "LOADING" /\ (ending[e] => Given(e))
    /\ lpc[e] \in {"close", "done"} /\ state[e] = "LOADING" => Given(e)
    /\ lpc[e] \in {"close", "done"} => state[e] # "absent"

(* Which verdict the parser has given, and that an entry whose reply is    *)
(* not to be cached is out of the cache from the end of Evict on.          *)
Verdicts ==
  \A l \in Loaders :
    /\ lpc[l] \in {"none", "start", "read", "fail"} => verdict[l] = "partial"
    /\ Storing(l) /\ verdict[l] # "partial" => ending[l]
    /\ verdict[l] = "uncacheable" /\ lpc[l] \notin {"append", "evict"}
         => \A k \in Keys : cache[k] # l

(* Nobody has been written more than there is, and no reply is too long. *)
Amounts ==
  /\ \A e \in Entries :
       /\ size[e] \in 0..MaxReply
       /\ chunk[e] \in 0..MaxReply
       /\ lpc[e] = "append" => size[e] + chunk[e] <= MaxReply
  /\ \A c \in Clients :
       /\ written[c] >= 0 /\ toWrite[c] >= 0
       /\ joined[c] = Nobody => written[c] = 0
       /\ pc[c] # "write" => toWrite[c] = 0
       /\ joined[c] # Nobody => written[c] + toWrite[c] <= size[joined[c]]

IInv ==
  /\ Shapes /\ Flags /\ Exclusion /\ Lifecycle /\ Sockets /\ Cached /\ Joined
  /\ ListenersAccurate /\ Stages /\ Verdicts /\ Amounts
  /\ NoLostWakeup /\ CompleteReply

USE ProxyAssumption DEF Entries, Loaders
-----------------------------------------------------------------------------
(* Truth values stay truth values. *)
LEMMA FlagsStep ==
  ASSUME Flags, [Next]_vars
  PROVE  Flags'
PROOF
<1>1. CASE UNCHANGED vars
  BY <1>1, Zenon DEF vars, shared, maps, entryVars, clientVars, loaderVars,
         Flags
<1>2. CASE AcceptFails
  BY <1>2, Zenon DEF AcceptFails, shared, maps, entryVars, clientVars,
         loaderVars, Flags
<1>3. ASSUME NEW c \in Clients, UNCHANGED up, Accept(c) PROVE Flags'
  BY <1>3, Zenon DEF Accept, shared, maps, entryVars, loaderVars, Flags
<1>4. ASSUME NEW c \in Clients, UNCHANGED up, ReadRequest(c) PROVE Flags'
  BY <1>4, Zenon DEF ReadRequest, shared, maps, entryVars, loaderVars, Flags
<1>5. ASSUME NEW c \in Clients, UNCHANGED up, Lookup(c) PROVE Flags'
  BY <1>5, Zenon DEF Lookup, entryVars, loaderVars, Flags
<1>6. ASSUME NEW c \in Clients, UNCHANGED up, Connect(c) PROVE Flags'
  BY <1>6, Zenon DEF Connect, shared, maps, entryVars, Flags
<1>7. ASSUME NEW c \in Clients, UNCHANGED up, Insert(c) PROVE Flags'
  BY <1>7, Zenon DEF Insert, loaderVars, Flags
<1>8. ASSUME NEW c \in Clients, UNCHANGED up, Spawn(c) PROVE Flags'
  BY <1>8, Zenon DEF Spawn, entryVars, Flags
<1>9. ASSUME NEW c \in Clients, UNCHANGED up, Join(c) PROVE Flags'
  BY <1>9, Zenon DEF Join, loaderVars, Flags
<1>10. ASSUME NEW c \in Clients, UNCHANGED up, Start(c) PROVE Flags'
  BY <1>10, Zenon DEF Start, maps, loaderVars, Flags
<1>11. ASSUME NEW c \in Clients, UNCHANGED up, CopyOut(c) PROVE Flags'
  BY <1>11, Zenon DEF CopyOut, maps, loaderVars, Flags
<1>12. ASSUME NEW c \in Clients, UNCHANGED up, Write(c) PROVE Flags'
  BY <1>12, Zenon DEF Write, shared, maps, entryVars, loaderVars, Flags
<1>13. ASSUME NEW c \in Clients, UNCHANGED up, Check(c) PROVE Flags'
  BY <1>13, Zenon DEF Check, maps, loaderVars, Flags
<1>14. ASSUME NEW c \in Clients, UNCHANGED up, SpuriousWakeup(c) PROVE Flags'
  BY <1>14, Zenon DEF SpuriousWakeup, shared, maps, entryVars, loaderVars,
         Flags
<1>15. ASSUME NEW c \in Clients, UNCHANGED up, Wake(c) PROVE Flags'
  BY <1>15, Zenon DEF Wake, maps, loaderVars, Flags
<1>16. ASSUME NEW c \in Clients, UNCHANGED up, Leave(c) PROVE Flags'
  BY <1>16, Zenon DEF Leave, maps, loaderVars, Flags
<1>17. ASSUME NEW c \in Clients, UNCHANGED up, SendError(c) PROVE Flags'
  BY <1>17, Zenon DEF SendError, shared, maps, entryVars, loaderVars, Flags
<1>18. ASSUME NEW l \in Loaders, UNCHANGED up, Begin(l) PROVE Flags'
  BY <1>18, Zenon DEF Begin, shared, maps, entryVars, Flags
<1>19. ASSUME NEW l \in Loaders, UNCHANGED up, Read(l) PROVE Flags'
  BY <1>19, Zenon DEF Read, shared, maps, entryVars, Flags
<1>20. ASSUME NEW l \in Loaders, UNCHANGED up, AppendData(l) PROVE Flags'
  BY <1>20, Zenon DEF AppendData, maps, Flags
<1>21. ASSUME NEW l \in Loaders, UNCHANGED up, Evict(l) PROVE Flags'
  BY <1>21, Zenon DEF Evict, entryVars, Flags
<1>22. ASSUME NEW l \in Loaders, UNCHANGED up, Poll(l) PROVE Flags'
  BY <1>22, Zenon DEF Poll, shared, maps, entryVars, Flags
<1>23. ASSUME NEW l \in Loaders, UNCHANGED up, Recheck(l) PROVE Flags'
  BY <1>23, Zenon DEF Recheck, entryVars, Flags
<1>24. ASSUME NEW l \in Loaders, UNCHANGED up, Notify(l) PROVE Flags'
  BY <1>24, Zenon DEF Notify, maps, Flags
<1>25. ASSUME NEW l \in Loaders, UNCHANGED up, Fail(l) PROVE Flags'
  BY <1>25, Zenon DEF Fail, maps, Flags
<1>26. ASSUME NEW l \in Loaders, UNCHANGED up, Close(l) PROVE Flags'
  BY <1>26, Zenon DEF Close, shared, maps, entryVars, Flags
<1> QED
  BY <1>1, <1>2, <1>3, <1>4, <1>5, <1>6, <1>7, <1>8, <1>9, <1>10, <1>11,
     <1>12, <1>13, <1>14, <1>15, <1>16, <1>17, <1>18, <1>19, <1>20, <1>21,
     <1>22, <1>23, <1>24, <1>25, <1>26 DEF Next, Idle, ClientStep,
         LoaderStep, Arrive, Work, Deliver

(* Types are kept, because every index a step uses is in its domain. *)
LEMMA ShapesStep ==
  ASSUME Shapes, Lifecycle, Sockets, Cached, Joined, [Next]_vars
  PROVE  Shapes'
PROOF
<1>1. CASE UNCHANGED vars
  BY <1>1 DEF vars, shared, maps, entryVars, clientVars, loaderVars, Shapes,
         ClientPCs, LoaderPCs, Lifecycle, Sockets, LoaderOwnsEntry, Cached,
         Joined, Listening
<1>2. CASE AcceptFails
  BY <1>2 DEF AcceptFails, shared, maps, entryVars, clientVars, loaderVars,
         Shapes, ClientPCs, LoaderPCs, Lifecycle, Sockets, LoaderOwnsEntry,
         Cached, Joined, Listening
<1>3. ASSUME NEW c \in Clients, UNCHANGED up, Accept(c) PROVE Shapes'
  BY <1>3 DEF Accept, Goto, shared, maps, entryVars, loaderVars, Shapes,
         ClientPCs, LoaderPCs, Lifecycle, Sockets, LoaderOwnsEntry, Cached,
         Joined, Listening
<1>4. ASSUME NEW c \in Clients, UNCHANGED up, ReadRequest(c) PROVE Shapes'
  BY <1>4 DEF ReadRequest, Goto, shared, maps, entryVars, loaderVars, Shapes,
         ClientPCs, LoaderPCs, Lifecycle, Sockets, LoaderOwnsEntry, Cached,
         Joined, Listening
<1>5. ASSUME NEW c \in Clients, UNCHANGED up, Lookup(c) PROVE Shapes'
  BY <1>5, SMTT(60) DEF Lookup, Goto, entryVars, loaderVars, Shapes,
         ClientPCs, LoaderPCs, Lifecycle, Sockets, LoaderOwnsEntry, Cached,
         Joined, Listening
<1>6. ASSUME NEW c \in Clients, UNCHANGED up, Connect(c) PROVE Shapes'
  BY <1>6, SMTT(60) DEF Connect, Goto, shared, maps, entryVars, OpenFds,
         Shapes, ClientPCs, LoaderPCs, Lifecycle, Sockets, LoaderOwnsEntry,
         Cached, Joined, Listening
<1>7. ASSUME NEW c \in Clients, UNCHANGED up, Insert(c) PROVE Shapes'
  BY <1>7 DEF Insert, Goto, loaderVars, Register, Shapes, ClientPCs,
         LoaderPCs, Lifecycle, Sockets, LoaderOwnsEntry, Cached, Joined,
         Listening
<1>8. ASSUME NEW c \in Clients, UNCHANGED up, Spawn(c) PROVE Shapes'
  BY <1>8 DEF Spawn, Goto, LGoto, entryVars, Shapes, ClientPCs, LoaderPCs,
         Lifecycle, Sockets, LoaderOwnsEntry, Cached, Joined, Listening
<1>9. ASSUME NEW c \in Clients, UNCHANGED up, Join(c) PROVE Shapes'
  BY <1>9 DEF Join, Goto, loaderVars, Shapes, ClientPCs, LoaderPCs,
         Lifecycle, Sockets, LoaderOwnsEntry, Cached, Joined, Listening
<1>10. ASSUME NEW c \in Clients, UNCHANGED up, Start(c) PROVE Shapes'
  BY <1>10 DEF Start, Goto, maps, loaderVars, Shapes, ClientPCs, LoaderPCs,
         Lifecycle, Sockets, LoaderOwnsEntry, Cached, Joined, Listening
<1>11. ASSUME NEW c \in Clients, UNCHANGED up, CopyOut(c) PROVE Shapes'
  BY <1>11 DEF CopyOut, Goto, maps, loaderVars, NextWrite, Shapes, ClientPCs,
         LoaderPCs, Lifecycle, Sockets, LoaderOwnsEntry, Cached, Joined,
         Listening
<1>12. ASSUME NEW c \in Clients, UNCHANGED up, Write(c) PROVE Shapes'
  BY <1>12 DEF Write, Goto, shared, maps, entryVars, loaderVars, Shapes,
         ClientPCs, LoaderPCs, Lifecycle, Sockets, LoaderOwnsEntry, Cached,
         Joined, Listening
<1>13. ASSUME NEW c \in Clients, UNCHANGED up, Check(c) PROVE Shapes'
  BY <1>13 DEF Check, Goto, maps, loaderVars, Unlisten, HasAll, Shapes,
         ClientPCs, LoaderPCs, Lifecycle, Sockets, LoaderOwnsEntry, Cached,
         Joined, Listening
<1>14. ASSUME NEW c \in Clients, UNCHANGED up, SpuriousWakeup(c) PROVE Shapes'
  BY <1>14 DEF SpuriousWakeup, Goto, shared, maps, entryVars, loaderVars,
         Shapes, ClientPCs, LoaderPCs, Lifecycle, Sockets, LoaderOwnsEntry,
         Cached, Joined, Listening
<1>15. ASSUME NEW c \in Clients, UNCHANGED up, Wake(c) PROVE Shapes'
  BY <1>15 DEF Wake, Goto, maps, loaderVars, HasAll, Shapes, ClientPCs,
         LoaderPCs, Lifecycle, Sockets, LoaderOwnsEntry, Cached, Joined,
         Listening
<1>16. ASSUME NEW c \in Clients, UNCHANGED up, Leave(c) PROVE Shapes'
  BY <1>16 DEF Leave, Goto, maps, loaderVars, Unlisten, Shapes, ClientPCs,
         LoaderPCs, Lifecycle, Sockets, LoaderOwnsEntry, Cached, Joined,
         Listening
<1>17. ASSUME NEW c \in Clients, UNCHANGED up, SendError(c) PROVE Shapes'
  BY <1>17 DEF SendError, Goto, shared, maps, entryVars, loaderVars, Shapes,
         ClientPCs, LoaderPCs, Lifecycle, Sockets, LoaderOwnsEntry, Cached,
         Joined, Listening
<1>18. ASSUME NEW l \in Loaders, UNCHANGED up, Begin(l) PROVE Shapes'
  BY <1>18 DEF Begin, LGoto, shared, maps, entryVars, clientVars, Shapes,
         ClientPCs, LoaderPCs, Lifecycle, Sockets, LoaderOwnsEntry, Cached,
         Joined, Listening
<1>19. ASSUME NEW l \in Loaders, UNCHANGED up, Read(l) PROVE Shapes'
  BY <1>19, SMTT(60) DEF Read, LGoto, shared, maps, entryVars, clientVars,
         AtEof, Shapes, ClientPCs, LoaderPCs, Lifecycle, Sockets,
         LoaderOwnsEntry, Cached, Joined, Listening
<1>20. ASSUME NEW l \in Loaders, UNCHANGED up, AppendData(l) PROVE Shapes'
  BY <1>20 DEF AppendData, LGoto, maps, clientVars, Shapes, ClientPCs,
         LoaderPCs, Lifecycle, Sockets, LoaderOwnsEntry, Cached, Joined,
         Listening
<1>21. ASSUME NEW l \in Loaders, UNCHANGED up, Evict(l) PROVE Shapes'
  BY <1>21, SMTT(60) DEF Evict, LGoto, entryVars, clientVars, CacheWithout,
         Shapes, ClientPCs, LoaderPCs, Lifecycle, Sockets, LoaderOwnsEntry,
         Cached, Joined, Listening
<1>22. ASSUME NEW l \in Loaders, UNCHANGED up, Poll(l) PROVE Shapes'
  BY <1>22 DEF Poll, LGoto, shared, maps, entryVars, clientVars, Shapes,
         ClientPCs, LoaderPCs, Lifecycle, Sockets, LoaderOwnsEntry, Cached,
         Joined, Listening
<1>23. ASSUME NEW l \in Loaders, UNCHANGED up, Recheck(l) PROVE Shapes'
  BY <1>23 DEF Recheck, LGoto, entryVars, clientVars, CacheWithout, Unwanted,
         Shapes, ClientPCs, LoaderPCs, Lifecycle, Sockets, LoaderOwnsEntry,
         Cached, Joined, Listening
<1>24. ASSUME NEW l \in Loaders, UNCHANGED up, Notify(l) PROVE Shapes'
  BY <1>24 DEF Notify, LGoto, maps, Broadcast, Shapes, ClientPCs, LoaderPCs,
         Lifecycle, Sockets, LoaderOwnsEntry, Cached, Joined, Listening
<1>25. ASSUME NEW l \in Loaders, UNCHANGED up, Fail(l) PROVE Shapes'
  BY <1>25 DEF Fail, LGoto, maps, Broadcast, Shapes, ClientPCs, LoaderPCs,
         Lifecycle, Sockets, LoaderOwnsEntry, Cached, Joined, Listening
<1>26. ASSUME NEW l \in Loaders, UNCHANGED up, Close(l) PROVE Shapes'
  BY <1>26 DEF Close, LGoto, shared, maps, entryVars, clientVars, Shapes,
         ClientPCs, LoaderPCs, Lifecycle, Sockets, LoaderOwnsEntry, Cached,
         Joined, Listening
<1> QED
  BY <1>1, <1>2, <1>3, <1>4, <1>5, <1>6, <1>7, <1>8, <1>9, <1>10, <1>11,
     <1>12, <1>13, <1>14, <1>15, <1>16, <1>17, <1>18, <1>19, <1>20, <1>21,
     <1>22, <1>23, <1>24, <1>25, <1>26 DEF Next, Idle, ClientStep,
         LoaderStep, Arrive, Work, Deliver

(* cache_lock excludes: it is taken only when it is free, and given back   *)
(* by the one client that has it.                                          *)
LEMMA CacheLockStep ==
  ASSUME Shapes, CacheLock, [Next]_vars
  PROVE  CacheLock'
PROOF
<1>1. CASE UNCHANGED vars
  BY <1>1 DEF vars, shared, maps, entryVars, clientVars, loaderVars, Shapes,
         ClientPCs, LoaderPCs, CacheLock, HoldsCache
<1>2. CASE AcceptFails
  BY <1>2 DEF AcceptFails, shared, maps, entryVars, clientVars, loaderVars,
         Shapes, ClientPCs, LoaderPCs, CacheLock, HoldsCache
<1>3. ASSUME NEW c \in Clients, UNCHANGED up, Accept(c) PROVE CacheLock'
  BY <1>3 DEF Accept, Goto, shared, maps, entryVars, loaderVars, Shapes,
         ClientPCs, LoaderPCs, CacheLock, HoldsCache
<1>4. ASSUME NEW c \in Clients, UNCHANGED up, ReadRequest(c) PROVE CacheLock'
  BY <1>4 DEF ReadRequest, Goto, shared, maps, entryVars, loaderVars, Shapes,
         ClientPCs, LoaderPCs, CacheLock, HoldsCache
<1>5. ASSUME NEW c \in Clients, UNCHANGED up, Lookup(c) PROVE CacheLock'
  BY <1>5 DEF Lookup, Goto, entryVars, loaderVars, Shapes, ClientPCs,
         LoaderPCs, CacheLock, HoldsCache
<1>6. ASSUME NEW c \in Clients, UNCHANGED up, Connect(c) PROVE CacheLock'
  BY <1>6 DEF Connect, Goto, shared, maps, entryVars, OpenFds, Shapes,
         ClientPCs, LoaderPCs, CacheLock, HoldsCache
<1>7. ASSUME NEW c \in Clients, UNCHANGED up, Insert(c) PROVE CacheLock'
  BY <1>7 DEF Insert, Goto, loaderVars, Register, Shapes, ClientPCs,
         LoaderPCs, CacheLock, HoldsCache
<1>8. ASSUME NEW c \in Clients, UNCHANGED up, Spawn(c) PROVE CacheLock'
  BY <1>8 DEF Spawn, Goto, LGoto, entryVars, Shapes, ClientPCs, LoaderPCs,
         CacheLock, HoldsCache
<1>9. ASSUME NEW c \in Clients, UNCHANGED up, Join(c) PROVE CacheLock'
  BY <1>9 DEF Join, Goto, loaderVars, Shapes, ClientPCs, LoaderPCs,
         CacheLock, HoldsCache
<1>10. ASSUME NEW c \in Clients, UNCHANGED up, Start(c) PROVE CacheLock'
  BY <1>10 DEF Start, Goto, maps, loaderVars, Shapes, ClientPCs, LoaderPCs,
         CacheLock, HoldsCache
<1>11. ASSUME NEW c \in Clients, UNCHANGED up, CopyOut(c) PROVE CacheLock'
  BY <1>11 DEF CopyOut, Goto, maps, loaderVars, NextWrite, Shapes, ClientPCs,
         LoaderPCs, CacheLock, HoldsCache
<1>12. ASSUME NEW c \in Clients, UNCHANGED up, Write(c) PROVE CacheLock'
  BY <1>12 DEF Write, Goto, shared, maps, entryVars, loaderVars, Shapes,
         ClientPCs, LoaderPCs, CacheLock, HoldsCache
<1>13. ASSUME NEW c \in Clients, UNCHANGED up, Check(c) PROVE CacheLock'
  BY <1>13 DEF Check, Goto, maps, loaderVars, Unlisten, HasAll, Shapes,
         ClientPCs, LoaderPCs, CacheLock, HoldsCache
<1>14. ASSUME NEW c \in Clients, UNCHANGED up, SpuriousWakeup(c) PROVE CacheLock'
  BY <1>14 DEF SpuriousWakeup, Goto, shared, maps, entryVars, loaderVars,
         Shapes, ClientPCs, LoaderPCs, CacheLock, HoldsCache
<1>15. ASSUME NEW c \in Clients, UNCHANGED up, Wake(c) PROVE CacheLock'
  BY <1>15 DEF Wake, Goto, maps, loaderVars, HasAll, Shapes, ClientPCs,
         LoaderPCs, CacheLock, HoldsCache
<1>16. ASSUME NEW c \in Clients, UNCHANGED up, Leave(c) PROVE CacheLock'
  BY <1>16 DEF Leave, Goto, maps, loaderVars, Unlisten, Shapes, ClientPCs,
         LoaderPCs, CacheLock, HoldsCache
<1>17. ASSUME NEW c \in Clients, UNCHANGED up, SendError(c) PROVE CacheLock'
  BY <1>17 DEF SendError, Goto, shared, maps, entryVars, loaderVars, Shapes,
         ClientPCs, LoaderPCs, CacheLock, HoldsCache
<1>18. ASSUME NEW l \in Loaders, UNCHANGED up, Begin(l) PROVE CacheLock'
  BY <1>18 DEF Begin, LGoto, shared, maps, entryVars, clientVars, Shapes,
         ClientPCs, LoaderPCs, CacheLock, HoldsCache
<1>19. ASSUME NEW l \in Loaders, UNCHANGED up, Read(l) PROVE CacheLock'
  BY <1>19 DEF Read, LGoto, shared, maps, entryVars, clientVars, AtEof,
         Shapes, ClientPCs, LoaderPCs, CacheLock, HoldsCache
<1>20. ASSUME NEW l \in Loaders, UNCHANGED up, AppendData(l) PROVE CacheLock'
  BY <1>20 DEF AppendData, LGoto, maps, clientVars, Shapes, ClientPCs,
         LoaderPCs, CacheLock, HoldsCache
<1>21. ASSUME NEW l \in Loaders, UNCHANGED up, Evict(l) PROVE CacheLock'
  BY <1>21 DEF Evict, LGoto, entryVars, clientVars, CacheWithout, Shapes,
         ClientPCs, LoaderPCs, CacheLock, HoldsCache
<1>22. ASSUME NEW l \in Loaders, UNCHANGED up, Poll(l) PROVE CacheLock'
  BY <1>22 DEF Poll, LGoto, shared, maps, entryVars, clientVars, Shapes,
         ClientPCs, LoaderPCs, CacheLock, HoldsCache
<1>23. ASSUME NEW l \in Loaders, UNCHANGED up, Recheck(l) PROVE CacheLock'
  BY <1>23 DEF Recheck, LGoto, entryVars, clientVars, CacheWithout, Unwanted,
         Shapes, ClientPCs, LoaderPCs, CacheLock, HoldsCache
<1>24. ASSUME NEW l \in Loaders, UNCHANGED up, Notify(l) PROVE CacheLock'
  BY <1>24 DEF Notify, LGoto, maps, Broadcast, Shapes, ClientPCs, LoaderPCs,
         CacheLock, HoldsCache
<1>25. ASSUME NEW l \in Loaders, UNCHANGED up, Fail(l) PROVE CacheLock'
  BY <1>25 DEF Fail, LGoto, maps, Broadcast, Shapes, ClientPCs, LoaderPCs,
         CacheLock, HoldsCache
<1>26. ASSUME NEW l \in Loaders, UNCHANGED up, Close(l) PROVE CacheLock'
  BY <1>26 DEF Close, LGoto, shared, maps, entryVars, clientVars, Shapes,
         ClientPCs, LoaderPCs, CacheLock, HoldsCache
<1> QED
  BY <1>1, <1>2, <1>3, <1>4, <1>5, <1>6, <1>7, <1>8, <1>9, <1>10, <1>11,
     <1>12, <1>13, <1>14, <1>15, <1>16, <1>17, <1>18, <1>19, <1>20, <1>21,
     <1>22, <1>23, <1>24, <1>25, <1>26 DEF Next, Idle, ClientStep,
         LoaderStep, Arrive, Work, Deliver

(* Threads, sockets and entries come and go in their order. *)
LEMMA LifecycleStep ==
  ASSUME Shapes, CacheLock, Lifecycle, Sockets, Cached, Joined, [Next]_vars
  PROVE  Lifecycle'
PROOF
<1>1. CASE UNCHANGED vars
  BY <1>1 DEF vars, shared, maps, entryVars, clientVars, loaderVars, Shapes,
         ClientPCs, LoaderPCs, CacheLock, HoldsCache, Lifecycle, Sockets,
         LoaderOwnsEntry, Cached, Joined, Listening
<1>2. CASE AcceptFails
  BY <1>2 DEF AcceptFails, shared, maps, entryVars, clientVars, loaderVars,
         Shapes, ClientPCs, LoaderPCs, CacheLock, HoldsCache, Lifecycle,
         Sockets, LoaderOwnsEntry, Cached, Joined, Listening
<1>3. ASSUME NEW c \in Clients, UNCHANGED up, Accept(c) PROVE Lifecycle'
  BY <1>3 DEF Accept, Goto, shared, maps, entryVars, loaderVars, Shapes,
         ClientPCs, LoaderPCs, CacheLock, HoldsCache, Lifecycle, Sockets,
         LoaderOwnsEntry, Cached, Joined, Listening
<1>4. ASSUME NEW c \in Clients, UNCHANGED up, ReadRequest(c) PROVE Lifecycle'
  BY <1>4 DEF ReadRequest, Goto, shared, maps, entryVars, loaderVars, Shapes,
         ClientPCs, LoaderPCs, CacheLock, HoldsCache, Lifecycle, Sockets,
         LoaderOwnsEntry, Cached, Joined, Listening
<1>5. ASSUME NEW c \in Clients, UNCHANGED up, Lookup(c) PROVE Lifecycle'
  BY <1>5 DEF Lookup, Goto, entryVars, loaderVars, Shapes, ClientPCs,
         LoaderPCs, CacheLock, HoldsCache, Lifecycle, Sockets,
         LoaderOwnsEntry, Cached, Joined, Listening
<1>6. ASSUME NEW c \in Clients, UNCHANGED up, Connect(c) PROVE Lifecycle'
  BY <1>6 DEF Connect, Goto, shared, maps, entryVars, OpenFds, Shapes,
         ClientPCs, LoaderPCs, CacheLock, HoldsCache, Lifecycle, Sockets,
         LoaderOwnsEntry, Cached, Joined, Listening
<1>7. ASSUME NEW c \in Clients, UNCHANGED up, Insert(c) PROVE Lifecycle'
  BY <1>7 DEF Insert, Goto, loaderVars, Register, Shapes, ClientPCs,
         LoaderPCs, CacheLock, HoldsCache, Lifecycle, Sockets,
         LoaderOwnsEntry, Cached, Joined, Listening
<1>8. ASSUME NEW c \in Clients, UNCHANGED up, Spawn(c) PROVE Lifecycle'
  BY <1>8 DEF Spawn, Goto, LGoto, entryVars, Shapes, ClientPCs, LoaderPCs,
         CacheLock, HoldsCache, Lifecycle, Sockets, LoaderOwnsEntry, Cached,
         Joined, Listening
<1>9. ASSUME NEW c \in Clients, UNCHANGED up, Join(c) PROVE Lifecycle'
  BY <1>9 DEF Join, Goto, loaderVars, Shapes, ClientPCs, LoaderPCs,
         CacheLock, HoldsCache, Lifecycle, Sockets, LoaderOwnsEntry, Cached,
         Joined, Listening
<1>10. ASSUME NEW c \in Clients, UNCHANGED up, Start(c) PROVE Lifecycle'
  BY <1>10 DEF Start, Goto, maps, loaderVars, Shapes, ClientPCs, LoaderPCs,
         CacheLock, HoldsCache, Lifecycle, Sockets, LoaderOwnsEntry, Cached,
         Joined, Listening
<1>11. ASSUME NEW c \in Clients, UNCHANGED up, CopyOut(c) PROVE Lifecycle'
  BY <1>11 DEF CopyOut, Goto, maps, loaderVars, NextWrite, Shapes, ClientPCs,
         LoaderPCs, CacheLock, HoldsCache, Lifecycle, Sockets,
         LoaderOwnsEntry, Cached, Joined, Listening
<1>12. ASSUME NEW c \in Clients, UNCHANGED up, Write(c) PROVE Lifecycle'
  BY <1>12 DEF Write, Goto, shared, maps, entryVars, loaderVars, Shapes,
         ClientPCs, LoaderPCs, CacheLock, HoldsCache, Lifecycle, Sockets,
         LoaderOwnsEntry, Cached, Joined, Listening
<1>13. ASSUME NEW c \in Clients, UNCHANGED up, Check(c) PROVE Lifecycle'
  BY <1>13 DEF Check, Goto, maps, loaderVars, Unlisten, HasAll, Shapes,
         ClientPCs, LoaderPCs, CacheLock, HoldsCache, Lifecycle, Sockets,
         LoaderOwnsEntry, Cached, Joined, Listening
<1>14. ASSUME NEW c \in Clients, UNCHANGED up, SpuriousWakeup(c) PROVE Lifecycle'
  BY <1>14 DEF SpuriousWakeup, Goto, shared, maps, entryVars, loaderVars,
         Shapes, ClientPCs, LoaderPCs, CacheLock, HoldsCache, Lifecycle,
         Sockets, LoaderOwnsEntry, Cached, Joined, Listening
<1>15. ASSUME NEW c \in Clients, UNCHANGED up, Wake(c) PROVE Lifecycle'
  BY <1>15 DEF Wake, Goto, maps, loaderVars, HasAll, Shapes, ClientPCs,
         LoaderPCs, CacheLock, HoldsCache, Lifecycle, Sockets,
         LoaderOwnsEntry, Cached, Joined, Listening
<1>16. ASSUME NEW c \in Clients, UNCHANGED up, Leave(c) PROVE Lifecycle'
  BY <1>16 DEF Leave, Goto, maps, loaderVars, Unlisten, Shapes, ClientPCs,
         LoaderPCs, CacheLock, HoldsCache, Lifecycle, Sockets,
         LoaderOwnsEntry, Cached, Joined, Listening
<1>17. ASSUME NEW c \in Clients, UNCHANGED up, SendError(c) PROVE Lifecycle'
  BY <1>17 DEF SendError, Goto, shared, maps, entryVars, loaderVars, Shapes,
         ClientPCs, LoaderPCs, CacheLock, HoldsCache, Lifecycle, Sockets,
         LoaderOwnsEntry, Cached, Joined, Listening
<1>18. ASSUME NEW l \in Loaders, UNCHANGED up, Begin(l) PROVE Lifecycle'
  BY <1>18 DEF Begin, LGoto, shared, maps, entryVars, clientVars, Shapes,
         ClientPCs, LoaderPCs, CacheLock, HoldsCache, Lifecycle, Sockets,
         LoaderOwnsEntry, Cached, Joined, Listening
<1>19. ASSUME NEW l \in Loaders, UNCHANGED up, Read(l) PROVE Lifecycle'
  BY <1>19 DEF Read, LGoto, shared, maps, entryVars, clientVars, AtEof,
         Shapes, ClientPCs, LoaderPCs, CacheLock, HoldsCache, Lifecycle,
         Sockets, LoaderOwnsEntry, Cached, Joined, Listening
<1>20. ASSUME NEW l \in Loaders, UNCHANGED up, AppendData(l) PROVE Lifecycle'
  BY <1>20 DEF AppendData, LGoto, maps, clientVars, Shapes, ClientPCs,
         LoaderPCs, CacheLock, HoldsCache, Lifecycle, Sockets,
         LoaderOwnsEntry, Cached, Joined, Listening
<1>21. ASSUME NEW l \in Loaders, UNCHANGED up, Evict(l) PROVE Lifecycle'
  BY <1>21 DEF Evict, LGoto, entryVars, clientVars, CacheWithout, Shapes,
         ClientPCs, LoaderPCs, CacheLock, HoldsCache, Lifecycle, Sockets,
         LoaderOwnsEntry, Cached, Joined, Listening
<1>22. ASSUME NEW l \in Loaders, UNCHANGED up, Poll(l) PROVE Lifecycle'
  BY <1>22 DEF Poll, LGoto, shared, maps, entryVars, clientVars, Shapes,
         ClientPCs, LoaderPCs, CacheLock, HoldsCache, Lifecycle, Sockets,
         LoaderOwnsEntry, Cached, Joined, Listening
<1>23. ASSUME NEW l \in Loaders, UNCHANGED up, Recheck(l) PROVE Lifecycle'
  BY <1>23 DEF Recheck, LGoto, entryVars, clientVars, CacheWithout, Unwanted,
         Shapes, ClientPCs, LoaderPCs, CacheLock, HoldsCache, Lifecycle,
         Sockets, LoaderOwnsEntry, Cached, Joined, Listening
<1>24. ASSUME NEW l \in Loaders, UNCHANGED up, Notify(l) PROVE Lifecycle'
  BY <1>24 DEF Notify, LGoto, maps, Broadcast, Shapes, ClientPCs, LoaderPCs,
         CacheLock, HoldsCache, Lifecycle, Sockets, LoaderOwnsEntry, Cached,
         Joined, Listening
<1>25. ASSUME NEW l \in Loaders, UNCHANGED up, Fail(l) PROVE Lifecycle'
  BY <1>25 DEF Fail, LGoto, maps, Broadcast, Shapes, ClientPCs, LoaderPCs,
         CacheLock, HoldsCache, Lifecycle, Sockets, LoaderOwnsEntry, Cached,
         Joined, Listening
<1>26. ASSUME NEW l \in Loaders, UNCHANGED up, Close(l) PROVE Lifecycle'
  BY <1>26 DEF Close, LGoto, shared, maps, entryVars, clientVars, Shapes,
         ClientPCs, LoaderPCs, CacheLock, HoldsCache, Lifecycle, Sockets,
         LoaderOwnsEntry, Cached, Joined, Listening
<1> QED
  BY <1>1, <1>2, <1>3, <1>4, <1>5, <1>6, <1>7, <1>8, <1>9, <1>10, <1>11,
     <1>12, <1>13, <1>14, <1>15, <1>16, <1>17, <1>18, <1>19, <1>20, <1>21,
     <1>22, <1>23, <1>24, <1>25, <1>26 DEF Next, Idle, ClientStep,
         LoaderStep, Arrive, Work, Deliver

(* A socket number is given out again only when it is closed, and Insert   *)
(* then registers it anew before the loader looks it up.                   *)
LEMMA SocketsStep ==
  ASSUME Shapes, CacheLock, Lifecycle, Sockets, [Next]_vars
  PROVE  Sockets'
PROOF
<1>1. CASE UNCHANGED vars
  BY <1>1 DEF vars, shared, maps, entryVars, clientVars, loaderVars, Shapes,
         ClientPCs, LoaderPCs, CacheLock, HoldsCache, Lifecycle, Sockets,
         LoaderOwnsEntry
<1>2. CASE AcceptFails
  BY <1>2 DEF AcceptFails, shared, maps, entryVars, clientVars, loaderVars,
         Shapes, ClientPCs, LoaderPCs, CacheLock, HoldsCache, Lifecycle,
         Sockets, LoaderOwnsEntry
<1>3. ASSUME NEW c \in Clients, UNCHANGED up, Accept(c) PROVE Sockets'
  BY <1>3 DEF Accept, Goto, shared, maps, entryVars, loaderVars, Shapes,
         ClientPCs, LoaderPCs, CacheLock, HoldsCache, Lifecycle, Sockets,
         LoaderOwnsEntry
<1>4. ASSUME NEW c \in Clients, UNCHANGED up, ReadRequest(c) PROVE Sockets'
  BY <1>4 DEF ReadRequest, Goto, shared, maps, entryVars, loaderVars, Shapes,
         ClientPCs, LoaderPCs, CacheLock, HoldsCache, Lifecycle, Sockets,
         LoaderOwnsEntry
<1>5. ASSUME NEW c \in Clients, UNCHANGED up, Lookup(c) PROVE Sockets'
  BY <1>5 DEF Lookup, Goto, entryVars, loaderVars, Shapes, ClientPCs,
         LoaderPCs, CacheLock, HoldsCache, Lifecycle, Sockets,
         LoaderOwnsEntry
<1>6. ASSUME NEW c \in Clients, UNCHANGED up, Connect(c) PROVE Sockets'
  BY <1>6 DEF Connect, Goto, shared, maps, entryVars, OpenFds, Shapes,
         ClientPCs, LoaderPCs, CacheLock, HoldsCache, Lifecycle, Sockets,
         LoaderOwnsEntry
<1>7. ASSUME NEW c \in Clients, UNCHANGED up, Insert(c) PROVE Sockets'
  BY <1>7 DEF Insert, Goto, loaderVars, Register, Shapes, ClientPCs,
         LoaderPCs, CacheLock, HoldsCache, Lifecycle, Sockets,
         LoaderOwnsEntry
<1>8. ASSUME NEW c \in Clients, UNCHANGED up, Spawn(c) PROVE Sockets'
  BY <1>8 DEF Spawn, Goto, LGoto, entryVars, Shapes, ClientPCs, LoaderPCs,
         CacheLock, HoldsCache, Lifecycle, Sockets, LoaderOwnsEntry
<1>9. ASSUME NEW c \in Clients, UNCHANGED up, Join(c) PROVE Sockets'
  BY <1>9 DEF Join, Goto, loaderVars, Shapes, ClientPCs, LoaderPCs,
         CacheLock, HoldsCache, Lifecycle, Sockets, LoaderOwnsEntry
<1>10. ASSUME NEW c \in Clients, UNCHANGED up, Start(c) PROVE Sockets'
  BY <1>10 DEF Start, Goto, maps, loaderVars, Shapes, ClientPCs, LoaderPCs,
         CacheLock, HoldsCache, Lifecycle, Sockets, LoaderOwnsEntry
<1>11. ASSUME NEW c \in Clients, UNCHANGED up, CopyOut(c) PROVE Sockets'
  BY <1>11 DEF CopyOut, Goto, maps, loaderVars, NextWrite, Shapes, ClientPCs,
         LoaderPCs, CacheLock, HoldsCache, Lifecycle, Sockets,
         LoaderOwnsEntry
<1>12. ASSUME NEW c \in Clients, UNCHANGED up, Write(c) PROVE Sockets'
  BY <1>12 DEF Write, Goto, shared, maps, entryVars, loaderVars, Shapes,
         ClientPCs, LoaderPCs, CacheLock, HoldsCache, Lifecycle, Sockets,
         LoaderOwnsEntry
<1>13. ASSUME NEW c \in Clients, UNCHANGED up, Check(c) PROVE Sockets'
  BY <1>13 DEF Check, Goto, maps, loaderVars, Unlisten, HasAll, Shapes,
         ClientPCs, LoaderPCs, CacheLock, HoldsCache, Lifecycle, Sockets,
         LoaderOwnsEntry
<1>14. ASSUME NEW c \in Clients, UNCHANGED up, SpuriousWakeup(c) PROVE Sockets'
  BY <1>14 DEF SpuriousWakeup, Goto, shared, maps, entryVars, loaderVars,
         Shapes, ClientPCs, LoaderPCs, CacheLock, HoldsCache, Lifecycle,
         Sockets, LoaderOwnsEntry
<1>15. ASSUME NEW c \in Clients, UNCHANGED up, Wake(c) PROVE Sockets'
  BY <1>15 DEF Wake, Goto, maps, loaderVars, HasAll, Shapes, ClientPCs,
         LoaderPCs, CacheLock, HoldsCache, Lifecycle, Sockets,
         LoaderOwnsEntry
<1>16. ASSUME NEW c \in Clients, UNCHANGED up, Leave(c) PROVE Sockets'
  BY <1>16 DEF Leave, Goto, maps, loaderVars, Unlisten, Shapes, ClientPCs,
         LoaderPCs, CacheLock, HoldsCache, Lifecycle, Sockets,
         LoaderOwnsEntry
<1>17. ASSUME NEW c \in Clients, UNCHANGED up, SendError(c) PROVE Sockets'
  BY <1>17 DEF SendError, Goto, shared, maps, entryVars, loaderVars, Shapes,
         ClientPCs, LoaderPCs, CacheLock, HoldsCache, Lifecycle, Sockets,
         LoaderOwnsEntry
<1>18. ASSUME NEW l \in Loaders, UNCHANGED up, Begin(l) PROVE Sockets'
  BY <1>18 DEF Begin, LGoto, shared, maps, entryVars, clientVars, Shapes,
         ClientPCs, LoaderPCs, CacheLock, HoldsCache, Lifecycle, Sockets,
         LoaderOwnsEntry
<1>19. ASSUME NEW l \in Loaders, UNCHANGED up, Read(l) PROVE Sockets'
  BY <1>19 DEF Read, LGoto, shared, maps, entryVars, clientVars, AtEof,
         Shapes, ClientPCs, LoaderPCs, CacheLock, HoldsCache, Lifecycle,
         Sockets, LoaderOwnsEntry
<1>20. ASSUME NEW l \in Loaders, UNCHANGED up, AppendData(l) PROVE Sockets'
  BY <1>20 DEF AppendData, LGoto, maps, clientVars, Shapes, ClientPCs,
         LoaderPCs, CacheLock, HoldsCache, Lifecycle, Sockets,
         LoaderOwnsEntry
<1>21. ASSUME NEW l \in Loaders, UNCHANGED up, Evict(l) PROVE Sockets'
  BY <1>21 DEF Evict, LGoto, entryVars, clientVars, CacheWithout, Shapes,
         ClientPCs, LoaderPCs, CacheLock, HoldsCache, Lifecycle, Sockets,
         LoaderOwnsEntry
<1>22. ASSUME NEW l \in Loaders, UNCHANGED up, Poll(l) PROVE Sockets'
  BY <1>22 DEF Poll, LGoto, shared, maps, entryVars, clientVars, Shapes,
         ClientPCs, LoaderPCs, CacheLock, HoldsCache, Lifecycle, Sockets,
         LoaderOwnsEntry
<1>23. ASSUME NEW l \in Loaders, UNCHANGED up, Recheck(l) PROVE Sockets'
  BY <1>23 DEF Recheck, LGoto, entryVars, clientVars, CacheWithout, Unwanted,
         Shapes, ClientPCs, LoaderPCs, CacheLock, HoldsCache, Lifecycle,
         Sockets, LoaderOwnsEntry
<1>24. ASSUME NEW l \in Loaders, UNCHANGED up, Notify(l) PROVE Sockets'
  BY <1>24 DEF Notify, LGoto, maps, Broadcast, Shapes, ClientPCs, LoaderPCs,
         CacheLock, HoldsCache, Lifecycle, Sockets, LoaderOwnsEntry
<1>25. ASSUME NEW l \in Loaders, UNCHANGED up, Fail(l) PROVE Sockets'
  BY <1>25 DEF Fail, LGoto, maps, Broadcast, Shapes, ClientPCs, LoaderPCs,
         CacheLock, HoldsCache, Lifecycle, Sockets, LoaderOwnsEntry
<1>26. ASSUME NEW l \in Loaders, UNCHANGED up, Close(l) PROVE Sockets'
  BY <1>26 DEF Close, LGoto, shared, maps, entryVars, clientVars, Shapes,
         ClientPCs, LoaderPCs, CacheLock, HoldsCache, Lifecycle, Sockets,
         LoaderOwnsEntry
<1> QED
  BY <1>1, <1>2, <1>3, <1>4, <1>5, <1>6, <1>7, <1>8, <1>9, <1>10, <1>11,
     <1>12, <1>13, <1>14, <1>15, <1>16, <1>17, <1>18, <1>19, <1>20, <1>21,
     <1>22, <1>23, <1>24, <1>25, <1>26 DEF Next, Idle, ClientStep,
         LoaderStep, Arrive, Work, Deliver

(* Entries enter the cache under their own key, and leave it only while no *)
(* client holds cache_lock.                                                *)
LEMMA CachedStep ==
  ASSUME Shapes, CacheLock, Lifecycle, Sockets, Cached, [Next]_vars
  PROVE  Cached'
PROOF
<1>1. CASE UNCHANGED vars
  BY <1>1 DEF vars, shared, maps, entryVars, clientVars, loaderVars, Shapes,
         ClientPCs, LoaderPCs, CacheLock, HoldsCache, Lifecycle, Sockets,
         LoaderOwnsEntry, Cached
<1>2. CASE AcceptFails
  BY <1>2 DEF AcceptFails, shared, maps, entryVars, clientVars, loaderVars,
         Shapes, ClientPCs, LoaderPCs, CacheLock, HoldsCache, Lifecycle,
         Sockets, LoaderOwnsEntry, Cached
<1>3. ASSUME NEW c \in Clients, UNCHANGED up, Accept(c) PROVE Cached'
  BY <1>3 DEF Accept, Goto, shared, maps, entryVars, loaderVars, Shapes,
         ClientPCs, LoaderPCs, CacheLock, HoldsCache, Lifecycle, Sockets,
         LoaderOwnsEntry, Cached
<1>4. ASSUME NEW c \in Clients, UNCHANGED up, ReadRequest(c) PROVE Cached'
  BY <1>4 DEF ReadRequest, Goto, shared, maps, entryVars, loaderVars, Shapes,
         ClientPCs, LoaderPCs, CacheLock, HoldsCache, Lifecycle, Sockets,
         LoaderOwnsEntry, Cached
<1>5. ASSUME NEW c \in Clients, UNCHANGED up, Lookup(c) PROVE Cached'
  BY <1>5 DEF Lookup, Goto, entryVars, loaderVars, Shapes, ClientPCs,
         LoaderPCs, CacheLock, HoldsCache, Lifecycle, Sockets,
         LoaderOwnsEntry, Cached
<1>6. ASSUME NEW c \in Clients, UNCHANGED up, Connect(c) PROVE Cached'
  BY <1>6 DEF Connect, Goto, shared, maps, entryVars, OpenFds, Shapes,
         ClientPCs, LoaderPCs, CacheLock, HoldsCache, Lifecycle, Sockets,
         LoaderOwnsEntry, Cached
<1>7. ASSUME NEW c \in Clients, UNCHANGED up, Insert(c) PROVE Cached'
  BY <1>7 DEF Insert, Goto, loaderVars, Register, Shapes, ClientPCs,
         LoaderPCs, CacheLock, HoldsCache, Lifecycle, Sockets,
         LoaderOwnsEntry, Cached
<1>8. ASSUME NEW c \in Clients, UNCHANGED up, Spawn(c) PROVE Cached'
  BY <1>8 DEF Spawn, Goto, LGoto, entryVars, Shapes, ClientPCs, LoaderPCs,
         CacheLock, HoldsCache, Lifecycle, Sockets, LoaderOwnsEntry, Cached
<1>9. ASSUME NEW c \in Clients, UNCHANGED up, Join(c) PROVE Cached'
  BY <1>9 DEF Join, Goto, loaderVars, Shapes, ClientPCs, LoaderPCs,
         CacheLock, HoldsCache, Lifecycle, Sockets, LoaderOwnsEntry, Cached
<1>10. ASSUME NEW c \in Clients, UNCHANGED up, Start(c) PROVE Cached'
  BY <1>10 DEF Start, Goto, maps, loaderVars, Shapes, ClientPCs, LoaderPCs,
         CacheLock, HoldsCache, Lifecycle, Sockets, LoaderOwnsEntry, Cached
<1>11. ASSUME NEW c \in Clients, UNCHANGED up, CopyOut(c) PROVE Cached'
  BY <1>11 DEF CopyOut, Goto, maps, loaderVars, NextWrite, Shapes, ClientPCs,
         LoaderPCs, CacheLock, HoldsCache, Lifecycle, Sockets,
         LoaderOwnsEntry, Cached
<1>12. ASSUME NEW c \in Clients, UNCHANGED up, Write(c) PROVE Cached'
  BY <1>12 DEF Write, Goto, shared, maps, entryVars, loaderVars, Shapes,
         ClientPCs, LoaderPCs, CacheLock, HoldsCache, Lifecycle, Sockets,
         LoaderOwnsEntry, Cached
<1>13. ASSUME NEW c \in Clients, UNCHANGED up, Check(c) PROVE Cached'
  BY <1>13 DEF Check, Goto, maps, loaderVars, Unlisten, HasAll, Shapes,
         ClientPCs, LoaderPCs, CacheLock, HoldsCache, Lifecycle, Sockets,
         LoaderOwnsEntry, Cached
<1>14. ASSUME NEW c \in Clients, UNCHANGED up, SpuriousWakeup(c) PROVE Cached'
  BY <1>14 DEF SpuriousWakeup, Goto, shared, maps, entryVars, loaderVars,
         Shapes, ClientPCs, LoaderPCs, CacheLock, HoldsCache, Lifecycle,
         Sockets, LoaderOwnsEntry, Cached
<1>15. ASSUME NEW c \in Clients, UNCHANGED up, Wake(c) PROVE Cached'
  BY <1>15 DEF Wake, Goto, maps, loaderVars, HasAll, Shapes, ClientPCs,
         LoaderPCs, CacheLock, HoldsCache, Lifecycle, Sockets,
         LoaderOwnsEntry, Cached
<1>16. ASSUME NEW c \in Clients, UNCHANGED up, Leave(c) PROVE Cached'
  BY <1>16 DEF Leave, Goto, maps, loaderVars, Unlisten, Shapes, ClientPCs,
         LoaderPCs, CacheLock, HoldsCache, Lifecycle, Sockets,
         LoaderOwnsEntry, Cached
<1>17. ASSUME NEW c \in Clients, UNCHANGED up, SendError(c) PROVE Cached'
  BY <1>17 DEF SendError, Goto, shared, maps, entryVars, loaderVars, Shapes,
         ClientPCs, LoaderPCs, CacheLock, HoldsCache, Lifecycle, Sockets,
         LoaderOwnsEntry, Cached
<1>18. ASSUME NEW l \in Loaders, UNCHANGED up, Begin(l) PROVE Cached'
  BY <1>18 DEF Begin, LGoto, shared, maps, entryVars, clientVars, Shapes,
         ClientPCs, LoaderPCs, CacheLock, HoldsCache, Lifecycle, Sockets,
         LoaderOwnsEntry, Cached
<1>19. ASSUME NEW l \in Loaders, UNCHANGED up, Read(l) PROVE Cached'
  BY <1>19 DEF Read, LGoto, shared, maps, entryVars, clientVars, AtEof,
         Shapes, ClientPCs, LoaderPCs, CacheLock, HoldsCache, Lifecycle,
         Sockets, LoaderOwnsEntry, Cached
<1>20. ASSUME NEW l \in Loaders, UNCHANGED up, AppendData(l) PROVE Cached'
  BY <1>20 DEF AppendData, LGoto, maps, clientVars, Shapes, ClientPCs,
         LoaderPCs, CacheLock, HoldsCache, Lifecycle, Sockets,
         LoaderOwnsEntry, Cached
<1>21. ASSUME NEW l \in Loaders, UNCHANGED up, Evict(l) PROVE Cached'
  BY <1>21 DEF Evict, LGoto, entryVars, clientVars, CacheWithout, Shapes,
         ClientPCs, LoaderPCs, CacheLock, HoldsCache, Lifecycle, Sockets,
         LoaderOwnsEntry, Cached
<1>22. ASSUME NEW l \in Loaders, UNCHANGED up, Poll(l) PROVE Cached'
  BY <1>22 DEF Poll, LGoto, shared, maps, entryVars, clientVars, Shapes,
         ClientPCs, LoaderPCs, CacheLock, HoldsCache, Lifecycle, Sockets,
         LoaderOwnsEntry, Cached
<1>23. ASSUME NEW l \in Loaders, UNCHANGED up, Recheck(l) PROVE Cached'
  BY <1>23 DEF Recheck, LGoto, entryVars, clientVars, CacheWithout, Unwanted,
         Shapes, ClientPCs, LoaderPCs, CacheLock, HoldsCache, Lifecycle,
         Sockets, LoaderOwnsEntry, Cached
<1>24. ASSUME NEW l \in Loaders, UNCHANGED up, Notify(l) PROVE Cached'
  BY <1>24 DEF Notify, LGoto, maps, Broadcast, Shapes, ClientPCs, LoaderPCs,
         CacheLock, HoldsCache, Lifecycle, Sockets, LoaderOwnsEntry, Cached
<1>25. ASSUME NEW l \in Loaders, UNCHANGED up, Fail(l) PROVE Cached'
  BY <1>25 DEF Fail, LGoto, maps, Broadcast, Shapes, ClientPCs, LoaderPCs,
         CacheLock, HoldsCache, Lifecycle, Sockets, LoaderOwnsEntry, Cached
<1>26. ASSUME NEW l \in Loaders, UNCHANGED up, Close(l) PROVE Cached'
  BY <1>26 DEF Close, LGoto, shared, maps, entryVars, clientVars, Shapes,
         ClientPCs, LoaderPCs, CacheLock, HoldsCache, Lifecycle, Sockets,
         LoaderOwnsEntry, Cached
<1> QED
  BY <1>1, <1>2, <1>3, <1>4, <1>5, <1>6, <1>7, <1>8, <1>9, <1>10, <1>11,
     <1>12, <1>13, <1>14, <1>15, <1>16, <1>17, <1>18, <1>19, <1>20, <1>21,
     <1>22, <1>23, <1>24, <1>25, <1>26 DEF Next, Idle, ClientStep,
         LoaderStep, Arrive, Work, Deliver

(* A client joins what the cache holds under its key, and stays with it. *)
LEMMA JoinedStep ==
  ASSUME Shapes, CacheLock, Lifecycle, Sockets, Cached, Joined, [Next]_vars
  PROVE  Joined'
PROOF
<1>1. CASE UNCHANGED vars
  BY <1>1 DEF vars, shared, maps, entryVars, clientVars, loaderVars, Shapes,
         ClientPCs, LoaderPCs, CacheLock, HoldsCache, Lifecycle, Sockets,
         LoaderOwnsEntry, Cached, Joined, Listening
<1>2. CASE AcceptFails
  BY <1>2 DEF AcceptFails, shared, maps, entryVars, clientVars, loaderVars,
         Shapes, ClientPCs, LoaderPCs, CacheLock, HoldsCache, Lifecycle,
         Sockets, LoaderOwnsEntry, Cached, Joined, Listening
<1>3. ASSUME NEW c \in Clients, UNCHANGED up, Accept(c) PROVE Joined'
  BY <1>3 DEF Accept, Goto, shared, maps, entryVars, loaderVars, Shapes,
         ClientPCs, LoaderPCs, CacheLock, HoldsCache, Lifecycle, Sockets,
         LoaderOwnsEntry, Cached, Joined, Listening
<1>4. ASSUME NEW c \in Clients, UNCHANGED up, ReadRequest(c) PROVE Joined'
  BY <1>4 DEF ReadRequest, Goto, shared, maps, entryVars, loaderVars, Shapes,
         ClientPCs, LoaderPCs, CacheLock, HoldsCache, Lifecycle, Sockets,
         LoaderOwnsEntry, Cached, Joined, Listening
<1>5. ASSUME NEW c \in Clients, UNCHANGED up, Lookup(c) PROVE Joined'
  BY <1>5 DEF Lookup, Goto, entryVars, loaderVars, Shapes, ClientPCs,
         LoaderPCs, CacheLock, HoldsCache, Lifecycle, Sockets,
         LoaderOwnsEntry, Cached, Joined, Listening
<1>6. ASSUME NEW c \in Clients, UNCHANGED up, Connect(c) PROVE Joined'
  BY <1>6 DEF Connect, Goto, shared, maps, entryVars, OpenFds, Shapes,
         ClientPCs, LoaderPCs, CacheLock, HoldsCache, Lifecycle, Sockets,
         LoaderOwnsEntry, Cached, Joined, Listening
<1>7. ASSUME NEW c \in Clients, UNCHANGED up, Insert(c) PROVE Joined'
  BY <1>7 DEF Insert, Goto, loaderVars, Register, Shapes, ClientPCs,
         LoaderPCs, CacheLock, HoldsCache, Lifecycle, Sockets,
         LoaderOwnsEntry, Cached, Joined, Listening
<1>8. ASSUME NEW c \in Clients, UNCHANGED up, Spawn(c) PROVE Joined'
  BY <1>8 DEF Spawn, Goto, LGoto, entryVars, Shapes, ClientPCs, LoaderPCs,
         CacheLock, HoldsCache, Lifecycle, Sockets, LoaderOwnsEntry, Cached,
         Joined, Listening
<1>9. ASSUME NEW c \in Clients, UNCHANGED up, Join(c) PROVE Joined'
  BY <1>9 DEF Join, Goto, loaderVars, Shapes, ClientPCs, LoaderPCs,
         CacheLock, HoldsCache, Lifecycle, Sockets, LoaderOwnsEntry, Cached,
         Joined, Listening
<1>10. ASSUME NEW c \in Clients, UNCHANGED up, Start(c) PROVE Joined'
  BY <1>10 DEF Start, Goto, maps, loaderVars, Shapes, ClientPCs, LoaderPCs,
         CacheLock, HoldsCache, Lifecycle, Sockets, LoaderOwnsEntry, Cached,
         Joined, Listening
<1>11. ASSUME NEW c \in Clients, UNCHANGED up, CopyOut(c) PROVE Joined'
  BY <1>11 DEF CopyOut, Goto, maps, loaderVars, NextWrite, Shapes, ClientPCs,
         LoaderPCs, CacheLock, HoldsCache, Lifecycle, Sockets,
         LoaderOwnsEntry, Cached, Joined, Listening
<1>12. ASSUME NEW c \in Clients, UNCHANGED up, Write(c) PROVE Joined'
  BY <1>12 DEF Write, Goto, shared, maps, entryVars, loaderVars, Shapes,
         ClientPCs, LoaderPCs, CacheLock, HoldsCache, Lifecycle, Sockets,
         LoaderOwnsEntry, Cached, Joined, Listening
<1>13. ASSUME NEW c \in Clients, UNCHANGED up, Check(c) PROVE Joined'
  BY <1>13 DEF Check, Goto, maps, loaderVars, Unlisten, HasAll, Shapes,
         ClientPCs, LoaderPCs, CacheLock, HoldsCache, Lifecycle, Sockets,
         LoaderOwnsEntry, Cached, Joined, Listening
<1>14. ASSUME NEW c \in Clients, UNCHANGED up, SpuriousWakeup(c) PROVE Joined'
  BY <1>14 DEF SpuriousWakeup, Goto, shared, maps, entryVars, loaderVars,
         Shapes, ClientPCs, LoaderPCs, CacheLock, HoldsCache, Lifecycle,
         Sockets, LoaderOwnsEntry, Cached, Joined, Listening
<1>15. ASSUME NEW c \in Clients, UNCHANGED up, Wake(c) PROVE Joined'
  BY <1>15 DEF Wake, Goto, maps, loaderVars, HasAll, Shapes, ClientPCs,
         LoaderPCs, CacheLock, HoldsCache, Lifecycle, Sockets,
         LoaderOwnsEntry, Cached, Joined, Listening
<1>16. ASSUME NEW c \in Clients, UNCHANGED up, Leave(c) PROVE Joined'
  BY <1>16 DEF Leave, Goto, maps, loaderVars, Unlisten, Shapes, ClientPCs,
         LoaderPCs, CacheLock, HoldsCache, Lifecycle, Sockets,
         LoaderOwnsEntry, Cached, Joined, Listening
<1>17. ASSUME NEW c \in Clients, UNCHANGED up, SendError(c) PROVE Joined'
  BY <1>17 DEF SendError, Goto, shared, maps, entryVars, loaderVars, Shapes,
         ClientPCs, LoaderPCs, CacheLock, HoldsCache, Lifecycle, Sockets,
         LoaderOwnsEntry, Cached, Joined, Listening
<1>18. ASSUME NEW l \in Loaders, UNCHANGED up, Begin(l) PROVE Joined'
  BY <1>18 DEF Begin, LGoto, shared, maps, entryVars, clientVars, Shapes,
         ClientPCs, LoaderPCs, CacheLock, HoldsCache, Lifecycle, Sockets,
         LoaderOwnsEntry, Cached, Joined, Listening
<1>19. ASSUME NEW l \in Loaders, UNCHANGED up, Read(l) PROVE Joined'
  BY <1>19 DEF Read, LGoto, shared, maps, entryVars, clientVars, AtEof,
         Shapes, ClientPCs, LoaderPCs, CacheLock, HoldsCache, Lifecycle,
         Sockets, LoaderOwnsEntry, Cached, Joined, Listening
<1>20. ASSUME NEW l \in Loaders, UNCHANGED up, AppendData(l) PROVE Joined'
  BY <1>20 DEF AppendData, LGoto, maps, clientVars, Shapes, ClientPCs,
         LoaderPCs, CacheLock, HoldsCache, Lifecycle, Sockets,
         LoaderOwnsEntry, Cached, Joined, Listening
<1>21. ASSUME NEW l \in Loaders, UNCHANGED up, Evict(l) PROVE Joined'
  BY <1>21 DEF Evict, LGoto, entryVars, clientVars, CacheWithout, Shapes,
         ClientPCs, LoaderPCs, CacheLock, HoldsCache, Lifecycle, Sockets,
         LoaderOwnsEntry, Cached, Joined, Listening
<1>22. ASSUME NEW l \in Loaders, UNCHANGED up, Poll(l) PROVE Joined'
  BY <1>22 DEF Poll, LGoto, shared, maps, entryVars, clientVars, Shapes,
         ClientPCs, LoaderPCs, CacheLock, HoldsCache, Lifecycle, Sockets,
         LoaderOwnsEntry, Cached, Joined, Listening
<1>23. ASSUME NEW l \in Loaders, UNCHANGED up, Recheck(l) PROVE Joined'
  BY <1>23 DEF Recheck, LGoto, entryVars, clientVars, CacheWithout, Unwanted,
         Shapes, ClientPCs, LoaderPCs, CacheLock, HoldsCache, Lifecycle,
         Sockets, LoaderOwnsEntry, Cached, Joined, Listening
<1>24. ASSUME NEW l \in Loaders, UNCHANGED up, Notify(l) PROVE Joined'
  BY <1>24 DEF Notify, LGoto, maps, Broadcast, Shapes, ClientPCs, LoaderPCs,
         CacheLock, HoldsCache, Lifecycle, Sockets, LoaderOwnsEntry, Cached,
         Joined, Listening
<1>25. ASSUME NEW l \in Loaders, UNCHANGED up, Fail(l) PROVE Joined'
  BY <1>25 DEF Fail, LGoto, maps, Broadcast, Shapes, ClientPCs, LoaderPCs,
         CacheLock, HoldsCache, Lifecycle, Sockets, LoaderOwnsEntry, Cached,
         Joined, Listening
<1>26. ASSUME NEW l \in Loaders, UNCHANGED up, Close(l) PROVE Joined'
  BY <1>26 DEF Close, LGoto, shared, maps, entryVars, clientVars, Shapes,
         ClientPCs, LoaderPCs, CacheLock, HoldsCache, Lifecycle, Sockets,
         LoaderOwnsEntry, Cached, Joined, Listening
<1> QED
  BY <1>1, <1>2, <1>3, <1>4, <1>5, <1>6, <1>7, <1>8, <1>9, <1>10, <1>11,
     <1>12, <1>13, <1>14, <1>15, <1>16, <1>17, <1>18, <1>19, <1>20, <1>21,
     <1>22, <1>23, <1>24, <1>25, <1>26 DEF Next, Idle, ClientStep,
         LoaderStep, Arrive, Work, Deliver

(* A client that takes a free lock is the only one to have it. *)
LEMMA ClientLocks ==
  ASSUME Flags, Shapes, Joined, EntryLock, NEW c \in Clients,
         Listening(c), pc[c] # "top", ~locked[joined[c]],
         locked' = [locked EXCEPT ![joined[c]] = TRUE],
         Goto(c, "top"), UNCHANGED <<joined, lpc>>
  PROVE  EntryLock'
PROOF
<1>1. joined[c] \in Entries /\ \A e \in Entries : ~Copying(c, e)
  BY DEF Shapes, Joined, Copying
<1>2. \A e \in Entries : locked'[e] <=> e = joined[c] \/ locked[e]
  BY Zenon DEF Flags
<1>3. \A e \in Entries, d \in Clients :
        Copying(d, e)' <=> (d = c /\ e = joined[c]) \/ Copying(d, e)
  BY <1>1 DEF Goto, Shapes, Copying
<1>4. \A e \in Entries : Storing(e)' <=> Storing(e)
  BY DEF Storing
<1> QED
  BY <1>1, <1>2, <1>3, <1>4 DEF EntryLock

(* A client that neither has an entry's lock nor takes it may join an      *)
(* entry, or move on.                                                      *)
LEMMA NoOneLocks ==
  ASSUME Shapes, EntryLock, NEW c \in Clients, pc[c] # "top",
         NEW p \in ClientPCs, p # "top", Goto(c, p),
         \A d \in Clients \ {c} : joined'[d] = joined[d],
         UNCHANGED <<locked, lpc>>
  PROVE  EntryLock'
PROOF
<1>1. \A d \in Clients, e \in Entries : Copying(d, e)' <=> Copying(d, e)
  BY DEF Goto, Shapes, Copying
<1> QED
  BY <1>1 DEF EntryLock, Storing

(* An entry's lock excludes: a loader locks no entry but its own. *)
LEMMA EntryLockStep ==
  ASSUME Flags, Shapes, Lifecycle, Sockets, Joined, EntryLock, [Next]_vars
  PROVE  EntryLock'
PROOF
<1>1. CASE UNCHANGED vars
  BY <1>1 DEF vars, shared, maps, entryVars, clientVars, loaderVars, Flags,
         Shapes, ClientPCs, LoaderPCs, Lifecycle, Sockets, LoaderOwnsEntry,
         Joined, Listening, EntryLock, Copying, Storing
<1>2. CASE AcceptFails
  BY <1>2 DEF AcceptFails, shared, maps, entryVars, clientVars, loaderVars,
         Flags, Shapes, ClientPCs, LoaderPCs, Lifecycle, Sockets,
         LoaderOwnsEntry, Joined, Listening, EntryLock, Copying, Storing
<1>3. ASSUME NEW c \in Clients, UNCHANGED up, Accept(c) PROVE EntryLock'
  BY <1>3, NoOneLocks DEF Accept, shared, maps, entryVars, loaderVars,
         ClientPCs
<1>4. ASSUME NEW c \in Clients, UNCHANGED up, ReadRequest(c) PROVE EntryLock'
  BY <1>4, NoOneLocks DEF ReadRequest, shared, maps, entryVars, loaderVars,
         ClientPCs
<1>5. ASSUME NEW c \in Clients, UNCHANGED up, Lookup(c) PROVE EntryLock'
  BY <1>5, NoOneLocks DEF Lookup, entryVars, loaderVars, ClientPCs
<1>6. ASSUME NEW c \in Clients, UNCHANGED up, Connect(c) PROVE EntryLock'
  BY <1>6, NoOneLocks DEF Connect, shared, maps, entryVars, ClientPCs
<1>7. ASSUME NEW c \in Clients, UNCHANGED up, Insert(c) PROVE EntryLock'
  BY <1>7, NoOneLocks DEF Insert, loaderVars, ClientPCs
<1>8. ASSUME NEW c \in Clients, UNCHANGED up, Spawn(c) PROVE EntryLock'
  BY <1>8, SMTT(60) DEF Spawn, Goto, LGoto, entryVars, Flags, Shapes,
         ClientPCs, LoaderPCs, Lifecycle, Sockets, LoaderOwnsEntry, Joined,
         Listening, EntryLock, Copying, Storing
<1>9. ASSUME NEW c \in Clients, UNCHANGED up, Join(c) PROVE EntryLock'
  BY <1>9, NoOneLocks DEF Join, loaderVars, ClientPCs
<1>10. ASSUME NEW c \in Clients, UNCHANGED up, Start(c) PROVE EntryLock'
  BY <1>10, ClientLocks, Zenon DEF Start, Listening, loaderVars
<1>11. ASSUME NEW c \in Clients, UNCHANGED up, CopyOut(c) PROVE EntryLock'
  <2>1. joined[c] \in Entries
    BY <1>11 DEF CopyOut, Shapes, Joined, Listening
  <2>2. \A e \in Entries : Copying(c, e) <=> e = joined[c]
    BY <1>11 DEF CopyOut, Copying
  <2>3. \A e \in Entries : locked'[e] <=> e # joined[c] /\ locked[e]
    BY <1>11, Zenon DEF CopyOut, Flags
  <2>4. \A e \in Entries, d \in Clients : Copying(d, e)' <=> d # c /\ Copying(d, e)
    BY <1>11 DEF CopyOut, Goto, Shapes, Copying
  <2>5. \A e \in Entries : Storing(e)' <=> Storing(e)
    BY <1>11 DEF CopyOut, loaderVars, Storing
  <2> QED
    BY <2>1, <2>2, <2>3, <2>4, <2>5 DEF EntryLock
<1>12. ASSUME NEW c \in Clients, UNCHANGED up, Write(c) PROVE EntryLock'
  BY <1>12, NoOneLocks DEF Write, shared, maps, entryVars, loaderVars,
         ClientPCs
<1>13. ASSUME NEW c \in Clients, UNCHANGED up, Check(c) PROVE EntryLock'
  <2>1. CASE pc'[c] = "top"
    BY <1>13, <2>1, ClientLocks
    DEF Check, Goto, Shapes, Listening, loaderVars
  <2>2. CASE pc'[c] # "top"
    BY <1>13, <2>2, NoOneLocks DEF Check, Goto, Shapes, ClientPCs, loaderVars
  <2> QED
    BY <2>1, <2>2
<1>14. ASSUME NEW c \in Clients, UNCHANGED up, SpuriousWakeup(c) PROVE EntryLock'
  BY <1>14, NoOneLocks DEF SpuriousWakeup, shared, maps, entryVars,
         loaderVars, ClientPCs
<1>15. ASSUME NEW c \in Clients, UNCHANGED up, Wake(c) PROVE EntryLock'
  <2>1. CASE pc'[c] = "top"
    BY <1>15, <2>1, ClientLocks
    DEF Wake, Goto, Shapes, Listening, loaderVars
  <2>2. CASE pc'[c] # "top"
    BY <1>15, <2>2, NoOneLocks DEF Wake, Goto, Shapes, ClientPCs, loaderVars
  <2> QED
    BY <2>1, <2>2
<1>16. ASSUME NEW c \in Clients, UNCHANGED up, Leave(c) PROVE EntryLock'
  BY <1>16, NoOneLocks DEF Leave, maps, loaderVars, ClientPCs
<1>17. ASSUME NEW c \in Clients, UNCHANGED up, SendError(c) PROVE EntryLock'
  BY <1>17, NoOneLocks DEF SendError, shared, maps, entryVars, loaderVars,
         ClientPCs
<1>18. ASSUME NEW l \in Loaders, UNCHANGED up, Begin(l) PROVE EntryLock'
  BY <1>18 DEF Begin, LGoto, shared, maps, entryVars, clientVars, Flags,
         Shapes, ClientPCs, LoaderPCs, Lifecycle, Sockets, LoaderOwnsEntry,
         Joined, Listening, EntryLock, Copying, Storing
<1>19. ASSUME NEW l \in Loaders, UNCHANGED up, Read(l) PROVE EntryLock'
  BY <1>19 DEF Read, LGoto, shared, maps, entryVars, clientVars, AtEof,
         Flags, Shapes, ClientPCs, LoaderPCs, Lifecycle, Sockets,
         LoaderOwnsEntry, Joined, Listening, EntryLock, Copying, Storing
<1>20. ASSUME NEW l \in Loaders, UNCHANGED up, AppendData(l) PROVE EntryLock'
  <2>1. loads[l] = l /\ ~locked[l] /\ ~Storing(l)
    BY <1>20 DEF AppendData, Sockets, LoaderOwnsEntry, Storing
  <2>2. \A e \in Entries : locked'[e] <=> e = l \/ locked[e]
    BY <1>20, <2>1, Zenon DEF AppendData, Flags
  <2>3. \A e \in Entries, d \in Clients : Copying(d, e)' <=> Copying(d, e)
    BY <1>20 DEF AppendData, clientVars, Copying
  <2>4. \A e \in Entries : Storing(e)' <=> e = l \/ Storing(e)
    BY <1>20 DEF AppendData, LGoto, Shapes, Storing
  <2> QED
    BY <2>1, <2>2, <2>3, <2>4 DEF EntryLock
<1>21. ASSUME NEW l \in Loaders, UNCHANGED up, Evict(l) PROVE EntryLock'
  BY <1>21 DEF Evict, LGoto, entryVars, clientVars, CacheWithout, Flags,
         Shapes, ClientPCs, LoaderPCs, Lifecycle, Sockets, LoaderOwnsEntry,
         Joined, Listening, EntryLock, Copying, Storing
<1>22. ASSUME NEW l \in Loaders, UNCHANGED up, Poll(l) PROVE EntryLock'
  BY <1>22 DEF Poll, LGoto, shared, maps, entryVars, clientVars, Flags,
         Shapes, ClientPCs, LoaderPCs, Lifecycle, Sockets, LoaderOwnsEntry,
         Joined, Listening, EntryLock, Copying, Storing
<1>23. ASSUME NEW l \in Loaders, UNCHANGED up, Recheck(l) PROVE EntryLock'
  BY <1>23 DEF Recheck, LGoto, entryVars, clientVars, CacheWithout, Unwanted,
         Flags, Shapes, ClientPCs, LoaderPCs, Lifecycle, Sockets,
         LoaderOwnsEntry, Joined, Listening, EntryLock, Copying, Storing
<1>24. ASSUME NEW l \in Loaders, UNCHANGED up, Notify(l) PROVE EntryLock'
  <2>1. loads[l] = l /\ Storing(l)
    BY <1>24 DEF Notify, Sockets, LoaderOwnsEntry, Storing
  <2>2. \A e \in Entries : locked'[e] <=> e # l /\ locked[e]
    BY <1>24, <2>1, Zenon DEF Notify, Flags
  <2>3. \A e \in Entries, d \in Clients : Copying(d, e)' <=> Copying(d, e)
    BY <1>24 DEF Notify, Broadcast, Shapes, Copying
  <2>4. \A e \in Entries : Storing(e)' <=> e # l /\ Storing(e)
    BY <1>24 DEF Notify, LGoto, Shapes, Storing
  <2> QED
    BY <2>1, <2>2, <2>3, <2>4 DEF EntryLock
<1>25. ASSUME NEW l \in Loaders, UNCHANGED up, Fail(l) PROVE EntryLock'
  BY <1>25 DEF Fail, LGoto, maps, Broadcast, Flags, Shapes, ClientPCs,
         LoaderPCs, Lifecycle, Sockets, LoaderOwnsEntry, Joined, Listening,
         EntryLock, Copying, Storing
<1>26. ASSUME NEW l \in Loaders, UNCHANGED up, Close(l) PROVE EntryLock'
  BY <1>26 DEF Close, LGoto, shared, maps, entryVars, clientVars, Flags,
         Shapes, ClientPCs, LoaderPCs, Lifecycle, Sockets, LoaderOwnsEntry,
         Joined, Listening, EntryLock, Copying, Storing
<1> QED
  BY <1>1, <1>2, <1>3, <1>4, <1>5, <1>6, <1>7, <1>8, <1>9, <1>10, <1>11,
     <1>12, <1>13, <1>14, <1>15, <1>16, <1>17, <1>18, <1>19, <1>20, <1>21,
     <1>22, <1>23, <1>24, <1>25, <1>26 DEF Next, Idle, ClientStep,
         LoaderStep, Arrive, Work, Deliver

(* An audience is finite, as the clients are. *)
LEMMA Audiences == \A e \in Entries : IsFiniteSet(Audience(e))
  BY FS_Subset DEF Audience

(* Where nobody comes or goes, the counts stay exact. *)
LEMMA SameAudience ==
  ASSUME ListenersAccurate, UNCHANGED listeners,
         \A c \in Clients : /\ Listening(c)' = Listening(c)
                            /\ Listening(c) => joined'[c] = joined[c]
  PROVE  ListenersAccurate'
PROOF
<1>1. \A e \in Entries : Audience(e)' = Audience(e)
  BY DEF Audience
<1> QED
  BY <1>1 DEF ListenersAccurate

(* One client comes, and is counted. *)
LEMMA NewListener ==
  ASSUME Shapes, ListenersAccurate, NEW c \in Clients, NEW x \in Entries,
         ~Listening(c), Listening(c)',
         \A d \in Clients \ {c} : Listening(d)' = Listening(d),
         joined' = [joined EXCEPT ![c] = x],
         listeners' = [listeners EXCEPT ![x] = @ + 1]
  PROVE  ListenersAccurate'
PROOF
<1> SUFFICES ASSUME NEW e \in Entries
             PROVE  listeners'[e] = Cardinality(Audience(e)')
  BY DEF ListenersAccurate
<1>1. IsFiniteSet(Audience(e)) /\ c \notin Audience(e)
  BY Audiences DEF Audience
<1>2. CASE e = x
  <2>1. Audience(e)' = Audience(e) \cup {c}
    BY <1>2 DEF Audience, Shapes
  <2>2. Cardinality(Audience(e) \cup {c}) = Cardinality(Audience(e)) + 1
    BY <1>1, FS_AddElement
  <2>3. listeners'[e] = listeners[e] + 1
    BY <1>2 DEF Shapes
  <2> QED
    BY <2>1, <2>2, <2>3 DEF ListenersAccurate
<1>3. CASE e # x
  <2>1. Audience(e)' = Audience(e)
    BY <1>3 DEF Audience, Shapes
  <2> QED
    BY <1>3, <2>1 DEF ListenersAccurate, Shapes
<1> QED
  BY <1>2, <1>3

(* Join counts the client in the entry it takes. *)
LEMMA JoinCounts ==
  ASSUME Shapes, Cached, ListenersAccurate, NEW c \in Clients, Join(c)
  PROVE  ListenersAccurate'
PROOF
<1> DEFINE x == cache[key[c]]
<1>1. x \in Entries /\ ~Listening(c)
  BY DEF Join, Shapes, Cached, Listening
<1>2. Listening(c)' /\ \A d \in Clients \ {c} : Listening(d)' = Listening(d)
  BY DEF Join, Goto, Shapes, Listening
<1>3. /\ listeners' = [listeners EXCEPT ![x] = @ + 1]
      /\ joined' = [joined EXCEPT ![c] = x]
  BY DEF Join
<1> QED
  BY <1>1, <1>2, <1>3, NewListener

(* One client leaves, and gives its count back. *)
LEMMA ListenerGone ==
  ASSUME Shapes, ListenersAccurate, NEW c \in Clients, joined[c] \in Entries,
         Listening(c), ~Listening(c)',
         \A d \in Clients \ {c} : Listening(d)' = Listening(d),
         joined' = joined, listeners' = Unlisten(c)
  PROVE  ListenersAccurate'
PROOF
<1> SUFFICES ASSUME NEW e \in Entries
             PROVE  listeners'[e] = Cardinality(Audience(e)')
  BY DEF ListenersAccurate
<1>1. IsFiniteSet(Audience(e))
  BY Audiences
<1>2. CASE e = joined[c]
  <2>1. Audience(e)' = Audience(e) \ {c} /\ c \in Audience(e)
    BY <1>2 DEF Audience, Shapes
  <2>2. Cardinality(Audience(e) \ {c}) = Cardinality(Audience(e)) - 1
    BY <1>1, <2>1, FS_RemoveElement
  <2>3. listeners'[e] = listeners[e] - 1
    BY <1>2 DEF Shapes, Unlisten
  <2> QED
    BY <2>1, <2>2, <2>3 DEF ListenersAccurate
<1>3. CASE e # joined[c]
  <2>1. Audience(e)' = Audience(e)
    BY <1>3 DEF Audience, Shapes
  <2> QED
    BY <1>3, <2>1 DEF ListenersAccurate, Shapes, Unlisten
<1> QED
  BY <1>2, <1>3

(* listeners_count is exact: Join adds one, Check and Leave take one off. *)
LEMMA ListenersAccurateStep ==
  ASSUME Shapes, Lifecycle, Cached, Joined, ListenersAccurate, [Next]_vars
  PROVE  ListenersAccurate'
PROOF
<1>1. CASE UNCHANGED vars
  BY <1>1, SameAudience DEF vars, shared, entryVars, clientVars, Listening
<1>2. CASE AcceptFails
  BY <1>2, SameAudience DEF AcceptFails, shared, entryVars, clientVars,
         Listening
<1>3. ASSUME NEW c \in Clients, UNCHANGED up, Accept(c) PROVE ListenersAccurate'
  BY <1>3, SameAudience DEF Accept, Goto, shared, entryVars, Shapes,
         Listening
<1>4. ASSUME NEW c \in Clients, UNCHANGED up, ReadRequest(c) PROVE ListenersAccurate'
  BY <1>4, SameAudience DEF ReadRequest, Goto, shared, entryVars, Shapes,
         Listening
<1>5. ASSUME NEW c \in Clients, UNCHANGED up, Lookup(c) PROVE ListenersAccurate'
  BY <1>5, SameAudience DEF Lookup, Goto, entryVars, Shapes, Listening
<1>6. ASSUME NEW c \in Clients, UNCHANGED up, Connect(c) PROVE ListenersAccurate'
  BY <1>6, SameAudience DEF Connect, Goto, shared, entryVars, Shapes,
         Listening
<1>7. ASSUME NEW c \in Clients, UNCHANGED up, Insert(c) PROVE ListenersAccurate'
  BY <1>7, SameAudience DEF Insert, Goto, Shapes, Listening
<1>8. ASSUME NEW c \in Clients, UNCHANGED up, Spawn(c) PROVE ListenersAccurate'
  BY <1>8, SameAudience DEF Spawn, Goto, entryVars, Shapes, Listening
<1>9. ASSUME NEW c \in Clients, UNCHANGED up, Join(c) PROVE ListenersAccurate'
  BY <1>9, JoinCounts
<1>10. ASSUME NEW c \in Clients, UNCHANGED up, Start(c) PROVE ListenersAccurate'
  BY <1>10, SameAudience DEF Start, Goto, Shapes, Listening
<1>11. ASSUME NEW c \in Clients, UNCHANGED up, CopyOut(c) PROVE ListenersAccurate'
  BY <1>11, SameAudience DEF CopyOut, Goto, Shapes, Listening
<1>12. ASSUME NEW c \in Clients, UNCHANGED up, Write(c) PROVE ListenersAccurate'
  BY <1>12, SameAudience DEF Write, Goto, shared, entryVars, Shapes,
         Listening
<1>13. ASSUME NEW c \in Clients, UNCHANGED up, Check(c) PROVE ListenersAccurate'
  <2>1. CASE pc'[c] = "done"
    BY <1>13, <2>1, ListenerGone DEF Check, Goto, Shapes, Joined, Listening
  <2>2. CASE pc'[c] # "done"
    BY <1>13, <2>2, SameAudience DEF Check, Goto, Shapes, Listening
  <2> QED
    BY <2>1, <2>2
<1>14. ASSUME NEW c \in Clients, UNCHANGED up, SpuriousWakeup(c) PROVE ListenersAccurate'
  BY <1>14, SameAudience DEF SpuriousWakeup, Goto, shared, entryVars, Shapes,
         Listening
<1>15. ASSUME NEW c \in Clients, UNCHANGED up, Wake(c) PROVE ListenersAccurate'
  BY <1>15, SameAudience DEF Wake, Goto, Shapes, Listening
<1>16. ASSUME NEW c \in Clients, UNCHANGED up, Leave(c) PROVE ListenersAccurate'
  BY <1>16, ListenerGone DEF Leave, Goto, Shapes, Joined, Listening
<1>17. ASSUME NEW c \in Clients, UNCHANGED up, SendError(c) PROVE ListenersAccurate'
  BY <1>17, SameAudience DEF SendError, Goto, shared, entryVars, Shapes,
         Listening
<1>18. ASSUME NEW l \in Loaders, UNCHANGED up, Begin(l) PROVE ListenersAccurate'
  BY <1>18, SameAudience DEF Begin, shared, entryVars, clientVars, Listening
<1>19. ASSUME NEW l \in Loaders, UNCHANGED up, Read(l) PROVE ListenersAccurate'
  BY <1>19, SameAudience DEF Read, shared, entryVars, clientVars, Listening
<1>20. ASSUME NEW l \in Loaders, UNCHANGED up, AppendData(l) PROVE ListenersAccurate'
  BY <1>20, SameAudience DEF AppendData, clientVars, Listening
<1>21. ASSUME NEW l \in Loaders, UNCHANGED up, Evict(l) PROVE ListenersAccurate'
  BY <1>21, SameAudience DEF Evict, entryVars, clientVars, Listening
<1>22. ASSUME NEW l \in Loaders, UNCHANGED up, Poll(l) PROVE ListenersAccurate'
  BY <1>22, SameAudience DEF Poll, shared, entryVars, clientVars, Listening
<1>23. ASSUME NEW l \in Loaders, UNCHANGED up, Recheck(l) PROVE ListenersAccurate'
  BY <1>23, SameAudience DEF Recheck, entryVars, clientVars, Listening
<1>24. ASSUME NEW l \in Loaders, UNCHANGED up, Notify(l) PROVE ListenersAccurate'
  BY <1>24, SameAudience DEF Notify, Broadcast, Shapes, Listening
<1>25. ASSUME NEW l \in Loaders, UNCHANGED up, Fail(l) PROVE ListenersAccurate'
  BY <1>25, SameAudience DEF Fail, Broadcast, Shapes, Listening
<1>26. ASSUME NEW l \in Loaders, UNCHANGED up, Close(l) PROVE ListenersAccurate'
  BY <1>26, SameAudience DEF Close, shared, entryVars, clientVars, Listening
<1> QED
  BY <1>1, <1>2, <1>3, <1>4, <1>5, <1>6, <1>7, <1>8, <1>9, <1>10, <1>11,
     <1>12, <1>13, <1>14, <1>15, <1>16, <1>17, <1>18, <1>19, <1>20, <1>21,
     <1>22, <1>23, <1>24, <1>25, <1>26 DEF Next, Idle, ClientStep,
         LoaderStep, Arrive, Work, Deliver

(* What AppendData does, its truth values apart from the rest. *)
LEMMA Appended ==
  ASSUME Flags, Sockets, NEW l \in Loaders, AppendData(l)
  PROVE  /\ loads[l] = l /\ lpc[l] = "append"
         /\ \A e \in Entries :
              ending'[e] <=> IF e = l THEN verdict[l] # "partial" ELSE ending[e]
         /\ lpc' = [lpc EXCEPT ![l] =
                      IF verdict[l] = "uncacheable" THEN "evict" ELSE "poll"]
         /\ state' = [state EXCEPT ![l] =
                        IF verdict[l] = "partial" THEN @ ELSE "SUCCESS"]
         /\ UNCHANGED <<cache, verdict, pc, joined, key>>
PROOF
<1>1. loads[l] = l /\ lpc[l] = "append"
  BY DEF AppendData, Sockets, LoaderOwnsEntry
<1>2. \A e \in Entries :
        ending'[e] <=> IF e = l THEN verdict[l] # "partial" ELSE ending[e]
  BY Zenon DEF AppendData, Flags
<1> QED
  BY <1>1, <1>2 DEF AppendData, LGoto, maps, clientVars

(* What Recheck does, likewise. *)
LEMMA Rechecked ==
  ASSUME Flags, Sockets, NEW l \in Loaders, Recheck(l)
  PROVE  /\ loads[l] = l /\ lpc[l] = "recheck"
         /\ \A e \in Entries : ending'[e] <=> ending[e] \/ (e = l /\ Unwanted(l))
         /\ cache' = IF Unwanted(l) THEN CacheWithout(l) ELSE cache
         /\ lpc' = [lpc EXCEPT ![l] = "notify"]
         /\ UNCHANGED <<state, verdict, pc, joined, key>>
PROOF
<1>1. loads[l] = l /\ lpc[l] = "recheck"
  BY DEF Recheck, Sockets, LoaderOwnsEntry
<1>2. \A e \in Entries : ending'[e] <=> ending[e] \/ (e = l /\ Unwanted(l))
  <2>1. CASE Unwanted(l)
    BY <1>1, <2>1, Zenon DEF Recheck, Flags
  <2>2. CASE ~Unwanted(l)
    BY <1>1, <2>2, Zenon DEF Recheck
  <2> QED
    BY <2>1, <2>2
<1> QED
  BY <1>1, <1>2 DEF Recheck, LGoto, entryVars, clientVars

(* A loader gives its entry up only with nobody listening; from then on    *)
(* the cache does not lead to the entry, so nobody ever will.              *)
LEMMA StagesStep ==
  ASSUME Flags, Shapes, CacheLock, Lifecycle, Sockets, Cached, Joined,
         ListenersAccurate, Stages, [Next]_vars
  PROVE  Stages'
PROOF
<1>1. CASE UNCHANGED vars
  BY <1>1 DEF vars, shared, maps, entryVars, clientVars, loaderVars, Flags,
         Shapes, ClientPCs, LoaderPCs, CacheLock, HoldsCache, Lifecycle,
         Sockets, LoaderOwnsEntry, Cached, Joined, Listening,
         ListenersAccurate, Stages, Given
<1>2. CASE AcceptFails
  BY <1>2 DEF AcceptFails, shared, maps, entryVars, clientVars, loaderVars,
         Flags, Shapes, ClientPCs, LoaderPCs, CacheLock, HoldsCache,
         Lifecycle, Sockets, LoaderOwnsEntry, Cached, Joined, Listening,
         ListenersAccurate, Stages, Given
<1>3. ASSUME NEW c \in Clients, UNCHANGED up, Accept(c) PROVE Stages'
  BY <1>3 DEF Accept, Goto, shared, maps, entryVars, loaderVars, Flags,
         Shapes, ClientPCs, LoaderPCs, CacheLock, HoldsCache, Lifecycle,
         Sockets, LoaderOwnsEntry, Cached, Joined, Listening,
         ListenersAccurate, Stages, Given
<1>4. ASSUME NEW c \in Clients, UNCHANGED up, ReadRequest(c) PROVE Stages'
  BY <1>4 DEF ReadRequest, Goto, shared, maps, entryVars, loaderVars, Flags,
         Shapes, ClientPCs, LoaderPCs, CacheLock, HoldsCache, Lifecycle,
         Sockets, LoaderOwnsEntry, Cached, Joined, Listening,
         ListenersAccurate, Stages, Given
<1>5. ASSUME NEW c \in Clients, UNCHANGED up, Lookup(c) PROVE Stages'
  BY <1>5 DEF Lookup, Goto, entryVars, loaderVars, Flags, Shapes, ClientPCs,
         LoaderPCs, CacheLock, HoldsCache, Lifecycle, Sockets,
         LoaderOwnsEntry, Cached, Joined, Listening, ListenersAccurate,
         Stages, Given
<1>6. ASSUME NEW c \in Clients, UNCHANGED up, Connect(c) PROVE Stages'
  BY <1>6 DEF Connect, Goto, shared, maps, entryVars, OpenFds, Flags, Shapes,
         ClientPCs, LoaderPCs, CacheLock, HoldsCache, Lifecycle, Sockets,
         LoaderOwnsEntry, Cached, Joined, Listening, ListenersAccurate,
         Stages, Given
<1>7. ASSUME NEW c \in Clients, UNCHANGED up, Insert(c) PROVE Stages'
  BY <1>7 DEF Insert, Goto, loaderVars, Register, Flags, Shapes, ClientPCs,
         LoaderPCs, CacheLock, HoldsCache, Lifecycle, Sockets,
         LoaderOwnsEntry, Cached, Joined, Listening, ListenersAccurate,
         Stages, Given
<1>8. ASSUME NEW c \in Clients, UNCHANGED up, Spawn(c) PROVE Stages'
  BY <1>8 DEF Spawn, Goto, LGoto, entryVars, Flags, Shapes, ClientPCs,
         LoaderPCs, CacheLock, HoldsCache, Lifecycle, Sockets,
         LoaderOwnsEntry, Cached, Joined, Listening, ListenersAccurate,
         Stages, Given
<1>9. ASSUME NEW c \in Clients, UNCHANGED up, Join(c) PROVE Stages'
  BY <1>9 DEF Join, Goto, loaderVars, Flags, Shapes, ClientPCs, LoaderPCs,
         CacheLock, HoldsCache, Lifecycle, Sockets, LoaderOwnsEntry, Cached,
         Joined, Listening, ListenersAccurate, Stages, Given
<1>10. ASSUME NEW c \in Clients, UNCHANGED up, Start(c) PROVE Stages'
  BY <1>10 DEF Start, Goto, maps, loaderVars, Flags, Shapes, ClientPCs,
         LoaderPCs, CacheLock, HoldsCache, Lifecycle, Sockets,
         LoaderOwnsEntry, Cached, Joined, Listening, ListenersAccurate,
         Stages, Given
<1>11. ASSUME NEW c \in Clients, UNCHANGED up, CopyOut(c) PROVE Stages'
  BY <1>11 DEF CopyOut, Goto, maps, loaderVars, NextWrite, Flags, Shapes,
         ClientPCs, LoaderPCs, CacheLock, HoldsCache, Lifecycle, Sockets,
         LoaderOwnsEntry, Cached, Joined, Listening, ListenersAccurate,
         Stages, Given
<1>12. ASSUME NEW c \in Clients, UNCHANGED up, Write(c) PROVE Stages'
  BY <1>12 DEF Write, Goto, shared, maps, entryVars, loaderVars, Flags,
         Shapes, ClientPCs, LoaderPCs, CacheLock, HoldsCache, Lifecycle,
         Sockets, LoaderOwnsEntry, Cached, Joined, Listening,
         ListenersAccurate, Stages, Given
<1>13. ASSUME NEW c \in Clients, UNCHANGED up, Check(c) PROVE Stages'
  BY <1>13 DEF Check, Goto, maps, loaderVars, Unlisten, HasAll, Flags,
         Shapes, ClientPCs, LoaderPCs, CacheLock, HoldsCache, Lifecycle,
         Sockets, LoaderOwnsEntry, Cached, Joined, Listening,
         ListenersAccurate, Stages, Given
<1>14. ASSUME NEW c \in Clients, UNCHANGED up, SpuriousWakeup(c) PROVE Stages'
  BY <1>14 DEF SpuriousWakeup, Goto, shared, maps, entryVars, loaderVars,
         Flags, Shapes, ClientPCs, LoaderPCs, CacheLock, HoldsCache,
         Lifecycle, Sockets, LoaderOwnsEntry, Cached, Joined, Listening,
         ListenersAccurate, Stages, Given
<1>15. ASSUME NEW c \in Clients, UNCHANGED up, Wake(c) PROVE Stages'
  BY <1>15 DEF Wake, Goto, maps, loaderVars, HasAll, Flags, Shapes,
         ClientPCs, LoaderPCs, CacheLock, HoldsCache, Lifecycle, Sockets,
         LoaderOwnsEntry, Cached, Joined, Listening, ListenersAccurate,
         Stages, Given
<1>16. ASSUME NEW c \in Clients, UNCHANGED up, Leave(c) PROVE Stages'
  BY <1>16 DEF Leave, Goto, maps, loaderVars, Unlisten, Flags, Shapes,
         ClientPCs, LoaderPCs, CacheLock, HoldsCache, Lifecycle, Sockets,
         LoaderOwnsEntry, Cached, Joined, Listening, ListenersAccurate,
         Stages, Given
<1>17. ASSUME NEW c \in Clients, UNCHANGED up, SendError(c) PROVE Stages'
  BY <1>17 DEF SendError, Goto, shared, maps, entryVars, loaderVars, Flags,
         Shapes, ClientPCs, LoaderPCs, CacheLock, HoldsCache, Lifecycle,
         Sockets, LoaderOwnsEntry, Cached, Joined, Listening,
         ListenersAccurate, Stages, Given
<1>18. ASSUME NEW l \in Loaders, UNCHANGED up, Begin(l) PROVE Stages'
  BY <1>18 DEF Begin, LGoto, shared, maps, entryVars, clientVars, Flags,
         Shapes, ClientPCs, LoaderPCs, CacheLock, HoldsCache, Lifecycle,
         Sockets, LoaderOwnsEntry, Cached, Joined, Listening,
         ListenersAccurate, Stages, Given
<1>19. ASSUME NEW l \in Loaders, UNCHANGED up, Read(l) PROVE Stages'
  BY <1>19 DEF Read, LGoto, shared, maps, entryVars, clientVars, AtEof,
         Flags, Shapes, ClientPCs, LoaderPCs, CacheLock, HoldsCache,
         Lifecycle, Sockets, LoaderOwnsEntry, Cached, Joined, Listening,
         ListenersAccurate, Stages, Given
<1>20. ASSUME NEW l \in Loaders, UNCHANGED up, AppendData(l) PROVE Stages'
  <2>1. \A e \in Entries : Given(e)' = Given(e)
    BY <1>20, Appended DEF Given, Listening
  <2> QED
    BY <1>20, <2>1, Appended DEF Stages, Shapes, Lifecycle
<1>21. ASSUME NEW l \in Loaders, UNCHANGED up, Evict(l) PROVE Stages'
  BY <1>21 DEF Evict, LGoto, entryVars, clientVars, CacheWithout, Flags,
         Shapes, ClientPCs, LoaderPCs, CacheLock, HoldsCache, Lifecycle,
         Sockets, LoaderOwnsEntry, Cached, Joined, Listening,
         ListenersAccurate, Stages, Given
<1>22. ASSUME NEW l \in Loaders, UNCHANGED up, Poll(l) PROVE Stages'
  BY <1>22 DEF Poll, LGoto, shared, maps, entryVars, clientVars, Flags,
         Shapes, ClientPCs, LoaderPCs, CacheLock, HoldsCache, Lifecycle,
         Sockets, LoaderOwnsEntry, Cached, Joined, Listening,
         ListenersAccurate, Stages, Given
<1>23. ASSUME NEW l \in Loaders, UNCHANGED up, Recheck(l) PROVE Stages'
  <2>1. CASE Unwanted(l)
    <3>1. Audience(l) = {}
      BY <2>1, FS_EmptySet, Audiences DEF Unwanted, ListenersAccurate
    <3>2. cache' = [cache EXCEPT ![key[l]] = Nobody]
      BY <1>23, <2>1, Rechecked DEF CacheWithout
    <3>3. Given(l)' /\ \A e \in Entries : Given(e) => Given(e)'
      BY <1>23, <3>1, <3>2, Rechecked DEF Given, Audience, Listening, Shapes
    <3> QED
      BY <1>23, <2>1, <3>3, Rechecked DEF Stages, Shapes
  <2>2. CASE ~Unwanted(l)
    BY <1>23, <2>2, Rechecked DEF Stages, Given, Listening, Shapes
  <2> QED
    BY <2>1, <2>2
<1>24. ASSUME NEW l \in Loaders, UNCHANGED up, Notify(l) PROVE Stages'
  BY <1>24 DEF Notify, LGoto, maps, Broadcast, Flags, Shapes, ClientPCs,
         LoaderPCs, CacheLock, HoldsCache, Lifecycle, Sockets,
         LoaderOwnsEntry, Cached, Joined, Listening, ListenersAccurate,
         Stages, Given
<1>25. ASSUME NEW l \in Loaders, UNCHANGED up, Fail(l) PROVE Stages'
  BY <1>25 DEF Fail, LGoto, maps, Broadcast, Flags, Shapes, ClientPCs,
         LoaderPCs, CacheLock, HoldsCache, Lifecycle, Sockets,
         LoaderOwnsEntry, Cached, Joined, Listening, ListenersAccurate,
         Stages, Given
<1>26. ASSUME NEW l \in Loaders, UNCHANGED up, Close(l) PROVE Stages'
  BY <1>26 DEF Close, LGoto, shared, maps, entryVars, clientVars, Flags,
         Shapes, ClientPCs, LoaderPCs, CacheLock, HoldsCache, Lifecycle,
         Sockets, LoaderOwnsEntry, Cached, Joined, Listening,
         ListenersAccurate, Stages, Given
<1> QED
  BY <1>1, <1>2, <1>3, <1>4, <1>5, <1>6, <1>7, <1>8, <1>9, <1>10, <1>11,
     <1>12, <1>13, <1>14, <1>15, <1>16, <1>17, <1>18, <1>19, <1>20, <1>21,
     <1>22, <1>23, <1>24, <1>25, <1>26 DEF Next, Idle, ClientStep,
         LoaderStep, Arrive, Work, Deliver

(* An evicted entry stays out of the cache. *)
LEMMA VerdictsStep ==
  ASSUME Flags, Shapes, CacheLock, Lifecycle, Sockets, Cached, Verdicts,
         [Next]_vars
  PROVE  Verdicts'
PROOF
<1>1. CASE UNCHANGED vars
  BY <1>1 DEF vars, shared, maps, entryVars, clientVars, loaderVars, Flags,
         Shapes, ClientPCs, LoaderPCs, CacheLock, HoldsCache, Lifecycle,
         Sockets, LoaderOwnsEntry, Cached, Verdicts, Storing
<1>2. CASE AcceptFails
  BY <1>2 DEF AcceptFails, shared, maps, entryVars, clientVars, loaderVars,
         Flags, Shapes, ClientPCs, LoaderPCs, CacheLock, HoldsCache,
         Lifecycle, Sockets, LoaderOwnsEntry, Cached, Verdicts, Storing
<1>3. ASSUME NEW c \in Clients, UNCHANGED up, Accept(c) PROVE Verdicts'
  BY <1>3 DEF Accept, Goto, shared, maps, entryVars, loaderVars, Flags,
         Shapes, ClientPCs, LoaderPCs, CacheLock, HoldsCache, Lifecycle,
         Sockets, LoaderOwnsEntry, Cached, Verdicts, Storing
<1>4. ASSUME NEW c \in Clients, UNCHANGED up, ReadRequest(c) PROVE Verdicts'
  BY <1>4 DEF ReadRequest, Goto, shared, maps, entryVars, loaderVars, Flags,
         Shapes, ClientPCs, LoaderPCs, CacheLock, HoldsCache, Lifecycle,
         Sockets, LoaderOwnsEntry, Cached, Verdicts, Storing
<1>5. ASSUME NEW c \in Clients, UNCHANGED up, Lookup(c) PROVE Verdicts'
  BY <1>5 DEF Lookup, Goto, entryVars, loaderVars, Flags, Shapes, ClientPCs,
         LoaderPCs, CacheLock, HoldsCache, Lifecycle, Sockets,
         LoaderOwnsEntry, Cached, Verdicts, Storing
<1>6. ASSUME NEW c \in Clients, UNCHANGED up, Connect(c) PROVE Verdicts'
  BY <1>6 DEF Connect, Goto, shared, maps, entryVars, OpenFds, Flags, Shapes,
         ClientPCs, LoaderPCs, CacheLock, HoldsCache, Lifecycle, Sockets,
         LoaderOwnsEntry, Cached, Verdicts, Storing
<1>7. ASSUME NEW c \in Clients, UNCHANGED up, Insert(c) PROVE Verdicts'
  BY <1>7 DEF Insert, Goto, loaderVars, Register, Flags, Shapes, ClientPCs,
         LoaderPCs, CacheLock, HoldsCache, Lifecycle, Sockets,
         LoaderOwnsEntry, Cached, Verdicts, Storing
<1>8. ASSUME NEW c \in Clients, UNCHANGED up, Spawn(c) PROVE Verdicts'
  BY <1>8 DEF Spawn, Goto, LGoto, entryVars, Flags, Shapes, ClientPCs,
         LoaderPCs, CacheLock, HoldsCache, Lifecycle, Sockets,
         LoaderOwnsEntry, Cached, Verdicts, Storing
<1>9. ASSUME NEW c \in Clients, UNCHANGED up, Join(c) PROVE Verdicts'
  BY <1>9 DEF Join, Goto, loaderVars, Flags, Shapes, ClientPCs, LoaderPCs,
         CacheLock, HoldsCache, Lifecycle, Sockets, LoaderOwnsEntry, Cached,
         Verdicts, Storing
<1>10. ASSUME NEW c \in Clients, UNCHANGED up, Start(c) PROVE Verdicts'
  BY <1>10 DEF Start, Goto, maps, loaderVars, Flags, Shapes, ClientPCs,
         LoaderPCs, CacheLock, HoldsCache, Lifecycle, Sockets,
         LoaderOwnsEntry, Cached, Verdicts, Storing
<1>11. ASSUME NEW c \in Clients, UNCHANGED up, CopyOut(c) PROVE Verdicts'
  BY <1>11 DEF CopyOut, Goto, maps, loaderVars, NextWrite, Flags, Shapes,
         ClientPCs, LoaderPCs, CacheLock, HoldsCache, Lifecycle, Sockets,
         LoaderOwnsEntry, Cached, Verdicts, Storing
<1>12. ASSUME NEW c \in Clients, UNCHANGED up, Write(c) PROVE Verdicts'
  BY <1>12 DEF Write, Goto, shared, maps, entryVars, loaderVars, Flags,
         Shapes, ClientPCs, LoaderPCs, CacheLock, HoldsCache, Lifecycle,
         Sockets, LoaderOwnsEntry, Cached, Verdicts, Storing
<1>13. ASSUME NEW c \in Clients, UNCHANGED up, Check(c) PROVE Verdicts'
  BY <1>13 DEF Check, Goto, maps, loaderVars, Unlisten, HasAll, Flags,
         Shapes, ClientPCs, LoaderPCs, CacheLock, HoldsCache, Lifecycle,
         Sockets, LoaderOwnsEntry, Cached, Verdicts, Storing
<1>14. ASSUME NEW c \in Clients, UNCHANGED up, SpuriousWakeup(c) PROVE Verdicts'
  BY <1>14 DEF SpuriousWakeup, Goto, shared, maps, entryVars, loaderVars,
         Flags, Shapes, ClientPCs, LoaderPCs, CacheLock, HoldsCache,
         Lifecycle, Sockets, LoaderOwnsEntry, Cached, Verdicts, Storing
<1>15. ASSUME NEW c \in Clients, UNCHANGED up, Wake(c) PROVE Verdicts'
  BY <1>15 DEF Wake, Goto, maps, loaderVars, HasAll, Flags, Shapes,
         ClientPCs, LoaderPCs, CacheLock, HoldsCache, Lifecycle, Sockets,
         LoaderOwnsEntry, Cached, Verdicts, Storing
<1>16. ASSUME NEW c \in Clients, UNCHANGED up, Leave(c) PROVE Verdicts'
  BY <1>16 DEF Leave, Goto, maps, loaderVars, Unlisten, Flags, Shapes,
         ClientPCs, LoaderPCs, CacheLock, HoldsCache, Lifecycle, Sockets,
         LoaderOwnsEntry, Cached, Verdicts, Storing
<1>17. ASSUME NEW c \in Clients, UNCHANGED up, SendError(c) PROVE Verdicts'
  BY <1>17 DEF SendError, Goto, shared, maps, entryVars, loaderVars, Flags,
         Shapes, ClientPCs, LoaderPCs, CacheLock, HoldsCache, Lifecycle,
         Sockets, LoaderOwnsEntry, Cached, Verdicts, Storing
<1>18. ASSUME NEW l \in Loaders, UNCHANGED up, Begin(l) PROVE Verdicts'
  BY <1>18 DEF Begin, LGoto, shared, maps, entryVars, clientVars, Flags,
         Shapes, ClientPCs, LoaderPCs, CacheLock, HoldsCache, Lifecycle,
         Sockets, LoaderOwnsEntry, Cached, Verdicts, Storing
<1>19. ASSUME NEW l \in Loaders, UNCHANGED up, Read(l) PROVE Verdicts'
  BY <1>19 DEF Read, LGoto, shared, maps, entryVars, clientVars, AtEof,
         Flags, Shapes, ClientPCs, LoaderPCs, CacheLock, HoldsCache,
         Lifecycle, Sockets, LoaderOwnsEntry, Cached, Verdicts, Storing
<1>20. ASSUME NEW l \in Loaders, UNCHANGED up, AppendData(l) PROVE Verdicts'
  BY <1>20, Appended DEF Verdicts, Storing, Shapes
<1>21. ASSUME NEW l \in Loaders, UNCHANGED up, Evict(l) PROVE Verdicts'
  BY <1>21 DEF Evict, LGoto, entryVars, clientVars, CacheWithout, Flags,
         Shapes, ClientPCs, LoaderPCs, CacheLock, HoldsCache, Lifecycle,
         Sockets, LoaderOwnsEntry, Cached, Verdicts, Storing
<1>22. ASSUME NEW l \in Loaders, UNCHANGED up, Poll(l) PROVE Verdicts'
  BY <1>22 DEF Poll, LGoto, shared, maps, entryVars, clientVars, Flags,
         Shapes, ClientPCs, LoaderPCs, CacheLock, HoldsCache, Lifecycle,
         Sockets, LoaderOwnsEntry, Cached, Verdicts, Storing
<1>23. ASSUME NEW l \in Loaders, UNCHANGED up, Recheck(l) PROVE Verdicts'
  BY <1>23, Rechecked DEF Verdicts, Storing, Shapes, CacheWithout
<1>24. ASSUME NEW l \in Loaders, UNCHANGED up, Notify(l) PROVE Verdicts'
  <2>1. loads[l] = l /\ lpc[l] = "notify" /\ UNCHANGED <<verdict, cache>>
    BY <1>24 DEF Notify, Sockets, LoaderOwnsEntry, maps
  <2>2. \A e \in Entries : ending'[e] <=> e # l /\ ending[e]
    BY <1>24, Zenon DEF Notify, Flags
  <2>3. lpc' = [lpc EXCEPT ![l] = IF ending[l] THEN "close" ELSE "read"]
    BY <1>24 DEF Notify, LGoto
  <2> QED
    BY <2>1, <2>2, <2>3 DEF Verdicts, Storing, Shapes
<1>25. ASSUME NEW l \in Loaders, UNCHANGED up, Fail(l) PROVE Verdicts'
  BY <1>25 DEF Fail, LGoto, maps, Broadcast, Flags, Shapes, ClientPCs,
         LoaderPCs, CacheLock, HoldsCache, Lifecycle, Sockets,
         LoaderOwnsEntry, Cached, Verdicts, Storing
<1>26. ASSUME NEW l \in Loaders, UNCHANGED up, Close(l) PROVE Verdicts'
  BY <1>26 DEF Close, LGoto, shared, maps, entryVars, clientVars, Flags,
         Shapes, ClientPCs, LoaderPCs, CacheLock, HoldsCache, Lifecycle,
         Sockets, LoaderOwnsEntry, Cached, Verdicts, Storing
<1> QED
  BY <1>1, <1>2, <1>3, <1>4, <1>5, <1>6, <1>7, <1>8, <1>9, <1>10, <1>11,
     <1>12, <1>13, <1>14, <1>15, <1>16, <1>17, <1>18, <1>19, <1>20, <1>21,
     <1>22, <1>23, <1>24, <1>25, <1>26 DEF Next, Idle, ClientStep,
         LoaderStep, Arrive, Work, Deliver

(* Data only grow, and nobody copies out more than there is. *)
LEMMA AmountsStep ==
  ASSUME Shapes, Lifecycle, Sockets, Joined, Stages, Amounts, [Next]_vars
  PROVE  Amounts'
PROOF
<1>1. CASE UNCHANGED vars
  BY <1>1 DEF vars, shared, maps, entryVars, clientVars, loaderVars, Shapes,
         ClientPCs, LoaderPCs, Lifecycle, Sockets, LoaderOwnsEntry, Joined,
         Listening, Stages, Given, Amounts
<1>2. CASE AcceptFails
  BY <1>2 DEF AcceptFails, shared, maps, entryVars, clientVars, loaderVars,
         Shapes, ClientPCs, LoaderPCs, Lifecycle, Sockets, LoaderOwnsEntry,
         Joined, Listening, Stages, Given, Amounts
<1>3. ASSUME NEW c \in Clients, UNCHANGED up, Accept(c) PROVE Amounts'
  BY <1>3 DEF Accept, Goto, shared, maps, entryVars, loaderVars, Shapes,
         ClientPCs, LoaderPCs, Lifecycle, Sockets, LoaderOwnsEntry, Joined,
         Listening, Stages, Given, Amounts
<1>4. ASSUME NEW c \in Clients, UNCHANGED up, ReadRequest(c) PROVE Amounts'
  BY <1>4 DEF ReadRequest, Goto, shared, maps, entryVars, loaderVars, Shapes,
         ClientPCs, LoaderPCs, Lifecycle, Sockets, LoaderOwnsEntry, Joined,
         Listening, Stages, Given, Amounts
<1>5. ASSUME NEW c \in Clients, UNCHANGED up, Lookup(c) PROVE Amounts'
  BY <1>5 DEF Lookup, Goto, entryVars, loaderVars, Shapes, ClientPCs,
         LoaderPCs, Lifecycle, Sockets, LoaderOwnsEntry, Joined, Listening,
         Stages, Given, Amounts
<1>6. ASSUME NEW c \in Clients, UNCHANGED up, Connect(c) PROVE Amounts'
  BY <1>6 DEF Connect, Goto, shared, maps, entryVars, OpenFds, Shapes,
         ClientPCs, LoaderPCs, Lifecycle, Sockets, LoaderOwnsEntry, Joined,
         Listening, Stages, Given, Amounts
<1>7. ASSUME NEW c \in Clients, UNCHANGED up, Insert(c) PROVE Amounts'
  BY <1>7 DEF Insert, Goto, loaderVars, Register, Shapes, ClientPCs,
         LoaderPCs, Lifecycle, Sockets, LoaderOwnsEntry, Joined, Listening,
         Stages, Given, Amounts
<1>8. ASSUME NEW c \in Clients, UNCHANGED up, Spawn(c) PROVE Amounts'
  BY <1>8 DEF Spawn, Goto, LGoto, entryVars, Shapes, ClientPCs, LoaderPCs,
         Lifecycle, Sockets, LoaderOwnsEntry, Joined, Listening, Stages,
         Given, Amounts
<1>9. ASSUME NEW c \in Clients, UNCHANGED up, Join(c) PROVE Amounts'
  BY <1>9 DEF Join, Goto, loaderVars, Shapes, ClientPCs, LoaderPCs,
         Lifecycle, Sockets, LoaderOwnsEntry, Joined, Listening, Stages,
         Given, Amounts
<1>10. ASSUME NEW c \in Clients, UNCHANGED up, Start(c) PROVE Amounts'
  BY <1>10 DEF Start, Goto, maps, loaderVars, Shapes, ClientPCs, LoaderPCs,
         Lifecycle, Sockets, LoaderOwnsEntry, Joined, Listening, Stages,
         Given, Amounts
<1>11. ASSUME NEW c \in Clients, UNCHANGED up, CopyOut(c) PROVE Amounts'
  BY <1>11 DEF CopyOut, Goto, maps, loaderVars, NextWrite, Shapes, ClientPCs,
         LoaderPCs, Lifecycle, Sockets, LoaderOwnsEntry, Joined, Listening,
         Stages, Given, Amounts
<1>12. ASSUME NEW c \in Clients, UNCHANGED up, Write(c) PROVE Amounts'
  BY <1>12 DEF Write, Goto, shared, maps, entryVars, loaderVars, Shapes,
         ClientPCs, LoaderPCs, Lifecycle, Sockets, LoaderOwnsEntry, Joined,
         Listening, Stages, Given, Amounts
<1>13. ASSUME NEW c \in Clients, UNCHANGED up, Check(c) PROVE Amounts'
  BY <1>13 DEF Check, Goto, maps, loaderVars, Unlisten, HasAll, Shapes,
         ClientPCs, LoaderPCs, Lifecycle, Sockets, LoaderOwnsEntry, Joined,
         Listening, Stages, Given, Amounts
<1>14. ASSUME NEW c \in Clients, UNCHANGED up, SpuriousWakeup(c) PROVE Amounts'
  BY <1>14 DEF SpuriousWakeup, Goto, shared, maps, entryVars, loaderVars,
         Shapes, ClientPCs, LoaderPCs, Lifecycle, Sockets, LoaderOwnsEntry,
         Joined, Listening, Stages, Given, Amounts
<1>15. ASSUME NEW c \in Clients, UNCHANGED up, Wake(c) PROVE Amounts'
  BY <1>15 DEF Wake, Goto, maps, loaderVars, HasAll, Shapes, ClientPCs,
         LoaderPCs, Lifecycle, Sockets, LoaderOwnsEntry, Joined, Listening,
         Stages, Given, Amounts
<1>16. ASSUME NEW c \in Clients, UNCHANGED up, Leave(c) PROVE Amounts'
  BY <1>16 DEF Leave, Goto, maps, loaderVars, Unlisten, Shapes, ClientPCs,
         LoaderPCs, Lifecycle, Sockets, LoaderOwnsEntry, Joined, Listening,
         Stages, Given, Amounts
<1>17. ASSUME NEW c \in Clients, UNCHANGED up, SendError(c) PROVE Amounts'
  BY <1>17 DEF SendError, Goto, shared, maps, entryVars, loaderVars, Shapes,
         ClientPCs, LoaderPCs, Lifecycle, Sockets, LoaderOwnsEntry, Joined,
         Listening, Stages, Given, Amounts
<1>18. ASSUME NEW l \in Loaders, UNCHANGED up, Begin(l) PROVE Amounts'
  BY <1>18 DEF Begin, LGoto, shared, maps, entryVars, clientVars, Shapes,
         ClientPCs, LoaderPCs, Lifecycle, Sockets, LoaderOwnsEntry, Joined,
         Listening, Stages, Given, Amounts
<1>19. ASSUME NEW l \in Loaders, UNCHANGED up, Read(l) PROVE Amounts'
  BY <1>19 DEF Read, LGoto, shared, maps, entryVars, clientVars, AtEof,
         Shapes, ClientPCs, LoaderPCs, Lifecycle, Sockets, LoaderOwnsEntry,
         Joined, Listening, Stages, Given, Amounts
<1>20. ASSUME NEW l \in Loaders, UNCHANGED up, AppendData(l) PROVE Amounts'
  BY <1>20 DEF AppendData, LGoto, maps, clientVars, Shapes, ClientPCs,
         LoaderPCs, Lifecycle, Sockets, LoaderOwnsEntry, Joined, Listening,
         Stages, Given, Amounts
<1>21. ASSUME NEW l \in Loaders, UNCHANGED up, Evict(l) PROVE Amounts'
  BY <1>21 DEF Evict, LGoto, entryVars, clientVars, CacheWithout, Shapes,
         ClientPCs, LoaderPCs, Lifecycle, Sockets, LoaderOwnsEntry, Joined,
         Listening, Stages, Given, Amounts
<1>22. ASSUME NEW l \in Loaders, UNCHANGED up, Poll(l) PROVE Amounts'
  BY <1>22 DEF Poll, LGoto, shared, maps, entryVars, clientVars, Shapes,
         ClientPCs, LoaderPCs, Lifecycle, Sockets, LoaderOwnsEntry, Joined,
         Listening, Stages, Given, Amounts
<1>23. ASSUME NEW l \in Loaders, UNCHANGED up, Recheck(l) PROVE Amounts'
  BY <1>23 DEF Recheck, LGoto, entryVars, clientVars, CacheWithout, Unwanted,
         Shapes, ClientPCs, LoaderPCs, Lifecycle, Sockets, LoaderOwnsEntry,
         Joined, Listening, Stages, Given, Amounts
<1>24. ASSUME NEW l \in Loaders, UNCHANGED up, Notify(l) PROVE Amounts'
  BY <1>24 DEF Notify, LGoto, maps, Broadcast, Shapes, ClientPCs, LoaderPCs,
         Lifecycle, Sockets, LoaderOwnsEntry, Joined, Listening, Stages,
         Given, Amounts
<1>25. ASSUME NEW l \in Loaders, UNCHANGED up, Fail(l) PROVE Amounts'
  BY <1>25 DEF Fail, LGoto, maps, Broadcast, Shapes, ClientPCs, LoaderPCs,
         Lifecycle, Sockets, LoaderOwnsEntry, Joined, Listening, Stages,
         Given, Amounts
<1>26. ASSUME NEW l \in Loaders, UNCHANGED up, Close(l) PROVE Amounts'
  BY <1>26 DEF Close, LGoto, shared, maps, entryVars, clientVars, Shapes,
         ClientPCs, LoaderPCs, Lifecycle, Sockets, LoaderOwnsEntry, Joined,
         Listening, Stages, Given, Amounts
<1> QED
  BY <1>1, <1>2, <1>3, <1>4, <1>5, <1>6, <1>7, <1>8, <1>9, <1>10, <1>11,
     <1>12, <1>13, <1>14, <1>15, <1>16, <1>17, <1>18, <1>19, <1>20, <1>21,
     <1>22, <1>23, <1>24, <1>25, <1>26 DEF Next, Idle, ClientStep,
         LoaderStep, Arrive, Work, Deliver

(* The loader broadcasts before it lets go of a lock under which it has    *)
(* changed the entry, and a client goes to sleep only under that lock.     *)
LEMMA NoLostWakeupStep ==
  ASSUME Shapes, Lifecycle, Sockets, Joined, NoLostWakeup, [Next]_vars
  PROVE  NoLostWakeup'
PROOF
<1>1. CASE UNCHANGED vars
  BY <1>1 DEF vars, shared, maps, entryVars, clientVars, loaderVars, Shapes,
         ClientPCs, LoaderPCs, Lifecycle, Sockets, LoaderOwnsEntry, Joined,
         Listening, NoLostWakeup, HasAll, Storing
<1>2. CASE AcceptFails
  BY <1>2 DEF AcceptFails, shared, maps, entryVars, clientVars, loaderVars,
         Shapes, ClientPCs, LoaderPCs, Lifecycle, Sockets, LoaderOwnsEntry,
         Joined, Listening, NoLostWakeup, HasAll, Storing
<1>3. ASSUME NEW c \in Clients, UNCHANGED up, Accept(c) PROVE NoLostWakeup'
  BY <1>3 DEF Accept, Goto, shared, maps, entryVars, loaderVars, Shapes,
         ClientPCs, LoaderPCs, Lifecycle, Sockets, LoaderOwnsEntry, Joined,
         Listening, NoLostWakeup, HasAll, Storing
<1>4. ASSUME NEW c \in Clients, UNCHANGED up, ReadRequest(c) PROVE NoLostWakeup'
  BY <1>4 DEF ReadRequest, Goto, shared, maps, entryVars, loaderVars, Shapes,
         ClientPCs, LoaderPCs, Lifecycle, Sockets, LoaderOwnsEntry, Joined,
         Listening, NoLostWakeup, HasAll, Storing
<1>5. ASSUME NEW c \in Clients, UNCHANGED up, Lookup(c) PROVE NoLostWakeup'
  BY <1>5 DEF Lookup, Goto, entryVars, loaderVars, Shapes, ClientPCs,
         LoaderPCs, Lifecycle, Sockets, LoaderOwnsEntry, Joined, Listening,
         NoLostWakeup, HasAll, Storing
<1>6. ASSUME NEW c \in Clients, UNCHANGED up, Connect(c) PROVE NoLostWakeup'
  BY <1>6 DEF Connect, Goto, shared, maps, entryVars, OpenFds, Shapes,
         ClientPCs, LoaderPCs, Lifecycle, Sockets, LoaderOwnsEntry, Joined,
         Listening, NoLostWakeup, HasAll, Storing
<1>7. ASSUME NEW c \in Clients, UNCHANGED up, Insert(c) PROVE NoLostWakeup'
  BY <1>7 DEF Insert, Goto, loaderVars, Register, Shapes, ClientPCs,
         LoaderPCs, Lifecycle, Sockets, LoaderOwnsEntry, Joined, Listening,
         NoLostWakeup, HasAll, Storing
<1>8. ASSUME NEW c \in Clients, UNCHANGED up, Spawn(c) PROVE NoLostWakeup'
  BY <1>8 DEF Spawn, Goto, LGoto, entryVars, Shapes, ClientPCs, LoaderPCs,
         Lifecycle, Sockets, LoaderOwnsEntry, Joined, Listening,
         NoLostWakeup, HasAll, Storing
<1>9. ASSUME NEW c \in Clients, UNCHANGED up, Join(c) PROVE NoLostWakeup'
  BY <1>9 DEF Join, Goto, loaderVars, Shapes, ClientPCs, LoaderPCs,
         Lifecycle, Sockets, LoaderOwnsEntry, Joined, Listening,
         NoLostWakeup, HasAll, Storing
<1>10. ASSUME NEW c \in Clients, UNCHANGED up, Start(c) PROVE NoLostWakeup'
  BY <1>10 DEF Start, Goto, maps, loaderVars, Shapes, ClientPCs, LoaderPCs,
         Lifecycle, Sockets, LoaderOwnsEntry, Joined, Listening,
         NoLostWakeup, HasAll, Storing
<1>11. ASSUME NEW c \in Clients, UNCHANGED up, CopyOut(c) PROVE NoLostWakeup'
  BY <1>11 DEF CopyOut, Goto, maps, loaderVars, NextWrite, Shapes, ClientPCs,
         LoaderPCs, Lifecycle, Sockets, LoaderOwnsEntry, Joined, Listening,
         NoLostWakeup, HasAll, Storing
<1>12. ASSUME NEW c \in Clients, UNCHANGED up, Write(c) PROVE NoLostWakeup'
  BY <1>12 DEF Write, Goto, shared, maps, entryVars, loaderVars, Shapes,
         ClientPCs, LoaderPCs, Lifecycle, Sockets, LoaderOwnsEntry, Joined,
         Listening, NoLostWakeup, HasAll, Storing
<1>13. ASSUME NEW c \in Clients, UNCHANGED up, Check(c) PROVE NoLostWakeup'
  BY <1>13 DEF Check, Goto, maps, loaderVars, Unlisten, HasAll, Shapes,
         ClientPCs, LoaderPCs, Lifecycle, Sockets, LoaderOwnsEntry, Joined,
         Listening, NoLostWakeup, Storing
<1>14. ASSUME NEW c \in Clients, UNCHANGED up, SpuriousWakeup(c) PROVE NoLostWakeup'
  BY <1>14 DEF SpuriousWakeup, Goto, shared, maps, entryVars, loaderVars,
         Shapes, ClientPCs, LoaderPCs, Lifecycle, Sockets, LoaderOwnsEntry,
         Joined, Listening, NoLostWakeup, HasAll, Storing
<1>15. ASSUME NEW c \in Clients, UNCHANGED up, Wake(c) PROVE NoLostWakeup'
  BY <1>15 DEF Wake, Goto, maps, loaderVars, HasAll, Shapes, ClientPCs,
         LoaderPCs, Lifecycle, Sockets, LoaderOwnsEntry, Joined, Listening,
         NoLostWakeup, Storing
<1>16. ASSUME NEW c \in Clients, UNCHANGED up, Leave(c) PROVE NoLostWakeup'
  BY <1>16 DEF Leave, Goto, maps, loaderVars, Unlisten, Shapes, ClientPCs,
         LoaderPCs, Lifecycle, Sockets, LoaderOwnsEntry, Joined, Listening,
         NoLostWakeup, HasAll, Storing
<1>17. ASSUME NEW c \in Clients, UNCHANGED up, SendError(c) PROVE NoLostWakeup'
  BY <1>17 DEF SendError, Goto, shared, maps, entryVars, loaderVars, Shapes,
         ClientPCs, LoaderPCs, Lifecycle, Sockets, LoaderOwnsEntry, Joined,
         Listening, NoLostWakeup, HasAll, Storing
<1>18. ASSUME NEW l \in Loaders, UNCHANGED up, Begin(l) PROVE NoLostWakeup'
  BY <1>18 DEF Begin, LGoto, shared, maps, entryVars, clientVars, Shapes,
         ClientPCs, LoaderPCs, Lifecycle, Sockets, LoaderOwnsEntry, Joined,
         Listening, NoLostWakeup, HasAll, Storing
<1>19. ASSUME NEW l \in Loaders, UNCHANGED up, Read(l) PROVE NoLostWakeup'
  BY <1>19 DEF Read, LGoto, shared, maps, entryVars, clientVars, AtEof,
         Shapes, ClientPCs, LoaderPCs, Lifecycle, Sockets, LoaderOwnsEntry,
         Joined, Listening, NoLostWakeup, HasAll, Storing
<1>20. ASSUME NEW l \in Loaders, UNCHANGED up, AppendData(l) PROVE NoLostWakeup'
  BY <1>20 DEF AppendData, LGoto, maps, clientVars, Shapes, ClientPCs,
         LoaderPCs, Lifecycle, Sockets, LoaderOwnsEntry, Joined, Listening,
         NoLostWakeup, HasAll, Storing
<1>21. ASSUME NEW l \in Loaders, UNCHANGED up, Evict(l) PROVE NoLostWakeup'
  BY <1>21 DEF Evict, LGoto, entryVars, clientVars, CacheWithout, Shapes,
         ClientPCs, LoaderPCs, Lifecycle, Sockets, LoaderOwnsEntry, Joined,
         Listening, NoLostWakeup, HasAll, Storing
<1>22. ASSUME NEW l \in Loaders, UNCHANGED up, Poll(l) PROVE NoLostWakeup'
  BY <1>22 DEF Poll, LGoto, shared, maps, entryVars, clientVars, Shapes,
         ClientPCs, LoaderPCs, Lifecycle, Sockets, LoaderOwnsEntry, Joined,
         Listening, NoLostWakeup, HasAll, Storing
<1>23. ASSUME NEW l \in Loaders, UNCHANGED up, Recheck(l) PROVE NoLostWakeup'
  BY <1>23 DEF Recheck, LGoto, entryVars, clientVars, CacheWithout, Unwanted,
         Shapes, ClientPCs, LoaderPCs, Lifecycle, Sockets, LoaderOwnsEntry,
         Joined, Listening, NoLostWakeup, HasAll, Storing
<1>24. ASSUME NEW l \in Loaders, UNCHANGED up, Notify(l) PROVE NoLostWakeup'
  BY <1>24 DEF Notify, LGoto, maps, Broadcast, Shapes, ClientPCs, LoaderPCs,
         Lifecycle, Sockets, LoaderOwnsEntry, Joined, Listening,
         NoLostWakeup, HasAll, Storing
<1>25. ASSUME NEW l \in Loaders, UNCHANGED up, Fail(l) PROVE NoLostWakeup'
  BY <1>25 DEF Fail, LGoto, maps, Broadcast, Shapes, ClientPCs, LoaderPCs,
         Lifecycle, Sockets, LoaderOwnsEntry, Joined, Listening,
         NoLostWakeup, HasAll, Storing
<1>26. ASSUME NEW l \in Loaders, UNCHANGED up, Close(l) PROVE NoLostWakeup'
  BY <1>26 DEF Close, LGoto, shared, maps, entryVars, clientVars, Shapes,
         ClientPCs, LoaderPCs, Lifecycle, Sockets, LoaderOwnsEntry, Joined,
         Listening, NoLostWakeup, HasAll, Storing
<1> QED
  BY <1>1, <1>2, <1>3, <1>4, <1>5, <1>6, <1>7, <1>8, <1>9, <1>10, <1>11,
     <1>12, <1>13, <1>14, <1>15, <1>16, <1>17, <1>18, <1>19, <1>20, <1>21,
     <1>22, <1>23, <1>24, <1>25, <1>26 DEF Next, Idle, ClientStep,
         LoaderStep, Arrive, Work, Deliver

(* A loader that may still store has an entry that is LOADING, and nobody  *)
(* is done with such an entry.                                             *)
LEMMA CompleteReplyStep ==
  ASSUME Shapes, Lifecycle, Sockets, Joined, Stages, CompleteReply,
         [Next]_vars
  PROVE  CompleteReply'
PROOF
<1>1. CASE UNCHANGED vars
  BY <1>1 DEF vars, shared, maps, entryVars, clientVars, loaderVars, Shapes,
         ClientPCs, LoaderPCs, Lifecycle, Sockets, LoaderOwnsEntry, Joined,
         Listening, Stages, Given, CompleteReply
<1>2. CASE AcceptFails
  BY <1>2 DEF AcceptFails, shared, maps, entryVars, clientVars, loaderVars,
         Shapes, ClientPCs, LoaderPCs, Lifecycle, Sockets, LoaderOwnsEntry,
         Joined, Listening, Stages, Given, CompleteReply
<1>3. ASSUME NEW c \in Clients, UNCHANGED up, Accept(c) PROVE CompleteReply'
  BY <1>3 DEF Accept, Goto, shared, maps, entryVars, loaderVars, Shapes,
         ClientPCs, LoaderPCs, Lifecycle, Sockets, LoaderOwnsEntry, Joined,
         Listening, Stages, Given, CompleteReply
<1>4. ASSUME NEW c \in Clients, UNCHANGED up, ReadRequest(c) PROVE CompleteReply'
  BY <1>4 DEF ReadRequest, Goto, shared, maps, entryVars, loaderVars, Shapes,
         ClientPCs, LoaderPCs, Lifecycle, Sockets, LoaderOwnsEntry, Joined,
         Listening, Stages, Given, CompleteReply
<1>5. ASSUME NEW c \in Clients, UNCHANGED up, Lookup(c) PROVE CompleteReply'
  BY <1>5 DEF Lookup, Goto, entryVars, loaderVars, Shapes, ClientPCs,
         LoaderPCs, Lifecycle, Sockets, LoaderOwnsEntry, Joined, Listening,
         Stages, Given, CompleteReply
<1>6. ASSUME NEW c \in Clients, UNCHANGED up, Connect(c) PROVE CompleteReply'
  BY <1>6 DEF Connect, Goto, shared, maps, entryVars, OpenFds, Shapes,
         ClientPCs, LoaderPCs, Lifecycle, Sockets, LoaderOwnsEntry, Joined,
         Listening, Stages, Given, CompleteReply
<1>7. ASSUME NEW c \in Clients, UNCHANGED up, Insert(c) PROVE CompleteReply'
  BY <1>7 DEF Insert, Goto, loaderVars, Register, Shapes, ClientPCs,
         LoaderPCs, Lifecycle, Sockets, LoaderOwnsEntry, Joined, Listening,
         Stages, Given, CompleteReply
<1>8. ASSUME NEW c \in Clients, UNCHANGED up, Spawn(c) PROVE CompleteReply'
  BY <1>8 DEF Spawn, Goto, LGoto, entryVars, Shapes, ClientPCs, LoaderPCs,
         Lifecycle, Sockets, LoaderOwnsEntry, Joined, Listening, Stages,
         Given, CompleteReply
<1>9. ASSUME NEW c \in Clients, UNCHANGED up, Join(c) PROVE CompleteReply'
  BY <1>9 DEF Join, Goto, loaderVars, Shapes, ClientPCs, LoaderPCs,
         Lifecycle, Sockets, LoaderOwnsEntry, Joined, Listening, Stages,
         Given, CompleteReply
<1>10. ASSUME NEW c \in Clients, UNCHANGED up, Start(c) PROVE CompleteReply'
  BY <1>10 DEF Start, Goto, maps, loaderVars, Shapes, ClientPCs, LoaderPCs,
         Lifecycle, Sockets, LoaderOwnsEntry, Joined, Listening, Stages,
         Given, CompleteReply
<1>11. ASSUME NEW c \in Clients, UNCHANGED up, CopyOut(c) PROVE CompleteReply'
  BY <1>11 DEF CopyOut, Goto, maps, loaderVars, NextWrite, Shapes, ClientPCs,
         LoaderPCs, Lifecycle, Sockets, LoaderOwnsEntry, Joined, Listening,
         Stages, Given, CompleteReply
<1>12. ASSUME NEW c \in Clients, UNCHANGED up, Write(c) PROVE CompleteReply'
  BY <1>12 DEF Write, Goto, shared, maps, entryVars, loaderVars, Shapes,
         ClientPCs, LoaderPCs, Lifecycle, Sockets, LoaderOwnsEntry, Joined,
         Listening, Stages, Given, CompleteReply
<1>13. ASSUME NEW c \in Clients, UNCHANGED up, Check(c) PROVE CompleteReply'
  BY <1>13 DEF Check, Goto, maps, loaderVars, Unlisten, HasAll, Shapes,
         ClientPCs, LoaderPCs, Lifecycle, Sockets, LoaderOwnsEntry, Joined,
         Listening, Stages, Given, CompleteReply
<1>14. ASSUME NEW c \in Clients, UNCHANGED up, SpuriousWakeup(c) PROVE CompleteReply'
  BY <1>14 DEF SpuriousWakeup, Goto, shared, maps, entryVars, loaderVars,
         Shapes, ClientPCs, LoaderPCs, Lifecycle, Sockets, LoaderOwnsEntry,
         Joined, Listening, Stages, Given, CompleteReply
<1>15. ASSUME NEW c \in Clients, UNCHANGED up, Wake(c) PROVE CompleteReply'
  BY <1>15 DEF Wake, Goto, maps, loaderVars, HasAll, Shapes, ClientPCs,
         LoaderPCs, Lifecycle, Sockets, LoaderOwnsEntry, Joined, Listening,
         Stages, Given, CompleteReply
<1>16. ASSUME NEW c \in Clients, UNCHANGED up, Leave(c) PROVE CompleteReply'
  BY <1>16 DEF Leave, Goto, maps, loaderVars, Unlisten, Shapes, ClientPCs,
         LoaderPCs, Lifecycle, Sockets, LoaderOwnsEntry, Joined, Listening,
         Stages, Given, CompleteReply
<1>17. ASSUME NEW c \in Clients, UNCHANGED up, SendError(c) PROVE CompleteReply'
  BY <1>17 DEF SendError, Goto, shared, maps, entryVars, loaderVars, Shapes,
         ClientPCs, LoaderPCs, Lifecycle, Sockets, LoaderOwnsEntry, Joined,
         Listening, Stages, Given, CompleteReply
<1>18. ASSUME NEW l \in Loaders, UNCHANGED up, Begin(l) PROVE CompleteReply'
  BY <1>18 DEF Begin, LGoto, shared, maps, entryVars, clientVars, Shapes,
         ClientPCs, LoaderPCs, Lifecycle, Sockets, LoaderOwnsEntry, Joined,
         Listening, Stages, Given, CompleteReply
<1>19. ASSUME NEW l \in Loaders, UNCHANGED up, Read(l) PROVE CompleteReply'
  BY <1>19 DEF Read, LGoto, shared, maps, entryVars, clientVars, AtEof,
         Shapes, ClientPCs, LoaderPCs, Lifecycle, Sockets, LoaderOwnsEntry,
         Joined, Listening, Stages, Given, CompleteReply
<1>20. ASSUME NEW l \in Loaders, UNCHANGED up, AppendData(l) PROVE CompleteReply'
  BY <1>20 DEF AppendData, LGoto, maps, clientVars, Shapes, ClientPCs,
         LoaderPCs, Lifecycle, Sockets, LoaderOwnsEntry, Joined, Listening,
         Stages, Given, CompleteReply
<1>21. ASSUME NEW l \in Loaders, UNCHANGED up, Evict(l) PROVE CompleteReply'
  BY <1>21 DEF Evict, LGoto, entryVars, clientVars, CacheWithout, Shapes,
         ClientPCs, LoaderPCs, Lifecycle, Sockets, LoaderOwnsEntry, Joined,
         Listening, Stages, Given, CompleteReply
<1>22. ASSUME NEW l \in Loaders, UNCHANGED up, Poll(l) PROVE CompleteReply'
  BY <1>22 DEF Poll, LGoto, shared, maps, entryVars, clientVars, Shapes,
         ClientPCs, LoaderPCs, Lifecycle, Sockets, LoaderOwnsEntry, Joined,
         Listening, Stages, Given, CompleteReply
<1>23. ASSUME NEW l \in Loaders, UNCHANGED up, Recheck(l) PROVE CompleteReply'
  BY <1>23 DEF Recheck, LGoto, entryVars, clientVars, CacheWithout, Unwanted,
         Shapes, ClientPCs, LoaderPCs, Lifecycle, Sockets, LoaderOwnsEntry,
         Joined, Listening, Stages, Given, CompleteReply
<1>24. ASSUME NEW l \in Loaders, UNCHANGED up, Notify(l) PROVE CompleteReply'
  BY <1>24 DEF Notify, LGoto, maps, Broadcast, Shapes, ClientPCs, LoaderPCs,
         Lifecycle, Sockets, LoaderOwnsEntry, Joined, Listening, Stages,
         Given, CompleteReply
<1>25. ASSUME NEW l \in Loaders, UNCHANGED up, Fail(l) PROVE CompleteReply'
  BY <1>25 DEF Fail, LGoto, maps, Broadcast, Shapes, ClientPCs, LoaderPCs,
         Lifecycle, Sockets, LoaderOwnsEntry, Joined, Listening, Stages,
         Given, CompleteReply
<1>26. ASSUME NEW l \in Loaders, UNCHANGED up, Close(l) PROVE CompleteReply'
  BY <1>26 DEF Close, LGoto, shared, maps, entryVars, clientVars, Shapes,
         ClientPCs, LoaderPCs, Lifecycle, Sockets, LoaderOwnsEntry, Joined,
         Listening, Stages, Given, CompleteReply
<1> QED
  BY <1>1, <1>2, <1>3, <1>4, <1>5, <1>6, <1>7, <1>8, <1>9, <1>10, <1>11,
     <1>12, <1>13, <1>14, <1>15, <1>16, <1>17, <1>18, <1>19, <1>20, <1>21,
     <1>22, <1>23, <1>24, <1>25, <1>26 DEF Next, Idle, ClientStep,
         LoaderStep, Arrive, Work, Deliver

-----------------------------------------------------------------------------
(* The proxy starts in the invariant. *)
LEMMA InitInv == ASSUME Init PROVE IInv
PROOF
<1>1. Shapes
  BY SMTT(30) DEF Init, Shapes, ClientPCs, LoaderPCs
<1>2. Flags
  BY Zenon DEF Init, Flags
<1>3. Exclusion
  <2>1. CacheLock
    BY DEF Init, CacheLock, HoldsCache
  <2>2. EntryLock
    BY DEF Init, EntryLock, Copying, Storing
  <2> QED
    BY <2>1, <2>2 DEF Exclusion
<1>4. Lifecycle /\ Sockets /\ Cached /\ Joined
  BY DEF Init, Lifecycle, Sockets, LoaderOwnsEntry, Cached, Joined, Listening
<1>5. ListenersAccurate
  <2>1. \A e \in Entries : Audience(e) = {}
    BY DEF Init, Audience, Listening
  <2> QED
    BY <2>1, FS_EmptySet DEF Init, ListenersAccurate
<1>6. Stages /\ Verdicts
  BY DEF Init, Stages, Verdicts, Storing
<1>7. Amounts
  BY DEF Init, Amounts
<1>8. NoLostWakeup /\ CompleteReply
  BY DEF Init, NoLostWakeup, CompleteReply
<1> QED
  BY <1>1, <1>2, <1>3, <1>4, <1>5, <1>6, <1>7, <1>8 DEF IInv

(* IInv holds in every reachable state, whatever the clients, keys and     *)
(* sockets, the length of replies, and what may fail.                      *)
THEOREM Invariance == Spec => []IInv
PROOF
<1>1. Init => IInv
  BY InitInv
<1>2. IInv /\ [Next]_vars => IInv'
  BY FlagsStep, ShapesStep, CacheLockStep, LifecycleStep, SocketsStep,
     CachedStep, JoinedStep, EntryLockStep, ListenersAccurateStep,
     StagesStep, VerdictsStep, AmountsStep, NoLostWakeupStep,
     CompleteReplyStep
  DEF IInv, Exclusion
<1> QED
  BY <1>1, <1>2, PTL DEF Spec

(* Every variable keeps its type (TypeOK). *)
THEOREM TypeCorrect == Spec => []TypeOK
PROOF
<1>1. IInv => TypeOK
  <2> SUFFICES ASSUME IInv PROVE TypeOK
    OBVIOUS
  <2>1. {up, cacheLocked} \subseteq BOOLEAN
    BY Zenon DEF IInv, Flags
  <2>2. {locked, ending, silent} \subseteq [Clients -> BOOLEAN]
    BY Zenon DEF IInv, Flags
  <2>3. {size, written, toWrite, chunk} \subseteq [Clients -> 0..MaxReply]
    <3>1. \A c \in Clients : written[c] \in 0..MaxReply /\ toWrite[c] \in 0..MaxReply
      BY DEF IInv, Shapes, Amounts, Joined, Listening
    <3> QED
      BY <3>1 DEF IInv, Shapes, Amounts
  <2>4. listeners \in [Entries -> Nat]
    BY Audiences, FS_CardinalityType DEF IInv, Shapes, ListenersAccurate
  <2> QED
    BY <2>1, <2>2, <2>3, <2>4 DEF IInv, Shapes, TypeOK
<1> QED
  BY <1>1, Invariance, PTL

(* cache_lock and every entry's lock exclude (Exclusion), with any number  *)
(* of client and loader threads.                                           *)
THEOREM LocksExclude == Spec => []Exclusion
PROOF
<1>1. IInv => Exclusion
  BY DEF IInv
<1> QED
  BY <1>1, Invariance, PTL

(* listeners_count is the number of clients that listen to the entry.      *)
THEOREM CountsExact == Spec => []ListenersAccurate
PROOF
<1>1. IInv => ListenersAccurate
  BY DEF IInv
<1> QED
  BY <1>1, Invariance, PTL

(* A loader reads into the entry its socket was opened for, however socket *)
(* numbers are reused.                                                     *)
THEOREM RightEntry == Spec => []LoaderOwnsEntry
PROOF
<1>1. IInv => LoaderOwnsEntry
  BY DEF IInv, Sockets
<1> QED
  BY <1>1, Invariance, PTL

(* A download that ends with its entry LOADING leaves no client behind,    *)
(* nor one that could still find the entry.                                *)
THEOREM NobodyAbandoned == Spec => []NoAbandonedEntry
PROOF
<1>1. IInv => NoAbandonedEntry
  BY DEF IInv, Stages, Given, NoAbandonedEntry, Audience
<1> QED
  BY <1>1, Invariance, PTL

(* A client that sleeps has everything there is, or will be woken. *)
THEOREM WakeupsKept == Spec => []NoLostWakeup
PROOF
<1>1. IInv => NoLostWakeup
  BY DEF IInv
<1> QED
  BY <1>1, Invariance, PTL

(* A client released without an error has the whole of a whole reply. *)
THEOREM RepliesComplete == Spec => []CompleteReply
PROOF
<1>1. IInv => CompleteReply
  BY DEF IInv
<1> QED
  BY <1>1, Invariance, PTL

(* A reply that is not to be cached is not in the cache once its loader    *)
(* has let go of the entry.                                                *)
THEOREM UncacheableNotCached == Spec => []UncacheableEvicted
PROOF
<1>1. IInv => UncacheableEvicted
  BY DEF IInv, Verdicts, UncacheableEvicted
<1> QED
  BY <1>1, Invariance, PTL

-----------------------------------------------------------------------------
(* No deadlock *)

(* Where pthread_create never fails every entry gets its loader before     *)
(* anybody can join it: cache_lock is held from the one to the other.      *)
Loaded ==
  ~ThreadsMayFail =>
    /\ \A e \in Entries : state[e] # "absent" /\ lpc[e] = "none" => pc[e] = "spawn"
    /\ \A c \in Clients : joined[c] # Nobody => lpc[joined[c]] # "none"

(* The steps that make no entry, no loader and no listener. *)
Minor ==
  /\ joined' = joined
  /\ \A e \in Entries : state'[e] # "absent" => state[e] # "absent"
  /\ \A e \in Entries : lpc[e] # "none" => lpc'[e] # "none"
  /\ \A e \in Entries : pc[e] = "spawn" => pc'[e] = "spawn"

LEMMA ClientMinor ==
  ASSUME IInv, NEW c \in Clients, Arrive(c) \/ SpuriousWakeup(c) \/ ClientStep(c),
         ~Insert(c), ~Spawn(c), ~Join(c)
  PROVE  Minor
<1>1. /\ pc \in [Clients -> ClientPCs] /\ joined' = joined /\ state' = state /\ lpc' = lpc
      /\ pc[c] # "spawn" /\ \E label \in ClientPCs : Goto(c, label)
  <2>0. pc \in [Clients -> ClientPCs]
    BY DEF IInv, Shapes
  <2> USE DEF Goto, ClientPCs, shared, maps, entryVars, loaderVars
  <2>1. CASE Arrive(c) \/ SpuriousWakeup(c)
    BY <2>0, <2>1 DEF Arrive, Accept, ReadRequest, SpuriousWakeup
  <2>2. CASE Lookup(c) \/ Connect(c) \/ Start(c) \/ CopyOut(c)
    BY <2>0, <2>2 DEF Lookup, Connect, Start, CopyOut
  <2>3. CASE Check(c) \/ Wake(c) \/ Leave(c) \/ Write(c) \/ SendError(c)
    BY <2>0, <2>3 DEF Check, Wake, Leave, Write, SendError
  <2> QED
    BY <2>1, <2>2, <2>3 DEF ClientStep, Work, Deliver
<1> QED
  BY <1>1 DEF Minor, Goto

LEMMA LoaderMinor == ASSUME IInv, NEW l \in Loaders, LoaderStep(l) PROVE Minor
<1>0. /\ pc \in [Clients -> ClientPCs] /\ lpc \in [Loaders -> LoaderPCs]
      /\ state \in [Entries -> {"absent", "LOADING", "SUCCESS", "FAILED"}]
      /\ lpc[l] # "none" => state[l] # "absent"
      /\ lpc[l] \notin {"none", "start"} => loads[l] = l
  BY DEF IInv, Shapes, Lifecycle, Sockets, LoaderOwnsEntry
<1>1. /\ joined' = joined /\ lpc[l] # "none"
      /\ \E label \in LoaderPCs \ {"none"} : LGoto(l, label)
  <2> USE DEF LGoto, LoaderPCs, shared, maps, entryVars, clientVars
  <2>1. CASE Begin(l) \/ Read(l) \/ AppendData(l) \/ Evict(l) \/ Poll(l)
    BY <1>0, <2>1 DEF Begin, Read, AppendData, Evict, Poll
  <2>2. CASE Recheck(l) \/ Notify(l) \/ Fail(l) \/ Close(l)
    BY <1>0, <2>2 DEF Recheck, Notify, Fail, Close
  <2> QED
    BY <2>1, <2>2 DEF LoaderStep
<1>2. \A e \in Entries : pc[e] = "spawn" => pc'[e] = "spawn"
  <2> USE DEF shared, maps, entryVars, clientVars, Broadcast
  <2>1. CASE Begin(l) \/ Read(l) \/ AppendData(l) \/ Evict(l) \/ Poll(l)
    BY <1>0, <2>1 DEF Begin, Read, AppendData, Evict, Poll
  <2>2. CASE Recheck(l) \/ Notify(l) \/ Fail(l) \/ Close(l)
    BY <1>0, <2>2 DEF Recheck, Notify, Fail, Close
  <2> QED
    BY <2>1, <2>2 DEF LoaderStep
<1>3. \A e \in Entries : state'[e] # "absent" => state[e] # "absent"
  <2> USE DEF shared, maps, entryVars, clientVars
  <2>1. CASE Begin(l) \/ Read(l) \/ Evict(l) \/ Poll(l) \/ Recheck(l) \/ Notify(l) \/ Close(l)
    BY <1>0, <2>1 DEF Begin, Read, Evict, Poll, Recheck, Notify, Close
  <2>2. CASE AppendData(l) \/ Fail(l)
    BY <1>0, <2>2 DEF AppendData, Fail
  <2> QED
    BY <2>1, <2>2 DEF LoaderStep
<1> QED
  BY <1>0, <1>1, <1>2, <1>3 DEF Minor, LGoto

LEMMA LoadedStep == ASSUME IInv, Loaded, [Next]_vars PROVE Loaded'
<1> SUFFICES ASSUME ~ThreadsMayFail
             PROVE  /\ \A e \in Entries : state'[e] # "absent" /\ lpc'[e] = "none" => pc'[e] = "spawn"
                    /\ \A c \in Clients : joined'[c] # Nobody => lpc'[joined'[c]] # "none"
  BY DEF Loaded
<1>0. /\ \A e \in Entries : state[e] # "absent" /\ lpc[e] = "none" => pc[e] = "spawn"
      /\ \A c \in Clients : joined[c] # Nobody => lpc[joined[c]] # "none"
  BY DEF Loaded
<1>a. /\ pc \in [Clients -> ClientPCs] /\ lpc \in [Loaders -> LoaderPCs]
      /\ state \in [Entries -> {"absent", "LOADING", "SUCCESS", "FAILED"}]
      /\ joined \in [Clients -> Entries \cup {Nobody}]
      /\ cache \in [Keys -> Entries \cup {Nobody}] /\ key \in [Clients -> Keys]
  BY DEF IInv, Shapes
<1>1. CASE Minor
  BY <1>0, <1>1, <1>a DEF Minor
<1>2. ASSUME NEW c \in Clients, Insert(c) PROVE Loaded'
  BY <1>0, <1>2, <1>a DEF Insert, Goto, loaderVars, Loaded
<1>3. ASSUME NEW c \in Clients, Spawn(c) PROVE Loaded'
  BY <1>0, <1>3, <1>a DEF Spawn, Goto, LGoto, entryVars, Loaded
<1>4. ASSUME NEW c \in Clients, Join(c) PROVE Loaded'
  <2>1. cache[key[c]] \in Entries /\ state[cache[key[c]]] # "absent" /\ pc[c] = "join"
    BY <1>4, <1>a DEF IInv, Cached, Join
  <2>2. pc[cache[key[c]]] # "spawn"
    BY <2>1 DEF IInv, Exclusion, CacheLock, HoldsCache
  <2>3. lpc[cache[key[c]]] # "none"
    BY <1>0, <2>1, <2>2
  <2> QED
    BY <1>0, <1>4, <1>a, <2>1, <2>3 DEF Join, Goto, loaderVars, Loaded
<1>5. CASE UNCHANGED vars \/ AcceptFails \/ Idle
  BY <1>0, <1>5
     DEF vars, AcceptFails, Idle, shared, maps, entryVars, clientVars, loaderVars
<1> QED
  BY <1>1, <1>2, <1>3, <1>4, <1>5, ClientMinor, LoaderMinor DEF Next, Loaded

(* Whoever holds a lock waits for nothing, but for a loader that holds its *)
(* entry's and waits for cache_lock.                                       *)
LEMMA LocksFree ==
  ASSUME IInv, \A c \in Clients : ~ClientCanGo(c), \A l \in Loaders : ~LoaderCanGo(l)
  PROVE  ~cacheLocked /\ \A e \in Entries : ~locked[e]
<1>1. ~cacheLocked
  BY DEF IInv, Exclusion, CacheLock, HoldsCache, ClientCanGo
<1>2. ASSUME NEW e \in Entries, locked[e] PROVE FALSE
  <2>1. Storing(e) \/ \E c \in Clients : Copying(c, e)
    BY <1>2 DEF IInv, Exclusion, EntryLock
  <2>2. \A c \in Clients : ~Copying(c, e)
    BY DEF Copying, ClientCanGo
  <2>3. ~Storing(e)
    BY <1>1 DEF Storing, LoaderCanGo
  <2> QED
    BY <2>1, <2>2, <2>3
<1> QED
  BY <1>1, <1>2

(* With any number of threads and entries the locks do not deadlock, and   *)
(* nobody sleeps whom no loader will wake (NoDeadlock): a loader waits for *)
(* cache_lock with an entry's lock in hand, but who has cache_lock never   *)
(* waits.                                                                  *)
THEOREM DeadlockFree == Spec => []NoDeadlock
PROOF
<1>1. Init => Loaded
  BY DEF Init, Loaded
<1>2. IInv /\ Loaded => NoDeadlock
  <2> SUFFICES ASSUME IInv, Loaded PROVE NoDeadlock
    OBVIOUS
  <2>a. /\ pc \in [Clients -> ClientPCs] /\ lpc \in [Loaders -> LoaderPCs]
    BY DEF IInv, Shapes
  <2>1. ASSUME NEW c \in Clients, pc[c] = "wait"
        PROVE  lpc[joined[c]] \notin {"close", "done"}
    <3>1. joined[c] \in Entries /\ Listening(c)
      BY <2>1 DEF IInv, Joined, Listening, Shapes
    <3>2. state[joined[c]] = "LOADING" \/ Storing(joined[c])
      BY <2>1 DEF IInv, NoLostWakeup
    <3> QED
      BY <3>1, <3>2 DEF IInv, Stages, Given, Storing
  <2>2. ASSUME NEW c \in Clients, LeftAlone(c) PROVE ThreadsMayFail
    BY <2>2 DEF LeftAlone, Loaded, IInv, Joined, Listening
  <2>3. ASSUME \A c \in Clients : ~ClientCanGo(c), \A l \in Loaders : ~LoaderCanGo(l)
        PROVE  /\ \A c \in Clients : pc[c] \in Finished \/ LeftAlone(c)
               /\ \A l \in Loaders : lpc[l] \in {"none", "done"}
    <3>1. ~cacheLocked /\ \A e \in Entries : ~locked[e]
      BY <2>3, LocksFree
    <3>2. \A l \in Loaders : lpc[l] \in {"none", "done"}
      BY <2>3, <2>a, <3>1 DEF LoaderCanGo, LoaderPCs, IInv, Sockets, LoaderOwnsEntry
    <3>3. \A c \in Clients : pc[c] \in Finished \cup {"wait"}
      BY <2>3, <2>a, <3>1 DEF ClientCanGo, ClientPCs, Finished, IInv, Joined, Listening, Shapes
    <3>4. \A c \in Clients : pc[c] = "wait" => joined[c] \in Entries
      BY DEF IInv, Joined, Listening, Shapes
    <3> QED
      BY <2>1, <3>2, <3>3, <3>4 DEF LeftAlone
  <2> QED
    BY <2>1, <2>2, <2>3 DEF NoDeadlock
<1> QED
  BY <1>1, <1>2, LoadedStep, Invariance, PTL DEF Spec

-----------------------------------------------------------------------------
(* The refinement of ProxyService *)

(* A client that moves on without ending has its answer pending still. *)
LEMMA RepliesKept ==
  ASSUME Shapes, NEW c \in Clients, NEW p \in ClientPCs, Goto(c, p),
         pc[c] \notin Finished, p \notin Finished
  PROVE  UNCHANGED Replies
PROOF
<1>1. \A d \in Clients : d = c \/ pc'[d] = pc[d]
  BY DEF Goto, Shapes
<1>2. pc'[c] = p
  BY DEF Goto, Shapes
<1> QED
  BY <1>1, <1>2 DEF Replies, Finished

(* A client that ends changes what the service says of it, and no other. *)
LEMMA Replied ==
  ASSUME Shapes, NEW c \in Clients, NEW p \in Finished, Goto(c, p)
  PROVE  Replies' = [Replies EXCEPT ![c] = IF p = "done" THEN "ok" ELSE "error"]
PROOF
<1>1. \A d \in Clients : d = c \/ pc'[d] = pc[d]
  BY DEF Goto, Shapes
<1>2. pc'[c] = p
  BY DEF Goto, Shapes
<1> QED
  BY <1>1, <1>2 DEF Replies, Finished

(* A broadcast moves clients within the loop only. *)
LEMMA BroadcastPending ==
  ASSUME NEW e \in Entries, Shapes, pc' = Broadcast(e)
  PROVE  UNCHANGED Replies
PROOF
<1>1. \A d \in Clients : pc'[d] = pc[d] \/ (pc[d] = "wait" /\ pc'[d] = "woken")
  BY DEF Broadcast, Shapes
<1> QED
  BY <1>1 DEF Replies

(* The service starts as it should. *)
LEMMA InitRefined == ASSUME Init PROVE Service!Init
  BY DEF Init, Service!Init, Replies, Fates

(* Every step of the proxy is a step of the service, or none of it. *)
LEMMA StepRefined ==
  ASSUME IInv, IInv', [Next]_vars
  PROVE  [Service!Next]_Service!vars
PROOF
<1>1. CASE UNCHANGED vars
  BY <1>1 DEF vars, shared, entryVars, clientVars, Replies, Fates,
         Service!vars
<1>2. CASE AcceptFails
  BY <1>2 DEF AcceptFails, shared, entryVars, clientVars, Replies, Fates,
         Service!vars
<1>3. ASSUME NEW c \in Clients, UNCHANGED up, Accept(c)
     PROVE  [Service!Next]_Service!vars
  <2>1. CASE pc'[c] = "refused"
    <3>1. Replies[c] = "pending" /\ Replies' = [Replies EXCEPT ![c] = "error"]
      BY <1>3, <2>1, Replied DEF Accept, Goto, IInv, Shapes, Replies, Finished
    <3>2. Service!Fail(c)
      BY <1>3, <3>1 DEF Accept, shared, entryVars, Service!Fail, Fates
    <3> QED
      BY <3>2 DEF Service!Next
  <2>2. CASE pc'[c] # "refused"
    BY <1>3, <2>2, RepliesKept
    DEF Accept, Goto, shared, entryVars, IInv, Shapes, ClientPCs, Finished,
        Fates, Service!vars
  <2> QED
    BY <2>1, <2>2
<1>4. ASSUME NEW c \in Clients, UNCHANGED up, ReadRequest(c)
     PROVE  [Service!Next]_Service!vars
  BY <1>4, RepliesKept DEF ReadRequest, shared, entryVars, IInv, Shapes,
         ClientPCs, Finished, Fates, Service!vars
<1>5. ASSUME NEW c \in Clients, UNCHANGED up, Lookup(c)
     PROVE  [Service!Next]_Service!vars
  BY <1>5, RepliesKept DEF Lookup, entryVars, IInv, Shapes, ClientPCs,
         Finished, Fates, Service!vars
<1>6. ASSUME NEW c \in Clients, UNCHANGED up, Connect(c)
     PROVE  [Service!Next]_Service!vars
  BY <1>6, RepliesKept DEF Connect, shared, entryVars, IInv, Shapes,
         ClientPCs, Finished, Fates, Service!vars
<1>7. ASSUME NEW c \in Clients, UNCHANGED up, Insert(c)
     PROVE  [Service!Next]_Service!vars
  <2>1. UNCHANGED Fates
    BY <1>7 DEF Insert, IInv, Shapes, Lifecycle, Fates
  <2>2. UNCHANGED Replies
    BY <1>7, RepliesKept DEF Insert, IInv, Shapes, ClientPCs, Finished
  <2> QED
    BY <1>7, <2>1, <2>2 DEF Insert, Service!vars
<1>8. ASSUME NEW c \in Clients, UNCHANGED up, Spawn(c)
     PROVE  [Service!Next]_Service!vars
  BY <1>8, RepliesKept DEF Spawn, entryVars, IInv, Shapes, ClientPCs,
         Finished, Fates, Service!vars
<1>9. ASSUME NEW c \in Clients, UNCHANGED up, Join(c)
     PROVE  [Service!Next]_Service!vars
  <2> DEFINE x == cache[key[c]]
  <2>1. x \in Entries /\ joined[c] = Nobody /\ joined' = [joined EXCEPT ![c] = x]
    BY <1>9 DEF Join, IInv, Shapes, Cached, Lifecycle
  <2>2. Replies[c] = "pending"
    BY <1>9 DEF Join, Replies
  <2>3. UNCHANGED <<Replies, Fates, written, size>>
    BY <1>9, RepliesKept
    DEF Join, IInv, Shapes, ClientPCs, Finished, Fates
  <2>4. Service!Attach(c, x)
    BY <2>1, <2>2, <2>3 DEF Service!Attach
  <2> QED
    BY <2>1, <2>4 DEF Service!Next
<1>10. ASSUME NEW c \in Clients, UNCHANGED up, Start(c)
     PROVE  [Service!Next]_Service!vars
  BY <1>10, RepliesKept DEF Start, IInv, Shapes, ClientPCs, Finished, Fates,
         Service!vars
<1>11. ASSUME NEW c \in Clients, UNCHANGED up, CopyOut(c)
     PROVE  [Service!Next]_Service!vars
  BY <1>11, RepliesKept DEF CopyOut, IInv, Shapes, ClientPCs, Finished,
         Fates, Service!vars
<1>12. ASSUME NEW c \in Clients, UNCHANGED up, Write(c)
     PROVE  [Service!Next]_Service!vars
  <2>1. UNCHANGED <<Replies, Fates, joined, size>>
    BY <1>12, RepliesKept
    DEF Write, shared, entryVars, IInv, Shapes, ClientPCs, Finished, Fates
  <2>2. CASE written' = [written EXCEPT ![c] = written[c] + toWrite[c]]
    <3> DEFINE n == written[c] + toWrite[c]
    <3>1. joined[c] # Nobody /\ Replies[c] = "pending"
      BY <1>12 DEF Write, IInv, Joined, Listening, Replies
    <3>2. /\ n \in 0..MaxReply /\ written[c] <= n /\ n <= size[joined[c]]
          /\ written' = [written EXCEPT ![c] = n]
      <4>1. joined[c] \in Entries /\ written[c] \in Int /\ toWrite[c] \in Int
        BY <3>1 DEF IInv, Shapes
      <4>2. size[joined[c]] \in 0..MaxReply
        BY <4>1 DEF IInv, Amounts
      <4>3. /\ written[c] >= 0 /\ toWrite[c] >= 0
            /\ written[c] + toWrite[c] <= size[joined[c]]
        BY <3>1 DEF IInv, Amounts
      <4> QED
        BY <2>2, <4>1, <4>2, <4>3
    <3>3. Replies = [Replies EXCEPT ![c] = "pending"]
      BY <3>1 DEF Replies
    <3>4. Service!Send(c, n, FALSE)
      BY <2>1, <3>1, <3>2, <3>3 DEF Service!Send
    <3> QED
      BY <3>2, <3>4 DEF Service!Next
  <2>3. CASE UNCHANGED written
    BY <2>1, <2>3 DEF Service!vars
  <2> QED
    BY <1>12, <2>2, <2>3 DEF Write
<1>13. ASSUME NEW c \in Clients, UNCHANGED up, Check(c)
     PROVE  [Service!Next]_Service!vars
  <2>1. UNCHANGED <<Fates, joined, written, size>>
    BY <1>13 DEF Check, Fates
  <2>2. CASE state[joined[c]] = "SUCCESS" /\ HasAll(c)
    <3>1. joined[c] \in Entries /\ Replies[c] = "pending"
      BY <1>13 DEF Check, IInv, Shapes, Joined, Listening, Replies
    <3>2. Fates[joined[c]] = "complete" /\ written[c] = size[joined[c]]
      BY <2>2, <3>1 DEF Fates, HasAll
    <3>3. Replies' = [Replies EXCEPT ![c] = "ok"]
      BY <1>13, <2>2, Replied DEF Check, HasAll, IInv, Finished
    <3> DEFINE n == size[joined[c]]
    <3>4. n \in 0..MaxReply /\ joined[c] # Nobody
      BY <3>1 DEF IInv, Amounts
    <3>5. n = written[c] /\ written' = [written EXCEPT ![c] = n]
      BY <2>1, <3>2 DEF IInv, Shapes
    <3>6. written[c] <= n /\ n <= size[joined[c]]
      BY <3>4, <3>5
    <3>7. Service!Send(c, n, TRUE)
      BY <2>1, <3>1, <3>2, <3>3, <3>4, <3>5, <3>6, Zenon DEF Service!Send
    <3> QED
      BY <3>4, <3>7 DEF Service!Next
  <2>3. CASE ~(state[joined[c]] = "SUCCESS" /\ HasAll(c))
    <3>1. UNCHANGED Replies
      BY <1>13, <2>3, RepliesKept DEF Check, IInv, ClientPCs, Finished
    <3> QED
      BY <2>1, <3>1 DEF Service!vars
  <2> QED
    BY <2>2, <2>3
<1>14. ASSUME NEW c \in Clients, UNCHANGED up, SpuriousWakeup(c)
     PROVE  [Service!Next]_Service!vars
  BY <1>14, RepliesKept DEF SpuriousWakeup, shared, entryVars, IInv, Shapes,
         ClientPCs, Finished, Fates, Service!vars
<1>15. ASSUME NEW c \in Clients, UNCHANGED up, Wake(c)
     PROVE  [Service!Next]_Service!vars
  BY <1>15, RepliesKept DEF Wake, IInv, Shapes, ClientPCs, Finished, Fates,
         Service!vars
<1>16. ASSUME NEW c \in Clients, UNCHANGED up, Leave(c)
     PROVE  [Service!Next]_Service!vars
  BY <1>16, RepliesKept DEF Leave, IInv, Shapes, ClientPCs, Finished, Fates,
         Service!vars
<1>17. ASSUME NEW c \in Clients, UNCHANGED up, SendError(c)
     PROVE  [Service!Next]_Service!vars
  <2>1. Replies[c] = "pending" /\ Replies' = [Replies EXCEPT ![c] = "error"]
    BY <1>17, Replied DEF SendError, IInv, Replies, Finished
  <2>2. Service!Fail(c)
    BY <1>17, <2>1 DEF SendError, shared, entryVars, Service!Fail, Fates
  <2> QED
    BY <2>2 DEF Service!Next
<1>18. ASSUME NEW l \in Loaders, UNCHANGED up, Begin(l)
     PROVE  [Service!Next]_Service!vars
  BY <1>18 DEF Begin, shared, entryVars, clientVars, Replies, Fates,
         Service!vars
<1>19. ASSUME NEW l \in Loaders, UNCHANGED up, Read(l)
     PROVE  [Service!Next]_Service!vars
  BY <1>19 DEF Read, shared, entryVars, clientVars, Replies, Fates,
         Service!vars
<1>20. ASSUME NEW l \in Loaders, UNCHANGED up, AppendData(l)
     PROVE  [Service!Next]_Service!vars
  <2> DEFINE n == size[l] + chunk[l]
             last == verdict[l] # "partial"
  <2>1. loads[l] = l /\ state[l] = "LOADING" /\ n \in 0..MaxReply /\ size[l] <= n
    BY <1>20
    DEF AppendData, IInv, Sockets, LoaderOwnsEntry, Stages, Lifecycle, Amounts
  <2>2. size' = [size EXCEPT ![l] = n] /\ UNCHANGED <<Replies, joined, written>>
    BY <1>20, <2>1 DEF AppendData, clientVars, Replies
  <2>3. Fates' = [Fates EXCEPT ![l] = IF last THEN "complete" ELSE "open"]
    BY <1>20, <2>1 DEF AppendData, IInv, Shapes, Fates
  <2>4. Fates[l] = "open"
    BY <2>1 DEF Fates
  <2>5. Service!Store(l, n, last)
    BY <2>1, <2>2, <2>3, <2>4 DEF Service!Store
  <2>6. last \in BOOLEAN
    OBVIOUS
  <2> QED
    BY <2>1, <2>5, <2>6 DEF Service!Next
<1>21. ASSUME NEW l \in Loaders, UNCHANGED up, Evict(l)
     PROVE  [Service!Next]_Service!vars
  BY <1>21 DEF Evict, entryVars, clientVars, Replies, Fates, Service!vars
<1>22. ASSUME NEW l \in Loaders, UNCHANGED up, Poll(l)
     PROVE  [Service!Next]_Service!vars
  BY <1>22 DEF Poll, shared, entryVars, clientVars, Replies, Fates,
         Service!vars
<1>23. ASSUME NEW l \in Loaders, UNCHANGED up, Recheck(l)
     PROVE  [Service!Next]_Service!vars
  BY <1>23 DEF Recheck, entryVars, clientVars, Replies, Fates, Service!vars
<1>24. ASSUME NEW l \in Loaders, UNCHANGED up, Notify(l)
     PROVE  [Service!Next]_Service!vars
  <2>1. UNCHANGED Replies
    BY <1>24, BroadcastPending DEF Notify, IInv, Shapes, Sockets, LoaderOwnsEntry
  <2> QED
    BY <1>24, <2>1 DEF Notify, Fates, Service!vars
<1>25. ASSUME NEW l \in Loaders, UNCHANGED up, Fail(l)
     PROVE  [Service!Next]_Service!vars
  <2>1. loads[l] = l /\ state[l] = "LOADING"
    BY <1>25 DEF Fail, IInv, Sockets, LoaderOwnsEntry, Stages, Lifecycle
  <2>2. UNCHANGED Replies
    BY <1>25, <2>1, BroadcastPending DEF Fail, IInv
  <2>3. Fates[l] = "open"
    BY <2>1 DEF Fates
  <2>4. Fates' = [Fates EXCEPT ![l] = "broken"]
    <3>1. \A e \in Entries : state'[e] = IF e = l THEN "FAILED" ELSE state[e]
      BY <1>25, <2>1 DEF Fail, IInv, Shapes
    <3> QED
      BY <3>1 DEF Fates
  <2>5. UNCHANGED <<joined, written, size>>
    BY <1>25 DEF Fail
  <2>6. Replies' = [c \in Clients |-> IF c \in {} THEN "error" ELSE Replies[c]]
    BY <2>2 DEF Replies
  <2>7. size' = [size EXCEPT ![l] = size[l]] /\ size[l] \in 0..MaxReply
    BY <2>5 DEF IInv, Shapes, Amounts
  <2>8. Service!Break(l, size[l], {})
    <3>1. size[l] >= size[l] /\ \A c \in {} : Replies[c] = "pending" /\ joined[c] = l
      BY <2>7
    <3> QED
      BY <2>3, <2>4, <2>5, <2>6, <2>7, <3>1 DEF Service!Break
  <2> QED
    BY <2>7, <2>8 DEF Service!Next
<1>26. ASSUME NEW l \in Loaders, UNCHANGED up, Close(l)
     PROVE  [Service!Next]_Service!vars
  BY <1>26 DEF Close, shared, entryVars, clientVars, Replies, Fates,
         Service!vars
<1> QED
  BY <1>1, <1>2, <1>3, <1>4, <1>5, <1>6, <1>7, <1>8, <1>9, <1>10, <1>11,
     <1>12, <1>13, <1>14, <1>15, <1>16, <1>17, <1>18, <1>19, <1>20, <1>21,
     <1>22, <1>23, <1>24, <1>25, <1>26 DEF Next, Idle, ClientStep,
         LoaderStep, Arrive, Work, Deliver

(* The threads implement the service (Implements): with any number of      *)
(* clients, keys and sockets, a client is sent a growing prefix of one     *)
(* download, and released without an error only with all of a whole reply. *)
THEOREM Refinement == Spec => Implements
PROOF
<1>1. Init => Service!Init
  BY InitRefined
<1>2. IInv /\ IInv' /\ [Next]_vars => [Service!Next]_Service!vars
  BY StepRefined
<1> QED
  BY <1>1, <1>2, Invariance, PTL DEF Spec, Implements, Service!Spec
=============================================================================
