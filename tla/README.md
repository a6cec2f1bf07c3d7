# nsu-tr-labs: models, checks and proofs

The repository holds the exercises of a course on POSIX threads (`src/tasks.html` is the task
text): small C programs that exercise one synchronisation primitive each, and two caching HTTP
proxies, a single-threaded one built on `poll` (`lab31`) and one with a thread per connection
(`lab32`).  This directory holds TLA+ models of that code, TLC configurations that check them on
small instances, and proofs, checked by TLAPS, of theorems that hold for every instance.

## 1. Inventory

### The proxies

| component | state | operations | interacts through |
|---|---|---|---|
| **lab32 threaded proxy** `lab32/src/proxy/Proxy.h`, `CacheEntry.h`, `pthread_helpers.h` | `cache`, `fd_to_cache` (both under `cache_lock`); for each entry `state`, `data`, `lock`, `data_change_cv`, atomic `listeners_count`; for each client thread what it has written | `run` accepts and spawns; `process_client_connection` looks up, connects, inserts, spawns a loader, joins, copies out, waits; `process_resource_connection` reads, appends, evicts, gives up, broadcasts, fails | shared maps and entries, two kinds of lock, a condition variable, an atomic counter, detached threads, sockets whose numbers are reused |
| **lab31 poll proxy** `lab31/src/proxy/Proxy.h`, `PollfdsManager.h` | the `pollfd` list, `client_parsers`, `resource_parsers`, `writers`, `cache`, `cache_loaders`, `paused fds` | `run` polls and dispatches each ready descriptor to `connect`, `read_from_client`, `read_from_resource` or `write` | one thread; callbacks from `poll` in list order; a per-descriptor table of what to do when the write is done |
| **HTTP parser** `http_parser.c` (vendored in both), `http_callbacks.h` | one `http_parser` and one `custom_data_t` per message | `http_parser_execute` on each piece that is read, with 0 bytes at the peer's close; five callbacks | called by both proxies, which act on `done` and `http_errno` and look up the address and the host in what the callbacks keep |
| **Proxy tests** `proxy-testing-lab/` | an origin server and a client | requests of good, failing and large pages | tell what the proxies are to do; not modelled |
| **plog** (vendored), `main.cpp`, `utils.h` | log appenders; start-up | logging, argument parsing | not modelled |

### The exercises

| component | what it does | hard part |
|---|---|---|
| **lab1, lab3, lab4** | create, join and cancel threads | what is printed before the process or the thread ends |
| **lab6** `sleep-sort.c` | a thread for each line, released by a barrier, sleeps as long as its line | counting lines at the limit of 100 |
| **lab8** `pi-serial.c` | partial sums of a series by thread | every term summed exactly once |
| **lab9** `pi-serial-inf.c` | the same without end; a signal sets a flag, a barrier aligns the threads | all must leave after the same round |
| **lab10** `din-phil.c` | dining philosophers, a counter of dishes, a semaphore for one fewer seat than forks | deadlock; the counter at its end |
| **lab11** `one-two.c` | two threads alternate ten lines each, with a mutex and a turn variable | strict alternation, idle loops |
| **lab11-3-mutex** | the same with three mutexes in rotation | the start, which relies on a sleep |
| **lab13** | the same with a condition variable | a signal sent before the other waits |
| **lab14** | the same with two semaphores | strict alternation |
| **lab16** | the same by two processes with named semaphores | what a crashed run leaves in the names |

Left out of the models: the vendored logger, start-up code, the text of requests and error pages,
the test scripts, and those features of the parser that no program here calls (section 5).
`PROJECT.json` lists every component with the reason, and every hazard at its line.

### What is hard here, and what makes each part correct

* **lab32.**  A client gives `cache_lock` back before it takes an entry's lock; a loader takes
  `cache_lock` with its entry's lock held (`Proxy.h:309`, `:317`).  A socket number is given out
  again while `fd_to_cache` still has what its last owner left.  A loader stops a download on the
  word of a counter it reads twice, once without `cache_lock`.  A client sleeps on a condition
  variable after writing with no lock held.  Correct means: the locks exclude and do not deadlock,
  the counter is exact, no loader takes another's entry, no client is abandoned or left asleep, and
  a client that is closed without an error has the whole of its own reply.
* **lab31.**  Nothing is concurrent but the order in which descriptors become ready, and that is
  enough: `active_fds` is computed before the first handler runs, a number may be listed twice for
  a moment, `remove_fd` takes the first, handlers for one number are spread over three maps, and a
  closed number comes back at once.  Correct means: the list and the maps agree, no event of a
  round is stale, nobody is dropped between two maps, and each connection is sent its own reply
  from where it left off.
* **The parser.**  A message comes in pieces cut anywhere; a symbol may be looked at several times,
  in several states (`REEXECUTE`); a length is announced by a header, by chunks, by a close, or in
  two contradictory ways; the callbacks get a word in parts when a read has split it.  Correct
  means: a proxy goes on reading until exactly the end the message announces, however it was cut;
  a message that contradicts itself is refused; the asserts hold; every call returns; the key of
  the cache is what the client sent.
* **The printing programs.**  Correct means strict alternation, all lines printed, and nothing
  left locked or named at the end.
* **lab10.**  Neighbours never eat together, no deadlock, no dish lost or served twice.
* **lab9.**  All threads sum the same piece of the series, and after SIGINT leave in the same round.
* **lab8, lab6, lab4, lab1, lab3.**  Every term is summed once whatever the rest of the division;
  lines come out by length however late their threads were created; a cleanup handler runs once
  wherever the cancellation comes; nobody that `main` waits for is cut short.
* **lab16 started again.**  What a killed run leaves under the names must not give two processes
  the right to print.

## 2. Modules

```
            ProxyService                        OneTwo
             ^        ^                            ^
   implements|        |implements        implement | (each EXTENDS it)
   ThreadedProxy   PollProxy        OneTwoMutex  OneTwoChain  OneTwoCondition
       ^   ^         ^   ^          OneTwoSemaphores  OneTwoProcesses <- OneTwoRestarted
 MCThreadedProxy  MCPollProxy           ^ INSTANCE                     (EXTENDS)
  ThreadedProxyProofs  PollListProofs   MCExercises <- TurnProofs <- ExercisesProofs
                        ^ EXTENDS       | INSTANCE
                  PollProxyProofs       PiBarrier  FixedSeries  SleepSort
                        ^ EXTENDS       FirstThreads  Cancellation  OneTwoRestarted
                  PollServiceProofs
   HttpMessage <- HttpParser <- MCHttpParser
                      ^ EXTENDS
               HttpParserProofs         Dinner <- DinnerProofs
```

`ProxyService` is what both proxies promise and says nothing of threads or descriptors: a client
is attached to one download, is sent a growing prefix of it, and is released without an error only
with all of a complete one.  Both proxies are shown to implement it, through a refinement mapping
at the end of each module (`Replies`, `Fates`, and the entry a client joined as its `source`).
`OneTwo` is the same for the five printing programs.

### ThreadedProxy (lab32)

A client makes at most one entry and starts at most one loader, so an entry and a loader carry the
name of the client that made them; the entry a key leads to, or a loader works on, may still be
anyone's.  A step runs from one acquisition of a lock, or one access to unlocked shared state, to
the next.  Locks held across steps are the variables `cacheLocked` and `locked`; their owners are
read off the program counters, which is what `Exclusion` checks.  Replies are lengths in units;
the parser's verdict is a choice of `Read`, and `HttpParser` says when it is which.

| code (`lab32/src/proxy/Proxy.h`) | variables | actions |
|---|---|---|
| `run` 74-105 | `up`, `pc` | `Accept`, `AcceptFails` |
| `process_client_connection`, request | `pc` | `ReadRequest` |
| lookup and insertion under `cache_lock` | `cache`, `fdToCache`, `cacheLocked`, `state` | `Lookup`, `Connect`, `Insert`, `Spawn`, `Join` |
| its writing loop | `locked`, `joined`, `written`, `toWrite`, `listeners` | `Start`, `CopyOut`, `Write`, `Check`, `Wake`, `Leave`, `SendError` |
| `pthread_cond_wait` returning unsignalled | | `SpuriousWakeup` |
| `process_resource_connection` | `lpc`, `fd`, `loads`, `chunk`, `verdict`, `ending`, `silent`, `size` | `Begin`, `Read`, `AppendData`, `Evict`, `Poll`, `Recheck`, `Notify`, `Fail`, `Close` |

`Poll` then `Recheck` are the two looks at `listeners_count`; `Evict` and `Recheck` take
`cache_lock` with the entry's lock still held, as the code does.  `Insert` overwrites what another
client of the key has inserted meanwhile, as the code does.

### PollProxy (lab31)

One action is one handler, whole: the loop is sequential, so nothing comes between the statements
of a handler.  `Poll(S)` is `make_poll`: any non-empty set of listed descriptors may be ready, the
listening socket first; a closed one is always ready (POLLNVAL).  `round` is what is left of
`active_fds`; every other action takes its head (`Turn`).  The kernel gives out the lowest free
number (`NewFd`).

| code (`lab31/src/proxy/`) | variables | actions and operators |
|---|---|---|
| `PollfdsManager` | `polled` | `AddFd`, `First`, `SwitchFd`, `RemoveFd`, `Poll` |
| `Proxy.h` `run` 63-85 | `up`, `round` | `Turn`, `Dispatch`, `WhatIsIt` |
| `connect` 87-113 | `clientAt`, `clientParsers` | `Connect`, `Dies` |
| `read_from_client` 115-202, `create_resource_request` | `cache`, `loaders`, `waiting`, `fetch` | `ReadMore`, `RejectRequest`, `AnswerFromCache`, `AwaitLoading`, `StartDownload`, `StartWithoutSocket` |
| `read_from_resource` 204-305 | `resourceParsers`, `size`, `writers` | `LoadSome`, `LoadLast`, `LoadFails`, and `Dies` where the loader's entry is gone |
| `write` 307-369 | `writers` | `WriteSome`, `WriteFails` |

`clientAt` and `originAt` stand for the descriptor table of the kernel; `client`, `joined` and
`got` say, for the properties, what a connection has come to.  What the code does wrong after a
failure is part of the model: a failed download leaves its listeners' numbers in `writers` and in
the poll list, and a failed write leaves its entry in the cache.

### HttpParser (the parser of both proxies)

One action is one pass through the `switch` of `http_parser_execute` for one state, and has that
state's name: it looks at the next symbol and consumes it, looks at it again in another state
(`REEXECUTE`; then `again`), or fails.  The model is as coarse as the parser's own callbacks allow:

* A word (a method, a name, `chunked`, a stretch of a path) is one symbol.  The states in the
  middle of matching a word are therefore gone, and a read never ends inside a word; digits,
  separators, blanks and line ends are single symbols, and a read may end between any two.  A word
  that consists of several symbols, such as an address or a value, can be split; `torn` notes that
  a callback was given such a word in two parts.
* Header bytes are counted by symbols, so `max_header_size` is a small number; so is `ULLONG_MAX`,
  and the check before each digit is the code's.
* `Read(n)` is what a proxy does after `read` (another `n` symbols, or all there are, and only
  while the proxy still reads), `Eof` is the call with length 0, and `Outcome` what a proxy makes of
  the result: `done`, `failed`, `reading`, or `silent`, where the peer has closed and the parser
  takes it for neither an end nor an error.

| code (`lab31/src/proxy/http_parser.c`) | variables | actions |
|---|---|---|
| start line, 716-1204 | `parser.state`, `.method`, `.status_code`, `.version` | `FirstLine`, with `parse_url_char` as `UrlRule` |
| header lines, 1206-1793, and the decision at their end, 1795-1942 | `.header_state`, `.flags`, `.content_length`, `.uses_transfer_encoding`, `.nread` | `HeaderLines` |
| bodies and chunks, 1944-2117 | `.content_length` | `Body` |
| `http_callbacks.h` | `data`: `done`, `headers`, `next_header_value`, `url` | in the actions at whose end the code calls them |

`HttpMessage` is not translated from this code.  It is the reference the parser is compared with: a
message as a record, the symbols it is sent as, and what RFC 7230 3.3.3, which the parser cites,
says of where it ends (`Framing`, `End`) and of what is contradictory (`WellFormed`, `Malformed`).
`Peculiar` names the three things the parser takes its own way and of which nothing is claimed: it
waits for the body that a 1xx, 204 or 304 announces; a header whose name only begins with
`transfer-encoding` counts as that header (`http_parser.c:1346`); and the first character of a value
is not looked at.

### The exercises

| module | code | state |
|---|---|---|
| `OneTwoMutex` | `lab11/one-two.c` | the mutex' `holder`, `who` |
| `OneTwoChain` | `lab11-3-mutex/one-two.c` | `mutexes[0..2]`; that the sleep at the start is long enough is `SleptLongEnough`, a guard of `WakeUp` |
| `OneTwoCondition` | `lab13/one-two.c` | `holder`, `who`, `asleep`; `SpuriousWakeup` |
| `OneTwoSemaphores` | `lab14/one-two.c`, `sem_polyfill.h` | `semaphore` |
| `OneTwoProcesses` | `lab16/one-two.c`, one run | `semaphore`, `names`, `opened`; the names are free at the start |
| `OneTwoRestarted` | the same, run again and again | `runs` that have ended, killed at any line or by themselves, and `half`, those killed between the two `sem_unlink`; `ForkFails` |
| `Dinner` | `lab10/din-phil.c` | `food`, `sem`, `fork`, and the dish before each philosopher |
| `PiBarrier` | `lab9/pi-serial-inf.c` | `stop`, `exit_next`, who is at the barrier, `rounds` summed |
| `FixedSeries` | `lab8/pi-serial.c` | the number of threads asked for, the `term` each is at, the terms in `result` and, after its join, in `sum` |
| `SleepSort` | `lab6/sleep-sort.c` | the lines read, `total`, a `clock` and when each sleep is `due`, `output`; a thread is less than a unit of 10 ms late |
| `FirstThreads` | `lab1/*.c`, `lab3/main.c` | which `build`, threads `created`, what each has `said` |
| `Cancellation` | `lab4/*.c` | whether cancellation is `requested`, whether the handler is `pushed`, how often it has `begun` |

The operators marked "Mutant of ..." or described as a slip in the comment above them are plausible
mistakes; `PROJECT.json` names, for each property of each passing run, one with which the property
fails.

## 3. Model checking

| run | states | what it asks |
|---|---|---|
| `proxy_safety` | 1 039 576 | lab32, everything that can fail failing: `Exclusion`, `ListenersAccurate`, `LoaderOwnsEntry`, `NoAbandonedEntry`, `NoLostWakeup`, `CompleteReply`, `UncacheableEvicted`, and no deadlock |
| `proxy_liveness` | 215 420 | lab32: a client is answered although another has stopped reading; `Implements` |
| `poll_safety` | 139 314 | lab31 without failures of sockets: `PollListExact`, `RoundFresh`, `WaitedForIsLoading`, `OwnReply`, `PausedUpToDate`, `CompleteReply`, no deadlock; a client who reads is answered although another has stopped (`EventuallyAnswered`); `Implements` |
| `poll_failures` | 729 246 | lab31 with all failures: what still holds is `TypeOK`, `NobodyForgotten` and `CacheUsable` |
| `http_parser` | 112 658 | 268 messages read in all manners: `DoneAtEnd`, `MalformedRefused`, `AssertionsHold`, `KeyRead`, `CallsReturn` |
| `exercises` | 16 167 | all programs but lab10. The five that print in turn: `Alternates` (refinement of `OneTwo`), `EverybodyFinishes`, `LeavesNothing`; lab16 again: `RightsAccountedFor`; lab9: `RoundsTogether`; lab6: `SleepSorted`; lab8, lab4, lab3 and lab1: `DoneOnce` |
| `dinner` | 238 157 | lab10: `NeighboursTakeTurns`, `SeatsCounted`, `DishServedOnce`, `EverythingEaten`, no deadlock |
| `poll_refused` | violated | lab31 after a refused connection: the clients wait for ever |
| `poll_broken_off` | violated | lab31 after an origin that breaks off: the next owner of a number is sent the rest of the old reply |
| `http_key_torn` | violated | a request whose address is read in two parts: the proxies' key is made of the second (`KeyAsSent`) |
| `one_two_lost_signal` | violated | lab13 can lose a signal and sleep for ever |
| `pi_stop` | violated | lab9: a fast thread sets `exit_next` before a slow one has read it |

The violated ones are the findings of `PROJECT.json`, each with the text it contradicts.

**Bounds and why they are enough.**  Two clients on two keys give every pattern of sharing: both
on one entry, each on its own, one joining late, one alone after the other.  With two socket
numbers in `proxy_safety` two loaders may have one each, or the same one after the other.  A
reply of 2 units with buffers of 1 has a first, a last, and an incomplete piece, and a client may
be behind, level or paused at each.  In
`poll_safety` the four numbers are one for each client and each download, so descriptors do not
run out; in `poll_failures` three clients want six and have three, so that they do.  There it takes
the third client for a number to be reused after a failure while others still wait, and the second
key for the request to an origin to get onto a number that a failed download has left a writer
under; its replies have one unit, since no property of that run is about their parts.  The printing
programs run with the ten lines of the code; lab16 is started four times, which takes in two kills
that each leave something behind.  lab9 has four threads, lab8 one to four and seven terms, so that
the division has every rest; lab6 up to four lines where four are the limit, so that it is reached, with
lengths shorter and as long as it may take until the last thread is at the barrier; of four lines
`SleepSorted` claims only order (section 5).  The
messages of `http_parser` have every kind of start line, length, coding, folding, chunk and trailer,
alone and in the contradictory pairs; a request, a reply and a chunked reply also come with a control
character in each place, others with more behind them, a second request among it; 127 as largest number has the code's check reject some numbers
of three digits and accept others, and headers of 26 symbols lie on both sides of the limit.  Pieces of 1, 3 and
all there is, in any mixture, end a read at every symbol.  `dinner` has four philosophers rather than five and
a dish for each, so that all can hold a fork at once; neighbours and strangers both occur.
Symmetry is used only in runs without temporal properties.

**Fairness.**  In `ThreadedProxy` every thread that can take a step eventually takes one (weak
fairness, which the scheduler gives); a lock is not promised to anyone who competes for it for
ever, and need not be, as everyone who holds one lets it go after finitely many.  Nothing is
promised of `Accept`, `ReadRequest` and `SpuriousWakeup`: no client has to come, and no wakeup may
be relied on that nobody sent.  A client in `Stalled` need never take what it is sent, so its
`Deliver` is not fair.  An origin answers every `read` in the end.  In `PollProxy` handlers run to
their end unless they write to a blocking socket that nobody reads (`Blocks`; `AcceptInherits`
says whether accepted sockets inherit non-blocking mode), and `poll`, being level-triggered, finds
a descriptor that is ready again and again (strong fairness of `FindsOrigin` and, but for stalled
clients, `FindsReader`).  In the exercises each thread is weakly fair.  lab11 spins on a mutex, and
weak fairness does not keep a spinning thread from taking it every time: `EverybodyFinishes` claims
termination of lab11 only for behaviours in which each thread gets the mutex again and again.
SIGINT is never promised, nor is a kill or a new run of lab16,
nor any step of lab9, which need not end.  In `HttpParser` only a call that has begun goes on; the
peer owes nothing.

Deadlock checking is on wherever the system is to run on: the two proxies' safety and liveness runs
and `dinner` have an action for the regular end (`Idle`, `Over`), so that TLC reports any other
stop.  It is off for `exercises`, whose programs end and where lab13 does stop half-way, for
`http_parser`, where a message ends, and in the runs that look for a violation.  In `poll_failures`
it is off because a download that was refused leaves clients who are never served.

## 4. Proofs

For all constants that satisfy the assumptions of the modules; TLAPS checks every step.  Fairness
is used by none of them.

**ThreadedProxyProofs** proves every invariant of `proxy_safety` and the refinement of
`ProxyService`, from `ProxyAssumption`: any finite set of clients (finite, because
`ListenersAccurate` counts them), any keys, numbers and sizes.  The inductive invariant `IInv` is a
conjunction of named parts, one lemma for each:
`Lifecycle` (what a program counter says of what its owner has), `Sockets` (two open sockets have
two numbers; before a loader begins `fd_to_cache` leads its number to its own entry, which is what
makes a stale row harmless), `Cached` and `Joined` (keys), `Exclusion`, `ListenersAccurate`,
`Stages` (a loader closes its entry once, and ends without closing it only if the entry is `Given`
up: out of the cache and with no listener), `Verdicts`, `Amounts`, and the two properties that say
no wakeup is lost and no reply cut short.  `NoAbandonedEntry` is why `Recheck` must look again under
`cache_lock`: only there do `Cached` and `ListenersAccurate` together exclude a client between the
two.

`DeadlockFree` says that the locks do not deadlock, although a loader takes `cache_lock` with its
entry's lock in hand and clients take both (`NoDeadlock`): who has `cache_lock` never waits for
anything (`Exclusion` says who that is), who has an entry's lock waits for `cache_lock` at the
most, and who sleeps has a loader that has not ended, except where `pthread_create` has failed
(`Loaded`: an entry gets its loader before anybody can join it).  `ClientCanGo` and `LoaderCanGo` are the guards of the actions, written out.

**PollProxyProofs** proves, from `PollAssumption` alone, whatever origins and sockets do,
`CacheUsable`, `NobodyForgotten` and `TypeOK`.  None is inductive.  `Numbers` says that a connection
has one number and that a client whose request is being read has no entry, `Downloads` that a number
loads an entry only as long as the entry is loading and that one number does, `Filed` that a
request is filed with an entry that was made, `Found` strengthens `NobodyForgotten` by the entry
(together `IInv`).  For the types, `Sizes` bounds what a writer has written by what its entry has,
and what an entry has by the longest reply unless its download failed.  The proof showed `TypeOK`
to be wrong as it had been stated, and as a smaller run had confirmed it: a request to an origin may
end up under a writer that cleans up, when the connection has got the number of a client that a
failed download has left behind.  `poll_failures` has bounds that include the case.

**PollServiceProofs** proves what a reader of `lab31` would like to be told, for any number of
clients, keys and descriptors: `PollListExact`, `RoundFresh`, `OwnReply`, `PausedUpToDate`,
`CompleteReply`, and that the loop implements `ProxyService`.  All of it under the hypothesis
`NoFailures`: no origin refuses a connection or breaks a reply off.  It is needed, not convenient:
`poll_broken_off` shows that with a broken-off reply a client is sent another's.  Everything else
may happen: clients stall, hang up and send nonsense, writes fail or block, `accept` fails,
an origin closes without a reply, and numbers run out.  The inductive invariant `SInv` (besides
`TInv`, the one above) says in one place what the code keeps in four:

* `Kinds`: every number is closed and unknown to every map; or a client whose request is read; or a
  client that waits for its first unit; or one that is sent its reply, with as much of it written as
  the client got; or an origin that its entry is loaded from.  Each kind says what all the maps have.
* `PolledExact`: no number is listed twice, and exactly those are listed that a map has a handler
  for.  Each handler changes the list by `SwitchFd`, `AddFd` and `RemoveFd`, and **PollListProofs**
  says what these do to a list of any length, where the first entry of a number stands, and that
  the numbers `poll` reports are those of a set of entries, each once.
* `Paused`: who is polled for nothing has written all that its entry has.
* `RoundExact`: the rest of `active_fds` names nobody twice and only numbers that still have a
  handler.  It survives `close` because a handler closes only the number whose turn it is, and that
  has left the round.
* `Customers`: who was closed without an error has the size of an entry that is whole.

`WaitedForIsLoading` needs one hypothesis more, `Room`: two numbers for each client.  Without a
number for the download `StartWithoutSocket` files it under -1 and leaves the entry LOADING, and
whoever asks for that key waits for ever; `NumberLeft` counts that with room this does not happen.
`OnlyOwnReplySent` proves without failures the very action property that `poll_broken_off` refutes
with them.

**TurnProofs** proves `Alternates`, that is, refinement of `OneTwo`, for any number of
lines, of each of the five programs.  All use `Balanced` (the parent is level or one ahead).  For the
mutex and the condition variable, `FlagTrue` says that the flag names whose turn it is but for the
holder who has printed and not yet handed over.  For semaphores and processes, `OneRight`: exactly
one right to print exists, in a semaphore, in a hand, or on its way.  For the chain, `Owners` and
`TurnReady` say who holds which mutex of the three; it rests on the guard `SleptLongEnough`.  lab16
rests on the names being free at the start.  From the same invariants `NobodyStuck` follows for
lab11, lab11-3-mutex, lab14 and lab16: until all is printed one of the two can go on.  In all of them
but lab11, which spins, every step leaves one fewer (`StepsCount`), so that they end under every
scheduler, fair or not.  lab13 is not among them: `one_two_lost_signal` shows that it can stop.

**ExercisesProofs** proves every invariant of the run `exercises`, and `Alternates`, about the
specification of that run, for any number of lines, threads, terms and runs.  `Kept` says that the
program that runs keeps its own invariant, and what it does not use stays put; then
`LeavesNothing`, `RightsAccountedFor`, `RoundsTogether`, `SleepSorted`, `DoneOnce` and `TypeOK`
follow from the invariants, one for each program:

* lab9, `OneRound`: there is a round from which all threads count, and those that have checked in
  are one further.
* lab16 started again, `RightsBounded`: the rights in semaphores that still exist, in hands, and yet
  to come from the `sem_open` of this run are one and one for each run killed between the two
  `sem_unlink`; `Names` says which names may be there at which line.
* lab8, `Added`: what a thread has added are its own terms below the one it is at; arithmetic on
  remainders (`OneRemainder`, `SameRemainder`) makes them all terms, each once, when main has joined.
* lab6: `BeforeBarrier` or `AfterBarrier`, where all threads are due at one instant plus their line's
  length, and `Punctual`: none sleeps past its time.  That a sleeper is punctual is the model's
  assumption; that the barrier makes it enough is what is proved.
* lab4, `Cleanup`: at which line the handler is pushed, and how often it has begun.  lab1 and lab3,
  `FirstInv`: who has been created, joined and cut short.

**DinnerProofs** proves the type invariant, `NeighboursTakeTurns`, `SeatsCounted` and
`DishServedOnce` for any table, any number of seats below that of philosophers, and any number of
dishes.  `ForksHeld` ties a fork's holder to his place in the program, `SeatsCounted` the semaphore
to the number of those seated, `DishesGiven` the dishes to who has them.  `NoDeadlock` needs all
three: if nobody can go on, a philosopher at the table has one fork and waits for that of the next,
who therefore is at the table too, and so on around it, until all are seated; but one seat fewer has
been given out.  `DinnerDwindles` counts the steps that are left.

**HttpParserProofs** proves `TypeOK` and `AssertionsHold` for every set of messages, good, bad or
garbled, cut into reads of any length.  It assumes that messages are sequences of symbols, that a
read returns something, that a header may have one byte or more, and that `ULLONG_MAX` is at least
16; it is 2^64 - 1 in the code.  `AssertionsHold` is not inductive: an assert speaks of one state,
and why it holds lies in the states before.  `Consistent` carries the facts along: the flag
`F_CHUNKED` is set in all states of a chunk, their length is never the value for "unknown", and the
header count is 0, and its next symbol not looked at, where the next chunk begins.  The two tests
before a digit (`TenMore`, `SixteenMore`) keep the length below the largest number, in chunks
strictly; `ToRead` says that a pass over a body reads at least one byte and not more than are left,
so that the length reaches 0 exactly when the state is left.  `IInv` adds that a call goes on only
while there is something to look at, and that an error is final; `Changed`, `Fits` and `Passes`
reduce each pass through the switch to the fields it sets.

`NoPassInVain` is about the passes that look at a symbol again in another state (`REEXECUTE`, and the
jumps of the values): `LooksLeft` gives each state the number of such passes that may follow, and
every pass consumes something, ends the call or goes to a state with fewer.

`EndsAtEmptyLine` and `KeyReadExactly` are about every message, not only a well-formed one, and every
way to split it.  The first: a request is done with where its text has an empty line, and none
before it.  The second proves `KeyRead`, about the moment at which the proxies make their key, which
is when the call has returned with `done` set and not when `on_headers_complete` sets it: the first
empty line has been consumed, the address is the second word of the text, and the map has a name for
each line and the last value given for it.  The text is described by itself (`EmptyLine`,
`AddressAt`, `NameAt`, `ValueAt`), by positions and classes of symbols, not by the parser's states.
Address and map are claimed on two conditions, both about what was read: `~torn`, that no callback
got a word in parts, and that behind the request there were only ends of lines.  Neither can be
dropped.  `http_key_torn` shows what becomes of the key without the first: of a word that a read
has split only the part behind it is kept, and nothing if the read ended just behind the word.  The
second is in section 5.  The end of the header needs neither.

The proof has four layers.  `ExecutePass` reads each state of the switch that a request's header can
be in as one row of a table (`LinePass`, `FieldPass`, `ValuePass`, `LastPass`): from which state to which,
past which symbols, with what heard; `InHeader` says that the count of header bytes is the place in the
text, which is why no byte counts twice.  `LastSymbols` and `Begun` say, for each state, what the last symbols
are and that no empty line has been passed (`InText`).  On these rest `Addressed`, where
the address is (still to come, begun at the mark, or kept), and `Fielded`, the same for the
line that is being read and the lines before it; `KeptAdds` is the step from one line to the next.
From the header's end to the return, `InKey` keeps what has been taken: while only ends of lines
follow, the parser stays in the states of `Quiet`, whose passes call nothing that writes to address
or map (`QuietPass`), whatever body the header has announced.

**Only model-checked:** what must eventually happen under fairness (`EventuallyAnswered`,
`EverybodyFinishes`, `EverythingEaten`, `CallsReturn`), which is out of the prover's reach, as is
`ENABLED`.  What is proved in their place are the safety halves: that somebody can go on
(`DeadlockFree`, `NoDeadlock`, `NobodyStuck`), with the guards written out as state predicates, which
TLC has compared with `ENABLED` on the instances of the runs; and that steps are not repeated for
ever (`DinnerDwindles`, `StepsCount`, `NoPassInVain`).  For lab31 absence of deadlock is only
model-checked.  `DoneAtEnd` and `MalformedRefused` of `HttpParser` compare what the parser
has done with what the whole of a message says, lengths and chunks included, which `HttpMessage`
reads from it with folds and selections over sequences of any length: induction over data.  For the header of a
request `EndsAtEmptyLine` says the like in terms of the text; for bodies, only TLC does.

## 5. Not modelled, and why

* Of the parser: parsers of both kinds at once (`HTTP_BOTH`), pausing, lenient parsing,
  `on_headers_complete` returning 1 or 2, and `http_parser_parse_url`.  No program here uses them.
  Messages with several `Transfer-Encoding` lines, or with such a line folded inside its list, are
  not among those checked; nor is a list that begins with a comma.
* The logger, start-up, and the text of requests and error pages: no state depends on them.
* The sums of lab8 and lab9, lab10's meal times.
* lab16: `sem_wait` and `sem_post` do not fail.  lab6: a thread is not a whole 10 ms late, which the
  program relies on.

What the models show and no run of its own records, because no text here promises otherwise,
because it is a matter of the system, or because it takes no model to see:

* Nothing is promised when a loader cannot be created in lab32: the entry stays LOADING and its
  later clients wait.  `Spawn` models the failure, and the safety properties are checked with it.
* Two lab32 clients that miss at the same time both download; the later entry replaces the other.
  It costs a download and no reply, so no property forbids it.
* On systems where `accept` does not hand on non-blocking mode, one lab31 client that stops reading
  stops the loop (`Blocks`).  `poll_safety` assumes that it does (`AcceptInherits`).
* A second request that is read together with the first is written over its address and lines before
  the proxy looks at them.  The run `http_key_torn` stops at the shorter trace, of a word read in two
  parts; `KeyAsSent` fails for this reason too when `~torn` is added to it.  Bytes behind the
  end of a reply, in the same read, make an error of a reply that was whole (`ReadOn`).
* An origin or client that closes before its first byte is neither done nor an error (`silent`,
  `OriginMayBeSilent`); the reading loop of lab32 then spins, and so does `poll` in lab31.
* lab16: a run killed between its two `sem_unlink` can leave the next with two rights to print; any
  run killed with the right in its hand leaves none, and the next waits for ever.
* lab6 prints nothing for exactly 100 lines, since `total` is set only when `fgets` fails
  (`sleep-sort.c:20`) and there is no barrier for no thread.  It is a bug: `tasks.html:64` allows
  "не более 100 строк" and wants them printed.  The run `exercises` has such behaviours, which end
  in `failed`; `SleepSorted` says that no smaller number of lines ends so, but for none at all, and
  leaves open what is done with the largest, so that it holds of a corrected program as well.
* A failed download stays in the cache of lab32: the catch clause at `Proxy.h:334` marks the entry
  FAILED, and every later client of the key is sent an error without a new download.  lab31 erases
  such an entry (`lab31/src/proxy/Proxy.h:299`).  The heading "Do not cache errors" in
  `proxy-testing-lab/requestor.py:42` is about pages of an error status, which lab32 does evict
  (`UncacheableEvicted`), so that no text is contradicted.
* lab8 sums one term more for each thread than `NUM_STEP`, by the test at the end of its loop;
  `EveryTermOnce` says that even those are without gap or repetition.
* lab4's asynchronous thread may be cancelled before its handler is pushed, which then never runs;
  lab1 without a wait may cut its thread's lines short.  `CleanedOnce` and `NobodyCutShort` say when
  neither can be.

## 6. Plan

Written, in this order: `ProxyService`, `ThreadedProxy` with its runs and proofs; `PollProxy` with
its runs; the printing programs, `Dinner`, `PiBarrier`; their proofs; the first proofs about
`PollProxy`; `HttpMessage` and `HttpParser`; the remaining exercises; the proofs about `PollProxy`
without failures and its refinement; the proofs about all exercises and about the asserts of
`HttpParser`; last, the proofs that nothing deadlocks and that the passes of the parser advance, and
`KeyRead` with its proof and what it leaves out, `KeyAsSent`, as a finding.  What could follow: the
extent of bodies and chunks in terms of the text, as `EndsAtEmptyLine` has it for headers.
