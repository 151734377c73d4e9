# Alligator: specifications and proofs

TLA+ models of the parts of Alligator whose correctness depends on order, time
and failure, the TLC runs that check them on small instances, and TLAPS proofs of
the properties that matter most. Paths are relative to the repository root, so
`src/cluster/type.c` here is `src/src/cluster/type.c` in `PROJECT.json`.

## The system

Alligator is one C process around libuv loops. It collects metrics from targets
(clients), accepts pushed metrics (entrypoints), keeps them in namespaces (a
red-black tree of series and an expiry wheel each), and exports them. Several
nodes may form a cluster.

| Part | State | Operations | What makes it hard |
|---|---|---|---|
| operation log (`cluster/type.c`) | ring of entries, begin, end, counters | insert, get, shift | wrap-around, full ring, an entry over the 1 MiB answer budget |
| replication (`cluster/pass.c`, `sync.c`, `handler.c`, `api.c`, `router/oplog.c`) | a log per peer on each node, sync clients, namespaces | push, pass to the servers of a series, pull, apply | lost and partial answers, lines that the receiver skips, requests that outlive their sender, eviction, restart |
| shared lock (`cluster/later.c`, `api.c`, `handler.c`, `sync.c`, `router/sharedlock.c`) | each node's view of holder, lease and warm-up | ask all, grant or renew, take over an answer, crawl or skip | no arbiter; late answers, lost renewals, restart |
| expiry (`metric/expiretree.c`, `metrictree.c`) | four levels of slots, far list, due list, cursor | arm, forget, advance, collect, drain | clock jumps forward and back, cascades, deletion that moves another series |
| TCP and unix clients (`events/client.c`, `context_arg.c`, `common/aggregator.c`) | lock, handle, timeout, period timer, DNS wait, body | crawl, connect, read, timeout, close, delete | every end of a session can meet every other; one-shot timers; freeing under the loop |
| resolver (`resolver/`) | records with ttl, probes with their handles and requests, waiting clients | pick, probe over UDP, a shared UDP socket or TCP, retry, abandon, release | a probe is inside what libuv holds; a send that outlives its query; records that expire between uses |
| awaited oneshots (`common/aggregator.c`, `events/future.c`) | a wait with two owners, its timer, the depth of nested loops | await, answer, time out, delete | late answers, calls that nest and return from the inside out |
| timer cache (`dstructures/uv_cache.c`, `scheduler/`) | closed timers, shared by clients, schedulers and the cluster sync | take, give back, close, sweep | timeout, close, deletion and stop may give back one timer twice; a live one must not be taken |
| worker threads (`events/threads.c`) | a list and an async handle per worker | create, queue, drain, stop, join | wake-ups that fall together, work behind the stop, a loop that cannot be made |
| TCP log sink (`common/log_tcp.c`) | one pending line, three handles, reconnect timer | write from any thread, connect, lose, close | the loss of the connection between the steps of a writer |
| accepted connections (`events/server.c`, `common/http_entrypoint.c`) | collected body, response, idle timer | read, dispatch, write, shut down, close, release | pieces, half-close, reset and timeout during a write |
| file tailer (`events/filetailer.c`, `common/file_stat.c`) | offset, inode, gate and mark per file, pending set, saved offsets | crawl, watch, open, read, close, dump, restore | rotation, truncation, stop and restart in the middle of a read |
| request limits (`common/http_limit.c`) | a schedule per limit or per slot of a table | check a request against all limits of its path | threads with old times, slots reused, a denial after a grant |
| others | see `components` in `PROJECT.json` | | |

Interactions: replication and the shared lock use the clients of
`events/client.c` for their requests; a client asks the shared lock whether it may
crawl and the resolver for its address; parsers hand samples to replication and
to the metric tree.

What should be true of it: a sample is applied at most once, in the namespaces
where it belongs and in order, and is not lost unaccounted; one node crawls a
shared target; a series ends with its deadline, not before and not never; a
client calls its parser at most once per answer, connects again for ever, and is
not freed while the loop has its handle; a file is read to its end, each byte once,
also across a rotation; a limit holds for all threads together; and whatever waits
for a callback, a wake-up or a timer gets it. `hazards` in `PROJECT.json` lists, line
by line, where these could go wrong.

## Modules

| Module | Models | State and actions |
|---|---|---|
| `OplogRing` | the operators of `cluster/type.c` on one ring | a record `[container, begin, end]`; `oplog_record_insert`, `GetStopsAfter`, `ShiftStopsAfter`, `oplog_record_shift` |
| `Oplog` | one log and its callers | `ring`, `reply`; `Insert`, `InsertFails` (no memory), `Shift` (POST), `Get` (GET) |
| `BoundedLog` | what the log promises: a queue of `size - 1` entries that gives up its oldest | abstract specification of `Oplog` |
| `Replication` | `cluster_pass` round by round, `/oplog` requests, answers and their application, timeouts, restart | `rings[n][p]`, `sync[n][p]`, `store[n][namespace]`, `stats` (with a history of the lines skipped), `gone` (history of what was evicted or lost) |
| `Maglev` | the table of primaries: its size, the order of the servers, the fill, lookup | `cn` (the array of servers and the table under construction), `hashes`; one action per call, the loops of `maglev_create_ht` one per slot that is looked at |
| `SharedLock` | `cluster_come_later`, `cluster_aggregate_timer_recurse`, `cluster_set_sharedlock`, `cluster_aggregate_sync_handler` | `holder[n]`, `left[n]` (ttl - now), `updates[n]`, `post[n][m]` (request or answer under way), timers due |
| `ExpireTree` | the wheel, and the deadlines as the metric tree sets them | `key[s]`, `level[s]`, `cursor`; a purge is `expire_purge`, `WalkSecond` per second, `CascadeFar`, `Collect` |
| `Deadlines` | what expiry promises: a table of deadlines, and a purge that takes exactly what is over | abstract specification of `ExpireTree` |
| `TcpClient` | one client: callbacks of `events/client.c`, its start, deletion and DNS wait | `lock`, `handle`, `tt`, `timer`, `parsed`, `cached`, ... ; one action per callback |
| `Await` | `aggregator_oneshot_await` and `uva_await_timeout`, nested | `stack` (the C stack), `wait[i]`, `timer[i]`, `holds[i]` (the client's pointer); `HandlerReturns`, `on_await_timeout`, `AwaitReturns`, ... |
| `ThreadedLoop` | a pool of worker loops and the main thread | `slot[s]` with its list, wake-up and thread; `threaded_loop_queue_work`, `threaded_loop_async_cb`, `Drain`, `Join`, ... |
| `LogTcp` | one sink and the threads that write to it | `sink`, `writer[w]` (a write is three steps: look, leave the line, wake); one action per callback |
| `HttpServer` | one accepted connection after another | `carg`, `peer`, `entry`; one action per callback, the functions they call as operators on `carg` |
| `FileTailer` | a directory aggregate, the files under it and the saved offsets | `tail` (memory), `path`, `size` (files), `stats`, `events` (on their way), `disk`; one action per callback, thread-pool step and writer |
| `HttpLimit` | `http_limit_check` of two limits by several threads | `tat` (shared limit), `bucket` (table of the keyed one), `asked[t]` (request with the time read for it) |
| `DnsProbe` | one probe of the resolver, ephemeral or permanent, and the oneshots that wait for its name | `probe`, a record; one action per callback, the functions they call as operators on the record |
| `TimerCache` | the cached timers and those who take them | `timer[t]` (what libuv knows of it), `cache`, `carg[c]`, `sn[s]`, `stop`; `alligator_cache_get` and `alligator_timer_cache_push` are operators on timers and cache, one action per callback that uses them |
| `OplogRingProofs` | lemmas about the ring, used by the two below | |
| `StoresProofs` | theorems about `ExpireTree` and `Oplog` | |
| `ReplicationProofs`, `ReplicationOrderProofs`, `ReplicationDeliveryProofs` | theorems about `Replication`, each module on top of the one before | |
| `EventLoopProofs` | theorems about `Await`, `ThreadedLoop` and `HttpLimit` | |
| `ConnectionProofs` | theorems about `HttpServer` and `TcpClient` | |
| `PeerProofs` | theorems about `DnsProbe`, `LogTcp` and `SharedLock` | |
| `MCEventLoop` | six parts that have no state in common, side by side | `user` says which of them a behaviour runs |
| `MCStores` | the wheel, the log, the table and the timer cache, side by side | `used` says which of them |
| `MC*` | instances for TLC | |

The modules that an `MC` module puts side by side name their specifications apart:
`LimitSpec`, `AwaitSpec`, `ThreadsSpec`, `SinkSpec`, `ServerSpec`, `ProbeSpec`,
`OplogSpec`. Elsewhere the specification is `Spec`. `Replication` extends `OplogRing`,
with its records as the entries of the rings.

Definitions keep the names of the functions they model; `map` in `PROJECT.json`
gives the lines. A definition whose comment starts with "Mutant" is a wrong
variant of the one after it, with which the property it is listed for fails.

Abstractions worth knowing:

- A log entry is a model value with a length; a sample of `Replication` is its
  number. `cluster_pass` works on one server per round and other nodes act between
  rounds; a node runs one call of it at a time, where an entrypoint with threads
  (`events/server.c:763`) would run several. The text of a line is abstract: `Unfit` is
  the set of lines that `cluster_sync_handler` skips, those that are too long for its
  buffer and those that are incomplete (`cluster/handler.c:56`, `:125`); the sender does
  not know. A line that a timeout cuts off is skipped as incomplete, and counts among what
  is gone. `Primary` stands for the Maglev lookup, the same on every node: that is
  `SamePrimary` of `Maglev`.
- In `Maglev` the names of servers are numbers, ordered as `strcmp` orders them, and the
  two hashes of a name are arbitrary. A cluster is found by its name only when its table
  is complete, so that nobody looks up in between. The product in `maglev_add_node` stays
  below 2^32 for every size that `is_maglev_prime` accepts.
- `TimerCache` has of a session only that it is open, and whether the client is locked:
  its course is in `TcpClient`. The setup of a `fallible` client may fail after the timers
  are armed (`events/client.c:841`, `:849`), which leaves it open and unlocked with both
  timers running; its next connect takes new ones and forgets the old. Where the handle of
  such a session closes, it is taken to be closed before that connect.
  Clients are on the main loop. At the stop
  of the daemon the turns of the loop that `alligator_shutdown_after_loop` grants are
  taken to be enough for what closes.
- `SharedLock` counts time in periods of its timers (10 s each, `main.c`), so the
  lease of 60 s is 6. `set_time` is always written with `ttl` and needs no variable.
  Clocks of the nodes agree. Clients with a period of their own are not covered.
- A purge holds the locks of both trees, so nothing else happens between its
  steps; only its walk is split, one step per second. `metric_delete` and `Collect`
  choose freely which other series the red-black deletion moves.
- Callbacks of one loop do not interrupt each other, so each is one step of
  `TcpClient`. TLS and proxy handshakes are part of the handle state `open`. The
  peer of a `trailing` client may send more after a complete body, which is then parsed
  again (`events/client.c:368` does not look at `parsed`); that of another does not. A
  probe that has ended stays in the table of the resolver until its handles are closed
  (`ended`, `ProbeGone`), and who asks in between waits for it. After a failed setup the
  timeout is taken to come before the next connect. Redirects, streamed bodies, the pause of
  the timeout for revocation checks, the ordered stop of the process and other
  threads' loops are left out.
- In `Await` a client is seen from the caller only: it calls the handler at most
  once, which is `ParsedOnce` of `TcpClient`, or is deleted without a call.
- `ThreadedLoop` numbers the work. Any number of `uv_async_send` before the callback
  runs is one call of it. A worker may fail to make its loop.
- `LogTcp` keeps whether there is a pending line, not its text. A lookup, a connect
  and a write may fail at any time.
- `HttpServer` counts pieces of requests; TLS only changes when a piece arrives. The
  handler is one call, in which the response is made. What is left in `full_body` at the
  release of a connection is parsed then (`events/server.c:164`). A reply that does not
  begin with `HTTP` (`:335`), which a script of a `lang` parser can give, is left out.
- `FileTailer` counts sizes and offsets in slices, the bytes of one read. A file may
  hold a slice before the program starts; with `notify=only` nobody looks at it until an
  event names it. A dump of the offsets whose write fails leaves an empty file. The size of
  a name that is gone is any value, because `get_file_size` does not look at the
  result of `stat`.
- `HttpLimit` has the two limits that differ in kind, one without a key and one with.
  Nanoseconds are a small number of ticks; 64 bits of them last some 580 years.
  Failed allocations are left out here as in the other modules of the event loop.
- `DnsProbe` has one name and one probe at a time, which is what the table of probes
  allows; a freed probe may be followed by another. A handler calls others that call
  back into the same record, so that functions of the code are functions of the
  record. libuv calls back for a closed handle after the requests on it. An answer is
  usable, usable with a ttl of 0, or not usable. `resolver_ephemeral_cancel_wait_send`
  is left out: what it waits for never holds (see below).

## Runs

| Run | Instance | Shows |
|---|---|---|
| `replication` | 2 servers, both series replicated, some lines of one skipped, logs of 2 entries, answers of 2, 3 pushes, 1 timeout | a sample is stored in its own namespaces only, in order and once (`InOrder`), a missing one was evicted, lost or skipped (`NothingUnaccounted`), and both ends count the same but for the lines skipped (`TotalsAgree`) |
| `replication_live` | 2 servers, answers of 2, 2 pushes, 1 timeout, 1 restart, fair | `InOrder` through a restart; without one every sample from the one server that is `Polled` comes to rest (`EventuallySettled`) |
| `shared_lock` | 2 nodes that agree, lease 6, 1 lost exchange | the holder keeps the lease everywhere (`Held`) and each period has one crawl (`ExactlyOnce`) |
| `shared_lock_faults` | 2 nodes from start, lease 1, restart and crash | `AgreementLasts`: only the end of a lease ends an agreement |
| `stores` | `ExpireTree`: 2 series, spans 2, 4, 8, 16, a clock of 8 values up to 20, ttl 1 to 17 and never | `NoneMissed` and the refinement `ImplementsDeadlines` |
| | `Oplog`: 4 slots, budget 3, entries of 1, 2 and 5 bytes, fair | the ring refines `BoundedLog` (`ImplementsBoundedLog`); shifts empty a log that is not written to (`Drains`) |
| | `Maglev`: 1 to 3 servers in any order, tables of 5, 11 and 13 slots, 9 pairs of hashes | the table is that of the reference definition, which knows only the set of servers (`SamePrimary`), and the fill does not run past a row (`WithinRow`) |
| | `TimerCache`: 2 clients, one with a period, the setup of the other may fail, 1 scheduler, 3 timers; and 1 client with a period whose setup may fail, 4 timers | a live timer is with the one owner it calls, a cached one is closed and with nobody, and the stop of the daemon frees them all; only timers that a failed setup made a client lose run without an owner (`OneOwner`) |
| `tcp_client` | every kind of client, fair | `LockedWhileOpen`, `FreedWhenClosed`, `ParsedOnce` for all of them, with the exceptions that they state; clients whose address is steady connect again and again (`SteadyKeepsCrawling`), and oneshots with a literal address and deleted clients are freed (`SteadyOneshotEnds`) |
| `event_loop` | `HttpLimit`: 2 threads, 2 clients, 1 slot | no span of time sees more requests pass than its limit allows (`NeverOverRate`), the reuse of a slot forgets no debt (`NothingForgotten`), a denied request changes no schedule (`DeniedCostsNothing`) |
| | `Await`: 3 calls, depth 2, fair | no pointer to a freed wait or to the result of a call that has returned (`NoDanglingWait`); every call returns (`EveryAwaitReturns`) |
| | `ThreadedLoop`: 2 workers, 2 pieces of work, 2 pools, fair | work runs in order and once, and none of the main thread's is thrown away (`MainWorkIsRun`); no wake-up is lost (`WorkLeavesList`); deletion ends (`JoinReturns`) |
| | `LogTcp`: 2 writers, fair | the sink is freed after its last callback (`FreedLast`), no line blocks the next and a sink does not stay idle (`PendingMoves`) |
| | `HttpServer`: 3 requests of 2 pieces, fair | the response lives while it is written and the connection while libuv holds it (`KeptWhileHeld`), a request is handled once and in order, also by the release (`HandledOnce`), an answered connection is answered again or ends (`AnsweredEnds`) |
| | `DnsProbe`: 3 transports, 2 clients, fair | a probe is freed after its last callback (`ProbeFreedLast`), the shared socket is neither closed nor taken over by a probe (`SharedBindIsKept`), no probe stays in the table and no attempt stays locked (`ProbeEnds`) |
| `file_tailer` | six settings of `state=` and `notify=`, 1 or 2 names, files of 2 slices, 0 or 1 of them there at the start, 1 fault, fair | slices are parsed in order and once (`InOrder`), none is skipped (`NothingSkipped`), saved offsets are respected (`ResumesAtSaved`), every file is read to its end (`EventuallyCaughtUp`) |
| `shared_lock_once` | 2 nodes from start, lease 6, warm-up 16 | counterexample to `OneCrawler` |
| `tcp_client_sync` | a sync client with a literal address | counterexample to `KeepsCrawling` |
| `tailer_watched` | a watched directory, 1 rotation | counterexample to `NothingSkipped` |
| `dns_waiters` | 2 clients of one name, fair | counterexample to `WaitersServed` |

### Bounds

The log wraps, fills and meets an entry below, at and over the budget with four
slots. In `replication` three pushes overflow a log of two while an answer is under
way, and an answer of two can be applied in part. Of the second series the replica lines
and one other are skipped, so that an answer has lines of both kinds. The hashes of `Maglev` make
preferences that are equal, shifted and unlike, and the search for a size passes a
product of primes. Three timers are what two clients use at once, so that each of them
is taken again by another owner; a fourth is what a client needs to lose a period timer and
take another. The spans of `ExpireTree` keep
the ratios of the code's (a power between levels) and the clock passes the whole
wheel, stops at and beside the slot boundaries and goes back. One lost exchange is
what `Held` stands: with two in a row on the same side the lease of a node can run
out. `TcpClient` has finitely many states; its runs are exhaustive for the model.
The lease of `shared_lock_faults` is short so that it runs out often; the two
`shared_lock` runs with lease 6 use the code's own ratio.

In `event_loop` three calls with a depth of two nest, reach the limit and leave a
late answer for a call that has returned. Two pieces of work meet in one wake-up or
come from the main thread and from a worker, and a second pool comes after a deleted
one. Two writers meet at the single pending line. Two pieces are the least for a
request that is complete only with its second read, three requests for one that
follows a follower. One slot and two clients make each client take the other's, five
ticks are longer than the burst and the idle time, and a delay of one tick lets a
later request be checked first. `DnsProbe` is finite but for the number of clients;
the second one asks while the first waits. With more clients and slots the states of the
limiter grow past the time of a run; `EventLoopProofs` covers them. A slot is chosen for each client by itself.
`file_tailer` has one fault per behaviour, of five kinds, at any step; the settings
with `notify=true` and `notify=only` are checked without a rotation and without a
restart, since `tailer_watched` shows what a rotation does there. One fault is also what
`NothingSkipped` of `state=save` and `ResumesAtSaved` stand: the inode is not saved with
the offset, so that a rotation and a restart together apply the offset of one file to
another (see below).

### Fairness

`Oplog`: a peer goes on asking (`WF(Shift)`). `Replication`: a running call goes on,
a request that is made is answered and the answer handled, and the sync clients for the
servers in `Polled` go on asking. That holds for a client with a name which was resolved
after `cluster_recurse` had set its period, and is found at every later lookup. The
client for a literal address stops after its first session, as `tcp_client_sync` shows:
the run has one server of each sort, and `EventuallySettled` asks nothing of the log of
the other. `TcpClient`: the crawl and armed timers of libuv fire, a handle that closes
is called back, a probe ends and then leaves the table, and a name that is looked for
again and again is found again and again. That a probe ends does not mean that a client
which waits for it is told: one that joins it after its end is not
(`resolver/resolver.c:874`, and `dns_waiters`). So `SteadyOneshotEnds` is of oneshots
with a literal address, and a permanent client with a name finds its address at a later crawl.
No peer is ever assumed to answer: the timeout ends every session.

`event_loop`: callbacks that libuv owes are called, armed timers fire, and a worker
thread and the user's handler go on; nobody has to log, connect, answer, hand in
work or delete a pool. For `DnsProbe` that is one assumption on all callbacks together,
since each of them is over once it has been called. `HttpLimit` has safety properties only. `FileTailer`: the
loop goes round, the thread pool works through what it is given and the crawl timer
repeats; nobody has to write, stop or restart.

### Deadlock

The `TcpClient` runs do not check deadlock: a freed client has no further step. Nor
does `dns_waiters`: a stopped daemon asks for nothing.
`event_loop` and the `FileTailer` runs do not either: their parts come to rest when
the bounded callers do, a read error leaves a connection without a further step, and
a stopped tailer puts away what it holds.

## Findings

Each is a run with a counterexample; `findings` in `PROJECT.json` quotes the line
of documentation or comment that it contradicts.

- `shared_lock_once`: two nodes can both hold the lock in their own view, and both
  crawl.
- `tcp_client_sync`: a sync client with a literal or already resolved address gets
  no period timer (`cluster/sync.c:80`), and is not connected again after its first
  session.
- `tailer_watched`: a rotation that is reported while the old file is being read
  resets the offset of the name (`events/filetailer.c:903`); the read then adds the
  bytes of the old file, and the new one is read from past its start.
- `dns_waiters`: a probe that has failed has dropped its waiting oneshots, but stays in
  the table until its handles are closed; a oneshot that asks in between joins it
  (`resolver/resolver.c:874`) and is told by nobody. A record with a ttl of 0 has the
  same effect: the restarted oneshot does not find it in the cache, finds the probe
  still in the table, and the probe is released without dropping anybody.

Further behaviours met while modelling, which the models have and the properties
above exclude by the instance or by a stated exception, or which lie beside them:

- With the default `replica_factor` of 0 a sample pushed to a node that is not its
  primary is neither stored nor logged (`cluster/pass.c:87`); `doc/cluster.md:49` calls the
  `replica_factor` copies extra to that of the primary. The runs use 2;
  `NothingIsUnaccounted` is proved from 1 on.
- With a `replica_factor` of more than the number of servers plus one `cluster_pass` goes
  round the servers (`cluster/pass.c:90`) and gives a replica the same sample again;
  nothing limits the factor (`cluster/push.c:163`). `StoredInOrder` is proved up to that
  number.
- After a restart the ttl of every peer is 0, so a replica namespace that is filled
  before the first sync with its primary is exported beside it
  (`parsers/multiparser.c:189`), which the comment above it means to exclude.
- With some 400 servers and more the search for a prime size of the Maglev table
  asks `is_maglev_prime` for more than it accepts and does not end
  (`cluster/push.c:73`).
- Peer discovery frees the array of servers and its logs and makes new ones, while the
  Maglev table and the sync clients keep their pointers into the old one
  (`cluster/k8s_peers.c:41`); it also takes the servers in the order of the answer, where
  `cluster_push_json` sorts.
- A periodic client whose host's record has expired when its timer fires, and whose
  probe fails, is not armed again (`events/client.c:804`); likewise one that
  `cluster_come_later` turns away (`:760`). They are not among the `Steady` clients.
- A oneshot through a proxy waits for the proxy's name, which
  `aggregator_oneshot_retry_collect` never matches (`common/aggregator.c:279`).
- End of stream or reset before any body closes a oneshot without a call of its
  parser (`events/client.c:380`, `:397`).
- A permanent client that is deleted while it connects has its parser called with
  an empty body: the exception in `ParsedOnce`.
- A failed TLS context or bind unlocks a client whose handle is open
  (`events/client.c:842`); a delete then frees it before the handle is closed.
  `FreedWhenClosed` and `LockedWhileOpen` leave `fallible` clients out. The next connect
  of such a client, if it comes before the timeout, takes new timers and loses the old ones,
  which run on: `OneOwner` lets them be without an owner, and the stop of the daemon does
  not free them.
- A peer that sends more after a body that `tcp_check_full` takes for complete, before the
  connection is shut down, has the whole body parsed again (`events/client.c:368`).
  `ParsedOnce` leaves such peers out.
- A sample whose line is too long for the receiver is enqueued, evicted nowhere, and never
  stored at that home (`cluster/handler.c:57`); the sender's totals do not show it.
  A replica line is longer than that of the primary by the name of the server.
- Two nodes that each name the other as holder can renew each other's lease for as
  long as their requests go on alternating, and neither crawls.
- Accepted connections. `tcp_server_written` frees `response_buffer` after
  `tcp_server_write_complete` has dispatched the next request of a peer that pipelines:
  the buffer freed is the one being written, the request is handled again, and the
  connection gets neither its shutdown nor its idle timer (`events/server.c:352`). The
  properties leave such peers out. A handler that writes no response leaves its
  request in `full_body`, to be parsed again with the next piece and at the release
  (`:164`). A read error other than end of stream, reset or abort leaves the connection open (`:472`).
  `tcp_server_stop` frees a context that accepted connections use (`:814`), and
  `unix_write` closes whatever keep-alive says (`events/unix_server.c`).
- Worker threads. `create_threaded_loop` goes on after some ten seconds with a worker
  that is not ready; `thread_loop_set` frees a pool before it unlinks its node
  (`events/threads.c:214`).
- Timer cache. `cluster_aggregate_timer_recurse` looks at a client that may have been
  deleted since its timer was armed (`cluster/sync.c:97`): nobody points to such a timer,
  and `OneOwner` leaves it out. Clients with a loop of their own (`events/client.c:789`)
  take timers from the same cache without a lock. `alligator_cache_periodical_free` has no
  caller, so that the cache never shrinks.
- Log sink. Closing it while its tcp handle is closing lets `log_tcp_shutdown_next` run
  twice; closing it during a lookup or a write lets a callback or a thread meet it
  freed: the `clash` of `FreedLast`. A sink that is closed while idle never closes its
  tcp handle. A line that is dropped counts as sent.
- Resolver. `resolver_del` of a permanent probe at run time frees it with its timer
  stopped but not closed and its socket possibly open (`resolver/resolver.c:956`). The
  condition of `resolver_ephemeral_cancel_wait_send`, a release that waits for a send
  that is over, holds in no reachable state: the send's callback ends the wait itself.
- File tailer. With `state=forget` a file longer than one read gives its first slice
  for ever. The inode is not saved with the offset: a file that is rotated between the
  last dump and a restart leaves its offset to the new one, which is then skipped up to
  there, or read again if it is shorter. Restored entries lose their mark
  of `state=save`; nothing is saved on the way out; the dump empties the file before
  it writes, so that a crash in between loses all offsets; offsets are added when an
  event came before the restore. `filetailer_pending_pick_next` starts from the first
  name when the last one picked is being read, where `doc/aggregate.md:293` says
  round-robin. An open that fails with another error than `EPERM` is taken for a
  descriptor, and the read fails. `filetailer_handler_del` frees a context that a chain points to.

## Proofs

All theorems hold for every value of the constants that satisfies the module's
named assumption: that sizes, spans, leases and bounds are natural numbers of the sign
they have in the code, for the limiter and for replication what is said below. Each
invariant of a run is proved from an inductive one, which was a TLC invariant first.

`StoresProofs`, with the lemmas of `OplogRingProofs`:

- `ExpireTree` (`ExpireAssumption`): `WheelInvariant`, `WheelTypes`, `NothingIsMissed`,
  `WheelImplementsDeadlines`. The invariant `IInv` adds to `NoneMissed` that a walk is at
  most one span of level 1 long and ends at the second asked for: without it a series on
  the far list could come due in the middle of a walk. `OpensFact` and `OpenSlot` are the
  arithmetic of slots: a node that is more than a span ahead is in a slot that is yet to
  open, and a slot holds only nodes of one opening.
- `Oplog` (`OplogAssumption`): `TypeCorrect`, `LiveSlotsAreWritten`,
  `RingImplementsBoundedLog`. The invariant is the type and `LiveSlotsWritten`: the type
  alone does not exclude a reader on an empty slot. The lemmas `InsertFact`,
  `InsertedEntries` and `ShiftFact` of `OplogRingProofs` say what the modular indices do
  to the sequence of entries; the refinement follows action by action.

`Replication` (`ReplicationAssumption`), for any number of servers, ring size, size of an
answer, number of samples, timeouts and restarts, and set of lines that the receiver skips:

- `ReplicationProofs`: `TotalsInvariant`, and `TotalsAlwaysAgree`, the invariant
  `TotalsAgree`. The inductive one adds that only an answer carries entries
  (`OnlyAnswers`): a request that found some would overwrite them when it is answered. An
  action touches the totals of one pair of servers, and `OnePair` says that this is enough.
- `ReplicationOrderProofs` has the inductive invariant of `InOrder`: of every sender, a
  namespace, then the answer under way to it, then the log for it hold increasing numbers
  of samples that belong there (`Lines`), and a running `cluster_pass` has not yet put its
  sample where it still has to go.
- `ReplicationDeliveryProofs`: `StoredInOrder`, the invariant `InOrder` for a
  `replica_factor` of at most the number of servers plus one; `NothingIsUnaccounted`, the
  invariant `NothingUnaccounted` for one of at least 1. Both bounds are needed (see
  Findings). The inductive invariant of the second, `Accounted`, follows a sample to each
  of its homes: it waits in `cluster_pass`, or is in the log, the answer or the namespace,
  is among what is known to be gone, or travels in a line that is skipped. The
  split of an answer by namespace and the counts of its lines applied and skipped are argued by least counterexample (`LeastOf`).

`EventLoopProofs`:

- `Await` (no assumption): `AwaitInvariant`, and `NoWaitDangles`, the invariant
  `NoDanglingWait` for any number of calls and any limit of their depth. The inductive one
  says that a call is on the stack once and the handler of its client above it
  (`Nested`), and who has a wait in each phase (`Owned`): that a call on the stack has
  not abandoned its wait is what keeps a handler above it from a wait that is freed.
- `ThreadedLoop` (`ThreadedLoopAssumption`): `PoolInvariant`, and `MainWorkIsAlwaysRun`,
  the invariant `MainWorkIsRun` for any number of workers, pools and pieces of work. The
  inductive one says that work is numbered without gaps (`Numbered`), that what a worker
  has run and what is in its list are in one order (`Ordered`), that nothing of the main
  thread is behind a stop (`Behind`), that there are stops only while the pool is joined
  (`StopsInJoin`), and that a thread that is not ready has no work (`Phases`): a stop
  then throws away only what the callbacks of the worker added.
- `HttpLimit` (`HttpLimitAssumption`: a burst and the delay of a thread fit into
  the idle time, as the code's 60 s are meant to): `LimiterInvariant`,
  `ReuseForgetsNothing`, `DebtIsBounded`, `DenialIsFree`, for any number of threads,
  clients and slots. The invariant adds to `NothingForgotten` that a thread's clock
  reading is not older than its delay (`AskedLately`), that a schedule is at most a burst
  ahead of the last request of its slot (`AheadOfLast`), and that a client has one slot
  (`OneBucket`): an idle slot then owes nothing.

`ConnectionProofs`:

- `HttpServer` (`HttpServerAssumption`): `ServerInvariant`, `ResponseIsKept`
  (`KeptWhileHeld`), `RequestsHandledOnce` (`HandledOnce`), for requests of any number of
  pieces. The inductive invariant counts: what is in `full_body` is what was read less
  the requests consumed (`Kept`), and a peer that waits for its answers has sent no piece
  beyond the request that is being answered (`Answering`): so the write that ends is that
  of the last response, and what is handled next, also by the release, is new (`Handling`).
- `TcpClient` (`ClientAssumption`): `ClientInvariant`, `LockFollowsHandle`
  (`LockedWhileOpen`), `FreedAfterClose` (`FreedWhenClosed`), `AnswerIsParsedOnce`
  (`ParsedOnce`). The inductive invariant adds that the timeout is armed only while a
  session goes on and that a freed client keeps its lock (`Life`), and that `parsed`
  counts the calls of the parser (`Parsing`), unless the peer sends more after a complete body.

`PeerProofs`:

- `DnsProbe` (no assumption): `ProbeInvariant`, `ProbeIsFreedLast` (`ProbeFreedLast`),
  `BindIsKept` (`SharedBindIsKept`), for any set of clients. The inductive invariant says
  which requests and handles there can be by transport (`Using`), and that
  `resolver_ephemeral_closes` of a probe being released is the number of callbacks still
  due to it, its timer, its socket and a send on the shared one (`Counting`): the one that
  frees it is then the last.
- `LogTcp` (no assumption): `SinkInvariant`, and `SinkIsFreedLast`, the invariant
  `FreedLast` for any number of threads that log. The inductive one says what the state
  of an open sink tells of its handles (`Opened`), and that a sink closed with nothing
  under way closes tcp handle, timer and async handle one after the other (`Closes`),
  with no writer inside.
- `SharedLock` (`SharedLockAssumption`): `SharedLockTypes`, and `AgreementIsStable`, the
  action property `AgreementLasts` for any number of nodes. An agreement includes the
  answers under way; without them an old answer could end it.

The type invariants of these modules are proved, and part of the inductive
invariants; no run lists them.

Only model-checked:

- liveness, which needs fairness;
- `SamePrimary` and `WithinRow` of `Maglev`: what the fill computes is a statement about a
  recursion, and the second is number theory about primes;
- `OneOwner` of `TimerCache`, whose cache is edited with recursive operators on sequences;
- `NeverOverRate` of `HttpLimit`, which counts the requests of every span of time;
- `Held` and `ExactlyOnce` of `SharedLock`, which depend on the ratio of lease and period;
- the invariants of `FileTailer`.

## Not modelled, and the plan

The parsers, serialisers and configuration are conversions of text without lasting
state, and make up most of the repository's lines; system collectors and language
runtimes are I/O around other libraries. Models of them would repeat the code. The
export of replica namespaces is a read without steps.

Next, in this order:

1. Proofs: `OneOwner` of `TimerCache`, and `Held` of `SharedLock` from a stated ratio of
   lease, period and lost exchanges.
2. `DnsProbe` composed with `TcpClient` in place of `cached` and `probing`, and
   `TcpClient` composed with `SharedLock` for clients that `cluster_come_later` turns away.
3. Cluster reconfiguration on top of `Maglev` and `Replication` (`cluster/k8s_peers.c`),
   once the code builds the table again for the new servers.
4. Pipelining in `HttpServer` and deletion of entrypoints and aggregates, once the
   code has a defined behaviour there.
5. UDP and process clients, the HTTP, Elasticsearch and Kafka log writers:
   the life cycles of `TcpClient` and `LogTcp` with other handles.
