----------------------------- MODULE TimerCache -----------------------------
(***************************************************************************)
(* Timers that are used again (dstructures/uv_cache.c).  TCP clients take  *)
(* them for their timeout and their period, a scheduler for its period,    *)
(* and the cluster sync for a call in the next turn of the loop.  A timer  *)
(* that is given back is closed, and goes into the cache when libuv has    *)
(* closed it: uv_timer_init of a live one would put it into the queues of  *)
(* the loop twice.                                                         *)
(*                                                                         *)
(* A session of a client is only open here; TcpClient has its course.  One *)
(* whose TLS context or bind fails is open without the lock, with both of  *)
(* its timers running: the next connect forgets them.  The close of such a *)
(* handle is taken to end before that connect.                             *)
(***************************************************************************)
EXTENDS Naturals, Sequences, FiniteSets
LOCAL INSTANCE SequencesExt

CONSTANTS
    Clients,
    Periodic,    \* the clients with a period
    Schedulers,
    MaxTimers    \* bound on the timers allocated

VARIABLES
    timer,    \* uv_timer_t: what libuv knows of it, and its data
    cache,    \* ac->uv_cache_timer
    carg,     \* the clients
    sn,       \* the timers of the schedulers
    stop      \* how far the stop of the daemon is

vars == <<timer, cache, carg, sn, stop>>

Timers == 1..MaxTimers
None == 0

\* Armed, or still: initialised and not running.
Live == {"armed", "still"}

Init ==
    /\ timer = [t \in Timers |-> [state |-> "none", data |-> None, use |-> "none"]]
    /\ cache = <<>>
    /\ carg \in [Clients ->
           {[step |-> "idle", lock |-> FALSE, tt |-> None, period |-> None, closed |-> FALSE,
             deleted |-> FALSE, fallible |-> f] : f \in BOOLEAN}]
    /\ sn = [s \in Schedulers |-> None]
    /\ stop = "no"

Store == [timer |-> timer, cache |-> cache]

Becomes(store) ==
    /\ timer' = store.timer
    /\ cache' = store.cache
-----------------------------------------------------------------------------
Unallocated(store) == {t \in Timers : store.timer[t].state = "none"}
CanGet(store, n) == Len(store.cache) + Cardinality(Unallocated(store)) >= n

\* The timer that was cached last, or a new one.
alligator_cache_get(store) ==
    IF store.cache # <<>> THEN Last(store.cache)
    ELSE CHOOSE t \in Unallocated(store) : \A u \in Unallocated(store) : t <= u

\* It is taken out of the cache, initialised and started.
Started(store, owner, use) ==
    LET t == alligator_cache_get(store)
    IN [timer |-> [store.timer EXCEPT ![t] = [state |-> "armed", data |-> owner, use |-> use]],
        cache |-> IF store.cache # <<>> THEN Front(store.cache) ELSE <<>>]

\* Mutant: the timer is cached at once, as it is.
push_live(store, t) ==
    IF t = None THEN store
    ELSE [timer |-> [store.timer EXCEPT ![t].state = "still", ![t].data = None],
          cache |-> IF t \in ToSet(store.cache) THEN store.cache ELSE Append(store.cache, t)]

\* A timer that closes, or is closed, is left to its close callback.
alligator_timer_cache_push(store, t) ==
    IF t = None \/ store.timer[t].state \notin Live THEN store
    ELSE [store EXCEPT !.timer[t] = [state |-> "closing", data |-> None, use |-> "none"]]

\* Not cached twice, and not any more while the daemon stops.
alligator_timer_cache_closed_cb(t) ==
    /\ timer[t].state = "closing"
    /\ IF stop = "no"
       THEN /\ timer' = [timer EXCEPT ![t].state = "closed"]
            /\ cache' = IF t \in ToSet(cache) THEN cache ELSE Append(cache, t)
       ELSE /\ timer' = [timer EXCEPT ![t].state = "freed"]
            /\ UNCHANGED cache
    /\ UNCHANGED <<carg, sn, stop>>
-----------------------------------------------------------------------------
\* A client whose host is resolved takes the period timer, until its first session is
\* over, and the timeout, whatever timers it has.  Its setup may fail then.
tcp_client_connect(store, c) ==
    LET first == c \in Periodic /\ ~ carg[c].closed
        one == IF first THEN Started(store, c, "period") ELSE store
    IN  /\ ~ carg[c].lock /\ carg[c].step \in {"idle", "open"}
        /\ CanGet(store, IF first THEN 2 ELSE 1)
        /\ Becomes(Started(one, c, "tt"))
        /\ \E lock \in {TRUE, ~ carg[c].fallible} :
              carg' = [carg EXCEPT
                  ![c].step = "open", ![c].lock = lock,
                  ![c].period = IF first THEN alligator_cache_get(store) ELSE @,
                  ![c].tt = alligator_cache_get(one)]
        /\ UNCHANGED <<sn, stop>>

\* The crawl of all clients.
for_tcp_client_connect(c) ==
    /\ stop = "no"
    /\ ~ carg[c].deleted
    /\ ~ (c \in Periodic /\ carg[c].closed)
    /\ tcp_client_connect(Store, c)

\* A client that is locked, or has no address, returns.
tcp_client_repeat_period(t) ==
    LET store == [Store EXCEPT !.timer[t].state = "still"]
        c == timer[t].data
    IN  /\ timer[t].state = "armed" /\ timer[t].use = "period"
        /\ \/ tcp_client_connect(store, c)
           \/ Becomes(store) /\ UNCHANGED <<carg, sn, stop>>

\* The timeout is given back, and the handle closed unless it closes or is closed.
Closed(client) ==
    [client EXCEPT !.tt = None, !.step = IF @ = "open" THEN "closing" ELSE @]

tcp_client_close(store, c, tt) ==
    /\ Becomes(alligator_timer_cache_push(store, tt))
    /\ carg' = [carg EXCEPT ![c] = Closed(@)]
    /\ UNCHANGED <<sn, stop>>

SessionEnds(c) ==
    /\ carg[c].step = "open" /\ carg[c].lock
    /\ tcp_client_close(Store, c, carg[c].tt)

\* The client forgets the timer before it is given back.  A timer that the client lost
\* ends the session that is open by then; of a freed client nothing is changed.
tcp_timeout_timer(t) ==
    LET store == alligator_timer_cache_push([Store EXCEPT !.timer[t].state = "still"], t)
        c == timer[t].data
    IN  /\ timer[t].state = "armed" /\ timer[t].use = "tt"
        /\ tcp_client_close(store, c, IF carg[c].tt = t THEN None ELSE carg[c].tt)

\* carg_uv_detach_timers.
Detached(c) ==
    alligator_timer_cache_push(alligator_timer_cache_push(Store, carg[c].tt), carg[c].period)

carg_free(c) ==
    /\ Becomes(Detached(c))
    /\ carg' = [carg EXCEPT ![c].tt = None, ![c].period = None, ![c].step = "freed",
                            ![c].lock = TRUE, ![c].deleted = TRUE]
    /\ UNCHANGED <<sn, stop>>

\* A deleted client is freed, unless the daemon stops: aggregators_free does it then.
\* Others have their period timer started again.
tcp_client_closed(c) ==
    /\ carg[c].step = "closing"
    /\ IF carg[c].deleted /\ stop = "no"
       THEN carg_free(c)
       ELSE /\ carg' = [carg EXCEPT ![c].step = "idle", ![c].lock = FALSE, ![c].closed = TRUE]
            /\ timer' = IF carg[c].period # None /\ ~ carg[c].deleted
                        THEN [timer EXCEPT ![carg[c].period].state = "armed"] ELSE timer
            /\ UNCHANGED <<cache, sn, stop>>

\* On a request, or by aggregators_free.  A locked client is closed first.
tcp_client_del(c) ==
    /\ carg[c].step # "freed"
    /\ (stop = "no" /\ ~ carg[c].deleted) \/ stop = "detached"
    /\ IF ~ carg[c].lock
       THEN carg_free(c)
       ELSE /\ Becomes(alligator_timer_cache_push(Store, carg[c].tt))
            /\ carg' = [carg EXCEPT ![c] = [Closed(@) EXCEPT !.deleted = TRUE]]
            /\ UNCHANGED <<sn, stop>>
-----------------------------------------------------------------------------
scheduler_start(s) ==
    /\ CanGet(Store, 1)
    /\ Becomes(Started(Store, s, "scheduler"))
    /\ sn' = [sn EXCEPT ![s] = alligator_cache_get(Store)]
    /\ UNCHANGED <<carg, stop>>

scheduler_stop(s) ==
    /\ sn[s] # None
    /\ Becomes(alligator_timer_cache_push(Store, sn[s]))
    /\ sn' = [sn EXCEPT ![s] = None]
    /\ UNCHANGED <<carg, stop>>

\* A name that is taken is refused.
scheduler_push_json(s) ==
    /\ stop = "no" /\ sn[s] = None
    /\ scheduler_start(s)

\* One scheduler on a request, or all of them after the clients.
scheduler_object_del(s) ==
    /\ stop = "no" \/ (stop = "detached" /\ \A c \in Clients : carg[c].step = "freed")
    /\ scheduler_stop(s)

\* A timer that nobody has a pointer to, for a client of a cluster.
cluster_aggregate_recurse(c) ==
    /\ stop = "no" /\ carg[c].step # "freed" /\ CanGet(Store, 1)
    /\ Becomes(Started(Store, c, "sync"))
    /\ UNCHANGED <<carg, sn, stop>>

cluster_aggregate_timer_recurse(t) ==
    /\ timer[t].state = "armed" /\ timer[t].use = "sync"
    /\ Becomes(alligator_timer_cache_push(Store, t))
    /\ UNCHANGED <<carg, sn, stop>>
-----------------------------------------------------------------------------
alligator_stop ==
    /\ stop = "no"
    /\ stop' = "requested"
    /\ UNCHANGED <<timer, cache, carg, sn>>

\* The timers of all clients are detached before the first is deleted, and a locked
\* client is due.
aggregators_free ==
    LET held == {carg[c].tt : c \in Clients} \cup {carg[c].period : c \in Clients}
    IN  /\ stop = "requested"
        /\ Becomes([Store EXCEPT !.timer = [t \in Timers |->
               IF t \in held THEN alligator_timer_cache_push(Store, t).timer[t] ELSE timer[t]]])
        /\ carg' = [c \in Clients |-> [carg[c] EXCEPT !.tt = None, !.period = None,
               !.deleted = @ \/ carg[c].lock]]
        /\ stop' = "detached"
        /\ UNCHANGED sn

\* After the clients and the schedulers, and after the turns of the loop in which
\* what closes is closed and what is due is called.
alligator_cache_full_free ==
    /\ stop = "detached"
    /\ \A c \in Clients : carg[c].step = "freed"
    /\ \A s \in Schedulers : sn[s] = None
    /\ \A t \in Timers : timer[t].state # "closing" /\ ~ (timer[t].use = "sync" /\ timer[t].state = "armed")
    /\ timer' = [t \in Timers |-> IF t \in ToSet(cache)
                                  THEN [timer[t] EXCEPT !.state = "freed"] ELSE timer[t]]
    /\ cache' = <<>>
    /\ stop' = "swept"
    /\ UNCHANGED <<carg, sn>>

Exited == stop = "swept" /\ UNCHANGED vars

Next ==
    \/ \E t \in Timers :
          /\ stop # "swept"    \* the loop does not run any more
          /\ \/ alligator_timer_cache_closed_cb(t)
             \/ tcp_client_repeat_period(t)
             \/ tcp_timeout_timer(t)
             \/ cluster_aggregate_timer_recurse(t)
    \/ \E c \in Clients :
          \/ for_tcp_client_connect(c)
          \/ SessionEnds(c)
          \/ tcp_client_closed(c)
          \/ tcp_client_del(c)
          \/ cluster_aggregate_recurse(c)
    \/ \E s \in Schedulers : scheduler_push_json(s) \/ scheduler_object_del(s)
    \/ alligator_stop
    \/ aggregators_free
    \/ alligator_cache_full_free
    \/ Exited

Spec == Init /\ [][Next]_vars
-----------------------------------------------------------------------------
\* The pointers to a timer: <<owner, use>>.
Holders(t) ==
    {<<c, "tt">> : c \in {c \in Clients : carg[c].tt = t}}
        \cup {<<c, "period">> : c \in {c \in Clients : carg[c].period = t}}
        \cup {<<s, "scheduler">> : s \in {s \in Schedulers : sn[s] = t}}

\* "Only cache timers that have fully closed": a cached timer is closed, cached once
\* and nobody points to it.  One that is live calls exactly the owner that points to
\* it, and nobody else does, so that no late close, timeout or deletion stops the
\* timer of another client; and the stop of the daemon frees them all.  A client whose
\* setup may fail loses timers at its next connect: those run without an owner.
OneOwner ==
    LET fallible == {c \in Clients : carg[c].fallible}
    IN  /\ Cardinality(ToSet(cache)) = Len(cache)
        /\ \A t \in Timers :
              LET owner == IF timer[t].state \in Live /\ timer[t].use # "sync"
                           THEN {<<timer[t].data, timer[t].use>>} ELSE {}
              IN  /\ t \in ToSet(cache) <=> timer[t].state = "closed"
                  /\ Holders(t) \subseteq owner
                  /\ timer[t].data \notin fallible => Holders(t) = owner
        /\ stop = "swept" => \A t \in Timers :
              timer[t].state \in {"none", "freed"} \/ timer[t].data \in fallible
=============================================================================
