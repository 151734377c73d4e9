----------------------------- MODULE SharedLock -----------------------------
(***************************************************************************)
(* A crawling cluster (type sharedlock): every node aggregates the same    *)
(* target, and a lease that the nodes negotiate over POST /sharedlock is   *)
(* to let one of them do it.  Each node keeps its own view of the lease;   *)
(* there is no majority and no arbiter.                                    *)
(*                                                                         *)
(* Times are kept relative to now: left[n] is cn->ttl - now, and -1 stands *)
(* for every lease that is over.  Since set_time and ttl are always        *)
(* written together, set_time = ttl - Lease and needs no variable.         *)
(***************************************************************************)
EXTENDS Integers, FiniteSets

CONSTANTS
    Nodes,       \* servers of the cluster
    NoNode,      \* shared_lock_instance that was never set
    Lease,       \* 60 seconds
    WarmUp,      \* servers_size * 8 updates
    Outcomes,    \* what a crawl may come to: {TRUE} when the target is always up
    MaxLosses,   \* bound: requests given up
    MaxRestarts  \* bound: restarts of a process

ASSUME SharedLockAssumption ==
    /\ NoNode \notin Nodes
    /\ Lease \in Nat \ {0}
    /\ WarmUp \in Nat
    /\ Outcomes \subseteq BOOLEAN
    /\ MaxLosses \in Nat
    /\ MaxRestarts \in Nat

Times == -1 .. Lease
Over == -1

VARIABLES
    holder,     \* holder[n]: cn->shared_lock_instance on n
    left,       \* left[n]: cn->ttl on n, relative to now
    updates,    \* updates[n]: cn->update_count, up to WarmUp
    healthy,    \* healthy[n]: cn->parser_status on n
    ok,         \* ok[n]: parser_status of n's client, from its last crawl
    post,       \* post[n][m]: n's request to m and the answer to it
    due,        \* due[n]: timers of n that have yet to fire in this period
    crawled,    \* nodes that crawled in this period, past their warm-up
    losses,
    restarts

vars == <<holder, left, updates, healthy, ok, post, due, crawled, losses, restarts>>
lease == <<holder, left, updates>>

Timers == {"crawl", "lock"}
Quiet == [state |-> "none", holder |-> NoNode, left |-> Over, late |-> FALSE]
Request == [state |-> "request", holder |-> NoNode, left |-> Over, late |-> FALSE]

Init ==
    /\ holder = [n \in Nodes |-> NoNode]
    /\ left = [n \in Nodes |-> Over]
    /\ updates = [n \in Nodes |-> 0]
    /\ healthy = [n \in Nodes |-> FALSE]
    /\ ok = [n \in Nodes |-> FALSE]
    /\ post = [n \in Nodes |-> [m \in Nodes |-> Quiet]]
    /\ due = [n \in Nodes |-> Timers]
    /\ crawled = {}
    /\ losses = 0
    /\ restarts = 0

Counted(n) == [updates EXCEPT ![n] = IF @ < WarmUp THEN @ + 1 ELSE @]
Fires(n, timer) ==
    /\ timer \in due[n]
    /\ due' = [due EXCEPT ![n] = @ \ {timer}]
-----------------------------------------------------------------------------
Warm(n) == updates[n] >= WarmUp

\* Mutant: the instance is not compared.
come_later_for_all(n) == Warm(n) /\ left[n] >= 0

\* cluster_come_later: n leaves the target to the holder that it believes in.
ComeLater(n) == Warm(n) /\ holder[n] # n /\ left[n] >= 0

\* tcp_client_connect: the crawl that the lease lets through.  Its own outcome is
\* known to cluster_come_later only at the next one.
tcp_client_connect(n) ==
    /\ Fires(n, "crawl")
    /\ IF ComeLater(n)
       THEN UNCHANGED <<healthy, ok, crawled>>
       ELSE /\ healthy' = IF Warm(n) THEN [healthy EXCEPT ![n] = ok[n]] ELSE healthy
            /\ \E parsed \in Outcomes : ok' = [ok EXCEPT ![n] = parsed]
            /\ crawled' = IF Warm(n) THEN crawled \cup {n} ELSE crawled
    /\ UNCHANGED <<lease, post, losses, restarts>>

\* n asks every server, itself included, unless it waits for the end of a lease.
\* A request under way keeps its key, and is not sent again.
cluster_aggregate_timer_recurse(n) ==
    /\ Fires(n, "lock")
    /\ post' = IF ~ healthy[n] /\ left[n] > 0 THEN post
               ELSE [post EXCEPT ![n] = [m \in Nodes |->
                      IF post[n][m] = Quiet THEN Request ELSE post[n][m]]]
    /\ UNCHANGED <<lease, healthy, ok, crawled, losses, restarts>>

\* Mutant: a lease that runs is given to whoever asks.
lock_granted_to_anyone(n, m) ==
    /\ post[n][m].state = "request"
    /\ updates' = Counted(m)
    /\ holder' = [holder EXCEPT ![m] = n]
    /\ left' = [left EXCEPT ![m] = Lease]
    /\ post' = [post EXCEPT ![n][m] =
          [@ EXCEPT !.state = "answer", !.holder = n, !.left = Lease]]
    /\ UNCHANGED <<healthy, ok, due, crawled, losses, restarts>>

\* Mutant: the time of the lease is set when it is granted, and not renewed.
lock_granted_not_renewed(n, m) ==
    /\ post[n][m].state = "request"
    /\ updates' = Counted(m)
    /\ holder' = IF left[m] = Over THEN [holder EXCEPT ![m] = n] ELSE holder
    /\ left' = IF left[m] = Over THEN [left EXCEPT ![m] = Lease] ELSE left
    /\ post' = [post EXCEPT ![n][m] =
          [state |-> "answer", holder |-> holder'[m], left |-> left'[m], late |-> @.late]]
    /\ UNCHANGED <<healthy, ok, due, crawled, losses, restarts>>

\* m grants n the lease when its own view is over, renews it when n holds it,
\* and in any case answers with its view.
cluster_set_sharedlock(n, m) ==
    /\ post[n][m].state = "request"
    /\ updates' = Counted(m)
    /\ holder' = IF left[m] = Over THEN [holder EXCEPT ![m] = n] ELSE holder
    /\ left' = IF holder'[m] = n THEN [left EXCEPT ![m] = Lease] ELSE left
    /\ post' = [post EXCEPT ![n][m] =
          [state |-> "answer", holder |-> holder'[m], left |-> left'[m], late |-> @.late]]
    /\ UNCHANGED <<healthy, ok, due, crawled, losses, restarts>>

\* n takes over another view than its own, or an older one, for a full lease
\* from now.
cluster_aggregate_sync_handler(n, m) ==
    LET answer == post[n][m] IN
    /\ answer.state = "answer"
    /\ answer.left = Over => holder[n] # NoNode
    /\ IF answer.left = Over
       THEN UNCHANGED <<holder, left, updates>>
       ELSE /\ IF answer.holder # holder[n] \/ answer.left < left[n]
               THEN /\ holder' = [holder EXCEPT ![n] = answer.holder]
                    /\ left' = [left EXCEPT ![n] = Lease]
               ELSE UNCHANGED <<holder, left>>
            /\ updates' = Counted(n)
    /\ post' = [post EXCEPT ![n][m] = Quiet]
    /\ UNCHANGED <<healthy, ok, due, crawled, losses, restarts>>

Forget(n) ==
    /\ holder' = [holder EXCEPT ![n] = NoNode]
    /\ left' = [left EXCEPT ![n] = Over]
    /\ updates' = [updates EXCEPT ![n] = 0]
    /\ healthy' = [healthy EXCEPT ![n] = FALSE]
    /\ ok' = [ok EXCEPT ![n] = FALSE]
    /\ post' = [post EXCEPT ![n] = [m \in Nodes |-> Quiet]]
    /\ UNCHANGED <<due, crawled>>

\* An answer that is over reaches n before n has seen any holder: the handler
\* reads through the null pointer, and the process starts again.
HandlerCrashes(n, m) ==
    /\ post[n][m].state = "answer"
    /\ post[n][m].left = Over
    /\ holder[n] = NoNode
    /\ Forget(n)
    /\ UNCHANGED <<losses, restarts>>

Restart(n) ==
    /\ restarts < MaxRestarts
    /\ restarts' = restarts + 1
    /\ Forget(n)
    /\ UNCHANGED losses

\* The client of the request times out, before or after m saw it.
Lost(n, m) ==
    /\ post[n][m] # Quiet
    /\ losses < MaxLosses
    /\ losses' = losses + 1
    /\ post' = [post EXCEPT ![n][m] = Quiet]
    /\ UNCHANGED <<lease, healthy, ok, due, crawled, restarts>>

Older(t) == IF t = Over THEN Over ELSE t - 1
Aged(p) == [state |-> p.state, holder |-> p.holder, left |-> Older(p.left),
            late |-> p # Quiet]

\* A period of the two timers ends, both 10 seconds long.  A request is given
\* up after 5, so it may see the end of one period and not of two.
Tick ==
    /\ \A n \in Nodes : due[n] = {} /\ \A m \in Nodes : ~ post[n][m].late
    /\ left' = [n \in Nodes |-> Older(left[n])]
    /\ post' = [n \in Nodes |-> [m \in Nodes |-> Aged(post[n][m])]]
    /\ due' = [n \in Nodes |-> Timers]
    /\ crawled' = {}
    /\ UNCHANGED <<holder, updates, healthy, ok, losses, restarts>>

Next ==
    \/ \E n \in Nodes :
          \/ tcp_client_connect(n)
          \/ cluster_aggregate_timer_recurse(n)
          \/ Restart(n)
    \/ \E n, m \in Nodes :
          \/ cluster_set_sharedlock(n, m)
          \/ cluster_aggregate_sync_handler(n, m)
          \/ HandlerCrashes(n, m)
          \/ Lost(n, m)
    \/ Tick

Spec == Init /\ [][Next]_vars
-----------------------------------------------------------------------------
TypeOK ==
    /\ holder \in [Nodes -> Nodes \cup {NoNode}]
    /\ left \in [Nodes -> Times]
    /\ updates \in [Nodes -> 0 .. WarmUp]
    /\ healthy \in [Nodes -> BOOLEAN]
    /\ ok \in [Nodes -> BOOLEAN]
    /\ post \in [Nodes -> [Nodes ->
          [state : {"none", "request", "answer"}, holder : Nodes \cup {NoNode},
           left : Times, late : BOOLEAN]]]
    /\ due \in [Nodes -> SUBSET Timers]
    /\ crawled \subseteq Nodes
    /\ losses \in 0 .. MaxLosses
    /\ restarts \in 0 .. MaxRestarts

\* "This allows making outgoing requests exactly once through the cluster":
\* past the warm-up, no two nodes crawl the target in the same period.
OneCrawler == Cardinality(crawled) <= 1

\* Every view and every answer under way names h, and no lease is over.
Agreed(h) ==
    /\ \A n \in Nodes : holder[n] = h /\ left[n] >= 0
    /\ \A n, m \in Nodes : post[n][m].state = "answer" => post[n][m].holder = h

\* An agreement lasts: only the end of a lease or a restart takes it away, never
\* a request of another node, a late answer or the order in which they arrive.
AgreementLasts ==
    [][\A h \in Nodes : Agreed(h) =>
         \/ Agreed(h)'
         \/ \E n \in Nodes : left'[n] = Over]_vars

\* A cluster that has agreed on h, whose crawls succeed, after its warm-up.
SettledInit(h) ==
    /\ holder = [n \in Nodes |-> h]
    /\ left = [n \in Nodes |-> Lease]
    /\ updates = [n \in Nodes |-> WarmUp]
    /\ healthy \in {f \in [Nodes -> BOOLEAN] : f[h]}
    /\ ok \in {f \in [Nodes -> BOOLEAN] : \A n \in Nodes : healthy[n] => f[n]}
    /\ post = [n \in Nodes |-> [m \in Nodes |-> Quiet]]
    /\ due = [n \in Nodes |-> Timers]
    /\ crawled = {}
    /\ losses = 0
    /\ restarts = 0

SettledSpec == (\E h \in Nodes : SettledInit(h)) /\ [][Next]_vars

\* A settled cluster stays so: the holder renews the lease at every node before
\* it is over, whatever the others ask for meanwhile.
Held == \E h \in Nodes : \A n \in Nodes : holder[n] = h /\ left[n] >= 0

\* "exactly once through the cluster", of a settled cluster: each period ends
\* with one crawl.
ExactlyOnce == [][Tick => Cardinality(crawled) = 1]_vars
=============================================================================
