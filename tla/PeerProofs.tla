----------------------------- MODULE PeerProofs -----------------------------
(* What a server has to do with others: the probes of the resolver, for any  *)
(* set of clients that wait for an address, the sink of the log, for any     *)
(* number of threads that write, and the shared lock, for any number of      *)
(* nodes, any lease and any faults.                                          *)
EXTENDS DnsProbe, LogTcp, SharedLock, Integers, TLAPS

-----------------------------------------------------------------------------
(* The shared lock (SharedLock). *)
Posts ==
    [state : {"none", "request", "answer"}, holder : Nodes \cup {NoNode},
     left : Times, late : BOOLEAN]

\* A view ages by one period, and stays a time.
LEMMA OlderType == \A t \in Times : Older(t) \in Times
  BY SharedLockAssumption DEF Times, Over, Older

LEMMA QuietType == Quiet \in Posts
  BY SharedLockAssumption DEF Quiet, Posts, Times, Over

LEMMA AgedType == \A p \in Posts : Aged(p) \in Posts
<1>1. TAKE p \in Posts
<1>2. DEFINE late == p # Quiet
<1>3. late \in BOOLEAN
  BY Zenon
<1>4. \A b \in BOOLEAN :
        [state |-> p.state, holder |-> p.holder, left |-> Older(p.left), late |-> b] \in Posts
  BY OlderType, Zenon DEF Posts
<1>5. QED
  BY <1>3, <1>4, Zenon DEF Aged

\* A full lease is a time of its own, not one that is over.
LEMMA LeaseType == Lease \in Times /\ Over \in Times /\ Lease >= 0 /\ Over = -1
  BY SharedLockAssumption DEF Times, Over

\* Counting an update does not pass the warm-up.
LEMMA CountedType ==
    ASSUME TypeOK, NEW n \in Nodes
    PROVE  Counted(n) \in [Nodes -> 0 .. WarmUp]
  BY SharedLockAssumption DEF TypeOK, Counted

\* What a restart leaves behind has its types.
LEMMA ForgetType ==
    ASSUME TypeOK, NEW n \in Nodes, Forget(n), UNCHANGED losses,
           restarts' \in 0 .. MaxRestarts
    PROVE  TypeOK'
<1>1. [m \in Nodes |-> Quiet] \in [Nodes -> Posts]
  BY QuietType, Zenon
<1>2. post' \in [Nodes -> [Nodes -> Posts]]
  BY <1>1, Zenon DEF TypeOK, Forget, Posts
<1>3. QED
  BY <1>2, LeaseType, SharedLockAssumption DEF TypeOK, Forget, Posts
-----------------------------------------------------------------------------
\* Every step of a crawl, of the two timers, of POST /sharedlock and of its
\* answer keeps the types.
LEMMA TypeStep == TypeOK /\ [Next]_vars => TypeOK'
<1>1. SUFFICES ASSUME TypeOK, Next PROVE TypeOK'
  BY Zenon DEF TypeOK, vars
<1>2. CASE \E n \in Nodes : tcp_client_connect(n)
  <2>1. PICK n \in Nodes : tcp_client_connect(n)
    BY <1>2, Zenon
  <2>2. due' \in [Nodes -> SUBSET Timers]
    BY <1>1, <2>1, Zenon DEF TypeOK, tcp_client_connect, Fires
  <2>3. \A parsed \in Outcomes : [ok EXCEPT ![n] = parsed] \in [Nodes -> BOOLEAN]
    BY <1>1, SharedLockAssumption, Zenon DEF TypeOK
  <2>4. [healthy EXCEPT ![n] = ok[n]] \in [Nodes -> BOOLEAN]
    BY <1>1, Zenon DEF TypeOK
  <2>5. ok' \in [Nodes -> BOOLEAN]
    BY <1>1, <2>1, <2>3 DEF TypeOK, tcp_client_connect
  <2>6. healthy' \in [Nodes -> BOOLEAN]
    BY <1>1, <2>1, <2>4, Zenon DEF TypeOK, tcp_client_connect
  <2>7. crawled' \subseteq Nodes
    BY <1>1, <2>1, Zenon DEF TypeOK, tcp_client_connect
  <2>8. QED
    BY <1>1, <2>1, <2>2, <2>5, <2>6, <2>7, Zenon DEF TypeOK, tcp_client_connect, lease
<1>3. CASE \E n \in Nodes : cluster_aggregate_timer_recurse(n)
  <2>1. PICK n \in Nodes : cluster_aggregate_timer_recurse(n)
    BY <1>3, Zenon
  <2>2. due' \in [Nodes -> SUBSET Timers]
    BY <1>1, <2>1, Zenon DEF TypeOK, cluster_aggregate_timer_recurse, Fires
  <2>3. Request \in Posts
    BY SharedLockAssumption DEF Request, Posts, Times, Over
  <2>4. post \in [Nodes -> [Nodes -> Posts]]
    BY <1>1, Zenon DEF TypeOK, Posts
  <2>5. post' \in [Nodes -> [Nodes -> Posts]]
    BY <2>1, <2>3, <2>4, Zenon DEF cluster_aggregate_timer_recurse
  <2>6. UNCHANGED <<holder, left, updates, healthy, ok, crawled, losses, restarts>>
    BY <2>1, Zenon DEF cluster_aggregate_timer_recurse, lease
  <2>7. QED
    BY <1>1, <2>2, <2>5, <2>6, Zenon DEF TypeOK, Posts
<1>4. CASE \E n \in Nodes : Restart(n)
  BY <1>1, <1>4, ForgetType, SharedLockAssumption DEF TypeOK, Restart
<1>5. CASE \E n, m \in Nodes : cluster_set_sharedlock(n, m)
  <2>1. PICK n \in Nodes, m \in Nodes : cluster_set_sharedlock(n, m)
    BY <1>5, Zenon
  <2>2. holder' \in [Nodes -> Nodes \cup {NoNode}]
    BY <1>1, <2>1, Zenon DEF TypeOK, cluster_set_sharedlock
  <2>3. left' \in [Nodes -> Times]
    BY <1>1, <2>1, LeaseType, Zenon DEF TypeOK, cluster_set_sharedlock
  <2>4. [state |-> "answer", holder |-> holder'[m], left |-> left'[m],
         late |-> post[n][m].late] \in Posts
    BY <1>1, <2>2, <2>3 DEF TypeOK, Posts
  <2>5. post \in [Nodes -> [Nodes -> Posts]]
    BY <1>1, Zenon DEF TypeOK, Posts
  <2>6. post' \in [Nodes -> [Nodes -> Posts]]
    BY <2>1, <2>4, <2>5, Zenon DEF cluster_set_sharedlock
  <2>7. QED
    BY <1>1, <2>1, <2>2, <2>3, <2>6, CountedType, Zenon
    DEF TypeOK, Posts, cluster_set_sharedlock
<1>6. CASE \E n, m \in Nodes : cluster_aggregate_sync_handler(n, m)
  <2>1. PICK n \in Nodes, m \in Nodes : cluster_aggregate_sync_handler(n, m)
    BY <1>6, Zenon
  <2>2. post' \in [Nodes -> [Nodes -> Posts]]
    BY <1>1, <2>1, QuietType, Zenon DEF TypeOK, cluster_aggregate_sync_handler, Posts
  <2>3. post[n][m].holder \in Nodes \cup {NoNode}
    BY <1>1 DEF TypeOK
  <2>4. /\ [holder EXCEPT ![n] = post[n][m].holder] \in [Nodes -> Nodes \cup {NoNode}]
        /\ [left EXCEPT ![n] = Lease] \in [Nodes -> Times]
    BY <1>1, <2>3, LeaseType, Zenon DEF TypeOK
  <2>5. holder' \in [Nodes -> Nodes \cup {NoNode}]
    BY <1>1, <2>1, <2>4, Zenon DEF TypeOK, cluster_aggregate_sync_handler
  <2>6. left' \in [Nodes -> Times]
    BY <1>1, <2>1, <2>4, Zenon DEF TypeOK, cluster_aggregate_sync_handler
  <2>7. updates' \in [Nodes -> 0 .. WarmUp]
    BY <1>1, <2>1, CountedType, Zenon DEF TypeOK, cluster_aggregate_sync_handler
  <2>8. QED
    BY <1>1, <2>1, <2>2, <2>5, <2>6, <2>7, Zenon DEF TypeOK, Posts, cluster_aggregate_sync_handler
<1>7. CASE \E n, m \in Nodes : HandlerCrashes(n, m)
  BY <1>1, <1>7, ForgetType, Zenon DEF TypeOK, HandlerCrashes
<1>8. CASE \E n, m \in Nodes : Lost(n, m)
  <2>1. PICK n \in Nodes, m \in Nodes : Lost(n, m)
    BY <1>8, Zenon
  <2>2. post' \in [Nodes -> [Nodes -> Posts]]
    BY <1>1, <2>1, QuietType, Zenon DEF TypeOK, Lost, Posts
  <2>3. QED
    BY <1>1, <2>1, <2>2, SharedLockAssumption DEF TypeOK, Posts, Lost, lease
<1>9. CASE Tick
  <2>1. left' \in [Nodes -> Times]
    BY <1>1, <1>9, OlderType, Zenon DEF TypeOK, Tick
  <2>2. ASSUME NEW n \in Nodes, NEW m \in Nodes
        PROVE  Aged(post[n][m]) \in Posts
    BY <1>1, AgedType DEF TypeOK, Posts
  <2>3. post' \in [Nodes -> [Nodes -> Posts]]
    BY <1>9, <2>2, Zenon DEF Tick
  <2>4. due' \in [Nodes -> SUBSET Timers] /\ crawled' \subseteq Nodes
    BY <1>9, Zenon DEF Tick
  <2>5. QED
    BY <1>1, <1>9, <2>1, <2>3, <2>4, Zenon DEF TypeOK, Posts, Tick
<1>10. QED
  BY <1>1, <1>2, <1>3, <1>4, <1>5, <1>6, <1>7, <1>8, <1>9, Zenon DEF Next

\* The view that each node keeps of the lease, and the requests under way, are
\* of their types in every state, whatever the number of nodes.
THEOREM SharedLockTypes == Spec => []TypeOK
<1>1. Init => TypeOK
  <2>1. SUFFICES ASSUME Init PROVE TypeOK
    BY Zenon
  <2>2. post \in [Nodes -> [Nodes -> Posts]]
    BY <2>1, QuietType, Zenon DEF Init
  <2>3. QED
    BY <2>1, <2>2, LeaseType, SharedLockAssumption DEF Init, TypeOK, Posts
<1>2. QED
  BY <1>1, TypeStep, PTL DEF Spec
-----------------------------------------------------------------------------
\* A restart, asked for or not, is the end of the lease at the node it happens to.
LEMMA ForgetEnds ==
    ASSUME TypeOK, NEW n \in Nodes, Forget(n)
    PROVE  left'[n] = Over
  BY Zenon DEF TypeOK, Forget

\* Any one step, from an agreement: the crawls and the requests leave every
\* view alone, a node whose lease runs grants it to nobody, and an answer names
\* the holder that its reader believes in already.
LEMMA AgreementStep ==
    ASSUME TypeOK, [Next]_vars, NEW h \in Nodes, Agreed(h)
    PROVE  Agreed(h)' \/ \E n \in Nodes : left'[n] = Over
<1>1. CASE UNCHANGED vars
  BY <1>1, Zenon DEF Agreed, vars
<1>2. CASE \E n \in Nodes : tcp_client_connect(n)
  BY <1>2, SMTT(30) DEF Agreed, tcp_client_connect, lease
<1>3. CASE \E n \in Nodes : cluster_aggregate_timer_recurse(n)
  <2>1. PICK n \in Nodes : cluster_aggregate_timer_recurse(n)
    BY <1>3, Zenon
  <2>2. ASSUME NEW i \in Nodes, NEW j \in Nodes, post'[i][j].state = "answer"
        PROVE  post'[i][j] = post[i][j]
    BY <2>1, <2>2, Zenon DEF TypeOK, cluster_aggregate_timer_recurse, Request
  <2>3. QED
    BY <2>1, <2>2 DEF Agreed, cluster_aggregate_timer_recurse, lease
<1>4. CASE \E n \in Nodes : Restart(n)
  BY <1>4, ForgetEnds, Zenon DEF Restart
<1>5. CASE \E n, m \in Nodes : cluster_set_sharedlock(n, m)
  <2>1. PICK n \in Nodes, m \in Nodes : cluster_set_sharedlock(n, m)
    BY <1>5, Zenon
  <2>2. holder' = holder
    BY <2>1, LeaseType DEF Agreed, cluster_set_sharedlock
  <2>3. \A i \in Nodes : left'[i] >= 0
    BY <2>1, LeaseType, Zenon DEF Agreed, TypeOK, cluster_set_sharedlock
  <2>4. ASSUME NEW i \in Nodes, NEW j \in Nodes, post'[i][j].state = "answer"
        PROVE  post'[i][j].holder = h
    BY <2>1, <2>2, <2>4, Zenon DEF Agreed, TypeOK, cluster_set_sharedlock
  <2>5. QED
    BY <2>2, <2>3, <2>4, Zenon DEF Agreed
<1>6. CASE \E n, m \in Nodes : cluster_aggregate_sync_handler(n, m)
  <2>1. PICK n \in Nodes, m \in Nodes : cluster_aggregate_sync_handler(n, m)
    BY <1>6, Zenon
  <2>2. post[n][m].holder = h
    BY <2>1, Zenon DEF Agreed, cluster_aggregate_sync_handler
  <2>3. \A i \in Nodes : holder'[i] = h
    BY <2>1, <2>2, Zenon DEF Agreed, TypeOK, cluster_aggregate_sync_handler
  <2>4. \A i \in Nodes : left'[i] >= 0
    <3>1. left' = left \/ left' = [left EXCEPT ![n] = Lease]
      BY <2>1, Zenon DEF cluster_aggregate_sync_handler
    <3>2. QED
      BY <3>1, LeaseType, Zenon DEF Agreed, TypeOK
  <2>5. ASSUME NEW i \in Nodes, NEW j \in Nodes, post'[i][j].state = "answer"
        PROVE  post'[i][j].holder = h
    BY <2>1, <2>5, Zenon DEF Agreed, TypeOK, cluster_aggregate_sync_handler, Quiet
  <2>6. QED
    BY <2>3, <2>4, <2>5, Zenon DEF Agreed
<1>7. CASE \E n, m \in Nodes : HandlerCrashes(n, m)
  BY <1>7, ForgetEnds, Zenon DEF HandlerCrashes
<1>8. CASE \E n, m \in Nodes : Lost(n, m)
  <2>1. PICK n \in Nodes, m \in Nodes : Lost(n, m)
    BY <1>8, Zenon
  <2>2. ASSUME NEW i \in Nodes, NEW j \in Nodes, post'[i][j].state = "answer"
        PROVE  post'[i][j] = post[i][j]
    BY <2>1, <2>2, Zenon DEF TypeOK, Lost, Quiet
  <2>3. QED
    BY <2>1, <2>2, SMTT(30) DEF Agreed, Lost, lease
<1>9. CASE Tick
  <2>1. SUFFICES ASSUME \A n \in Nodes : left'[n] # Over
                 PROVE  Agreed(h)'
    BY Zenon
  <2>2. left' \in [Nodes -> Times]
    BY <1>9, OlderType, Zenon DEF TypeOK, Tick
  <2>3. \A n \in Nodes : left'[n] >= 0
    BY <2>1, <2>2, LeaseType, SharedLockAssumption DEF Times
  <2>4. ASSUME NEW i \in Nodes, NEW j \in Nodes
        PROVE  /\ post'[i][j].state = post[i][j].state
               /\ post'[i][j].holder = post[i][j].holder
    BY <1>9, ZenonT(30) DEF Tick, Aged
  <2>5. holder' = holder
    BY <1>9, Zenon DEF Tick
  <2>6. QED
    BY <2>3, <2>4, <2>5 DEF Agreed
<1>10. QED
  BY <1>1, <1>2, <1>3, <1>4, <1>5, <1>6, <1>7, <1>8, <1>9, Zenon DEF Next

\* Among any number of nodes, with any number of requests under way, an
\* agreement on the holder is only ended by a lease that runs out or a restart:
\* cluster_set_sharedlock and cluster_aggregate_sync_handler never end it.
THEOREM AgreementIsStable == Spec => AgreementLasts
<1>1. TypeOK /\ [Next]_vars =>
        [\A h \in Nodes : Agreed(h) =>
           \/ Agreed(h)'
           \/ \E n \in Nodes : left'[n] = Over]_vars
  BY AgreementStep, Zenon
<1>2. QED
  BY <1>1, SharedLockTypes, PTL DEF Spec, AgreementLasts

-----------------------------------------------------------------------------
(* The probes of the resolver (DnsProbe). *)
\* What libuv has of a probe is inside an allocated probe, by the transport.
Using(p) ==
    /\ p.bindData = "bind" /\ (p.bind = "closing" => p.stop)
    /\ p.transport = "shared" =>
          p.socket = "none" /\ (p.sending => p.shared /\ p.sendActive)
    /\ p.transport # "shared" => ~ p.shared /\ ~ p.waitSend
    /\ p.sending => \/ p.transport = "shared"
                    \/ p.transport = "udp" /\ p.socket # "none"
    /\ p.request # "none" => p.transport = "tcp" /\ p.socket # "none"
    /\ p.pending => p.shared
    /\ ~ p.allocated =>
          /\ p.ephemeral /\ ~ p.freeing /\ p.timer = "none" /\ p.socket = "none"
          /\ ~ p.sending /\ ~ p.pending /\ p.request = "none" /\ ~ p.timeout

\* The callbacks that are due to an ephemeral probe that is being released.
Due(p) == One(p.timer = "closing") + One(p.socket = "closing") + One(p.waitSend)

Releasing(p) ==
    /\ p.ephemeral /\ p.allocated /\ p.freeing /\ ~ p.pending
    /\ p.timer \in {"closing", "none"} /\ p.socket # "open"
    /\ p.transport = "shared" /\ p.sending => p.waitSend

\* One that is not being released counts none, and has its timer.
Idling(p) ==
    /\ ~ p.freeing /\ p.closes = 0 /\ ~ p.waitSend
    /\ p.allocated => p.timer \in {"armed", "idle"}

Counting(p) == \/ Releasing(p) /\ p.closes = Due(p) /\ p.closes >= 1
               \/ Idling(p)

Matching(p) == p.pending => p.lock /\ p.timeout

ProbeOK(p) == Using(p) /\ Counting(p) /\ Matching(p)

ProbeInv == ProbeTypeOK /\ ProbeOK(probe)

\* The last callback: nothing is due any more, and the probe is freed.
Forgotten(p) == [p EXCEPT !.closes = 0, !.freeing = FALSE, !.waitSend = FALSE]

Unlocked(p) == [p EXCEPT !.allocated = FALSE, !.timeout = FALSE, !.lock = FALSE]

Freed(p) == resolver_ephemeral_free_carg(Forgotten(p))

LEMMA Forgets ==
    ASSUME NEW p \in Probes
    PROVE  LET q == Forgotten(p) IN
           /\ q \in Probes /\ q.ephemeral = p.ephemeral /\ q.transport = p.transport
           /\ q.timer = p.timer /\ q.socket = p.socket /\ q.bind = p.bind
           /\ q.bindData = p.bindData /\ q.sending = p.sending /\ q.request = p.request
           /\ q.pending = p.pending /\ ~ q.freeing /\ q.closes = 0 /\ ~ q.waitSend
           /\ q.stop = p.stop
<1>1. 0 \in 0..4
  OBVIOUS
<1> QED
  BY <1>1, Zenon DEF Probes, Forgotten

LEMMA Unlocks ==
    ASSUME NEW p \in Probes
    PROVE  LET q == Unlocked(p) IN
           /\ q \in Probes /\ q.ephemeral = p.ephemeral /\ q.transport = p.transport
           /\ ~ q.allocated /\ q.timer = p.timer /\ q.socket = p.socket /\ q.bind = p.bind
           /\ q.bindData = p.bindData /\ q.sending = p.sending /\ q.request = p.request
           /\ ~ q.timeout /\ q.pending = p.pending /\ q.freeing = p.freeing
           /\ q.closes = p.closes /\ q.waitSend = p.waitSend /\ q.stop = p.stop
  BY Zenon DEF Probes, Unlocked

LEMMA Unshares ==
    ASSUME NEW p \in Probes
    PROVE  LET q == [p EXCEPT !.sendActive = FALSE, !.shared = FALSE] IN
           /\ q \in Probes /\ q.ephemeral = p.ephemeral /\ q.transport = p.transport
           /\ q.allocated = p.allocated /\ q.timer = p.timer /\ q.socket = p.socket
           /\ q.bind = p.bind /\ q.bindData = p.bindData /\ q.sending = p.sending
           /\ q.request = p.request /\ q.timeout = p.timeout /\ ~ q.shared
           /\ q.pending = p.pending /\ q.freeing = p.freeing
           /\ q.closes = p.closes /\ q.waitSend = p.waitSend /\ q.stop = p.stop
  BY Zenon DEF Probes

LEMMA Frees ==
    ASSUME NEW p \in Probes
    PROVE  LET q == Freed(p) IN
           /\ q \in Probes /\ q.ephemeral = p.ephemeral /\ q.transport = p.transport
           /\ ~ q.allocated /\ q.timer = p.timer /\ q.socket = p.socket /\ q.bind = p.bind
           /\ q.bindData = p.bindData /\ q.sending = p.sending /\ q.request = p.request
           /\ ~ q.timeout /\ ~ q.shared /\ q.pending = p.pending /\ ~ q.freeing
           /\ q.closes = 0 /\ ~ q.waitSend /\ q.stop = p.stop
<1> DEFINE f == Forgotten(p)
           s == Unlocked(f)
           q == Freed(p)
<1>1. q = [s EXCEPT !.sendActive = FALSE, !.shared = FALSE]
  BY Zenon DEF Freed, Unlocked, resolver_ephemeral_free_carg
<1> HIDE DEF q
<1>2. f \in Probes /\ s \in Probes
  BY Forgets, Unlocks, Zenon
<1> HIDE DEF s, f
<1>3. /\ q \in Probes /\ q.ephemeral = s.ephemeral /\ q.transport = s.transport
      /\ q.allocated = s.allocated /\ q.timer = s.timer /\ q.socket = s.socket
      /\ q.bind = s.bind /\ q.bindData = s.bindData /\ q.sending = s.sending
      /\ q.request = s.request /\ q.timeout = s.timeout /\ ~ q.shared
      /\ q.pending = s.pending /\ q.freeing = s.freeing
      /\ q.closes = s.closes /\ q.waitSend = s.waitSend /\ q.stop = s.stop
  BY <1>1, <1>2, Unshares, Zenon
<1> QED
  BY <1>2, <1>3, Forgets, Unlocks DEF q, s, f

\* A release counts the callbacks that are due.
CountsDue(h, send, count) ==
    [h EXCEPT !.freeing = TRUE, !.waitSend = send, !.closes = count, !.timer = "closing"]

LEMMA Counts ==
    ASSUME NEW h \in Probes, NEW send \in BOOLEAN, NEW count \in 0..4
    PROVE  LET r == CountsDue(h, send, count) IN
           /\ r \in Probes /\ r.ephemeral = h.ephemeral /\ r.transport = h.transport
           /\ r.allocated = h.allocated /\ r.timer = "closing" /\ r.socket = h.socket
           /\ r.bind = h.bind /\ r.bindData = h.bindData /\ r.sending = h.sending
           /\ r.request = h.request /\ r.sendActive = h.sendActive /\ r.shared = h.shared
           /\ r.pending = h.pending /\ r.freeing /\ r.closes = count
           /\ r.stop = h.stop
  BY ZenonT(30) DEF Probes, CountsDue

LEMMA CountsSend ==
    ASSUME NEW h \in Probes, NEW send \in BOOLEAN, NEW count \in 0..4
    PROVE  CountsDue(h, send, count).waitSend <=> send
  BY Zenon DEF Probes, CountsDue

LEMMA NoteClosed ==
    ASSUME NEW p \in Probes, Using(p), Releasing(p), p.closes = Due(p) + 1
    PROVE  LET q == resolver_ephemeral_note_closed(p) IN q \in Probes /\ ProbeOK(q)
<1> DEFINE q == resolver_ephemeral_note_closed(p)
<1> SUFFICES q \in Probes /\ ProbeOK(q)
  BY Zenon
<1>1. /\ One(p.timer = "closing") \in 0..1 /\ One(p.socket = "closing") \in 0..1
      /\ One(p.waitSend) \in 0..1
  BY DEF One
<1>2. Due(p) \in 0..3 /\ p.closes \in 1..4
  BY <1>1 DEF Due
<1>3. CASE Due(p) = 0
  <2>1. p.timer # "closing" /\ p.socket # "closing" /\ ~ p.waitSend
    BY <1>1, <1>3 DEF Due, One
  <2>2. p.timer = "none" /\ p.socket = "none" /\ ~ p.sending /\ p.request = "none"
    BY <2>1, Zenon DEF Releasing, Using, Probes, Handles
  <2>3. q = Freed(p)
    BY <1>2, <1>3 DEF resolver_ephemeral_note_closed, Releasing, Freed, Forgotten
  <2> HIDE DEF q
  <2>4. /\ q \in Probes /\ q.ephemeral = p.ephemeral /\ q.transport = p.transport
        /\ ~ q.allocated /\ q.timer = p.timer /\ q.socket = p.socket /\ q.bind = p.bind
        /\ q.bindData = p.bindData /\ q.sending = p.sending /\ q.request = p.request
        /\ ~ q.timeout /\ ~ q.shared /\ q.pending = p.pending /\ ~ q.freeing
        /\ q.closes = 0 /\ ~ q.waitSend /\ q.stop = p.stop
    BY <2>3, Frees, Zenon
  <2>5. Using(q)
    BY <2>2, <2>4, Zenon DEF Using, Releasing
  <2>6. Counting(q) /\ Matching(q)
    BY <2>4, Zenon DEF Counting, Idling, Matching, Releasing
  <2> QED
    BY <2>4, <2>5, <2>6, Zenon DEF ProbeOK
<1>4. CASE Due(p) # 0
  <2>1. p.closes - 1 = Due(p) /\ Due(p) >= 1 /\ p.closes > 1 /\ p.closes - 1 \in 0..4
    BY <1>2, <1>4
  <2>2. q = [p EXCEPT !.closes = Due(p)]
    BY <1>2, <2>1 DEF resolver_ephemeral_note_closed, Releasing
  <2> HIDE DEF q
  <2>3. Due(p) \in 0..4
    BY <1>2
  <2>4. /\ q \in Probes /\ q.ephemeral = p.ephemeral /\ q.transport = p.transport
        /\ q.allocated = p.allocated /\ q.timer = p.timer /\ q.socket = p.socket
        /\ q.bind = p.bind /\ q.bindData = p.bindData /\ q.sending = p.sending
        /\ q.request = p.request /\ q.timeout = p.timeout /\ q.lock = p.lock
        /\ q.sendActive = p.sendActive /\ q.shared = p.shared /\ q.pending = p.pending
        /\ q.freeing = p.freeing /\ q.closes = Due(p) /\ q.waitSend = p.waitSend
        /\ q.stop = p.stop
    BY <2>2, <2>3, Zenon DEF Probes
  <2>5. Using(q)
    BY <2>4 DEF Using
  <2>6. Counting(q) /\ Matching(q)
    BY <2>1, <2>4, Zenon DEF Counting, Releasing, Due, Matching
  <2> QED
    BY <2>4, <2>5, <2>6, Zenon DEF ProbeOK
<1> QED
  BY <1>3, <1>4, Zenon

\* What is open is closed, and the query is no longer matched with answers.
LEMMA Halts ==
    ASSUME NEW p \in Probes, Using(p)
    PROVE  LET h == Halt(p) IN
           /\ h \in Probes /\ h.ephemeral = p.ephemeral /\ h.transport = p.transport
           /\ h.allocated = p.allocated /\ h.timer = p.timer
           /\ h.socket = IF p.socket = "none" THEN "none" ELSE "closing"
           /\ h.bind = p.bind /\ h.bindData = p.bindData /\ h.sending = p.sending
           /\ h.request = p.request /\ ~ h.timeout /\ h.sendActive = p.sendActive
           /\ (h.shared <=> p.shared /\ p.sendActive) /\ ~ h.pending
           /\ h.freeing = p.freeing /\ h.closes = p.closes /\ h.waitSend = p.waitSend
           /\ h.stop = p.stop
<1> DEFINE h == Halt(p)
<1>1. CASE p.shared
  <2>1. p.transport = "shared" /\ p.socket = "none"
    BY <1>1, Zenon DEF Using
  <2>2. h = [p EXCEPT !.timeout = FALSE, !.pending = FALSE, !.lock = FALSE,
                      !.shared = p.sendActive]
    BY <1>1, <2>1, Zenon DEF Halt, resolver_udp_query_release, Probes
  <2> HIDE DEF h
  <2>3. /\ h \in Probes /\ h.ephemeral = p.ephemeral /\ h.transport = p.transport
        /\ h.allocated = p.allocated /\ h.timer = p.timer /\ h.socket = p.socket
        /\ h.bind = p.bind /\ h.bindData = p.bindData /\ h.sending = p.sending
        /\ h.request = p.request /\ ~ h.timeout /\ h.sendActive = p.sendActive
        /\ h.shared = p.sendActive /\ ~ h.pending /\ h.freeing = p.freeing
        /\ h.closes = p.closes /\ h.waitSend = p.waitSend /\ h.stop = p.stop
    BY <2>2, ZenonT(30) DEF Probes
  <2> QED
    BY <1>1, <2>1, <2>3, Zenon DEF h
<1>2. CASE ~ p.shared
  <2>1. ~ p.pending
    BY <1>2, Zenon DEF Using
  <2>2. \/ p.socket = "none" /\ h = [p EXCEPT !.timeout = FALSE, !.lock = FALSE]
        \/ p.socket # "none" /\ h = [p EXCEPT !.timeout = FALSE, !.socket = "closing"]
    BY <1>2, Zenon DEF Halt, resolver_tcp_halt, resolver_udp_abort, Probes
  <2> HIDE DEF h
  <2>3. /\ h \in Probes /\ h.ephemeral = p.ephemeral /\ h.transport = p.transport
        /\ h.allocated = p.allocated /\ h.timer = p.timer
        /\ h.bind = p.bind /\ h.bindData = p.bindData /\ h.sending = p.sending
        /\ h.request = p.request /\ ~ h.timeout /\ h.sendActive = p.sendActive
        /\ h.shared = p.shared /\ h.pending = p.pending /\ h.freeing = p.freeing
        /\ h.closes = p.closes /\ h.waitSend = p.waitSend /\ h.stop = p.stop
    <3>1. CASE h = [p EXCEPT !.timeout = FALSE, !.lock = FALSE]
      BY <3>1, ZenonT(30) DEF Probes
    <3>2. CASE h = [p EXCEPT !.timeout = FALSE, !.socket = "closing"]
      BY <3>2, ZenonT(30) DEF Probes, Handles
    <3> QED
      BY <2>2, <3>1, <3>2, Zenon
  <2>4. h.socket = IF p.socket = "none" THEN "none" ELSE "closing"
    BY <2>2, Zenon DEF Probes
  <2> QED
    BY <1>2, <2>1, <2>3, <2>4, Zenon DEF h
<1> QED
  BY <1>1, <1>2, Zenon

LEMMA HaltKeeps ==
    ASSUME NEW p \in Probes, Using(p), p.allocated, Idling(p)
    PROVE  Halt(p) \in Probes /\ ProbeOK(Halt(p))
<1> DEFINE h == Halt(p)
<1>1. /\ h \in Probes /\ h.ephemeral = p.ephemeral /\ h.transport = p.transport
      /\ h.allocated = p.allocated /\ h.timer = p.timer
      /\ h.socket = IF p.socket = "none" THEN "none" ELSE "closing"
      /\ h.bind = p.bind /\ h.bindData = p.bindData /\ h.sending = p.sending
      /\ h.request = p.request /\ ~ h.timeout /\ h.sendActive = p.sendActive
      /\ (h.shared <=> p.shared /\ p.sendActive) /\ ~ h.pending
      /\ h.freeing = p.freeing /\ h.closes = p.closes /\ h.waitSend = p.waitSend
      /\ h.stop = p.stop
  BY Halts, Zenon
<1> HIDE DEF h
<1>2. Using(h)
  BY <1>1, Zenon DEF Using
<1>3. Counting(h) /\ Matching(h)
  BY <1>1, Zenon DEF Counting, Idling, Matching
<1> QED
  BY <1>1, <1>2, <1>3, Zenon DEF ProbeOK, h

\* The release of an ephemeral probe, and of one that is being released.
LEMMA Releases ==
    ASSUME NEW p \in Probes, Using(p), Counting(p), p.allocated, p.ephemeral
    PROVE  /\ resolver_ephemeral_release(p) \in Probes
           /\ ProbeOK(resolver_ephemeral_release(p))
<1>1. CASE p.freeing
  <2>1. Matching(p)
    BY <1>1, Zenon DEF Counting, Releasing, Idling, Matching
  <2> QED
    BY <1>1, <2>1, Zenon DEF resolver_ephemeral_release, ProbeOK
<1>2. CASE ~ p.freeing
  <2> DEFINE h == Halt(p)
             send == p.shared /\ p.sendActive
             count == 1 + One(send) + One(HaltCloses(p)) + One(p.timer # "none")
             counted == [h EXCEPT !.freeing = TRUE, !.waitSend = send, !.closes = count,
                                  !.timer = IF h.timer = "none" THEN h.timer ELSE "closing"]
  <2>1. /\ h \in Probes /\ h.ephemeral = p.ephemeral /\ h.transport = p.transport
        /\ h.allocated = p.allocated /\ h.timer = p.timer
        /\ h.socket = IF p.socket = "none" THEN "none" ELSE "closing"
        /\ h.bind = p.bind /\ h.bindData = p.bindData /\ h.sending = p.sending
        /\ h.request = p.request /\ ~ h.timeout /\ h.sendActive = p.sendActive
        /\ (h.shared <=> p.shared /\ p.sendActive) /\ ~ h.pending
        /\ h.freeing = p.freeing /\ h.closes = p.closes /\ h.waitSend = p.waitSend
        /\ h.stop = p.stop
    BY Halts, Zenon
  <2>2. resolver_ephemeral_release(p) = resolver_ephemeral_note_closed(counted)
    BY <1>2, Zenon DEF resolver_ephemeral_release
  <2> HIDE DEF h, counted
  <2>3. p.timer \in {"armed", "idle"}
    BY <1>2, Zenon DEF Counting, Idling, Releasing
  <2>4. send \in BOOLEAN /\ (send <=> p.shared /\ p.sendActive)
    BY Zenon
  <2>5. /\ One(send) \in 0..1 /\ One(h.socket = "closing") \in 0..1
        /\ One(p.timer # "none") = 1
        /\ One(HaltCloses(p)) = One(h.socket = "closing")
    <3>1. HaltCloses(p) <=> h.socket = "closing"
      BY <2>1, Zenon DEF HaltCloses, Using
    <3> QED
      BY <2>3, <3>1 DEF One
  <2>6. count = (1 + One(h.socket = "closing") + One(send)) + 1 /\ count \in 0..4
    BY <2>5
  <2>7. PICK s \in BOOLEAN, n \in 0..4 :
            /\ (s <=> p.shared /\ p.sendActive)
            /\ n = (1 + One(h.socket = "closing") + One(s)) + 1
            /\ resolver_ephemeral_release(p) = resolver_ephemeral_note_closed(CountsDue(h, s, n))
    BY <2>1, <2>2, <2>3, <2>4, <2>6, Zenon DEF CountsDue, counted
  <2> HIDE DEF send, count
  <2> DEFINE r == CountsDue(h, s, n)
  <2>8. /\ r \in Probes /\ r.ephemeral = h.ephemeral /\ r.transport = h.transport
        /\ r.allocated = h.allocated /\ r.timer = "closing" /\ r.socket = h.socket
        /\ r.bind = h.bind /\ r.bindData = h.bindData /\ r.sending = h.sending
        /\ r.request = h.request /\ r.sendActive = h.sendActive /\ r.shared = h.shared
        /\ r.pending = h.pending /\ r.freeing /\ r.closes = n
        /\ r.stop = h.stop
    <3>1. h \in Probes
      BY <2>1, Zenon
    <3> QED
      BY <3>1, Counts, ZenonT(30)
  <2>12. r.waitSend <=> s
    BY <2>1, CountsSend, Zenon
  <2> HIDE DEF r
  <2>9. Using(r)
    <3>1. p.transport # "shared" => ~ r.waitSend /\ ~ r.shared
      BY <2>1, <2>7, <2>8, <2>12, Zenon DEF Using
    <3> QED
      BY <2>1, <2>8, <3>1 DEF Using
  <2>10. Releasing(r)
    BY <2>1, <2>7, <2>8, <2>12, Zenon DEF Releasing, Using
  <2>11. r.closes = Due(r) + 1
    BY <2>7, <2>8, <2>12, Zenon DEF Due, One
  <2> QED
    BY <2>7, <2>8, <2>9, <2>10, <2>11, NoteClosed DEF r
<1> QED
  BY <1>1, <1>2, Zenon

\* What clients wait for, and what is cached, is no matter of the handles.
Same(p, q) ==
    /\ q.ephemeral = p.ephemeral /\ q.transport = p.transport /\ q.allocated = p.allocated
    /\ q.timer = p.timer /\ q.socket = p.socket /\ q.bind = p.bind
    /\ q.bindData = p.bindData /\ q.sending = p.sending /\ q.request = p.request
    /\ q.timeout = p.timeout /\ q.lock = p.lock /\ q.sendActive = p.sendActive
    /\ q.shared = p.shared /\ q.pending = p.pending /\ q.freeing = p.freeing
    /\ q.closes = p.closes /\ q.waitSend = p.waitSend /\ q.stop = p.stop

LEMMA SameKeeps ==
    ASSUME NEW p, NEW q, Same(p, q)
    PROVE  /\ Using(p) => Using(q)
           /\ Counting(p) => Counting(q)
           /\ Matching(p) => Matching(q)
           /\ ProbeOK(p) => ProbeOK(q)
<1>1. Using(p) => Using(q)
  BY DEF Same, Using
<1>2. Counting(p) => Counting(q)
  BY Zenon DEF Same, Counting, Releasing, Idling, Due
<1>3. Matching(p) => Matching(q)
  BY Zenon DEF Same, Matching
<1> QED
  BY <1>1, <1>2, <1>3, Zenon DEF ProbeOK

Waiting(p, w) == [p EXCEPT !.waiting = w]

LEMMA WaitingSets ==
    ASSUME NEW p \in Probes, NEW w \in SUBSET Clients
    PROVE  Waiting(p, w) \in Probes /\ Same(p, Waiting(p, w))
  BY Zenon DEF Probes, Waiting, Same

Cached(p, c) == [p EXCEPT !.cached = c]

LEMMA Caches ==
    ASSUME NEW p \in Probes
    PROVE  /\ Cached(p, TRUE) \in Probes /\ Same(p, Cached(p, TRUE))
           /\ Cached(p, FALSE) \in Probes /\ Same(p, Cached(p, FALSE))
  BY Zenon DEF Probes, Cached, Same

LEMMA FailKeeps ==
    ASSUME NEW p \in Probes, Using(p), Counting(p), p.allocated, p.ephemeral \/ Matching(p)
    PROVE  /\ resolver_ephemeral_fail(p) \in Probes
           /\ ProbeOK(resolver_ephemeral_fail(p))
<1>1. PICK w \in SUBSET Clients :
          resolver_ephemeral_fail(p) = resolver_ephemeral_release(Waiting(p, w))
  BY Zenon DEF resolver_ephemeral_fail, Waiting, Probes
<1> DEFINE q == Waiting(p, w)
<1>2. q \in Probes /\ Same(p, q)
  BY WaitingSets, Zenon
<1> HIDE DEF q
<1>3. /\ Using(q) /\ Counting(q) /\ q.allocated /\ q.ephemeral = p.ephemeral
      /\ Matching(p) => Matching(q)
  BY <1>2, SameKeeps, Zenon DEF Same
<1>4. CASE p.ephemeral
  BY <1>1, <1>2, <1>3, <1>4, Releases, Zenon DEF q
<1>5. CASE ~ p.ephemeral
  <2>1. resolver_ephemeral_release(q) = q
    BY <1>3, <1>5, Zenon DEF resolver_ephemeral_release
  <2> QED
    BY <1>1, <1>2, <1>3, <1>5, <2>1, Zenon DEF q, ProbeOK
<1> QED
  BY <1>4, <1>5, Zenon

\* The end of an attempt: by the release of an ephemeral probe, by the halt of a permanent.
LEMMA Ends ==
    ASSUME NEW p \in Probes, Using(p), Counting(p), p.allocated, NEW q,
           q = IF p.ephemeral THEN resolver_ephemeral_fail(p) ELSE Halt(p)
    PROVE  q \in Probes /\ ProbeOK(q)
<1>1. CASE p.ephemeral
  BY <1>1, FailKeeps, Zenon
<1>2. CASE ~ p.ephemeral
  <2>1. Idling(p)
    BY <1>2, Zenon DEF Counting, Releasing
  <2> QED
    BY <1>2, <2>1, HaltKeeps, Zenon
<1> QED
  BY <1>1, <1>2, Zenon

LEMMA DoneEnds ==
    ASSUME NEW p, Using(p), NEW handle \in {"bind", "socket"},
           handle = "bind" => p.shared
    PROVE  /\ p.transport # "tcp" =>
                 resolver_udp_done(p, handle, p.shared) =
                     IF p.ephemeral THEN resolver_ephemeral_fail(p) ELSE Halt(p)
           /\ p.transport # "tcp" /\ ~ p.shared =>
                 resolver_udp_done(p, handle, FALSE) =
                     IF p.ephemeral THEN resolver_ephemeral_fail(p) ELSE Halt(p)
           /\ p.transport = "tcp" =>
                 resolver_tcp_fail(p) =
                     IF p.ephemeral THEN resolver_ephemeral_fail(p) ELSE Halt(p)
  BY Zenon DEF resolver_udp_done, resolver_tcp_fail, Halt

LEMMA ProbeStarts == ProbeInit => ProbeInv
<1> SUFFICES ASSUME ProbeInit PROVE ProbeInv
  BY Zenon
<1>1. PICK e \in BOOLEAN, t \in {"udp", "shared", "tcp"} :
        probe = [ephemeral |-> e, transport |-> t, allocated |-> ~ e,
                 timer |-> IF e THEN "none" ELSE "armed", socket |-> "none",
                 bind |-> "none", bindData |-> "bind", sending |-> FALSE,
                 request |-> "none", timeout |-> FALSE, lock |-> FALSE,
                 sendActive |-> FALSE, shared |-> FALSE, pending |-> FALSE,
                 freeing |-> FALSE, closes |-> 0, waitSend |-> FALSE,
                 cached |-> FALSE, waiting |-> {}, stop |-> FALSE]
  BY Zenon DEF ProbeInit
<1>2. (IF e THEN "none" ELSE "armed") \in {"none", "armed"} /\ 0 \in 0..4 /\ (~ e) \in BOOLEAN
  OBVIOUS
<1>3. probe \in Probes
  BY <1>1, <1>2, Zenon DEF Probes, Handles
<1>4. /\ probe.socket = "none" /\ probe.bind = "none" /\ probe.bindData = "bind"
      /\ ~ probe.sending /\ probe.request = "none" /\ ~ probe.shared /\ ~ probe.pending
      /\ ~ probe.freeing /\ probe.closes = 0 /\ ~ probe.waitSend /\ ~ probe.timeout
      /\ probe.ephemeral => probe.timer = "none" /\ ~ probe.allocated
      /\ ~ probe.ephemeral => probe.timer = "armed" /\ probe.allocated
  BY <1>1, Zenon
<1>5. Using(probe) /\ Counting(probe) /\ Matching(probe)
  BY <1>4, Zenon DEF Using, Counting, Idling, Matching
<1> QED
  BY <1>3, <1>5, Zenon DEF ProbeInv, ProbeTypeOK, ProbeOK

\* A client asks, and a probe is begun.
LEMMA AsksKeeps ==
    ASSUME ProbeInv, NEW c \in Clients, aggregator_get_addr(c)
    PROVE  ProbeInv'
<1> DEFINE w == probe.waiting \cup {c}
           b == [probe EXCEPT !.allocated = TRUE, !.timer = "armed"]
<1>1. probe \in Probes /\ ProbeOK(probe)
  BY Zenon DEF ProbeInv, ProbeTypeOK
<1>2. w \in SUBSET Clients
  BY <1>1, Zenon DEF Probes
<1>3. CASE probe.allocated
  <2>1. probe' = Waiting(probe, w)
    BY <1>3, Zenon DEF aggregator_get_addr, Becomes, Waiting
  <2>2. probe' \in Probes /\ Same(probe, probe')
    BY <1>1, <1>2, <2>1, WaitingSets, Zenon
  <2> QED
    BY <1>1, <2>2, SameKeeps, Zenon DEF ProbeInv, ProbeTypeOK
<1>4. CASE ~ probe.allocated
  <2>1. probe' = Waiting(b, w)
    BY <1>1, <1>4, Zenon DEF aggregator_get_addr, Becomes, Waiting, Probes
  <2>2. probe.ephemeral
    BY <1>1, <1>4, Zenon DEF ProbeOK, Using
  <2>3. /\ b \in Probes /\ b.ephemeral = probe.ephemeral
        /\ b.transport = probe.transport /\ b.allocated /\ b.timer = "armed"
        /\ b.socket = probe.socket /\ b.bind = probe.bind /\ b.bindData = probe.bindData
        /\ b.sending = probe.sending /\ b.request = probe.request
        /\ b.timeout = probe.timeout /\ b.lock = probe.lock
        /\ b.sendActive = probe.sendActive /\ b.shared = probe.shared
        /\ b.pending = probe.pending /\ b.freeing = probe.freeing
        /\ b.closes = probe.closes /\ b.waitSend = probe.waitSend /\ b.stop = probe.stop
    BY <1>1, Zenon DEF Probes
  <2> HIDE DEF b
  <2>4. Using(b)
    BY <1>1, <1>4, <2>3, Zenon DEF ProbeOK, Using
  <2>5. Counting(b) /\ Matching(b)
    BY <1>1, <1>4, <2>3, Zenon DEF ProbeOK, Counting, Releasing, Idling, Matching
  <2>6. probe' \in Probes /\ Same(b, probe')
    BY <1>2, <2>1, <2>3, WaitingSets, Zenon
  <2> QED
    BY <2>4, <2>5, <2>6, SameKeeps, Zenon DEF ProbeInv, ProbeTypeOK, ProbeOK
<1> QED
  BY <1>3, <1>4, Zenon

LEMMA ExpiresKeeps == ProbeInv /\ CacheExpires => ProbeInv'
<1> SUFFICES ASSUME ProbeInv, CacheExpires PROVE ProbeInv'
  BY Zenon
<1>1. probe' = Cached(probe, FALSE)
  BY Zenon DEF CacheExpires, Becomes, Cached
<1>2. probe' \in Probes /\ Same(probe, probe')
  BY <1>1, Caches, Zenon DEF ProbeInv, ProbeTypeOK
<1> QED
  BY <1>2, SameKeeps, Zenon DEF ProbeInv, ProbeTypeOK

LEMMA TimeoutKeeps == ProbeInv /\ AttemptTimesOut => ProbeInv'
<1> SUFFICES ASSUME ProbeInv, AttemptTimesOut PROVE ProbeInv'
  BY Zenon
<1> DEFINE p == [probe EXCEPT !.timeout = FALSE]
<1>1. probe \in Probes /\ ProbeOK(probe) /\ probe.timeout
  BY Zenon DEF ProbeInv, ProbeTypeOK, AttemptTimesOut
<1>2. probe' = IF p.transport = "tcp" THEN resolver_tcp_fail(p)
               ELSE resolver_udp_done(p, "socket", p.shared)
  BY Zenon DEF AttemptTimesOut, Becomes
<1>3. /\ p \in Probes /\ p.ephemeral = probe.ephemeral /\ p.transport = probe.transport
      /\ p.allocated = probe.allocated /\ p.timer = probe.timer
      /\ p.socket = probe.socket /\ p.bind = probe.bind /\ p.bindData = probe.bindData
      /\ p.sending = probe.sending /\ p.request = probe.request /\ ~ p.timeout
      /\ p.lock = probe.lock /\ p.sendActive = probe.sendActive
      /\ p.shared = probe.shared /\ p.pending = probe.pending
      /\ p.freeing = probe.freeing /\ p.closes = probe.closes
      /\ p.waitSend = probe.waitSend /\ p.stop = probe.stop
  BY <1>1, ZenonT(30) DEF Probes
<1> HIDE DEF p
<1>4. Using(p) /\ Counting(p) /\ p.allocated
  BY <1>1, <1>3 DEF ProbeOK, Using, Counting, Releasing, Idling, Due
<1>5. probe' = IF p.ephemeral THEN resolver_ephemeral_fail(p) ELSE Halt(p)
  BY <1>2, <1>4, DoneEnds, Zenon
<1> QED
  BY <1>3, <1>4, <1>5, Ends, Zenon DEF ProbeInv, ProbeTypeOK

LEMMA ReadFailsKeeps == ProbeInv /\ ReadFails => ProbeInv'
<1> SUFFICES ASSUME ProbeInv, ReadFails PROVE ProbeInv'
  BY Zenon
<1>1. probe \in Probes /\ ProbeOK(probe) /\ probe.socket = "open"
  BY Zenon DEF ProbeInv, ProbeTypeOK, ReadFails
<1>2. /\ Using(probe) /\ Counting(probe) /\ probe.allocated /\ ~ probe.shared
      /\ probe.transport # "shared"
  BY <1>1, Zenon DEF ProbeOK, Using
<1>3. probe' = IF probe.ephemeral THEN resolver_ephemeral_fail(probe) ELSE Halt(probe)
  BY <1>2, DoneEnds, Zenon DEF ReadFails, Becomes
<1> QED
  BY <1>1, <1>2, <1>3, Ends, Zenon DEF ProbeInv, ProbeTypeOK

LEMMA AnswerKeeps == ProbeInv /\ ReadAnswer => ProbeInv'
<1> SUFFICES ASSUME ProbeInv, ReadAnswer PROVE ProbeInv'
  BY Zenon
<1>1. probe \in Probes /\ ProbeOK(probe)
  BY Zenon DEF ProbeInv, ProbeTypeOK
<1>2. /\ probe.allocated
      /\ probe.transport = "shared" => probe.pending /\ probe.shared
  BY <1>1, Zenon DEF ReadAnswer, ProbeOK, Using, Probes
<1>3. PICK answer \in {"fresh", "expired", "unusable"} : probe' = Answered(probe, answer)
  BY Zenon DEF ReadAnswer, Becomes
<1> DEFINE told == IF answer = "fresh" THEN [probe EXCEPT !.waiting = {}, !.cached = TRUE]
                   ELSE probe
<1>4. told \in Probes /\ Same(probe, told)
  <2>1. CASE answer = "fresh"
    <3> DEFINE w == Waiting(probe, {})
    <3>1. told = Cached(w, TRUE)
      BY <2>1, Zenon DEF Waiting, Cached
    <3>2. w \in Probes /\ Same(probe, w)
      BY <1>1, WaitingSets, Zenon
    <3> HIDE DEF w
    <3>3. told \in Probes /\ Same(w, told)
      BY <3>1, <3>2, Caches, Zenon
    <3> QED
      BY <3>2, <3>3, Zenon DEF Same
  <2>2. CASE answer # "fresh"
    BY <1>1, <2>2, Zenon DEF Same
  <2> QED
    BY <2>1, <2>2, Zenon
<1>5. probe' = IF probe.ephemeral
               THEN IF answer = "unusable" THEN resolver_ephemeral_fail(told)
                    ELSE resolver_ephemeral_release(told)
               ELSE IF probe.transport = "udp" /\ ~ probe.lock THEN told
               ELSE IF probe.transport = "shared" THEN resolver_udp_query_release(told)
               ELSE Halt(told)
  BY <1>3, Zenon DEF Answered
<1> HIDE DEF told
<1>6. /\ Using(told) /\ Counting(told) /\ ProbeOK(told) /\ told.allocated
      /\ told.ephemeral = probe.ephemeral /\ told.transport = probe.transport
      /\ told.shared = probe.shared
  BY <1>1, <1>2, <1>4, SameKeeps, Zenon DEF Same, ProbeOK
<1>7. CASE probe.ephemeral
  BY <1>4, <1>5, <1>6, <1>7, FailKeeps, Releases, Zenon DEF ProbeInv, ProbeTypeOK
<1>8. CASE ~ probe.ephemeral
  <2>1. Idling(told)
    BY <1>6, <1>8, Zenon DEF Counting, Releasing
  <2>2. told.transport = "shared" => Halt(told) = resolver_udp_query_release(told)
    BY <1>2, <1>6, Zenon DEF Halt
  <2>3. probe' = told \/ probe' = Halt(told)
    BY <1>5, <1>6, <1>8, <2>2, Zenon
  <2> QED
    BY <1>4, <1>6, <2>1, <2>3, HaltKeeps, Zenon DEF ProbeInv, ProbeTypeOK
<1> QED
  BY <1>7, <1>8, Zenon

Unsent(p) == [p EXCEPT !.sending = FALSE, !.sendActive = FALSE]

LEMMA Unsends ==
    ASSUME NEW p \in Probes
    PROVE  LET q == Unsent(p) IN
           /\ q \in Probes /\ q.ephemeral = p.ephemeral /\ q.transport = p.transport
           /\ q.allocated = p.allocated /\ q.timer = p.timer /\ q.socket = p.socket
           /\ q.bind = p.bind /\ q.bindData = p.bindData /\ ~ q.sending
           /\ q.request = p.request /\ q.timeout = p.timeout /\ q.lock = p.lock
           /\ ~ q.sendActive /\ q.shared = p.shared /\ q.pending = p.pending
           /\ q.freeing = p.freeing /\ q.closes = p.closes /\ q.waitSend = p.waitSend
           /\ q.stop = p.stop
  BY Zenon DEF Probes, Unsent

\* The send was released with the probe: its callback was counted.
LEMMA SendIsCounted ==
    ASSUME ProbeInv, probe.sending, probe.waitSend,
           probe' = resolver_ephemeral_note_closed(
               [Unsent(probe) EXCEPT !.waitSend = FALSE, !.shared = @ /\ probe.lock])
    PROVE  ProbeInv'
<1>1. probe \in Probes /\ ProbeOK(probe)
  BY Zenon DEF ProbeInv, ProbeTypeOK
<1>2. /\ Releasing(probe) /\ probe.closes = Due(probe) /\ Using(probe)
      /\ probe.transport = "shared" /\ probe.shared
  BY <1>1, Zenon DEF ProbeOK, Counting, Idling, Using
<1> DEFINE p == Unsent(probe)
           r == [p EXCEPT !.waitSend = FALSE, !.shared = probe.lock]
<1>3. /\ p \in Probes /\ p.ephemeral = probe.ephemeral /\ p.transport = probe.transport
      /\ p.allocated = probe.allocated /\ p.timer = probe.timer
      /\ p.socket = probe.socket /\ p.bind = probe.bind /\ p.bindData = probe.bindData
      /\ ~ p.sending /\ p.request = probe.request /\ p.timeout = probe.timeout
      /\ p.lock = probe.lock /\ ~ p.sendActive /\ p.shared = probe.shared
      /\ p.pending = probe.pending /\ p.freeing = probe.freeing
      /\ p.closes = probe.closes /\ p.waitSend = probe.waitSend /\ p.stop = probe.stop
  BY <1>1, Unsends, Zenon
<1>4. p.shared = TRUE /\ probe.lock \in BOOLEAN
  BY <1>1, <1>2, <1>3, Zenon DEF Probes
<1>5. probe' = resolver_ephemeral_note_closed(r)
  BY <1>3, <1>4, Zenon
<1> HIDE DEF p
<1>6. /\ r \in Probes /\ r.ephemeral = p.ephemeral /\ r.transport = p.transport
      /\ r.allocated = p.allocated /\ r.timer = p.timer /\ r.socket = p.socket
      /\ r.bind = p.bind /\ r.bindData = p.bindData /\ r.sending = p.sending
      /\ r.request = p.request /\ r.timeout = p.timeout /\ r.lock = p.lock
      /\ r.sendActive = p.sendActive /\ r.shared = probe.lock /\ r.pending = p.pending
      /\ r.freeing = p.freeing /\ r.closes = p.closes /\ ~ r.waitSend /\ r.stop = p.stop
  BY <1>3, <1>4, Zenon DEF Probes
<1> HIDE DEF r
<1>7. Using(r)
  BY <1>2, <1>3, <1>6 DEF Using, Releasing
<1>8. Releasing(r)
  BY <1>2, <1>3, <1>6 DEF Releasing
<1>9. r.closes = Due(r) + 1
  BY <1>2, <1>3, <1>6 DEF Due, One
<1> QED
  BY <1>5, <1>6, <1>7, <1>8, <1>9, NoteClosed, Zenon DEF ProbeInv, ProbeTypeOK

LEMMA SendKeeps == ProbeInv /\ resolver_send_udp => ProbeInv'
<1> SUFFICES ASSUME ProbeInv, resolver_send_udp PROVE ProbeInv'
  BY Zenon
<1>1. probe \in Probes /\ ProbeOK(probe) /\ probe.sending /\ probe.allocated
  BY Zenon DEF ProbeInv, ProbeTypeOK, resolver_send_udp
<1> DEFINE p == Unsent(probe)
<1>2. /\ p \in Probes /\ p.ephemeral = probe.ephemeral /\ p.transport = probe.transport
      /\ p.allocated = probe.allocated /\ p.timer = probe.timer
      /\ p.socket = probe.socket /\ p.bind = probe.bind /\ p.bindData = probe.bindData
      /\ ~ p.sending /\ p.request = probe.request /\ p.timeout = probe.timeout
      /\ p.lock = probe.lock /\ ~ p.sendActive /\ p.shared = probe.shared
      /\ p.pending = probe.pending /\ p.freeing = probe.freeing
      /\ p.closes = probe.closes /\ p.waitSend = probe.waitSend /\ p.stop = probe.stop
  BY <1>1, Unsends, Zenon
<1>3. \/ /\ p.waitSend
         /\ probe' = resolver_ephemeral_note_closed(
                        [p EXCEPT !.waitSend = FALSE, !.shared = @ /\ p.lock])
      \/ ~ p.waitSend /\ p.freeing /\ probe' = p
      \/ /\ ~ p.waitSend /\ ~ p.freeing
         /\ \/ probe' = resolver_udp_done(p, Handle, p.shared)
            \/ probe' \in Sent(p)
  BY Zenon DEF resolver_send_udp, Becomes, Unsent
<1>4. CASE p.waitSend
  <2>1. probe.waitSend
    BY <1>2, <1>4, Zenon
  <2>2. probe' = resolver_ephemeral_note_closed(
            [p EXCEPT !.waitSend = FALSE, !.shared = @ /\ probe.lock])
    BY <1>2, <1>3, <1>4, Zenon
  <2> QED
    BY <1>1, <2>1, <2>2, SendIsCounted, Zenon
<1> HIDE DEF p
<1>5. /\ Using(p) /\ p.allocated
      /\ p.transport = "shared" => p.shared
      /\ p.transport = "shared" \/ p.transport = "udp"
  BY <1>1, <1>2, Zenon DEF ProbeOK, Using
<1>6. Counting(p) /\ Matching(p)
  BY <1>1, <1>2, Zenon DEF ProbeOK, Counting, Releasing, Idling, Due, Matching
<1>7. CASE ~ p.waitSend /\ p.freeing
  BY <1>2, <1>3, <1>5, <1>6, <1>7, Zenon DEF ProbeInv, ProbeTypeOK, ProbeOK
<1>8. Handle = (IF p.transport = "shared" THEN "bind" ELSE "socket")
  BY <1>2, Zenon DEF Handle
<1>9. CASE probe' = resolver_udp_done(p, Handle, p.shared)
  <2>1. probe' = IF p.ephemeral THEN resolver_ephemeral_fail(p) ELSE Halt(p)
    BY <1>5, <1>8, <1>9, DoneEnds, Zenon
  <2> QED
    BY <1>2, <1>5, <1>6, <2>1, Ends, Zenon DEF ProbeInv, ProbeTypeOK
<1>10. CASE ~ p.freeing /\ probe' \in Sent(p) /\ p.shared
  <2>1. probe' = [p EXCEPT !.shared = p.lock] /\ p.lock \in BOOLEAN
    BY <1>2, <1>10, Zenon DEF Sent, Probes
  <2> DEFINE q == [p EXCEPT !.shared = p.lock]
  <2>2. /\ q \in Probes /\ q.ephemeral = p.ephemeral /\ q.transport = p.transport
        /\ q.allocated = p.allocated /\ q.timer = p.timer /\ q.socket = p.socket
        /\ q.bind = p.bind /\ q.bindData = p.bindData /\ q.sending = p.sending
        /\ q.request = p.request /\ q.timeout = p.timeout /\ q.lock = p.lock
        /\ q.sendActive = p.sendActive /\ q.shared = p.lock /\ q.pending = p.pending
        /\ q.freeing = p.freeing /\ q.closes = p.closes /\ q.waitSend = p.waitSend
        /\ q.stop = p.stop
    BY <1>2, Zenon DEF Probes
  <2> HIDE DEF q
  <2>3. Using(q)
    BY <1>2, <1>5, <1>6, <1>10, <2>2 DEF Using, Matching
  <2>4. Counting(q) /\ Matching(q)
    BY <1>6, <2>2, Zenon DEF Counting, Releasing, Idling, Due, Matching
  <2> QED
    BY <2>1, <2>2, <2>3, <2>4, Zenon DEF q, ProbeInv, ProbeTypeOK, ProbeOK
<1>11. CASE probe' \in Sent(p) /\ ~ p.shared
  <2>1. Handle = "socket" /\ p.transport = "udp"
    BY <1>5, <1>8, <1>11, Zenon
  <2>2. \/ probe' = [p EXCEPT !.bindData = p.bindData]
        \/ probe' = resolver_udp_done(p, "socket", FALSE)
    BY <1>11, <2>1, Zenon DEF Sent
  <2>3. [p EXCEPT !.bindData = p.bindData] = p
    BY <1>2, Zenon DEF Probes
  <2>4. CASE probe' = p
    BY <1>2, <1>5, <1>6, <2>4, Zenon DEF ProbeInv, ProbeTypeOK, ProbeOK
  <2>5. CASE probe' = resolver_udp_done(p, "socket", FALSE)
    <3>1. probe' = IF p.ephemeral THEN resolver_ephemeral_fail(p) ELSE Halt(p)
      BY <1>5, <1>11, <2>1, <2>5, DoneEnds, Zenon
    <3> QED
      BY <1>2, <1>5, <1>6, <3>1, Ends, Zenon DEF ProbeInv, ProbeTypeOK
  <2> QED
    BY <2>2, <2>3, <2>4, <2>5, Zenon
<1> QED
  BY <1>3, <1>4, <1>7, <1>9, <1>10, <1>11, Zenon

Requesting(p, request) == [p EXCEPT !.request = request]

LEMMA RequestFields ==
    ASSUME NEW p \in Probes, NEW request \in {"none", "length", "query"}
    PROVE  LET q == Requesting(p, request) IN
           /\ q \in Probes /\ q.ephemeral = p.ephemeral /\ q.transport = p.transport
           /\ q.allocated = p.allocated /\ q.timer = p.timer /\ q.socket = p.socket
           /\ q.bind = p.bind /\ q.bindData = p.bindData /\ q.sending = p.sending
           /\ q.request = request /\ q.timeout = p.timeout /\ q.lock = p.lock
           /\ q.sendActive = p.sendActive /\ q.shared = p.shared
           /\ q.pending = p.pending /\ q.freeing = p.freeing /\ q.closes = p.closes
           /\ q.waitSend = p.waitSend /\ q.stop = p.stop
  BY Zenon DEF Probes, Requesting

\* The requests of a TCP socket follow each other as long as it is open.
LEMMA RequestKeeps == ProbeInv /\ (RequestDone \/ QueryWritten) => ProbeInv'
<1> SUFFICES ASSUME ProbeInv, RequestDone \/ QueryWritten PROVE ProbeInv'
  BY Zenon
<1>1. probe \in Probes /\ ProbeOK(probe) /\ probe.request # "none"
  BY Zenon DEF ProbeInv, ProbeTypeOK, RequestDone, QueryWritten
<1>2. probe.transport = "tcp" /\ probe.socket # "none" /\ probe.allocated
  BY <1>1, Zenon DEF ProbeOK, Using
<1> DEFINE p == Requesting(probe, "none")
<1>3. \/ \E request \in {"none", "length", "query"} : probe' = Requesting(probe, request)
      \/ probe' = resolver_tcp_fail(p)
  <2>1. ASSUME NEW request \in {"length", "query"}
        PROVE  [Requesting(probe, "none") EXCEPT !.request = request] =
                   Requesting(probe, request)
    BY <1>1, Zenon DEF Requesting, Probes
  <2> QED
    BY <2>1, Zenon DEF RequestDone, QueryWritten, Becomes, Requesting
<1>4. ASSUME NEW request \in {"none", "length", "query"}
      PROVE  LET q == Requesting(probe, request) IN
             /\ q \in Probes /\ Using(q) /\ Counting(q) /\ Matching(q)
             /\ q.allocated /\ q.transport = "tcp"
  <2> DEFINE q == Requesting(probe, request)
  <2>1. /\ q \in Probes /\ q.ephemeral = probe.ephemeral
        /\ q.transport = probe.transport /\ q.allocated = probe.allocated
        /\ q.timer = probe.timer /\ q.socket = probe.socket /\ q.bind = probe.bind
        /\ q.bindData = probe.bindData /\ q.sending = probe.sending
        /\ q.request = request /\ q.timeout = probe.timeout /\ q.lock = probe.lock
        /\ q.sendActive = probe.sendActive /\ q.shared = probe.shared
        /\ q.pending = probe.pending /\ q.freeing = probe.freeing
        /\ q.closes = probe.closes /\ q.waitSend = probe.waitSend /\ q.stop = probe.stop
    BY <1>1, RequestFields
  <2> HIDE DEF q
  <2>2. Using(q)
    BY <1>1, <1>2, <2>1, Zenon DEF ProbeOK, Using
  <2>3. Counting(q) /\ Matching(q)
    BY <1>1, <2>1, Zenon DEF ProbeOK, Counting, Releasing, Idling, Due, Matching
  <2> QED
    BY <1>2, <2>1, <2>2, <2>3, Zenon DEF q
<1>5. CASE \E request \in {"none", "length", "query"} : probe' = Requesting(probe, request)
  BY <1>4, <1>5, Zenon DEF ProbeInv, ProbeTypeOK, ProbeOK
<1>6. CASE probe' = resolver_tcp_fail(p)
  <2>1. p \in Probes /\ Using(p) /\ Counting(p) /\ p.allocated /\ p.transport = "tcp"
    BY <1>4, Zenon
  <2> HIDE DEF p
  <2>2. probe' = IF p.ephemeral THEN resolver_ephemeral_fail(p) ELSE Halt(p)
    BY <1>6, <2>1, DoneEnds, Zenon
  <2> QED
    BY <2>1, <2>2, Ends, Zenon DEF ProbeInv, ProbeTypeOK
<1> QED
  BY <1>3, <1>5, <1>6, Zenon

Disconnected(p) ==
    [p EXCEPT !.socket = "none", !.lock = FALSE, !.timeout = FALSE, !.sendActive = FALSE]

LEMMA DisconnectFields ==
    ASSUME NEW p \in Probes
    PROVE  LET q == Disconnected(p) IN
           /\ q \in Probes /\ q.ephemeral = p.ephemeral /\ q.transport = p.transport
           /\ q.allocated = p.allocated /\ q.timer = p.timer /\ q.socket = "none"
           /\ q.bind = p.bind /\ q.bindData = p.bindData /\ q.sending = p.sending
           /\ q.request = p.request /\ ~ q.timeout /\ ~ q.lock /\ ~ q.sendActive
           /\ q.shared = p.shared /\ q.pending = p.pending /\ q.freeing = p.freeing
           /\ q.closes = p.closes /\ q.waitSend = p.waitSend /\ q.stop = p.stop
  BY ZenonT(30) DEF Probes, Disconnected, Handles

LEMMA SocketKeeps == ProbeInv /\ SocketClosed => ProbeInv'
<1> SUFFICES ASSUME ProbeInv, SocketClosed PROVE ProbeInv'
  BY Zenon
<1>1. /\ probe \in Probes /\ Using(probe) /\ Counting(probe) /\ Matching(probe)
      /\ probe.socket = "closing" /\ ~ probe.sending /\ probe.request = "none"
  BY Zenon DEF ProbeInv, ProbeTypeOK, ProbeOK, SocketClosed
<1>2. probe.transport # "shared" /\ ~ probe.shared /\ ~ probe.pending /\ probe.allocated
  BY <1>1, Zenon DEF Using
<1> DEFINE q == Disconnected(probe)
<1>3. probe' = resolver_ephemeral_note_closed(q)
  BY Zenon DEF SocketClosed, Becomes, Disconnected
<1>4. /\ q \in Probes /\ q.ephemeral = probe.ephemeral /\ q.transport = probe.transport
      /\ q.allocated = probe.allocated /\ q.timer = probe.timer /\ q.socket = "none"
      /\ q.bind = probe.bind /\ q.bindData = probe.bindData /\ q.sending = probe.sending
      /\ q.request = probe.request /\ ~ q.timeout /\ ~ q.lock /\ ~ q.sendActive
      /\ q.shared = probe.shared /\ q.pending = probe.pending
      /\ q.freeing = probe.freeing /\ q.closes = probe.closes
      /\ q.waitSend = probe.waitSend /\ q.stop = probe.stop
  BY <1>1, DisconnectFields, Zenon
<1> HIDE DEF q
<1>5. Using(q)
  BY <1>1, <1>2, <1>4, Zenon DEF Using
<1>6. CASE probe.freeing
  <2>1. Releasing(probe) /\ probe.closes = Due(probe)
    BY <1>1, <1>6, Zenon DEF Counting, Idling
  <2>2. Releasing(q)
    BY <1>4, <2>1, Zenon DEF Releasing
  <2>3. q.closes = Due(q) + 1
    BY <1>1, <1>4, <2>1 DEF Due, One
  <2> QED
    BY <1>3, <1>4, <1>5, <2>2, <2>3, NoteClosed, Zenon DEF ProbeInv, ProbeTypeOK
<1>7. CASE ~ probe.freeing
  <2>1. probe' = q
    BY <1>3, <1>4, <1>7, Zenon DEF resolver_ephemeral_note_closed
  <2>2. Counting(q) /\ Matching(q)
    BY <1>1, <1>2, <1>4, <1>7, Zenon DEF Counting, Releasing, Idling, Matching
  <2> QED
    BY <1>4, <1>5, <2>1, <2>2, Zenon DEF ProbeInv, ProbeTypeOK, ProbeOK
<1> QED
  BY <1>6, <1>7, Zenon

LEMMA TimerKeeps == ProbeInv /\ resolver_timer_handle_closed => ProbeInv'
<1> SUFFICES ASSUME ProbeInv, resolver_timer_handle_closed PROVE ProbeInv'
  BY Zenon
<1>1. /\ probe \in Probes /\ Using(probe) /\ Counting(probe) /\ probe.timer = "closing"
  BY Zenon DEF ProbeInv, ProbeTypeOK, ProbeOK, resolver_timer_handle_closed
<1>2. Releasing(probe) /\ probe.closes = Due(probe)
  BY <1>1, Zenon DEF Counting, Idling, Using
<1> DEFINE q == [probe EXCEPT !.timer = "none"]
<1>3. probe' = resolver_ephemeral_note_closed(q)
  BY Zenon DEF resolver_timer_handle_closed, Becomes
<1>4. /\ q \in Probes /\ q.ephemeral = probe.ephemeral /\ q.transport = probe.transport
      /\ q.allocated = probe.allocated /\ q.timer = "none" /\ q.socket = probe.socket
      /\ q.bind = probe.bind /\ q.bindData = probe.bindData /\ q.sending = probe.sending
      /\ q.request = probe.request /\ q.timeout = probe.timeout /\ q.lock = probe.lock
      /\ q.sendActive = probe.sendActive /\ q.shared = probe.shared
      /\ q.pending = probe.pending /\ q.freeing = probe.freeing
      /\ q.closes = probe.closes /\ q.waitSend = probe.waitSend /\ q.stop = probe.stop
  BY <1>1, Zenon DEF Probes
<1> HIDE DEF q
<1>5. Using(q)
  BY <1>1, <1>4 DEF Using
<1>6. Releasing(q)
  BY <1>2, <1>4, Zenon DEF Releasing
<1>7. q.closes = Due(q) + 1
  BY <1>1, <1>2, <1>4 DEF Due, One
<1> QED
  BY <1>3, <1>4, <1>5, <1>6, <1>7, NoteClosed, Zenon DEF ProbeInv, ProbeTypeOK

LEMMA BindKeeps ==
    ASSUME ProbeInv, resolver_udp_binds_halt \/ resolver_udp_bind_closed
    PROVE  ProbeInv'
<1>1. probe \in Probes /\ ProbeOK(probe)
  BY Zenon DEF ProbeInv, ProbeTypeOK
<1>2. CASE resolver_udp_binds_halt
  <2> DEFINE q == [probe EXCEPT !.bind = "closing"]
  <2>1. probe' = q /\ probe.stop
    BY <1>2, Zenon DEF resolver_udp_binds_halt, Becomes
  <2>2. /\ q \in Probes /\ q.ephemeral = probe.ephemeral
        /\ q.transport = probe.transport /\ q.allocated = probe.allocated
        /\ q.timer = probe.timer /\ q.socket = probe.socket /\ q.bind = "closing"
        /\ q.bindData = probe.bindData /\ q.sending = probe.sending
        /\ q.request = probe.request /\ q.timeout = probe.timeout /\ q.lock = probe.lock
        /\ q.sendActive = probe.sendActive /\ q.shared = probe.shared
        /\ q.pending = probe.pending /\ q.freeing = probe.freeing
        /\ q.closes = probe.closes /\ q.waitSend = probe.waitSend /\ q.stop = probe.stop
    BY <1>1, Zenon DEF Probes, Handles
  <2> HIDE DEF q
  <2>3. Using(q)
    BY <1>1, <2>1, <2>2 DEF ProbeOK, Using
  <2>4. Counting(q) /\ Matching(q)
    BY <1>1, <2>2, Zenon DEF ProbeOK, Counting, Releasing, Idling, Due, Matching
  <2> QED
    BY <2>1, <2>2, <2>3, <2>4, Zenon DEF ProbeInv, ProbeTypeOK, ProbeOK
<1>3. CASE resolver_udp_bind_closed
  <2> DEFINE q == [probe EXCEPT !.bind = "none", !.pending = FALSE]
  <2>1. probe' = q
    BY <1>3, Zenon DEF resolver_udp_bind_closed, Becomes
  <2>2. /\ q \in Probes /\ q.ephemeral = probe.ephemeral
        /\ q.transport = probe.transport /\ q.allocated = probe.allocated
        /\ q.timer = probe.timer /\ q.socket = probe.socket /\ q.bind = "none"
        /\ q.bindData = probe.bindData /\ q.sending = probe.sending
        /\ q.request = probe.request /\ q.timeout = probe.timeout /\ q.lock = probe.lock
        /\ q.sendActive = probe.sendActive /\ q.shared = probe.shared /\ ~ q.pending
        /\ q.freeing = probe.freeing /\ q.closes = probe.closes
        /\ q.waitSend = probe.waitSend /\ q.stop = probe.stop
    BY <1>1, Zenon DEF Probes, Handles
  <2> HIDE DEF q
  <2>3. Using(q)
    BY <1>1, <2>2 DEF ProbeOK, Using
  <2>4. Counting(q) /\ Matching(q)
    BY <1>1, <2>2, Zenon DEF ProbeOK, Counting, Releasing, Idling, Due, Matching
  <2> QED
    BY <2>1, <2>2, <2>3, <2>4, Zenon DEF ProbeInv, ProbeTypeOK, ProbeOK
<1> QED
  BY <1>2, <1>3, Zenon

\* alligator_stop releases an ephemeral probe and halts a permanent one for good.
LEMMA StopKeeps == ProbeInv /\ resolver_probes_halt => ProbeInv'
<1> SUFFICES ASSUME ProbeInv, resolver_probes_halt PROVE ProbeInv'
  BY Zenon
<1>1. probe \in Probes /\ ProbeOK(probe)
  BY Zenon DEF ProbeInv, ProbeTypeOK
<1> DEFINE p == [probe EXCEPT !.stop = TRUE]
<1>2. probe' = IF ~ p.allocated THEN p
               ELSE IF p.ephemeral THEN resolver_ephemeral_release(p)
               ELSE resolver_probe_halt(p)
  BY Zenon DEF resolver_probes_halt, Becomes
<1>3. /\ p \in Probes /\ p.ephemeral = probe.ephemeral /\ p.transport = probe.transport
      /\ p.allocated = probe.allocated /\ p.timer = probe.timer
      /\ p.socket = probe.socket /\ p.bind = probe.bind /\ p.bindData = probe.bindData
      /\ p.sending = probe.sending /\ p.request = probe.request
      /\ p.timeout = probe.timeout /\ p.lock = probe.lock
      /\ p.sendActive = probe.sendActive /\ p.shared = probe.shared
      /\ p.pending = probe.pending /\ p.freeing = probe.freeing
      /\ p.closes = probe.closes /\ p.waitSend = probe.waitSend /\ p.stop
  BY <1>1, Zenon DEF Probes
<1> HIDE DEF p
<1>4. Using(p)
  BY <1>1, <1>3 DEF ProbeOK, Using
<1>5. Counting(p) /\ Matching(p)
  BY <1>1, <1>3, Zenon DEF ProbeOK, Counting, Releasing, Idling, Due, Matching
<1>6. CASE ~ p.allocated
  BY <1>2, <1>3, <1>4, <1>5, <1>6, Zenon DEF ProbeInv, ProbeTypeOK, ProbeOK
<1>7. CASE p.allocated /\ p.ephemeral
  BY <1>2, <1>3, <1>4, <1>5, <1>7, Releases, Zenon DEF ProbeInv, ProbeTypeOK
<1>8. CASE p.allocated /\ ~ p.ephemeral
  <2> DEFINE r == [p EXCEPT !.timer = "idle"]
             h == Halt(r)
             q == [h EXCEPT !.lock = FALSE]
  <2>1. probe' = q
    BY <1>2, <1>8, Zenon DEF resolver_probe_halt
  <2>2. /\ r \in Probes /\ r.ephemeral = p.ephemeral /\ r.transport = p.transport
        /\ r.allocated = p.allocated /\ r.timer = "idle" /\ r.socket = p.socket
        /\ r.bind = p.bind /\ r.bindData = p.bindData /\ r.sending = p.sending
        /\ r.request = p.request /\ r.timeout = p.timeout /\ r.lock = p.lock
        /\ r.sendActive = p.sendActive /\ r.shared = p.shared /\ r.pending = p.pending
        /\ r.freeing = p.freeing /\ r.closes = p.closes /\ r.waitSend = p.waitSend
        /\ r.stop = p.stop
    BY <1>3, Zenon DEF Probes
  <2> HIDE DEF r
  <2>3. Using(r)
    BY <1>4, <1>8, <2>2, Zenon DEF Using
  <2>4. Idling(r)
    BY <1>5, <1>8, <2>2, Zenon DEF Counting, Releasing, Idling
  <2>5. h \in Probes /\ ProbeOK(h) /\ ~ h.pending
    BY <1>8, <2>2, <2>3, <2>4, HaltKeeps, Halts, Zenon
  <2> HIDE DEF h
  <2>6. /\ q \in Probes /\ q.ephemeral = h.ephemeral /\ q.transport = h.transport
        /\ q.allocated = h.allocated /\ q.timer = h.timer /\ q.socket = h.socket
        /\ q.bind = h.bind /\ q.bindData = h.bindData /\ q.sending = h.sending
        /\ q.request = h.request /\ q.timeout = h.timeout /\ ~ q.lock
        /\ q.sendActive = h.sendActive /\ q.shared = h.shared /\ q.pending = h.pending
        /\ q.freeing = h.freeing /\ q.closes = h.closes /\ q.waitSend = h.waitSend
        /\ q.stop = h.stop
    BY <2>5, Zenon DEF Probes
  <2> HIDE DEF q
  <2>7. Using(q)
    BY <2>5, <2>6 DEF ProbeOK, Using
  <2>8. Counting(q) /\ Matching(q)
    BY <2>5, <2>6, Zenon DEF ProbeOK, Counting, Releasing, Idling, Due, Matching
  <2> QED
    BY <2>1, <2>6, <2>7, <2>8, Zenon DEF ProbeInv, ProbeTypeOK, ProbeOK
<1> QED
  BY <1>6, <1>7, <1>8, Zenon

\* The steps of an attempt, each with what it sets.
Unknown(p) == [p EXCEPT !.lock = FALSE, !.shared = FALSE]

Started(p) == [p EXCEPT !.lock = TRUE, !.shared = FALSE, !.timeout = TRUE]

Asked(p) == [p EXCEPT !.bind = "open", !.pending = TRUE, !.shared = TRUE]

OwnSocket(p) == [p EXCEPT !.socket = "open"]

Sending(p) == [p EXCEPT !.sending = TRUE, !.sendActive = TRUE]

Dialled(p) == [p EXCEPT !.lock = TRUE, !.timeout = TRUE, !.socket = "open"]

Dialling(p) == [p EXCEPT !.request = "connect"]

LEMMA UnknownFields ==
    ASSUME NEW p \in Probes
    PROVE  LET q == Unknown(p) IN
           /\ q \in Probes /\ q.ephemeral = p.ephemeral /\ q.transport = p.transport
           /\ q.allocated = p.allocated /\ q.timer = p.timer /\ q.socket = p.socket
           /\ q.bind = p.bind /\ q.bindData = p.bindData /\ q.sending = p.sending
           /\ q.request = p.request /\ q.timeout = p.timeout /\ ~ q.lock
           /\ q.sendActive = p.sendActive /\ ~ q.shared /\ q.pending = p.pending
           /\ q.freeing = p.freeing /\ q.closes = p.closes /\ q.waitSend = p.waitSend
           /\ q.stop = p.stop
  BY Zenon DEF Probes, Unknown

LEMMA StartedFields ==
    ASSUME NEW p \in Probes
    PROVE  LET q == Started(p) IN
           /\ q \in Probes /\ q.ephemeral = p.ephemeral /\ q.transport = p.transport
           /\ q.allocated = p.allocated /\ q.timer = p.timer /\ q.socket = p.socket
           /\ q.bind = p.bind /\ q.bindData = p.bindData /\ q.sending = p.sending
           /\ q.request = p.request /\ q.timeout /\ q.lock
           /\ q.sendActive = p.sendActive /\ ~ q.shared /\ q.pending = p.pending
           /\ q.freeing = p.freeing /\ q.closes = p.closes /\ q.waitSend = p.waitSend
           /\ q.stop = p.stop
  BY Zenon DEF Probes, Started

LEMMA AskedFields ==
    ASSUME NEW p \in Probes
    PROVE  LET q == Asked(p) IN
           /\ q \in Probes /\ q.ephemeral = p.ephemeral /\ q.transport = p.transport
           /\ q.allocated = p.allocated /\ q.timer = p.timer /\ q.socket = p.socket
           /\ q.bind = "open" /\ q.bindData = p.bindData /\ q.sending = p.sending
           /\ q.request = p.request /\ q.timeout = p.timeout /\ q.lock = p.lock
           /\ q.sendActive = p.sendActive /\ q.shared /\ q.pending
           /\ q.freeing = p.freeing /\ q.closes = p.closes /\ q.waitSend = p.waitSend
           /\ q.stop = p.stop
  BY Zenon DEF Probes, Asked, Handles

LEMMA OwnSocketFields ==
    ASSUME NEW p \in Probes
    PROVE  LET q == OwnSocket(p) IN
           /\ q \in Probes /\ q.ephemeral = p.ephemeral /\ q.transport = p.transport
           /\ q.allocated = p.allocated /\ q.timer = p.timer /\ q.socket = "open"
           /\ q.bind = p.bind /\ q.bindData = p.bindData /\ q.sending = p.sending
           /\ q.request = p.request /\ q.timeout = p.timeout /\ q.lock = p.lock
           /\ q.sendActive = p.sendActive /\ q.shared = p.shared
           /\ q.pending = p.pending /\ q.freeing = p.freeing /\ q.closes = p.closes
           /\ q.waitSend = p.waitSend /\ q.stop = p.stop
  BY Zenon DEF Probes, OwnSocket, Handles

LEMMA SendingFields ==
    ASSUME NEW p \in Probes
    PROVE  LET q == Sending(p) IN
           /\ q \in Probes /\ q.ephemeral = p.ephemeral /\ q.transport = p.transport
           /\ q.allocated = p.allocated /\ q.timer = p.timer /\ q.socket = p.socket
           /\ q.bind = p.bind /\ q.bindData = p.bindData /\ q.sending
           /\ q.request = p.request /\ q.timeout = p.timeout /\ q.lock = p.lock
           /\ q.sendActive /\ q.shared = p.shared /\ q.pending = p.pending
           /\ q.freeing = p.freeing /\ q.closes = p.closes /\ q.waitSend = p.waitSend
           /\ q.stop = p.stop
  BY Zenon DEF Probes, Sending

LEMMA DialledFields ==
    ASSUME NEW p \in Probes
    PROVE  LET q == Dialled(p) IN
           /\ q \in Probes /\ q.ephemeral = p.ephemeral /\ q.transport = p.transport
           /\ q.allocated = p.allocated /\ q.timer = p.timer /\ q.socket = "open"
           /\ q.bind = p.bind /\ q.bindData = p.bindData /\ q.sending = p.sending
           /\ q.request = p.request /\ q.timeout /\ q.lock
           /\ q.sendActive = p.sendActive /\ q.shared = p.shared
           /\ q.pending = p.pending /\ q.freeing = p.freeing /\ q.closes = p.closes
           /\ q.waitSend = p.waitSend /\ q.stop = p.stop
  BY Zenon DEF Probes, Dialled, Handles

LEMMA DiallingFields ==
    ASSUME NEW p \in Probes
    PROVE  LET q == Dialling(p) IN
           /\ q \in Probes /\ q.ephemeral = p.ephemeral /\ q.transport = p.transport
           /\ q.allocated = p.allocated /\ q.timer = p.timer /\ q.socket = p.socket
           /\ q.bind = p.bind /\ q.bindData = p.bindData /\ q.sending = p.sending
           /\ q.request = "connect" /\ q.timeout = p.timeout /\ q.lock = p.lock
           /\ q.sendActive = p.sendActive /\ q.shared = p.shared
           /\ q.pending = p.pending /\ q.freeing = p.freeing /\ q.closes = p.closes
           /\ q.waitSend = p.waitSend /\ q.stop = p.stop
  BY Zenon DEF Probes, Dialling

LEMMA QueryReleaseKeeps ==
    ASSUME NEW p \in Probes, Using(p), Idling(p), p.allocated, p.transport = "shared"
    PROVE  /\ resolver_udp_query_release(p) \in Probes
           /\ ProbeOK(resolver_udp_query_release(p))
<1> DEFINE q == resolver_udp_query_release(p)
           b == p.shared /\ p.sendActive
<1>1. b \in BOOLEAN
  BY Zenon
<1>2. q = [p EXCEPT !.timeout = FALSE, !.pending = FALSE, !.lock = FALSE, !.shared = b]
  BY Zenon DEF resolver_udp_query_release
<1> HIDE DEF q, b
<1>3. /\ q \in Probes /\ q.ephemeral = p.ephemeral /\ q.transport = p.transport
      /\ q.allocated = p.allocated /\ q.timer = p.timer /\ q.socket = p.socket
      /\ q.bind = p.bind /\ q.bindData = p.bindData /\ q.sending = p.sending
      /\ q.request = p.request /\ ~ q.timeout /\ ~ q.lock /\ q.sendActive = p.sendActive
      /\ q.shared = b /\ ~ q.pending /\ q.freeing = p.freeing /\ q.closes = p.closes
      /\ q.waitSend = p.waitSend /\ q.stop = p.stop
  BY <1>1, <1>2, ZenonT(30) DEF Probes
<1>4. b <=> p.shared /\ p.sendActive
  BY Zenon DEF b
<1>5. Using(q)
  BY <1>3, <1>4, Zenon DEF Using
<1>6. Counting(q) /\ Matching(q)
  BY <1>3, Zenon DEF Counting, Idling, Matching
<1> QED
  BY <1>3, <1>5, <1>6, Zenon DEF q, ProbeOK

LEMMA SharedKeeps ==
    ASSUME NEW p \in Probes, ProbeOK(p), Idling(p), p.allocated, p.transport = "shared",
           p.lock, p.timeout, ~ p.shared, ~ p.sendActive, NEW q \in ConnectShared(p)
    PROVE  q \in Probes /\ ProbeOK(q)
<1> DEFINE a == Asked(p)
           s == Sending(a)
<1>1. \/ q = s
      \/ q \in {resolver_ephemeral_fail(a), resolver_ephemeral_fail(p)}
            /\ p.ephemeral
      \/ q \in {resolver_udp_query_release(a), resolver_udp_query_release(p)}
  <2>1. a.ephemeral = p.ephemeral
    BY AskedFields, Zenon
  <2> QED
    BY <2>1, Zenon DEF ConnectShared, Asked, Sending
<1>2. /\ a \in Probes /\ a.ephemeral = p.ephemeral /\ a.transport = p.transport
      /\ a.allocated = p.allocated /\ a.timer = p.timer /\ a.socket = p.socket
      /\ a.bind = "open" /\ a.bindData = p.bindData /\ a.sending = p.sending
      /\ a.request = p.request /\ a.timeout = p.timeout /\ a.lock = p.lock
      /\ a.sendActive = p.sendActive /\ a.shared /\ a.pending /\ a.freeing = p.freeing
      /\ a.closes = p.closes /\ a.waitSend = p.waitSend /\ a.stop = p.stop
  BY AskedFields, Zenon
<1>3. /\ s \in Probes /\ s.ephemeral = a.ephemeral /\ s.transport = a.transport
      /\ s.allocated = a.allocated /\ s.timer = a.timer /\ s.socket = a.socket
      /\ s.bind = a.bind /\ s.bindData = a.bindData /\ s.sending
      /\ s.request = a.request /\ s.timeout = a.timeout /\ s.lock = a.lock
      /\ s.sendActive /\ s.shared = a.shared /\ s.pending = a.pending
      /\ s.freeing = a.freeing /\ s.closes = a.closes /\ s.waitSend = a.waitSend
      /\ s.stop = a.stop
  BY <1>2, SendingFields, Zenon
<1> HIDE DEF a, s
<1>4. Using(a) /\ Matching(a)
  BY <1>2, Zenon DEF ProbeOK, Using, Matching
<1>5. Idling(a) /\ Counting(a)
  BY <1>2, Zenon DEF Idling, Counting
<1>6. Using(s)
  BY <1>2, <1>3, <1>4 DEF Using
<1>7. Counting(s) /\ Matching(s)
  BY <1>3, <1>4, <1>5, Zenon DEF Idling, Counting, Matching
<1>8. Using(p) /\ Counting(p)
  BY Zenon DEF ProbeOK
<1>9. CASE q = s
  BY <1>3, <1>6, <1>7, <1>9, Zenon DEF ProbeOK
<1>10. CASE q \in {resolver_ephemeral_fail(a), resolver_ephemeral_fail(p)} /\ p.ephemeral
  BY <1>2, <1>4, <1>5, <1>8, <1>10, FailKeeps, Zenon
<1>11. CASE q \in {resolver_udp_query_release(a), resolver_udp_query_release(p)}
  BY <1>2, <1>4, <1>5, <1>8, <1>11, QueryReleaseKeeps, Zenon
<1> QED
  BY <1>1, <1>9, <1>10, <1>11, Zenon

LEMMA OwnKeeps ==
    ASSUME NEW p \in Probes, ProbeOK(p), Idling(p), p.allocated, p.transport = "udp",
           NEW q \in ConnectOwn(p)
    PROVE  q \in Probes /\ ProbeOK(q)
<1> DEFINE a == OwnSocket(p)
           s == Sending(a)
<1>1. q = s \/ q = resolver_udp_done(a, "socket", FALSE)
  BY Zenon DEF ConnectOwn, OwnSocket, Sending
<1>2. /\ a \in Probes /\ a.ephemeral = p.ephemeral /\ a.transport = p.transport
      /\ a.allocated = p.allocated /\ a.timer = p.timer /\ a.socket = "open"
      /\ a.bind = p.bind /\ a.bindData = p.bindData /\ a.sending = p.sending
      /\ a.request = p.request /\ a.timeout = p.timeout /\ a.lock = p.lock
      /\ a.sendActive = p.sendActive /\ a.shared = p.shared /\ a.pending = p.pending
      /\ a.freeing = p.freeing /\ a.closes = p.closes /\ a.waitSend = p.waitSend
      /\ a.stop = p.stop
  BY OwnSocketFields, Zenon
<1>3. /\ s \in Probes /\ s.ephemeral = a.ephemeral /\ s.transport = a.transport
      /\ s.allocated = a.allocated /\ s.timer = a.timer /\ s.socket = a.socket
      /\ s.bind = a.bind /\ s.bindData = a.bindData /\ s.sending
      /\ s.request = a.request /\ s.timeout = a.timeout /\ s.lock = a.lock
      /\ s.sendActive /\ s.shared = a.shared /\ s.pending = a.pending
      /\ s.freeing = a.freeing /\ s.closes = a.closes /\ s.waitSend = a.waitSend
      /\ s.stop = a.stop
  BY <1>2, SendingFields, Zenon
<1> HIDE DEF a, s
<1>4. Using(a) /\ ~ a.shared /\ Matching(a)
  BY <1>2, Zenon DEF ProbeOK, Using, Matching
<1>5. Counting(a)
  BY <1>2, Zenon DEF Idling, Counting
<1>6. Using(s)
  BY <1>2, <1>3, <1>4 DEF Using
<1>7. Counting(s) /\ Matching(s)
  BY <1>2, <1>3, <1>4 DEF Idling, Counting, Matching
<1>8. CASE q = s
  BY <1>3, <1>6, <1>7, <1>8, Zenon DEF ProbeOK
<1>9. CASE q = resolver_udp_done(a, "socket", FALSE)
  <2>1. q = IF a.ephemeral THEN resolver_ephemeral_fail(a) ELSE Halt(a)
    BY <1>2, <1>4, <1>9, DoneEnds, Zenon
  <2> QED
    BY <1>2, <1>4, <1>5, <2>1, Ends, Zenon
<1> QED
  BY <1>1, <1>8, <1>9, Zenon

LEMMA UdpKeeps ==
    ASSUME NEW p \in Probes, ProbeOK(p), Idling(p), p.allocated, p.transport # "tcp",
           NEW q \in resolver_connect_udp(p)
    PROVE  q \in Probes /\ ProbeOK(q)
<1>1. Using(p) /\ Counting(p) /\ Matching(p)
  BY Zenon DEF ProbeOK
<1>2. CASE p.sendActive
  <2>1. q = resolver_ephemeral_fail(p)
    BY <1>2, Zenon DEF resolver_connect_udp
  <2> QED
    BY <1>1, <2>1, FailKeeps, Zenon
<1>3. CASE ~ p.sendActive /\ p.lock /\ p.timeout
  <2>1. q = p
    BY <1>3, Zenon DEF resolver_connect_udp
  <2> QED
    BY <2>1, Zenon
<1>4. CASE ~ p.sendActive /\ ~ (p.lock /\ p.timeout) /\ p.lock /\ p.socket # "none"
  <2>1. \/ q = resolver_ephemeral_fail(p)
        \/ q = Halt(p)
        \/ q = p
    BY <1>4, Zenon DEF resolver_connect_udp
  <2> QED
    BY <1>1, <2>1, FailKeeps, HaltKeeps, Zenon
<1>5. CASE ~ p.sendActive /\ ~ (p.lock /\ p.timeout) /\ ~ (p.lock /\ p.socket # "none")
  <2> DEFINE u == Unknown(p)
             s == Started(p)
  <2>1. \/ q = resolver_ephemeral_fail(u)
        \/ p.transport = "shared" /\ q \in ConnectShared(s)
        \/ p.transport # "shared" /\ q \in ConnectOwn(s)
    BY <1>5, Zenon DEF resolver_connect_udp, Unknown, Started
  <2>2. ~ p.pending /\ (p.sending => p.transport = "udp")
    BY <1>1, <1>5, Zenon DEF Using, Matching
  <2>3. /\ u \in Probes /\ u.ephemeral = p.ephemeral /\ u.transport = p.transport
        /\ u.allocated = p.allocated /\ u.timer = p.timer /\ u.socket = p.socket
        /\ u.bind = p.bind /\ u.bindData = p.bindData /\ u.sending = p.sending
        /\ u.request = p.request /\ u.timeout = p.timeout /\ ~ u.lock
        /\ u.sendActive = p.sendActive /\ ~ u.shared /\ u.pending = p.pending
        /\ u.freeing = p.freeing /\ u.closes = p.closes /\ u.waitSend = p.waitSend
        /\ u.stop = p.stop
    BY UnknownFields, Zenon
  <2>4. /\ s \in Probes /\ s.ephemeral = p.ephemeral /\ s.transport = p.transport
        /\ s.allocated = p.allocated /\ s.timer = p.timer /\ s.socket = p.socket
        /\ s.bind = p.bind /\ s.bindData = p.bindData /\ s.sending = p.sending
        /\ s.request = p.request /\ s.timeout /\ s.lock /\ s.sendActive = p.sendActive
        /\ ~ s.shared /\ s.pending = p.pending /\ s.freeing = p.freeing
        /\ s.closes = p.closes /\ s.waitSend = p.waitSend /\ s.stop = p.stop
    BY StartedFields, Zenon
  <2> HIDE DEF u, s
  <2>5. Using(u) /\ Using(s)
    BY <1>1, <2>2, <2>3, <2>4 DEF Using
  <2>6. Idling(s) /\ Counting(u) /\ Counting(s) /\ Matching(u) /\ Matching(s)
    BY <2>2, <2>3, <2>4, Zenon DEF Idling, Counting, Matching
  <2>7. CASE q = resolver_ephemeral_fail(u)
    BY <2>3, <2>5, <2>6, <2>7, FailKeeps, Zenon
  <2>8. CASE p.transport = "shared" /\ q \in ConnectShared(s)
    BY <1>5, <2>4, <2>5, <2>6, <2>8, SharedKeeps, Zenon DEF ProbeOK
  <2>9. CASE p.transport # "shared" /\ q \in ConnectOwn(s)
    <3>1. p.transport = "udp"
      BY <2>9, Zenon DEF Probes
    <3> QED
      BY <2>4, <2>5, <2>6, <2>9, <3>1, OwnKeeps, Zenon DEF ProbeOK
  <2> QED
    BY <2>1, <2>7, <2>8, <2>9, Zenon
<1> QED
  BY <1>2, <1>3, <1>4, <1>5, Zenon

LEMMA TcpKeeps ==
    ASSUME NEW p \in Probes, ProbeOK(p), Idling(p), p.allocated, p.transport = "tcp",
           NEW q \in resolver_connect_tcp(p)
    PROVE  q \in Probes /\ ProbeOK(q)
<1>1. Using(p) /\ Counting(p) /\ Matching(p)
  BY Zenon DEF ProbeOK
<1> DEFINE s == Dialled(p)
           r == Dialling(s)
<1>2. \/ q \in {p, resolver_ephemeral_fail(p), resolver_tcp_halt(p)}
      \/ q = r
      \/ q = resolver_tcp_fail(s)
  BY Zenon DEF resolver_connect_tcp, Dialled, Dialling
<1>3. resolver_tcp_halt(p) = Halt(p)
  BY Zenon DEF Halt
<1>4. /\ s \in Probes /\ s.ephemeral = p.ephemeral /\ s.transport = p.transport
      /\ s.allocated = p.allocated /\ s.timer = p.timer /\ s.socket = "open"
      /\ s.bind = p.bind /\ s.bindData = p.bindData /\ s.sending = p.sending
      /\ s.request = p.request /\ s.timeout /\ s.lock /\ s.sendActive = p.sendActive
      /\ s.shared = p.shared /\ s.pending = p.pending /\ s.freeing = p.freeing
      /\ s.closes = p.closes /\ s.waitSend = p.waitSend /\ s.stop = p.stop
  BY DialledFields, Zenon
<1>5. /\ r \in Probes /\ r.ephemeral = s.ephemeral /\ r.transport = s.transport
      /\ r.allocated = s.allocated /\ r.timer = s.timer /\ r.socket = s.socket
      /\ r.bind = s.bind /\ r.bindData = s.bindData /\ r.sending = s.sending
      /\ r.request = "connect" /\ r.timeout = s.timeout /\ r.lock = s.lock
      /\ r.sendActive = s.sendActive /\ r.shared = s.shared /\ r.pending = s.pending
      /\ r.freeing = s.freeing /\ r.closes = s.closes /\ r.waitSend = s.waitSend
      /\ r.stop = s.stop
  BY <1>4, DiallingFields, Zenon
<1> HIDE DEF s, r
<1>6. Using(s) /\ Using(r)
  BY <1>1, <1>4, <1>5 DEF Using
<1>7. Counting(s) /\ Counting(r) /\ Matching(r)
  BY <1>1, <1>4, <1>5 DEF Idling, Counting, Matching
<1>8. CASE q \in {p, resolver_ephemeral_fail(p), resolver_tcp_halt(p)}
  BY <1>1, <1>3, <1>8, FailKeeps, HaltKeeps, Zenon
<1>9. CASE q = r
  BY <1>5, <1>6, <1>7, <1>9, Zenon DEF ProbeOK
<1>10. CASE q = resolver_tcp_fail(s)
  <2>1. q = IF s.ephemeral THEN resolver_ephemeral_fail(s) ELSE Halt(s)
    BY <1>4, <1>6, <1>10, DoneEnds, Zenon
  <2> QED
    BY <1>4, <1>6, <1>7, <2>1, Ends, Zenon
<1> QED
  BY <1>2, <1>8, <1>9, <1>10, Zenon

LEMMA StartKeeps == ProbeInv /\ resolver_start => ProbeInv'
<1> SUFFICES ASSUME ProbeInv, resolver_start PROVE ProbeInv'
  BY Zenon
<1>1. /\ probe \in Probes /\ Using(probe) /\ Counting(probe) /\ Matching(probe)
      /\ probe.allocated /\ probe.timer = "armed"
  BY Zenon DEF ProbeInv, ProbeTypeOK, ProbeOK, resolver_start
<1> DEFINE t == IF probe.ephemeral THEN "idle" ELSE "armed"
           p == [probe EXCEPT !.timer = t]
<1>2. \/ probe.stop /\ probe' = resolver_ephemeral_release(p)
      \/ probe.transport = "tcp" /\ probe' \in resolver_connect_tcp(p)
      \/ probe.transport # "tcp" /\ probe' \in resolver_connect_udp(p)
  BY Zenon DEF resolver_start, Becomes
<1>3. t \in {"idle", "armed"}
  BY Zenon
<1> HIDE DEF t
<1>4. /\ p \in Probes /\ p.ephemeral = probe.ephemeral /\ p.transport = probe.transport
      /\ p.allocated = probe.allocated /\ p.timer = t /\ p.socket = probe.socket
      /\ p.bind = probe.bind /\ p.bindData = probe.bindData /\ p.sending = probe.sending
      /\ p.request = probe.request /\ p.timeout = probe.timeout /\ p.lock = probe.lock
      /\ p.sendActive = probe.sendActive /\ p.shared = probe.shared
      /\ p.pending = probe.pending /\ p.freeing = probe.freeing
      /\ p.closes = probe.closes /\ p.waitSend = probe.waitSend /\ p.stop = probe.stop
  BY <1>1, <1>3, Zenon DEF Probes
<1> HIDE DEF p
<1>5. Using(p)
  BY <1>1, <1>4, Zenon DEF Using
<1>6. Idling(p) /\ Counting(p) /\ Matching(p)
  BY <1>1, <1>3, <1>4, Zenon DEF Counting, Releasing, Idling, Matching
<1>7. ProbeOK(p)
  BY <1>5, <1>6, Zenon DEF ProbeOK
<1>8. CASE probe' = resolver_ephemeral_release(p)
  <2>1. CASE p.ephemeral
    BY <1>1, <1>4, <1>5, <1>6, <1>8, <2>1, Releases, Zenon DEF ProbeInv, ProbeTypeOK
  <2>2. CASE ~ p.ephemeral
    <3>1. probe' = p
      BY <1>8, <2>2, Zenon DEF resolver_ephemeral_release
    <3> QED
      BY <1>4, <1>7, <3>1, Zenon DEF ProbeInv, ProbeTypeOK
  <2> QED
    BY <2>1, <2>2, Zenon
<1>9. CASE probe.transport = "tcp" /\ probe' \in resolver_connect_tcp(p)
  BY <1>1, <1>4, <1>6, <1>7, <1>9, TcpKeeps, Zenon DEF ProbeInv, ProbeTypeOK
<1>10. CASE probe.transport # "tcp" /\ probe' \in resolver_connect_udp(p)
  BY <1>1, <1>4, <1>6, <1>7, <1>10, UdpKeeps, Zenon DEF ProbeInv, ProbeTypeOK
<1> QED
  BY <1>2, <1>8, <1>9, <1>10, Zenon

\* Through every callback, timeout and stop of the resolver, the count of closes that
\* an ephemeral probe waits for is the number of the callbacks that are still due to it.
THEOREM ProbeInvariant == ProbeSpec => []ProbeInv
<1>1. ProbeInv /\ [ProbeNext]_probe => ProbeInv'
  <2>1. ProbeInv /\ ProbeNext => ProbeInv'
    BY AsksKeeps, ExpiresKeeps, StartKeeps, TimeoutKeeps, SendKeeps, RequestKeeps, SocketKeeps,
       TimerKeeps, BindKeeps, AnswerKeeps, ReadFailsKeeps, StopKeeps, Zenon
    DEF ProbeNext, Callbacks
  <2>2. ProbeInv /\ UNCHANGED probe => ProbeInv'
    BY Zenon DEF ProbeInv, ProbeTypeOK
  <2> QED
    BY <2>1, <2>2, Zenon
<1> QED
  BY <1>1, ProbeStarts, PTL DEF ProbeSpec

\* The last of its callbacks frees an ephemeral probe: libuv has no timer, socket, send
\* or request inside a probe that was freed, in any order of timeout, answer and stop.
THEOREM ProbeIsFreedLast == ProbeSpec => []ProbeFreedLast
<1>1. ProbeInv => ProbeFreedLast
  BY Zenon DEF ProbeInv, ProbeOK, Using, ProbeFreedLast
<1> QED
  BY <1>1, ProbeInvariant, PTL

\* The end of a probe leaves the UDP socket that the probes share open, and its data
\* pointer at the bind: only the stop of the daemon closes it.
THEOREM BindIsKept == ProbeSpec => []SharedBindIsKept
<1>1. ProbeInv => SharedBindIsKept
  BY Zenon DEF ProbeInv, ProbeOK, Using, SharedBindIsKept
<1> QED
  BY <1>1, ProbeInvariant, PTL

-----------------------------------------------------------------------------
(* The sink of the log (LogTcp). *)
Sinks ==
    [mem : {"none", "open", "closing", "freed"},
     state : {"idle", "connecting", "connected"}, pending : BOOLEAN, in_flight : BOOLEAN,
     tcp : {"init", "connecting", "open", "closing", "closed"}, writes : Nat,
     lookup : BOOLEAN, timer : {"off", "armed", "closing", "closed"},
     async : {"idle", "sent", "closing", "closed"}, clash : BOOLEAN]

SinkTypeOK == sink \in Sinks /\ writer \in [Writers -> {"out", "checked", "left"}]

\* An open sink: its state says what its tcp handle is at, a write has a handle, and no
\* connection is due while one goes on or the handle closes.
Opened(s) ==
    /\ ~ s.clash
    /\ s.timer \in {"off", "armed"} /\ s.async \in {"idle", "sent"}
    /\ s.state = "idle" => s.tcp \in {"init", "closing", "closed"}
    /\ s.state = "connecting" => s.tcp \in {"init", "connecting"}
    /\ s.state = "connected" => s.tcp = "open"
    /\ s.lookup => s.state = "connecting" /\ s.tcp = "init"
    /\ s.writes # 0 => s.tcp \in {"open", "closing"}
    /\ s.timer = "armed" => s.state = "idle" /\ s.tcp # "closing"

\* A sink that was closed with nothing under way: its handles close one after the
\* other.
Closes(s) ==
    /\ ~ s.lookup
    /\ s.writes # 0 => s.tcp = "closing"
    /\ \/ s.mem = "closing" /\ s.tcp = "closing" /\ s.timer = "off" /\ s.async \in {"idle", "sent"}
       \/ /\ s.mem = "closing" /\ s.tcp \in {"init", "closed"}
          /\ s.timer = "closing" /\ s.async \in {"idle", "sent"}
       \/ /\ s.mem = "closing" /\ s.tcp \in {"init", "closed"}
          /\ s.timer = "closed" /\ s.async = "closing"
       \/ /\ s.mem = "freed" /\ s.tcp \in {"init", "closed"}
          /\ s.timer = "closed" /\ s.async = "closed"

SinkInv ==
    /\ SinkTypeOK
    /\ sink.mem = "none" => sink = NoSink
    /\ sink.mem = "open" => Opened(sink)
    /\ sink.mem \in {"closing", "freed"} /\ ~ sink.clash => Closes(sink)
    /\ sink.mem # "open" /\ ~ sink.clash => \A w \in Writers : writer[w] = "out"

\* A step that moves no writer.
LEMMA SinkMoves ==
    ASSUME SinkInv, UNCHANGED writer, sink' \in Sinks, sink'.mem # "none",
           sink'.mem = "open" => Opened(sink'),
           sink.mem = "open" /\ sink'.mem # "open" =>
               sink'.clash \/ (Closes(sink') /\ \A w \in Writers : writer[w] = "out"),
           sink.mem # "open" =>
               /\ sink'.mem # "open" /\ sink.mem # "none" /\ sink'.clash = sink.clash
               /\ ~ sink.clash => Closes(sink')
    PROVE  SinkInv'
<1>1. SinkTypeOK'
  BY Zenon DEF SinkInv, SinkTypeOK
<1>2. sink.mem \in {"none", "open", "closing", "freed"}
  BY Zenon DEF SinkInv, SinkTypeOK, Sinks
<1>3. \A w \in Writers : writer'[w] = writer[w]
  BY Zenon
<1> QED
  BY <1>1, <1>2, <1>3, Zenon DEF SinkInv

LEMMA SinkStarts == SinkInit => SinkInv
  BY DEF SinkInit, SinkInv, SinkTypeOK, Sinks, NoSink

LEMMA Reconnects ==
    ASSUME NEW s \in Sinks, Opened(s), s.mem = "open", s.tcp # "closing",
           NEW q \in log_tcp_start_connect(s)
    PROVE  q \in Sinks /\ Opened(q) /\ q.mem = "open"
<1>1. CASE s.state # "idle"
  BY <1>1, Zenon DEF log_tcp_start_connect
<1>2. CASE s.state = "idle"
  <2> DEFINE begun == [s EXCEPT !.timer = "off", !.pending = FALSE, !.state = "connecting",
                                !.tcp = "init"]
  <2>1. /\ begun \in Sinks /\ begun.mem = "open" /\ begun.clash = s.clash
        /\ begun.timer = "off" /\ begun.async = s.async /\ begun.state = "connecting"
        /\ begun.tcp = "init" /\ begun.writes = s.writes /\ begun.lookup = s.lookup
    BY Zenon DEF Sinks
  <2>2. s.writes = 0 /\ ~ s.lookup /\ ~ s.clash /\ s.async \in {"idle", "sent"}
    BY <1>2, Zenon DEF Opened, Sinks
  <2>3. \/ q = [begun EXCEPT !.tcp = "connecting"]
        \/ q = [begun EXCEPT !.lookup = TRUE]
        \/ q = log_tcp_schedule_reconnect([begun EXCEPT !.state = "idle"])
    BY <1>2, Zenon DEF log_tcp_start_connect, Open
  <2> HIDE DEF begun
  <2>4. CASE q = [begun EXCEPT !.tcp = "connecting"]
    BY <2>1, <2>2, <2>4, Zenon DEF Sinks, Opened
  <2>5. CASE q = [begun EXCEPT !.lookup = TRUE]
    BY <2>1, <2>2, <2>5, Zenon DEF Sinks, Opened
  <2>6. CASE q = log_tcp_schedule_reconnect([begun EXCEPT !.state = "idle"])
    <3>1. q = [[begun EXCEPT !.state = "idle"] EXCEPT !.timer = "armed"]
      BY <2>1, <2>6, Zenon DEF log_tcp_schedule_reconnect, Open, Sinks
    <3> QED
      BY <2>1, <2>2, <3>1, Zenon DEF Sinks, Opened
  <2> QED
    BY <2>3, <2>4, <2>5, <2>6, Zenon
<1> QED
  BY <1>1, <1>2, Zenon

LEMMA Disconnects ==
    ASSUME NEW s \in Sinks, Opened(s), s.mem = "open", s.tcp = "open"
    PROVE  /\ log_tcp_mark_disconnected(s) \in Sinks
           /\ Opened(log_tcp_mark_disconnected(s))
           /\ log_tcp_mark_disconnected(s).mem = "open"
<1> DEFINE r == [s EXCEPT !.state = "idle", !.in_flight = FALSE, !.pending = FALSE]
<1>1. log_tcp_mark_disconnected(s) = [r EXCEPT !.tcp = "closing"]
  BY Zenon DEF log_tcp_mark_disconnected, Open, HandleIsClosing, Reset
<1>2. /\ r \in Sinks /\ r.mem = "open" /\ r.clash = s.clash /\ r.timer = s.timer
      /\ r.async = s.async /\ r.state = "idle" /\ r.writes = s.writes /\ r.lookup = s.lookup
  BY Zenon DEF Sinks
<1>3. s.state = "connected" /\ s.timer = "off" /\ ~ s.lookup
  BY Zenon DEF Opened, Sinks
<1> HIDE DEF r
<1> QED
  BY <1>1, <1>2, <1>3 DEF Opened, Sinks

LEMMA Writes ==
    ASSUME NEW s \in Sinks, Opened(s), s.mem = "open", NEW q \in log_tcp_try_write(s)
    PROVE  q \in Sinks /\ Opened(q) /\ q.mem = "open"
<1>1. CASE q = s
  BY <1>1, Zenon
<1>2. CASE s.state = "connected" /\ q = log_tcp_mark_disconnected(s)
  BY <1>2, Disconnects, Zenon DEF Opened
<1>3. CASE s.state = "connected" /\
           q = [s EXCEPT !.pending = FALSE, !.in_flight = TRUE, !.writes = @ + 1]
  <2>1. ~ s.clash /\ ~ s.lookup
    BY <1>3, Zenon DEF Opened
  <2>0. s.writes + 1 \in Nat
    BY DEF Sinks
  <2>9. q = [s EXCEPT !.pending = FALSE, !.in_flight = TRUE, !.writes = s.writes + 1]
    BY <1>3, Zenon
  <2>2. /\ q \in Sinks /\ q.mem = "open" /\ ~ q.clash /\ q.timer = s.timer
        /\ q.async = s.async /\ q.state = s.state /\ q.tcp = s.tcp /\ ~ q.lookup
    BY <2>0, <2>9, <2>1, Zenon DEF Sinks
  <2> QED
    BY <1>3, <2>2, Zenon DEF Opened
<1> QED
  BY <1>1, <1>2, <1>3, Zenon DEF log_tcp_try_write

LEMMA OpenSteps ==
    ASSUME SinkInv, sink.mem = "open", UNCHANGED writer,
           sink' \in Sinks, Opened(sink'), sink'.mem = "open"
    PROVE  SinkInv'
  BY SinkMoves, Zenon

LEMMA SinkFields ==
    ASSUME SinkInv
    PROVE  /\ sink \in Sinks
           /\ sink.mem = "open" => Opened(sink)
           /\ sink.mem = "none" => sink = NoSink
           /\ sink.mem \in {"closing", "freed"} /\ ~ sink.clash => Closes(sink)
  BY Zenon DEF SinkInv, SinkTypeOK

LEMMA OpenHolds == SinkInv /\ log_tcp_sink_open => SinkInv'
<1> SUFFICES ASSUME SinkInv, log_tcp_sink_open PROVE SinkInv'
  BY Zenon
<1> DEFINE s == [NoSink EXCEPT !.mem = "open"]
<1>1. sink.mem = "none" /\ sink' \in log_tcp_start_connect(s) /\ UNCHANGED writer
  BY SinkFields, Zenon DEF log_tcp_sink_open
<1>2. s \in Sinks /\ Opened(s) /\ s.mem = "open" /\ s.tcp # "closing"
  BY Zenon DEF NoSink, Sinks, Opened
<1> HIDE DEF s
<1>3. sink' \in Sinks /\ Opened(sink') /\ sink'.mem = "open"
  BY <1>1, <1>2, Reconnects, Zenon
<1> QED
  BY <1>1, <1>3, Zenon DEF SinkInv, SinkTypeOK

LEMMA LookupHolds == SinkInv /\ log_tcp_getaddrinfo_cb => SinkInv'
<1> SUFFICES ASSUME SinkInv, log_tcp_getaddrinfo_cb PROVE SinkInv'
  BY Zenon
<1> DEFINE done == [sink EXCEPT !.lookup = FALSE]
<1>0. sink \in Sinks /\ sink.lookup /\ sink.mem # "freed" /\ UNCHANGED writer
  BY SinkFields, Zenon DEF log_tcp_getaddrinfo_cb
<1>1. /\ done \in Sinks /\ done.mem = sink.mem /\ done.clash = sink.clash
      /\ done.timer = sink.timer /\ done.async = sink.async /\ done.state = sink.state
      /\ done.tcp = sink.tcp /\ done.writes = sink.writes /\ ~ done.lookup
  BY <1>0, Zenon DEF Sinks
<1>2. CASE sink.mem = "open"
  <2>1. \/ sink' = log_tcp_schedule_reconnect([done EXCEPT !.state = "idle"])
        \/ sink' = [done EXCEPT !.tcp = "connecting"]
    BY <1>2, Zenon DEF log_tcp_getaddrinfo_cb, Open
  <2>2. Opened(sink) /\ sink.state = "connecting" /\ ~ done.clash
    BY <1>0, <1>1, <1>2, SinkFields, Zenon DEF Opened
  <2> HIDE DEF done
  <2>3. CASE sink' = [done EXCEPT !.tcp = "connecting"]
    <3>1. sink' \in Sinks /\ Opened(sink') /\ sink'.mem = "open"
      BY <1>1, <1>2, <2>2, <2>3 DEF Opened, Sinks
    <3> QED
      BY <3>1, <1>0, <1>2, OpenSteps, Zenon
  <2>4. CASE sink' = log_tcp_schedule_reconnect([done EXCEPT !.state = "idle"])
    <3>1. sink' = [done EXCEPT !.state = "idle", !.timer = "armed"]
      BY <1>1, <1>2, <2>4, Zenon DEF log_tcp_schedule_reconnect, Open, Sinks
    <3>2. /\ sink' \in Sinks /\ sink'.mem = "open" /\ ~ sink'.clash
          /\ sink'.timer = "armed" /\ sink'.async = done.async /\ sink'.state = "idle"
          /\ sink'.tcp = done.tcp /\ sink'.writes = done.writes /\ ~ sink'.lookup
      BY <1>1, <1>2, <2>2, <3>1, Zenon DEF Sinks
    <3>3. Opened(sink')
      BY <1>0, <1>1, <2>2, <3>2, Zenon DEF Opened
    <3> QED
      BY <3>2, <3>3, <1>0, <1>2, OpenSteps, Zenon
  <2> QED
    BY <2>1, <2>3, <2>4, Zenon
<1>3. CASE sink.mem # "open"
  <2>1. sink' = done
    BY <1>3, Zenon DEF log_tcp_getaddrinfo_cb, Open
  <2>2. sink.clash /\ sink.mem = "closing"
    BY <1>0, <1>3, SinkFields DEF Closes, NoSink, Sinks
  <2> HIDE DEF done
  <2> QED
    BY <1>0, <1>1, <2>1, <2>2, SinkMoves, Zenon
<1> QED
  BY <1>2, <1>3, Zenon

LEMMA ConnectedHolds == SinkInv /\ log_tcp_connected_cb => SinkInv'
<1> SUFFICES ASSUME SinkInv, log_tcp_connected_cb PROVE SinkInv'
  BY Zenon
<1> DEFINE lost == [sink EXCEPT !.state = "idle", !.tcp = "closing"]
           made == [sink EXCEPT !.state = "connected", !.tcp = "open"]
           woken == log_tcp_schedule_drain(made)
<1>0. sink \in Sinks /\ sink.tcp = "connecting" /\ UNCHANGED writer
  BY SinkFields, Zenon DEF log_tcp_connected_cb
<1>1. sink' = lost \/ sink' \in log_tcp_try_write(woken)
  BY Zenon DEF log_tcp_connected_cb
<1>2. /\ lost \in Sinks /\ lost.mem = sink.mem /\ lost.clash = sink.clash
      /\ lost.timer = sink.timer /\ lost.async = sink.async /\ lost.state = "idle"
      /\ lost.tcp = "closing" /\ lost.writes = sink.writes /\ lost.lookup = sink.lookup
  BY <1>0, Zenon DEF Sinks
<1>3. /\ made \in Sinks /\ made.mem = sink.mem /\ made.clash = sink.clash
      /\ made.timer = sink.timer /\ made.async = sink.async /\ made.state = "connected"
      /\ made.tcp = "open" /\ made.writes = sink.writes /\ made.lookup = sink.lookup
  BY <1>0, Zenon DEF Sinks
<1>4. CASE sink.mem = "open"
  <2>1. /\ sink.state = "connecting" /\ sink.timer = "off" /\ ~ sink.lookup /\ ~ sink.clash
        /\ sink.writes = 0 /\ sink.async \in {"idle", "sent"}
    BY <1>0, <1>4, SinkFields, Zenon DEF Opened, Sinks
  <2>2. woken = [made EXCEPT !.async = "sent"]
    BY <1>3, <1>4, Zenon DEF log_tcp_schedule_drain, Open
  <2> HIDE DEF lost, made
  <2>3. woken \in Sinks /\ Opened(woken) /\ woken.mem = "open"
    BY <1>3, <1>4, <2>1, <2>2 DEF Opened, Sinks
  <2>4. lost \in Sinks /\ Opened(lost) /\ lost.mem = "open"
    BY <1>2, <1>4, <2>1, Zenon DEF Opened, Sinks
  <2> HIDE DEF woken
  <2>5. sink' \in Sinks /\ Opened(sink') /\ sink'.mem = "open"
    BY <1>1, <2>3, <2>4, Writes, Zenon
  <2> QED
    BY <1>0, <1>4, <2>5, OpenSteps, Zenon
<1>5. CASE sink.mem # "open"
  <2>1. sink.clash /\ sink.mem \in {"closing", "freed"}
    BY <1>0, <1>5, SinkFields DEF Closes, NoSink, Sinks
  <2>2. sink' = lost \/ sink' = made
    BY <1>1, <1>3, <1>5, Zenon DEF log_tcp_schedule_drain, log_tcp_try_write, Open
  <2> HIDE DEF lost, made
  <2> QED
    BY <1>0, <1>2, <1>3, <1>5, <2>1, <2>2, SinkMoves, Zenon
<1> QED
  BY <1>4, <1>5, Zenon

LEMMA ReadHolds == SinkInv /\ log_tcp_read_cb => SinkInv'
<1> SUFFICES ASSUME SinkInv, log_tcp_read_cb PROVE SinkInv'
  BY Zenon
<1>1. /\ sink \in Sinks /\ sink.tcp = "open" /\ UNCHANGED writer
      /\ sink' = log_tcp_mark_disconnected(sink)
  BY SinkFields, Zenon DEF log_tcp_read_cb
<1>2. CASE sink.mem = "open"
  BY <1>1, <1>2, SinkFields, Disconnects, OpenSteps, Zenon
<1>3. CASE sink.mem # "open"
  BY <1>1, <1>3, Zenon DEF log_tcp_mark_disconnected, Open, SinkInv, SinkTypeOK
<1> QED
  BY <1>2, <1>3, Zenon

LEMMA WrittenHolds == SinkInv /\ log_tcp_written_cb => SinkInv'
<1> SUFFICES ASSUME SinkInv, log_tcp_written_cb PROVE SinkInv'
  BY Zenon
<1> DEFINE done == [sink EXCEPT !.writes = sink.writes - 1, !.in_flight = FALSE]
<1>0. sink \in Sinks /\ sink.tcp = "open" /\ sink.writes > 0 /\ UNCHANGED writer
  BY SinkFields, Zenon DEF log_tcp_written_cb
<1>1. sink' = log_tcp_mark_disconnected(done) \/ sink' \in log_tcp_try_write(done)
  BY Zenon DEF log_tcp_written_cb
<1>2. sink.writes - 1 \in Nat
  BY <1>0 DEF Sinks
<1>3. /\ done \in Sinks /\ done.mem = sink.mem /\ done.clash = sink.clash
      /\ done.timer = sink.timer /\ done.async = sink.async /\ done.state = sink.state
      /\ done.tcp = "open" /\ done.lookup = sink.lookup
  BY <1>0, <1>2, Zenon DEF Sinks
<1>4. CASE sink.mem = "open"
  <2>1. /\ sink.state = "connected" /\ sink.timer = "off" /\ ~ sink.lookup /\ ~ sink.clash
        /\ sink.async \in {"idle", "sent"}
    BY <1>0, <1>4, SinkFields, Zenon DEF Opened, Sinks
  <2> HIDE DEF done
  <2>2. Opened(done)
    BY <1>3, <2>1, Zenon DEF Opened
  <2>3. sink' \in Sinks /\ Opened(sink') /\ sink'.mem = "open"
    BY <1>1, <1>3, <1>4, <2>2, Disconnects, Writes, Zenon
  <2> QED
    BY <1>0, <1>4, <2>3, OpenSteps, Zenon
<1>5. CASE sink.mem # "open"
  <2>1. sink.clash /\ sink.mem \in {"closing", "freed"}
    BY <1>0, <1>5, SinkFields DEF Closes, NoSink, Sinks
  <2>2. sink' = done
    BY <1>1, <1>3, <1>5, Zenon DEF log_tcp_mark_disconnected, log_tcp_try_write, Open
  <2> HIDE DEF done
  <2> QED
    BY <1>0, <1>3, <1>5, <2>1, <2>2, SinkMoves, Zenon
<1> QED
  BY <1>4, <1>5, Zenon

LEMMA AsyncHolds == SinkInv /\ log_tcp_async_cb => SinkInv'
<1> SUFFICES ASSUME SinkInv, log_tcp_async_cb PROVE SinkInv'
  BY Zenon
<1> DEFINE s == [sink EXCEPT !.async = "idle"]
<1>0. /\ sink \in Sinks /\ sink.async = "sent" /\ sink.mem # "freed" /\ UNCHANGED writer
      /\ sink' \in log_tcp_try_write(s)
  BY SinkFields, Zenon DEF log_tcp_async_cb
<1>1. /\ s \in Sinks /\ s.mem = sink.mem /\ s.clash = sink.clash
      /\ s.timer = sink.timer /\ s.async = "idle" /\ s.state = sink.state
      /\ s.tcp = sink.tcp /\ s.writes = sink.writes /\ s.lookup = sink.lookup
  BY <1>0, Zenon DEF Sinks
<1>2. CASE sink.mem = "open"
  <2>1. Opened(sink)
    BY <1>2, SinkFields, Zenon
  <2> HIDE DEF s
  <2>2. Opened(s)
    BY <1>1, <2>1, Zenon DEF Opened
  <2> QED
    BY <1>0, <1>1, <1>2, <2>2, Writes, OpenSteps, Zenon
<1>3. CASE sink.mem # "open"
  <2>1. sink.mem = "closing" /\ (~ sink.clash => Closes(sink))
    BY <1>0, <1>3, SinkFields DEF NoSink, Sinks
  <2>2. sink' = s
    BY <1>0, <1>1, <1>3, Zenon DEF log_tcp_try_write, Open
  <2> HIDE DEF s
  <2>3. ~ sink.clash => Closes(s)
    BY <1>0, <1>1, <2>1, Zenon DEF Closes
  <2> QED
    BY <1>0, <1>1, <1>3, <2>1, <2>2, <2>3, SinkMoves, Zenon
<1> QED
  BY <1>2, <1>3, Zenon

LEMMA ReconnectHolds == SinkInv /\ log_tcp_reconnect_cb => SinkInv'
<1> SUFFICES ASSUME SinkInv, log_tcp_reconnect_cb PROVE SinkInv'
  BY Zenon
<1> DEFINE s == [sink EXCEPT !.timer = "off"]
<1>0. /\ sink \in Sinks /\ sink.timer = "armed" /\ UNCHANGED writer
      /\ sink' \in log_tcp_start_connect(s)
  BY SinkFields, Zenon DEF log_tcp_reconnect_cb
<1>1. /\ s \in Sinks /\ s.mem = sink.mem /\ s.clash = sink.clash
      /\ s.timer = "off" /\ s.async = sink.async /\ s.state = sink.state
      /\ s.tcp = sink.tcp /\ s.writes = sink.writes /\ s.lookup = sink.lookup
  BY <1>0, Zenon DEF Sinks
<1>2. CASE sink.mem = "open"
  <2>1. Opened(sink) /\ sink.tcp # "closing"
    BY <1>0, <1>2, SinkFields, Zenon DEF Opened
  <2> HIDE DEF s
  <2>2. Opened(s)
    BY <1>1, <2>1, Zenon DEF Opened
  <2> QED
    BY <1>0, <1>1, <1>2, <2>1, <2>2, Reconnects, OpenSteps, Zenon
<1>3. CASE sink.mem # "open"
  <2>1. sink.mem \in {"closing", "freed"} /\ sink.clash
    BY <1>0, <1>3, SinkFields DEF NoSink, Sinks, Closes
  <2>2. sink' = s
    BY <1>0, <1>1, <1>3, Zenon DEF log_tcp_start_connect, Open
  <2> HIDE DEF s
  <2> QED
    BY <1>0, <1>1, <1>3, <2>1, <2>2, SinkMoves, Zenon
<1> QED
  BY <1>2, <1>3, Zenon

\* The handle that log_tcp_shutdown_next closes is the one whose turn it is.
LEMMA ShutsDown ==
    ASSUME NEW s \in Sinks, s.mem = "closing"
    PROVE  /\ log_tcp_shutdown_next(s) \in Sinks
           /\ log_tcp_shutdown_next(s).mem \in {"closing", "freed"}
           /\ log_tcp_shutdown_next(s).clash = s.clash
           /\ /\ ~ s.lookup /\ s.writes = 0 /\ s.tcp \in {"init", "closed"}
              /\ \/ s.timer = "off" /\ s.async \in {"idle", "sent"}
                 \/ s.timer = "closed" /\ s.async \in {"idle", "sent", "closed"}
              => Closes(log_tcp_shutdown_next(s))
<1>1. CASE ~ HandleIsClosing(s.timer)
  <2>1. log_tcp_shutdown_next(s) = [s EXCEPT !.timer = "closing"]
    BY <1>1, Zenon DEF log_tcp_shutdown_next
  <2> QED
    BY <1>1, <2>1, Zenon DEF Closes, Sinks, HandleIsClosing
<1>2. CASE HandleIsClosing(s.timer) /\ ~ HandleIsClosing(s.async)
  <2>1. log_tcp_shutdown_next(s) = [s EXCEPT !.async = "closing"]
    BY <1>2, Zenon DEF log_tcp_shutdown_next
  <2> QED
    BY <1>2, <2>1, Zenon DEF Closes, Sinks, HandleIsClosing
<1>3. CASE HandleIsClosing(s.timer) /\ HandleIsClosing(s.async)
  <2>1. log_tcp_shutdown_next(s) = [s EXCEPT !.mem = "freed", !.pending = FALSE]
    BY <1>3, Zenon DEF log_tcp_shutdown_next
  <2> QED
    BY <1>3, <2>1, Zenon DEF Closes, Sinks, HandleIsClosing
<1> QED
  BY <1>1, <1>2, <1>3, Zenon

LEMMA AuxClosedHolds == SinkInv /\ log_tcp_aux_closed_cb => SinkInv'
<1> SUFFICES ASSUME SinkInv, log_tcp_aux_closed_cb PROVE SinkInv'
  BY Zenon
<1>0. /\ sink \in Sinks /\ sink.mem # "freed" /\ UNCHANGED writer
      /\ sink.timer = "closing" \/ sink.async = "closing"
  BY SinkFields, Zenon DEF log_tcp_aux_closed_cb
<1>1. sink.mem = "closing" /\ (~ sink.clash => Closes(sink))
  BY <1>0, SinkFields DEF NoSink, Sinks, Opened
<1>2. ASSUME NEW s \in Sinks, s.mem = sink.mem, s.clash = sink.clash, s.lookup = sink.lookup,
             s.tcp = sink.tcp, s.writes = sink.writes,
             sink' = log_tcp_shutdown_next(s),
             \/ sink.timer = "closing" /\ s.timer = "closed" /\ s.async = sink.async
             \/ sink.async = "closing" /\ s.async = "closed" /\ s.timer = sink.timer
      PROVE  SinkInv'
  <2>1. ~ sink.clash => Closes(sink')
    BY <1>1, <1>2, ShutsDown DEF Closes
  <2>2. sink' \in Sinks /\ sink'.mem \in {"closing", "freed"} /\ sink'.clash = sink.clash
    BY <1>1, <1>2, ShutsDown, Zenon
  <2> QED
    BY <1>0, <1>1, <2>1, <2>2, SinkMoves, Zenon
<1>3. CASE sink.timer = "closing" /\ sink' = log_tcp_shutdown_next([sink EXCEPT !.timer = "closed"])
  <2> DEFINE s == [sink EXCEPT !.timer = "closed"]
  <2>1. /\ s \in Sinks /\ s.mem = sink.mem /\ s.clash = sink.clash /\ s.lookup = sink.lookup
        /\ s.tcp = sink.tcp /\ s.writes = sink.writes
        /\ s.timer = "closed" /\ s.async = sink.async
    BY <1>0, Zenon DEF Sinks
  <2> HIDE DEF s
  <2>2. sink' = log_tcp_shutdown_next(s)
    BY <1>3, Zenon DEF s
  <2> QED
    BY <1>2, <1>3, <2>1, <2>2, Zenon
<1>4. CASE sink.async = "closing" /\ sink' = log_tcp_shutdown_next([sink EXCEPT !.async = "closed"])
  <2> DEFINE s == [sink EXCEPT !.async = "closed"]
  <2>1. /\ s \in Sinks /\ s.mem = sink.mem /\ s.clash = sink.clash /\ s.lookup = sink.lookup
        /\ s.tcp = sink.tcp /\ s.writes = sink.writes
        /\ s.timer = sink.timer /\ s.async = "closed"
    BY <1>0, Zenon DEF Sinks
  <2> HIDE DEF s
  <2>2. sink' = log_tcp_shutdown_next(s)
    BY <1>4, Zenon DEF s
  <2> QED
    BY <1>2, <1>4, <2>1, <2>2, Zenon
<1> QED
  BY <1>3, <1>4, Zenon DEF log_tcp_aux_closed_cb

LEMMA ClosedHolds == SinkInv /\ TcpClosed => SinkInv'
<1> SUFFICES ASSUME SinkInv, TcpClosed PROVE SinkInv'
  BY Zenon
<1>0. sink \in Sinks /\ sink.tcp = "closing" /\ sink.mem # "freed" /\ UNCHANGED writer
  BY SinkFields, Zenon DEF TcpClosed
<1> DEFINE none == [sink EXCEPT !.writes = 0]
           cancelled == IF sink.writes = 0 THEN sink ELSE log_tcp_mark_disconnected(none)
           closed == [cancelled EXCEPT !.tcp = "closed"]
<1>1. sink' = log_tcp_closed_cb(closed)
  BY Zenon DEF TcpClosed
<1>2. /\ none \in Sinks /\ none.mem = sink.mem /\ none.clash = sink.clash
      /\ none.timer = sink.timer /\ none.async = sink.async /\ none.tcp = sink.tcp
      /\ none.lookup = sink.lookup /\ none.writes = 0
  BY <1>0, Zenon DEF Sinks
<1> HIDE DEF none
<1>3. /\ cancelled \in Sinks /\ cancelled.mem = sink.mem /\ cancelled.clash = sink.clash
      /\ cancelled.async = sink.async /\ cancelled.tcp = sink.tcp
      /\ cancelled.lookup = sink.lookup /\ cancelled.writes = 0
      /\ sink.mem # "open" => cancelled.timer = sink.timer
  <2>1. CASE sink.writes = 0
    BY <1>0, <2>1, Zenon
  <2>2. CASE sink.writes # 0 /\ sink.mem # "open"
    BY <1>2, <2>2, Zenon DEF log_tcp_mark_disconnected, Open
  <2>3. CASE sink.writes # 0 /\ sink.mem = "open"
    <3> DEFINE idle == [none EXCEPT !.state = "idle", !.in_flight = FALSE, !.pending = FALSE]
    <3>1. /\ idle \in Sinks /\ idle.mem = sink.mem /\ idle.clash = sink.clash
          /\ idle.async = sink.async /\ idle.tcp = sink.tcp
          /\ idle.lookup = sink.lookup /\ idle.writes = 0
      BY <1>2, Zenon DEF Sinks
    <3> HIDE DEF idle
    <3>2. cancelled = [idle EXCEPT !.timer = "armed"]
      BY <1>0, <1>2, <2>3, <3>1, Zenon
      DEF idle, log_tcp_mark_disconnected, Open, HandleIsClosing, Reset, log_tcp_schedule_reconnect
    <3> HIDE DEF cancelled
    <3> QED
      BY <2>3, <3>1, <3>2, Zenon DEF Sinks
  <2> QED
    BY <2>1, <2>2, <2>3, Zenon
<1> HIDE DEF cancelled
<1>4. /\ Reset(closed) \in Sinks /\ Reset(closed).mem = sink.mem
      /\ Reset(closed).clash = sink.clash /\ Reset(closed).async = sink.async
      /\ Reset(closed).tcp = "closed" /\ Reset(closed).lookup = sink.lookup
      /\ Reset(closed).writes = 0 /\ Reset(closed).state = "idle"
      /\ sink.mem # "open" => Reset(closed).timer = sink.timer
  BY <1>3, Zenon DEF Sinks, Reset
<1>5. closed.mem = sink.mem
  BY <1>3, Zenon DEF Sinks
<1> HIDE DEF closed
<1> DEFINE r == Reset(closed)
<1>6. CASE sink.mem = "open"
  <2>1. ~ sink.clash /\ ~ sink.lookup /\ sink.async \in {"idle", "sent"}
    BY <1>0, <1>6, SinkFields, Zenon DEF Opened
  <2>2. sink' = [r EXCEPT !.timer = "armed"]
    BY <1>1, <1>4, <1>5, <1>6, Zenon DEF log_tcp_closed_cb, Open, log_tcp_schedule_reconnect
  <2> HIDE DEF r
  <2>3. /\ r \in Sinks /\ r.mem = "open" /\ ~ r.clash /\ r.async \in {"idle", "sent"}
        /\ r.tcp = "closed" /\ ~ r.lookup /\ r.writes = 0 /\ r.state = "idle"
    BY <1>4, <1>6, <2>1, Zenon DEF r
  <2>4. sink' \in Sinks /\ Opened(sink') /\ sink'.mem = "open"
    BY <2>2, <2>3, Zenon DEF Sinks, Opened
  <2> QED
    BY <1>0, <1>6, <2>4, OpenSteps, Zenon
<1>7. CASE sink.mem # "open"
  <2>1. sink.mem = "closing" /\ (~ sink.clash => Closes(sink))
    BY <1>0, <1>7, SinkFields DEF NoSink, Sinks
  <2>2. sink' = log_tcp_shutdown_next(r)
    BY <1>1, <1>5, <1>7, Zenon DEF log_tcp_closed_cb, Open
  <2>3. /\ r \in Sinks /\ r.mem = "closing" /\ r.clash = sink.clash /\ r.async = sink.async
        /\ r.tcp = "closed" /\ r.lookup = sink.lookup /\ r.writes = 0 /\ r.timer = sink.timer
    BY <1>4, <1>7, <2>1, Zenon
  <2> HIDE DEF r
  <2>4. ~ sink.clash => Closes(sink')
    BY <1>0, <2>1, <2>2, <2>3, ShutsDown DEF Closes
  <2>5. sink' \in Sinks /\ sink'.mem \in {"closing", "freed"} /\ sink'.clash = sink.clash
    BY <2>2, <2>3, ShutsDown, Zenon
  <2> QED
    BY <1>0, <2>1, <2>4, <2>5, SinkMoves, Zenon
<1> QED
  BY <1>6, <1>7, Zenon

LEMMA CloseHolds == SinkInv /\ log_tcp_sink_close => SinkInv'
<1> SUFFICES ASSUME SinkInv, log_tcp_sink_close PROVE SinkInv'
  BY Zenon
<1> DEFINE clash == \/ sink.tcp = "closing" \/ sink.lookup
                    \/ \E w \in Writers : writer[w] # "out"
           s == [sink EXCEPT !.mem = "closing", !.timer = "off", !.pending = FALSE,
                             !.clash = clash]
<1>0. /\ sink \in Sinks /\ sink.mem = "open" /\ Opened(sink) /\ UNCHANGED writer
      /\ sink' = CloseFirst(s)
  BY SinkFields, Zenon DEF log_tcp_sink_close, Open
<1>1. clash \in BOOLEAN
  BY <1>0, Zenon DEF Sinks
<1>2. ~ clash => /\ sink.tcp # "closing" /\ ~ sink.lookup
                 /\ \A w \in Writers : writer[w] = "out"
  BY Zenon
<1> HIDE DEF clash
<1>3. /\ s \in Sinks /\ s.mem = "closing" /\ s.timer = "off" /\ s.clash = clash
      /\ s.tcp = sink.tcp /\ s.lookup = sink.lookup /\ s.writes = sink.writes
      /\ s.async = sink.async /\ s.state = sink.state
  BY <1>0, <1>1, Zenon DEF Sinks
<1> HIDE DEF s
<1>4. CASE sink.state # "idle" /\ ~ HandleIsClosing(sink.tcp)
  <2>1. sink' = [s EXCEPT !.tcp = "closing"]
    BY <1>0, <1>3, <1>4, Zenon DEF CloseFirst
  <2>2. /\ sink' \in Sinks /\ sink'.mem = "closing" /\ sink'.timer = "off"
        /\ sink'.clash = clash /\ sink'.tcp = "closing" /\ sink'.lookup = sink.lookup
        /\ sink'.async = sink.async
    BY <1>3, <2>1, Zenon DEF Sinks
  <2>3. sink'.clash \/ (Closes(sink') /\ \A w \in Writers : writer[w] = "out")
    BY <1>0, <1>2, <2>2, Zenon DEF Closes, Opened
  <2> QED
    BY <1>0, <2>2, <2>3, SinkMoves, Zenon
<1>5. CASE ~ (sink.state # "idle" /\ ~ HandleIsClosing(sink.tcp))
  <2>1. sink' = log_tcp_shutdown_next(s)
    BY <1>0, <1>3, <1>5, Zenon DEF CloseFirst
  <2>2. /\ sink' \in Sinks /\ sink'.mem \in {"closing", "freed"} /\ sink'.clash = clash
    BY <1>3, <2>1, ShutsDown, Zenon
  <2>3. ASSUME ~ clash PROVE Closes(sink')
    <3>1. /\ sink.tcp # "closing" /\ ~ sink.lookup
      BY <1>2, <2>3, Zenon
    <3>2. sink.tcp \in {"init", "closed"} /\ sink.writes = 0
      BY <1>0, <1>5, <3>1, Zenon DEF Opened, HandleIsClosing, Sinks
    <3> QED
      BY <1>0, <1>3, <2>1, <3>1, <3>2, ShutsDown, Zenon DEF Opened
  <2> QED
    BY <1>0, <1>2, <2>2, <2>3, SinkMoves, Zenon
<1> QED
  BY <1>4, <1>5, Zenon

LEMMA WritersHold ==
    SinkInv /\ (SeesConnected \/ LeavesLine \/ WakesLoop) => SinkInv'
<1> SUFFICES ASSUME SinkInv, SeesConnected \/ LeavesLine \/ WakesLoop PROVE SinkInv'
  BY Zenon
<1>0. sink \in Sinks /\ writer \in [Writers -> {"out", "checked", "left"}]
  BY Zenon DEF SinkInv, SinkTypeOK
<1>1. CASE SeesConnected
  BY <1>0, <1>1, Zenon DEF SeesConnected, SinkInv, SinkTypeOK, Open
<1>2. CASE LeavesLine
  <2>1. PICK w \in Writers :
          /\ writer[w] = "checked" /\ sink.mem # "freed"
          /\ \/ writer' = [writer EXCEPT ![w] = "out"] /\ UNCHANGED sink
             \/ /\ writer' = [writer EXCEPT ![w] = "left"]
                /\ sink' = [sink EXCEPT !.pending = TRUE]
    BY <1>2, Zenon DEF LeavesLine
  <2>2. sink.mem = "open" \/ (sink.mem = "closing" /\ sink.clash)
    BY <1>0, <2>1 DEF SinkInv, NoSink, Sinks
  <2>3. writer' \in [Writers -> {"out", "checked", "left"}]
    BY <1>0, <2>1, Zenon
  <2>4. /\ sink' \in Sinks /\ sink'.mem = sink.mem /\ sink'.clash = sink.clash
        /\ sink'.tcp = sink.tcp /\ sink'.lookup = sink.lookup /\ sink'.writes = sink.writes
        /\ sink'.async = sink.async /\ sink'.state = sink.state /\ sink'.timer = sink.timer
    BY <1>0, <2>1, ZenonT(30) DEF Sinks
  <2>5. sink.mem = "open" => Opened(sink')
    BY <2>4, SinkFields, Zenon DEF Opened
  <2> QED
    BY <2>2, <2>3, <2>4, <2>5, Zenon DEF SinkInv, SinkTypeOK
<1>3. CASE WakesLoop
  <2>1. PICK w \in Writers :
          /\ writer[w] = "left" /\ sink.mem # "freed"
          /\ writer' = [writer EXCEPT ![w] = "out"]
          /\ sink' = sink \/ sink' = [sink EXCEPT !.async = "sent"]
          /\ sink.mem # "open" => sink' = sink
    BY <1>3, Zenon DEF WakesLoop, log_tcp_schedule_drain, Open
  <2>2. sink.mem = "open" \/ (sink.mem = "closing" /\ sink.clash)
    BY <1>0, <2>1 DEF SinkInv, NoSink, Sinks
  <2>3. writer' \in [Writers -> {"out", "checked", "left"}]
    BY <1>0, <2>1, Zenon
  <2>4. CASE sink.mem = "open"
    <3>1. /\ sink' \in Sinks /\ sink'.mem = sink.mem /\ sink'.clash = sink.clash
          /\ sink'.tcp = sink.tcp /\ sink'.lookup = sink.lookup /\ sink'.writes = sink.writes
          /\ sink'.state = sink.state /\ sink'.timer = sink.timer
          /\ sink'.async = sink.async \/ sink'.async = "sent"
      BY <1>0, <2>1 DEF Sinks
    <3>2. Opened(sink')
      BY <2>4, <3>1, SinkFields, Zenon DEF Opened
    <3> QED
      BY <2>3, <2>4, <3>1, <3>2, Zenon DEF SinkInv, SinkTypeOK
  <2>5. CASE sink.mem # "open"
    BY <1>0, <2>1, <2>2, <2>3, <2>5, Zenon DEF SinkInv, SinkTypeOK
  <2> QED
    BY <2>4, <2>5, Zenon
<1> QED
  BY <1>1, <1>2, <1>3, Zenon

\* The invariant of a sink: the state of an open one says what its handles are at, and one
\* that is closed with nothing under way closes its handles one after the other.
THEOREM SinkInvariant == SinkSpec => []SinkInv
<1>1. SinkInv /\ [SinkNext]_sinkVars => SinkInv'
  <2> SUFFICES ASSUME SinkInv, [SinkNext]_sinkVars PROVE SinkInv'
    BY Zenon
  <2>1. CASE UNCHANGED sinkVars
    BY <2>1, Zenon DEF sinkVars, SinkInv, SinkTypeOK
  <2> QED
    BY <2>1, OpenHolds, LookupHolds, ConnectedHolds, ReadHolds, WrittenHolds, AsyncHolds,
       ReconnectHolds, ClosedHolds, AuxClosedHolds, CloseHolds, WritersHold, Zenon DEF SinkNext
<1> QED
  BY <1>1, SinkStarts, PTL DEF SinkSpec

\* log_tcp_sink_close and the callbacks free a sink after the last callback of its
\* handles and requests, for any number of threads that log, if it was not closed in the
\* middle of a disconnect, a lookup or a write.
THEOREM SinkIsFreedLast == SinkSpec => []FreedLast
<1>1. SinkInv => FreedLast
  BY Zenon DEF SinkInv, SinkTypeOK, Closes, FreedLast
<1> QED
  BY <1>1, SinkInvariant, PTL
=============================================================================
