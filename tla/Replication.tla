---------------------------- MODULE Replication ----------------------------
(***************************************************************************)
(* A receiving cluster (type oplog): cluster_pass puts a pushed sample in  *)
(* the operation logs of the peers that should hold it; every node keeps a *)
(* periodic sync client per peer that POSTs /oplog to it, and applies the  *)
(* entries that the answer carries.                                        *)
(*                                                                         *)
(* Server k is the k-th of the sorted server list, which every node has.   *)
(* Maglev lookup is the constant Primary.  A sample is the number of its   *)
(* push, so that copies and reorderings are visible.  A node runs one call *)
(* of cluster_pass at a time; an entrypoint with threads would run several.*)
(***************************************************************************)
EXTENDS OplogRing, FiniteSets

CONSTANTS
    N,               \* servers_size
    ReplicaFactor,   \* replica_factor
    Series,          \* metric names and labels that are pushed
    Primary,         \* series |-> index of its server, maglev_lookup_node
    Unfit,           \* lines the receiver skips: of LABEL_LEN - 1 bytes or more, or incomplete
    Polled,          \* servers whose sync clients go on: see Fairness
    MaxSamples,      \* bound: pushes
    MaxFaults,       \* bound: requests or answers that time out
    MaxRestarts      \* bound: node restarts

Servers == 0 .. N - 1

\* One line of the log, Data of OplogRing: whether the receiver is the primary or a
\* replica of the series' primary, and which sample it carries.
Records == [replica : BOOLEAN, series : Series, id : 1 .. MaxSamples]

ASSUME ReplicationAssumption ==
    /\ N \in Nat \ {0}
    /\ ReplicaFactor \in Nat
    /\ Primary \in [Series -> Servers]
    /\ {MaxSamples, MaxFaults, MaxRestarts} \subseteq Nat
    /\ Data = Records
    /\ Unfit \subseteq Records
    /\ Polled \subseteq Servers

\* The default namespace, and "cluster:server" for every server.
NsDefault == -1
Namespaces == {NsDefault} \cup Servers
Nowhere == -2

NoPass == [id |-> 0, series |-> CHOOSE s \in Series : TRUE, i |-> 0]
Idle == [state |-> "idle", batch |-> <<>>]

VARIABLES
    samples,   \* samples[k]: where push k arrived and its series
    pass,      \* pass[n]: the cluster_pass running on n, with its loop index
    rings,     \* rings[n][p]: n's operation log for peer p
    stats,     \* stats[n][p]: enqueued, overflow and applied totals for peer p, and, as a
               \* history, the lines from p that were skipped
    sync,      \* sync[n][p]: n's sync client for peer p, and the answer to it
    orphans,   \* orphans[n][p]: p has yet to see a request that n gave up on
    store,     \* store[n][ns]: samples applied in namespace ns of n, in order
    gone,      \* history: records evicted or lost, by <<from, to>>
    faults, restarts

vars == <<samples, pass, rings, stats, sync, orphans, store, gone, faults, restarts>>
logVars == <<rings, stats, gone>>
syncVars == <<sync, orphans, faults>>

ZeroStats == [enqueued |-> 0, overflow |-> 0, applied |-> 0, skipped |-> 0]

Init ==
    /\ samples = <<>>
    /\ pass = [n \in Servers |-> NoPass]
    /\ rings = [n \in Servers |-> [p \in Servers |-> oplog_record_init]]
    /\ stats = [n \in Servers |-> [p \in Servers |-> ZeroStats]]
    /\ sync = [n \in Servers |-> [p \in Servers |-> Idle]]
    /\ orphans = [n \in Servers |-> [p \in Servers |-> FALSE]]
    /\ store = [n \in Servers |-> [ns \in Namespaces |-> <<>>]]
    /\ gone = [n \in Servers |-> [p \in Servers |-> <<>>]]
    /\ faults = 0
    /\ restarts = 0
-----------------------------------------------------------------------------
\* Mutant: the primary is skipped whoever received the sample.
push_skips_primary(n, s) ==
    /\ pass[n] = NoPass
    /\ Len(samples) < MaxSamples
    /\ samples' = Append(samples, [origin |-> n, series |-> s])
    /\ pass' = [pass EXCEPT ![n] = [id |-> Len(samples'), series |-> s, i |-> 1]]
    /\ UNCHANGED <<logVars, syncVars, store, restarts>>

\* A parser of n read a sample and calls cluster_pass: the loop starts at the
\* primary, or after it when n is the primary.
Push(n, s) ==
    /\ pass[n] = NoPass
    /\ Len(samples) < MaxSamples
    /\ samples' = Append(samples, [origin |-> n, series |-> s])
    /\ pass' = [pass EXCEPT ![n] =
          [id |-> Len(samples'), series |-> s, i |-> IF Primary[s] = n THEN 1 ELSE 0]]
    /\ UNCHANGED <<logVars, syncVars, store, restarts>>

\* Mutant: the first replica is taken for the primary.
record_names_replica_late(n) ==
    [replica |-> pass[n].i > 1, series |-> pass[n].series, id |-> pass[n].id]

\* What a log entry for the i-th server after the primary says.
RecordOf(n) ==
    [replica |-> pass[n].i > 0, series |-> pass[n].series, id |-> pass[n].id]

\* One round of the loop: a copy for the i-th server after the primary.  It is
\* stored at once when that is this server, in the namespace of the primary.
PassRound(n) ==
    LET s == pass[n].series
        i == pass[n].i
        peer == (Primary[s] + i) % N
        r == rings[n][peer]
    IN
    /\ pass[n] # NoPass
    /\ i < ReplicaFactor
    /\ pass' = [pass EXCEPT ![n].i = i + 1]
    /\ IF peer = n
       THEN /\ store' = [store EXCEPT ![n][Primary[s]] = Append(@, pass[n].id)]
            /\ UNCHANGED logVars
       ELSE /\ rings' = [rings EXCEPT ![n][peer] = oplog_record_insert(r, RecordOf(n))]
            /\ stats' = [stats EXCEPT ![n][peer].enqueued = @ + 1,
                                      ![n][peer].overflow = @ + InsertResult(r)]
            /\ gone' = [gone EXCEPT ![n][peer] =
                  IF InsertResult(r) = 1 THEN Append(@, Entry(r, 0)) ELSE @]
            /\ UNCHANGED store
    /\ UNCHANGED <<samples, syncVars, restarts>>

\* The loop is over.  The parser stores the sample itself when cluster_pass
\* returned 0, which says that this server is the primary.
PassReturns(n) ==
    /\ pass[n] # NoPass
    /\ pass[n].i >= ReplicaFactor
    /\ pass' = [pass EXCEPT ![n] = NoPass]
    /\ store' = IF Primary[pass[n].series] = n
                THEN [store EXCEPT ![n][NsDefault] = Append(@, pass[n].id)]
                ELSE store
    /\ UNCHANGED <<samples, logVars, syncVars, restarts>>

\* The period timer of n's sync client for p fires; its lock keeps the client
\* to one request at a time.
SyncRequest(n, p) ==
    /\ n # p
    /\ sync[n][p] = Idle
    /\ sync' = [sync EXCEPT ![n][p].state = "request"]
    /\ UNCHANGED <<samples, pass, logVars, orphans, faults, store, restarts>>

\* p answers POST /oplog: the entries leave the log as they enter the answer.
cluster_shift_server_data(n, p) ==
    /\ sync[n][p].state = "request"
    /\ \E k \in 0 .. Count(rings[p][n]) :
          /\ ShiftStopsAfter(rings[p][n], k)
          /\ rings' = [rings EXCEPT ![p][n] = oplog_record_shift(@, k)]
          /\ sync' = [sync EXCEPT ![n][p] =
                [state |-> "answer", batch |-> FirstEntries(rings[p][n], k)]]
    /\ UNCHANGED <<samples, pass, stats, gone, orphans, faults, store, restarts>>

\* p answers a request whose client has gone: the entries leave the log for good.
ShiftForNobody(n, p) ==
    /\ orphans[n][p]
    /\ orphans' = [orphans EXCEPT ![n][p] = FALSE]
    /\ \E k \in 0 .. Count(rings[p][n]) :
          /\ ShiftStopsAfter(rings[p][n], k)
          /\ rings' = [rings EXCEPT ![p][n] = oplog_record_shift(@, k)]
          /\ gone' = [gone EXCEPT ![p][n] = @ \o FirstEntries(rings[p][n], k)]
    /\ UNCHANGED <<samples, pass, stats, sync, faults, store, restarts>>

\* The namespace of its receiver that a line is applied in, if it is not skipped.
TargetNs(record) ==
    IF record \in Unfit THEN Nowhere
    ELSE IF record.replica THEN Primary[record.series] ELSE NsDefault

\* Mutant: one per answer.
applied_per_answer(lines) == 1

\* The applied total, one per line that reaches metric_add or metric_update.
Applied(lines) == Cardinality({k \in DOMAIN lines : lines[k] \notin Unfit})

Skipped(lines) == Cardinality({k \in DOMAIN lines : lines[k] \in Unfit})

\* What the lines add to namespace ns: the loop over the answer, line by line.
Into(lines, ns) ==
    LET into[k \in 0 .. Len(lines)] ==
          IF k = 0 THEN <<>>
          ELSE IF TargetNs(lines[k]) = ns THEN Append(into[k - 1], lines[k].id)
          ELSE into[k - 1]
    IN  into[Len(lines)]

\* n goes through lines of p's answer, in order.
Apply(n, p, lines) ==
    /\ store' = [store EXCEPT ![n] = [ns \in Namespaces |-> @[ns] \o Into(lines, ns)]]
    /\ stats' = [stats EXCEPT ![n][p].applied = @ + Applied(lines),
                              ![n][p].skipped = @ + Skipped(lines)]

\* n parses p's answer, all of it.
cluster_sync_handler(n, p) ==
    /\ sync[n][p].state = "answer"
    /\ Apply(n, p, sync[n][p].batch)
    /\ sync' = [sync EXCEPT ![n][p] = Idle]
    /\ UNCHANGED <<samples, pass, rings, gone, orphans, faults, restarts>>

\* Mutant: a lost answer goes back to the end of the log.
timeout_requeues(n, p) ==
    /\ sync[n][p].batch # <<>>
    /\ faults < MaxFaults
    /\ faults' = faults + 1
    /\ sync' = [sync EXCEPT ![n][p] = Idle]
    /\ rings' = [rings EXCEPT ![p][n] = oplog_record_insert(@, sync[n][p].batch[1])]
    /\ UNCHANGED <<samples, pass, stats, gone, orphans, store, restarts>>

\* Mutant: the client stays locked.
timeout_keeps_lock(n, p) ==
    /\ sync[n][p].state = "request"
    /\ faults < MaxFaults
    /\ faults' = faults + 1
    /\ sync' = [sync EXCEPT ![n][p].state = "locked"]
    /\ UNCHANGED <<samples, pass, logVars, orphans, store, restarts>>

\* tcp_timeout_timer closes the connection of n's client.  Of an answer under
\* way the part that has arrived is parsed, the rest is lost; a request may be
\* lost or may still reach p.
SyncTimeout(n, p) ==
    LET batch == sync[n][p].batch IN
    /\ sync[n][p] # Idle
    /\ faults < MaxFaults
    /\ faults' = faults + 1
    /\ sync' = [sync EXCEPT ![n][p] = Idle]
    /\ \E k \in 0 .. Len(batch) :
          /\ Apply(n, p, SubSeq(batch, 1, k))
          /\ gone' = [gone EXCEPT ![p][n] = @ \o SubSeq(batch, k + 1, Len(batch))]
    /\ \E reaches \in {orphans[n][p], sync[n][p].state = "request" \/ orphans[n][p]} :
          orphans' = [orphans EXCEPT ![n][p] = reaches]
    /\ UNCHANGED <<samples, pass, rings, restarts>>

\* n stops and starts again: logs, totals and namespaces live in memory.
Restart(n) ==
    /\ restarts < MaxRestarts
    /\ restarts' = restarts + 1
    /\ pass' = [pass EXCEPT ![n] = NoPass]
    /\ rings' = [rings EXCEPT ![n] = [p \in Servers |-> oplog_record_init]]
    /\ stats' = [stats EXCEPT ![n] = [p \in Servers |-> ZeroStats]]
    /\ sync' = [sync EXCEPT ![n] = [p \in Servers |-> Idle]]
    /\ store' = [store EXCEPT ![n] = [ns \in Namespaces |-> <<>>]]
    /\ UNCHANGED <<samples, orphans, gone, faults>>

Next ==
    \/ \E n \in Servers :
          \/ \E s \in Series : Push(n, s)
          \/ PassRound(n)
          \/ PassReturns(n)
          \/ Restart(n)
    \/ \E n, p \in Servers :
          \/ SyncRequest(n, p)
          \/ cluster_shift_server_data(n, p)
          \/ ShiftForNobody(n, p)
          \/ cluster_sync_handler(n, p)
          \/ SyncTimeout(n, p)

Spec == Init /\ [][Next]_vars

\* A running call returns, and a request that is made is answered.  The client for a
\* polled server is periodic: one with a name that the resolver finds at every lookup.
\* The client for a literal address, or for a name that is not found once, may end with
\* a session (TcpClient).
Fairness ==
    /\ \A n \in Servers : WF_vars(PassRound(n)) /\ WF_vars(PassReturns(n))
    /\ \A n \in Servers, p \in Polled : WF_vars(SyncRequest(n, p))
    /\ \A n, p \in Servers :
          /\ WF_vars(cluster_shift_server_data(n, p))
          /\ WF_vars(cluster_sync_handler(n, p))

FairSpec == Spec /\ Fairness
-----------------------------------------------------------------------------
Passes == {NoPass} \cup [id : 1 .. MaxSamples, series : Series, i : Nat]
Totals == [enqueued : Nat, overflow : Nat, applied : Nat, skipped : Nat]
Syncs == [state : {"idle", "request", "answer"}, batch : Seq(Slotted)]

TypeOK ==
    /\ samples \in Seq([origin : Servers, series : Series])
    /\ pass \in [Servers -> Passes]
    /\ rings \in [Servers -> [Servers -> Rings]]
    /\ stats \in [Servers -> [Servers -> Totals]]
    /\ sync \in [Servers -> [Servers -> Syncs]]
    /\ gone \in [Servers -> [Servers -> Seq(Slotted)]]
    /\ restarts \in Nat

\* Where the copies of a series belong: the default namespace of its primary and
\* the primary's namespace on the servers that follow it.
Homes(s) ==
    {<<Primary[s], NsDefault>>}
        \cup {<<(Primary[s] + i) % N, Primary[s]>> : i \in 1 .. ReplicaFactor - 1}

Occurs(k, ids) == \E j \in DOMAIN ids : ids[j] = k
Stored(k, home) == Occurs(k, store[home[1]][home[2]])

\* Records for the home that are in a log, in an answer, or known to be gone.
Carries(k, home, records) ==
    \E j \in DOMAIN records : records[j].id = k /\ TargetNs(records[j]) = home[2]

\* The receiver skips the line that would bring sample k home.
IsSkipped(k, home) ==
    /\ home[1] # samples[k].origin
    /\ [replica |-> home[2] # NsDefault, series |-> samples[k].series, id |-> k] \in Unfit

IsGone(k, home) == \E n \in Servers : Carries(k, home, gone[n][home[1]])

UnderWay(k, home) ==
    \E n \in Servers : \/ Carries(k, home, Entries(rings[n][home[1]]))
                      \/ Carries(k, home, sync[home[1]][n].batch)

\* "Under a healthy cluster each series appears from one Maglev primary": a series is
\* in the default namespace of its primary only, and in a replica namespace only on
\* the servers that replica_factor gives it.  There, samples that arrived at one node
\* are applied in the order of arrival and none twice, through eviction, loss, retries
\* and restarts: a gauge never goes back to an older value, a counter is not added to
\* twice.
InOrder ==
    \A n \in Servers, ns \in Namespaces :
        LET ids == store[n][ns] IN
        /\ \A i \in DOMAIN ids : <<n, ns>> \in Homes(samples[ids[i]].series)
        /\ \A i, j \in DOMAIN ids :
              i < j /\ samples[ids[i]].origin = samples[ids[j]].origin => ids[i] < ids[j]

\* Every sample whose cluster_pass has returned is, for each of its homes, there,
\* under way, was evicted from a full log or lost with an answer, or travels in a line
\* that cluster_sync_handler skips: there is no other way to lose it while the nodes
\* stay up.
NothingUnaccounted ==
    restarts = 0 =>
        \A k \in DOMAIN samples : \A home \in Homes(samples[k].series) :
            \/ pass[samples[k].origin].id = k
            \/ Stored(k, home)
            \/ UnderWay(k, home)
            \/ IsGone(k, home)
            \/ IsSkipped(k, home)

LinesRead(totals) == totals.applied + totals.skipped

\* The totals of the two ends agree: what n enqueued for p was evicted, is in the
\* log, is in an answer, was lost with an answer, was skipped by p or was counted by p
\* as applied.
TotalsAgree ==
    restarts = 0 =>
        \A n, p \in Servers :
            /\ stats[n][p].enqueued = Count(rings[n][p]) + Len(sync[p][n].batch)
                                         + LinesRead(stats[p][n]) + Len(gone[n][p])
            /\ stats[n][p].overflow <= Len(gone[n][p])

\* Every sample comes to rest: unless a node restarts, it is eventually stored or
\* known to be gone at each home, or skipped there, and never waits in a log for ever.
\* The log of a server that is not polled may keep it.
EventuallySettled ==
    \A k \in 1 .. MaxSamples :
        (k \in DOMAIN samples) ~>
            \/ restarts > 0
            \/ /\ k \in DOMAIN samples
               /\ \A home \in Homes(samples[k].series) :
                     samples[k].origin \in Polled \cup {home[1]} =>
                         Stored(k, home) \/ IsGone(k, home) \/ IsSkipped(k, home)
=============================================================================
