----------------------------- MODULE HttpLimit ------------------------------
(* The request limits of an entrypoint (common/http_limit.c) for one path:   *)
(* a block with no key, whose bucket all clients share, before a block with  *)
(* keys, whose buckets are in a table of limited size.  Listener threads     *)
(* share both.  A thread reads the clock before it takes the locks, so that  *)
(* a request may be checked with an older time than the one before it.       *)
(*                                                                           *)
(* A bucket is a schedule: tat is the time at which it will be empty.  A     *)
(* bucket that was never used (have = 0) is one with tat 0.                  *)
EXTENDS Integers, Sequences, FiniteSets

CONSTANTS
    Threads,    \* listener threads
    Ids,        \* values of the keys
    None,       \* no value
    Rps,        \* of each block: rps
    Interval,   \* of each block: time per request, interval_ns
    Places,     \* slots of the table, HTTP_LIMIT_SLOTS
    Idle,       \* HTTP_LIMIT_IDLE_NS
    MaxDelay,   \* bound: time from the clock to the locks
    MaxClock    \* bound: the clock

Blocks == {"shared", "keyed"}

\* How far tat may be ahead of the time of a request, tau_ns.
Tau(b) == Interval[b] * (Rps[b] - 1)

\* The intervals of a block make one second, a slot is reused after sixty, and a
\* thread does not take the rest of a minute from the clock to the locks.
ASSUME HttpLimitAssumption ==
    /\ Rps \in [Blocks -> Nat \ {0}]
    /\ Interval \in [Blocks -> Nat \ {0}]
    /\ Places \in Nat /\ Idle \in Nat /\ MaxDelay \in Nat /\ MaxClock \in Nat
    /\ Tau("keyed") + Interval["keyed"] + MaxDelay <= Idle
    /\ None \notin Ids

Table == 1..Places

VARIABLES
    clock,   \* uv_hrtime
    asked,   \* the request that a thread checks and the time it has read for it
    tat,     \* tat of the shared block
    bucket,  \* the slots of the keyed block, id None for one that was never used
    due,     \* history: the tat of each id in a table that has room for all
    passed   \* history: the times of the requests that passed, by id

limitVars == <<clock, asked, tat, bucket, due, passed>>

Request(id, at) == [id |-> id, at |-> at]
Bucket(id, t, last) == [id |-> id, tat |-> t, last |-> last]

LimitInit ==
    /\ clock = 0
    /\ asked = [t \in Threads |-> Request(None, 0)]
    /\ tat = 0
    /\ bucket = [s \in Table |-> Bucket(None, 0, 0)]
    /\ due = [i \in Ids |-> 0]
    /\ passed = [i \in Ids |-> <<>>]
-----------------------------------------------------------------------------
Later(a, b) == IF a < b THEN b ELSE a

\* Mutant: one request more at once.
passes_one_more(b, t, at) == Later(t, at) - at <= Tau(b) + Interval[b]

\* http_limit_gcra_plan: whether the request passes, and the schedule after it.
Passes(b, t, at) == Later(t, at) - at <= Tau(b)
NewTat(b, t, at) == Later(t, at) + Interval[b]

Found(id) == {s \in Table : bucket[s].id = id}

\* nslots: slots are taken in their order.
Fresh == {s \in Table : bucket[s].id = None /\ \A r \in 1..(s - 1) : bucket[r].id # None}

\* Mutant: the longest pause that counts is shorter than the burst.
idle_soon(at) == {s \in Table : at - bucket[s].last >= Interval["keyed"]}

IdleSlots(at) == {s \in Table : at - bucket[s].last >= Idle}

\* http_limit_rule_plan: the slot of the value, else one that was never used, else
\* the first that is idle, else none.
SlotsFor(id, at) ==
    IF Found(id) # {} THEN Found(id)
    ELSE IF Fresh # {} THEN Fresh
    ELSE {s \in IdleSlots(at) : \A r \in IdleSlots(at) : s <= r}

TatIn(s, id) == IF bucket[s].id = id THEN bucket[s].tat ELSE 0

\* http_limit_touch, also for a request that is denied.
Touched(id, at) ==
    [s \in Table |-> IF bucket[s].id = id
                     THEN Bucket(id, bucket[s].tat, Later(bucket[s].last, at))
                     ELSE bucket[s]]
-----------------------------------------------------------------------------
Tick ==
    /\ clock < MaxClock
    /\ \A t \in Threads : asked[t].id # None => clock < asked[t].at + MaxDelay
    /\ clock' = clock + 1
    /\ UNCHANGED <<asked, tat, bucket, due, passed>>

\* A request comes to a thread, which reads the clock and builds the id.
http_limit_build_id ==
    \E t \in Threads, id \in Ids :
        /\ asked[t].id = None
        /\ asked' = [asked EXCEPT ![t] = Request(id, clock)]
        /\ UNCHANGED <<clock, tat, bucket, due, passed>>

\* http_limit_rule_commit of both blocks.
Allow(id, at, s) ==
    /\ tat' = NewTat("shared", tat, at)
    /\ bucket' = [bucket EXCEPT ![s] =
          Bucket(id, NewTat("keyed", TatIn(s, id), at),
                 IF bucket[s].id = id THEN Later(bucket[s].last, at) ELSE at)]
    /\ due' = [due EXCEPT ![id] = NewTat("keyed", due[id], at)]
    /\ passed' = [passed EXCEPT ![id] = Append(@, at)]

\* Mutant: the shared block is charged before the other is asked.
deny_with_charge(id, at) ==
    /\ tat' = IF Passes("shared", tat, at) THEN NewTat("shared", tat, at) ELSE tat
    /\ bucket' = Touched(id, at)
    /\ UNCHANGED <<due, passed>>

Deny(id, at) ==
    /\ bucket' = Touched(id, at)
    /\ UNCHANGED <<tat, due, passed>>

\* http_limit_check, under the locks of both blocks: the request has to pass both.
Decide(id, at) ==
    LET open == {s \in SlotsFor(id, at) : Passes("keyed", TatIn(s, id), at)}
        pass == Passes("shared", tat, at) /\ open # {}
    IN  \/ pass /\ \E s \in open : Allow(id, at, s)
        \/ ~ pass /\ Deny(id, at)

http_limit_check ==
    \E t \in Threads :
        /\ asked[t].id # None
        /\ Decide(asked[t].id, asked[t].at)
        /\ asked' = [asked EXCEPT ![t] = Request(None, 0)]
        /\ UNCHANGED clock

LimitNext ==
    \/ Tick
    \/ http_limit_build_id
    \/ http_limit_check

LimitSpec == LimitInit /\ [][LimitNext]_limitVars
-----------------------------------------------------------------------------
LimitTypeOK ==
    /\ clock \in Nat
    /\ asked \in [Threads -> [id : Ids \cup {None}, at : Nat]]
    /\ tat \in Nat
    /\ bucket \in [Table -> [id : Ids \cup {None}, tat : Nat, last : Nat]]
    /\ due \in [Ids -> Nat]
    /\ passed \in [Ids -> Seq(Nat)]

PassedIn(ids, a, b) ==
    {p \in ids \X (1..MaxClock * Rps["keyed"] + Rps["keyed"]) :
        p[2] <= Len(passed[p[1]]) /\ passed[p[1]][p[2]] \in a..b}

\* "After a pause a client may send rps requests at once, then one per 1/rps
\* seconds", and "threads 4 does not turn 10 rps into 40": of the requests of any
\* span of time no more pass than the burst and one for each interval, for one
\* value of the keys and for all clients, with slots reused and old times.
NeverOverRate ==
    \A a \in 0..clock : \A b \in a..clock :
        /\ Cardinality(PassedIn(Ids, a, b)) * Interval["shared"]
              <= Tau("shared") + Interval["shared"] + (b - a)
        /\ \A id \in Ids : Cardinality(PassedIn({id}, a, b)) * Interval["keyed"]
              <= Tau("keyed") + Interval["keyed"] + (b - a)

\* "A bucket with no request for 60 seconds may be reused": the reuse forgets no
\* debt.  A value in the table has the schedule that it would have in a table with
\* room for all, and the schedule of a value that is not in the table would be
\* over by the time of any request that is still to be checked.
NothingForgotten ==
    \A id \in Ids :
        /\ \A s \in Found(id) : bucket[s].tat = due[id]
        /\ Found(id) = {} => due[id] = 0 \/ due[id] + MaxDelay <= clock

\* A value has one bucket: two would be two budgets.
OneBucket ==
    \A r, s \in Table : bucket[r].id = bucket[s].id /\ bucket[r].id # None => r = s

\* A request that one block denies costs nothing in the other, whichever is asked
\* first: only a request that passes moves a schedule or takes a slot.
DeniedCostsNothing ==
    [][passed' = passed =>
         /\ tat' = tat
         /\ \A s \in Table : bucket'[s].id = bucket[s].id /\ bucket'[s].tat = bucket[s].tat]_limitVars

\* No schedule gets further ahead than the burst, whatever is sent: a client that
\* is denied has room again after one interval, as Retry-After says.
NeverFarAhead ==
    /\ tat <= clock + Tau("shared") + Interval["shared"]
    /\ \A s \in Table : bucket[s].tat <= clock + Tau("keyed") + Interval["keyed"]
=============================================================================
