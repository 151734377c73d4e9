-------------------------- MODULE EventLoopProofs ---------------------------
(* Awaited oneshots, for any number of calls and any depth: no pointer to a  *)
(* wait outlives it, and none to a result outlives its caller.  The pool of  *)
(* worker loops, for any number of workers, pools and pieces of work: order, *)
(* and nothing of the main thread is thrown away.  The request limits, for   *)
(* any number of threads, clients and slots: reuse forgets no debt.          *)
EXTENDS Await, ThreadedLoop, HttpLimit, TLAPS

-----------------------------------------------------------------------------
(* The limit of requests (HttpLimit). *)
\* How far a keyed bucket may be ahead of its last request.
Burst == Tau("keyed") + Interval["keyed"]

\* A request that waits for the locks has a time of the last MaxDelay ticks.
AskedLately ==
    \A t \in Threads :
        asked[t].id # None => asked[t].at <= clock /\ clock <= asked[t].at + MaxDelay

\* A schedule is at most a burst ahead of the last request of its bucket, so that
\* it is over long before the bucket is idle.
AheadOfLast ==
    \A s \in Table :
        bucket[s].last <= clock /\ bucket[s].tat <= bucket[s].last + Burst

LimitInv ==
    LimitTypeOK /\ AskedLately /\ AheadOfLast /\ OneBucket /\ NothingForgotten /\ NeverFarAhead

LEMMA ProductNat == \A x, y \in Nat : x * y \in Nat
  OBVIOUS

LEMMA TauNat == \A b \in Blocks : Tau(b) \in Nat /\ Interval[b] \in Nat /\ Interval[b] > 0
<1> SUFFICES ASSUME NEW b \in Blocks
             PROVE  Tau(b) \in Nat /\ Interval[b] \in Nat /\ Interval[b] > 0
  BY Zenon
<1>1. Interval[b] \in Nat /\ Interval[b] > 0 /\ Rps[b] - 1 \in Nat
  BY HttpLimitAssumption
<1> QED
  BY <1>1, ProductNat, Zenon DEF Tau

\* The constants of the keyed block as the steps below need them.
LEMMA Constants ==
    /\ Burst \in Nat /\ Idle \in Nat /\ MaxDelay \in Nat
    /\ Burst + MaxDelay <= Idle
    /\ Tau("keyed") \in Nat /\ Interval["keyed"] \in Nat
    /\ Tau("shared") \in Nat /\ Interval["shared"] \in Nat
    /\ Burst = Tau("keyed") + Interval["keyed"]
    /\ None \notin Ids
<1>1. "keyed" \in Blocks /\ "shared" \in Blocks
  BY Zenon DEF Blocks
<1>2. /\ Tau("keyed") \in Nat /\ Interval["keyed"] \in Nat
      /\ Tau("shared") \in Nat /\ Interval["shared"] \in Nat
  BY <1>1, TauNat, Zenon
<1> QED
  BY <1>2, HttpLimitAssumption DEF Burst

\* http_limit_gcra_plan: a request that passes leaves the schedule at most a burst
\* ahead of its time.
LEMMA PlanFact ==
    ASSUME NEW t \in Nat, NEW at \in Nat
    PROVE  /\ NewTat("keyed", t, at) \in Nat /\ NewTat("shared", t, at) \in Nat
           /\ Passes("keyed", t, at) => NewTat("keyed", t, at) <= at + Burst
           /\ Passes("shared", t, at) =>
                 NewTat("shared", t, at) <= at + Tau("shared") + Interval["shared"]
           /\ t <= at => NewTat("keyed", t, at) = NewTat("keyed", 0, at)
  BY Constants DEF NewTat, Passes, Later
-----------------------------------------------------------------------------
LEMMA LimitInitHolds == LimitInit => LimitInv
<1> SUFFICES ASSUME LimitInit PROVE LimitInv
  BY Zenon
<1>1. LimitTypeOK
  BY Constants DEF LimitInit, LimitTypeOK, Request, Bucket
<1>2. AskedLately
  BY Zenon DEF LimitInit, AskedLately, Request
<1>3. AheadOfLast
  BY Constants DEF LimitInit, AheadOfLast, Bucket
<1>4. OneBucket
  BY Zenon DEF LimitInit, OneBucket, Bucket
<1>5. NothingForgotten
  BY Constants, Zenon DEF LimitInit, NothingForgotten, Found, Bucket
<1>6. NeverFarAhead
  BY Constants DEF LimitInit, NeverFarAhead, Bucket
<1> QED
  BY <1>1, <1>2, <1>3, <1>4, <1>5, <1>6, Zenon DEF LimitInv

LEMMA TickHolds == LimitInv /\ Tick => LimitInv'
<1> SUFFICES ASSUME LimitInv, Tick PROVE LimitInv'
  BY Zenon
<1> USE DEF LimitInv, Tick
<1>1. LimitTypeOK'
  BY DEF LimitTypeOK
<1>2. AskedLately'
  <2>1. clock \in Nat /\ clock' = clock + 1 /\ MaxDelay \in Nat /\ asked' = asked
    BY Constants, Zenon DEF LimitTypeOK
  <2>2. ASSUME NEW t \in Threads, asked[t].id # None
        PROVE  asked[t].at <= clock' /\ clock' <= asked[t].at + MaxDelay
    <3>1. asked[t].at \in Nat /\ asked[t].at <= clock /\ clock < asked[t].at + MaxDelay
      BY <2>2, Zenon DEF LimitTypeOK, AskedLately
    <3> QED
      BY <2>1, <3>1
  <2> QED
    BY <2>1, <2>2, Zenon DEF AskedLately
<1>3. AheadOfLast'
  BY Constants, SMTT(30) DEF AheadOfLast, LimitTypeOK
<1>4. OneBucket'
  BY Zenon DEF OneBucket
<1>5. NothingForgotten'
  <2>1. clock \in Nat /\ clock' = clock + 1 /\ MaxDelay \in Nat /\ due' = due /\ bucket' = bucket
    BY Constants, Zenon DEF LimitTypeOK
  <2>2. ASSUME NEW id \in Ids, due[id] + MaxDelay <= clock
        PROVE  due[id] + MaxDelay <= clock'
    BY <2>1, <2>2 DEF LimitTypeOK
  <2> QED
    BY <2>1, <2>2 DEF NothingForgotten, Found
<1>6. NeverFarAhead'
  <2>1. clock \in Nat /\ clock' = clock + 1 /\ tat \in Nat /\ tat' = tat /\ bucket' = bucket
    BY Zenon DEF LimitTypeOK
  <2>2. tat <= clock' + Tau("shared") + Interval["shared"]
    BY <2>1, Constants DEF NeverFarAhead
  <2>3. ASSUME NEW s \in Table
        PROVE  bucket[s].tat <= clock' + Tau("keyed") + Interval["keyed"]
    <3>1. bucket[s].tat \in Nat /\ bucket[s].tat <= clock + Tau("keyed") + Interval["keyed"]
      BY Zenon DEF LimitTypeOK, NeverFarAhead
    <3> QED
      BY <2>1, <3>1, Constants
  <2> QED
    BY <2>1, <2>2, <2>3, Zenon DEF NeverFarAhead
<1> QED
  BY <1>1, <1>2, <1>3, <1>4, <1>5, <1>6, Zenon

LEMMA BuildHolds == LimitInv /\ http_limit_build_id => LimitInv'
<1> SUFFICES ASSUME LimitInv, NEW t \in Threads, NEW id \in Ids,
                    asked' = [asked EXCEPT ![t] = Request(id, clock)],
                    UNCHANGED <<clock, tat, bucket, due, passed>>
             PROVE  LimitInv'
  BY Zenon DEF http_limit_build_id
<1> USE DEF LimitInv
<1>1. LimitTypeOK'
  BY Zenon DEF LimitTypeOK, Request
<1>2. AskedLately'
  BY Constants DEF AskedLately, LimitTypeOK, Request
<1>3. AheadOfLast' /\ OneBucket' /\ NothingForgotten' /\ NeverFarAhead'
  BY Zenon DEF AheadOfLast, OneBucket, NothingForgotten, NeverFarAhead, Found
<1> QED
  BY <1>1, <1>2, <1>3, Zenon

\* A request that was checked leaves its thread with none.
LEMMA AnsweredAsk ==
    ASSUME LimitTypeOK, AskedLately, NEW t \in Threads,
           asked' = [asked EXCEPT ![t] = Request(None, 0)], UNCHANGED clock
    PROVE  AskedLately' /\ asked' \in [Threads -> [id : Ids \cup {None}, at : Nat]]
  BY Zenon DEF LimitTypeOK, AskedLately, Request

LEMMA DenyHolds ==
    ASSUME LimitInv, NEW t \in Threads, asked[t].id # None,
           Deny(asked[t].id, asked[t].at),
           asked' = [asked EXCEPT ![t] = Request(None, 0)], UNCHANGED clock
    PROVE  LimitInv'
<1> DEFINE id == asked[t].id
           at == asked[t].at
<1>1. /\ id \in Ids /\ at \in Nat /\ at <= clock
      /\ \A s \in Table : bucket[s] \in [id : Ids \cup {None}, tat : Nat, last : Nat]
      /\ clock \in Nat
  BY Zenon DEF LimitInv, LimitTypeOK, AskedLately
<1>2. \A s \in Table :
        /\ bucket'[s].id = bucket[s].id /\ bucket'[s].tat = bucket[s].tat
        /\ bucket[s].last <= bucket'[s].last
        /\ bucket'[s].last <= clock \/ bucket'[s].last = bucket[s].last
        /\ bucket'[s] \in [id : Ids \cup {None}, tat : Nat, last : Nat]
  BY <1>1 DEF Deny, Touched, Bucket, Later
<1>3. LimitTypeOK'
  <2>1. bucket' \in [Table -> [id : Ids \cup {None}, tat : Nat, last : Nat]]
    BY <1>2, Zenon DEF Deny, Touched
  <2> QED
    BY <2>1, AnsweredAsk, Zenon DEF LimitInv, LimitTypeOK, Deny
<1>4. AskedLately'
  BY AnsweredAsk, ZenonT(30) DEF LimitInv
<1>5. AheadOfLast'
  BY <1>1, <1>2, Constants DEF LimitInv, AheadOfLast
<1>6. OneBucket'
  BY <1>2, SMTT(30) DEF LimitInv, OneBucket
<1>7. NothingForgotten'
  BY <1>2 DEF LimitInv, NothingForgotten, Found, Deny
<1>8. NeverFarAhead'
  BY <1>2, Zenon DEF LimitInv, NeverFarAhead, Deny
<1> QED
  BY <1>3, <1>4, <1>5, <1>6, <1>7, <1>8, Zenon DEF LimitInv

LEMMA AllowHolds ==
    ASSUME LimitInv, NEW t \in Threads, asked[t].id # None,
           Passes("shared", tat, asked[t].at),
           NEW s \in SlotsFor(asked[t].id, asked[t].at),
           Passes("keyed", TatIn(s, asked[t].id), asked[t].at),
           Allow(asked[t].id, asked[t].at, s),
           asked' = [asked EXCEPT ![t] = Request(None, 0)], UNCHANGED clock
    PROVE  LimitInv'
<1> DEFINE id == asked[t].id
           at == asked[t].at
           Buckets == [id : Ids \cup {None}, tat : Nat, last : Nat]
<1>1. /\ id \in Ids /\ at \in Nat /\ at <= clock /\ clock <= at + MaxDelay
      /\ clock \in Nat /\ tat \in Nat /\ due \in [Ids -> Nat]
      /\ bucket \in [Table -> Buckets] /\ s \in Table
  BY Zenon DEF LimitInv, LimitTypeOK, AskedLately, SlotsFor, Found, Fresh, IdleSlots
<1>2. TatIn(s, id) \in Nat
  BY <1>1, Zenon DEF TatIn
<1>3. NewTat("keyed", TatIn(s, id), at) \in Nat
  BY <1>1, <1>2, PlanFact, Zenon
<1>4. NewTat("keyed", TatIn(s, id), at) <= at + Burst
  BY <1>1, <1>2, PlanFact, ZenonT(30)
<1>5. /\ bucket'[s].id = id
      /\ bucket'[s].tat = NewTat("keyed", TatIn(s, id), at)
      /\ bucket'[s].last \in Nat /\ at <= bucket'[s].last /\ bucket'[s].last <= clock
      /\ bucket'[s] \in Buckets
  <2>1. bucket[s].last \in Nat /\ bucket[s].last <= clock
    BY <1>1, Zenon DEF LimitInv, AheadOfLast
  <2> DEFINE last == IF bucket[s].id = id THEN Later(bucket[s].last, at) ELSE at
  <2>2. last \in Nat /\ at <= last /\ last <= clock
    BY <1>1, <2>1 DEF Later
  <2>3. bucket'[s] = Bucket(id, NewTat("keyed", TatIn(s, id), at), last)
    BY <1>1, ZenonT(30) DEF Allow
  <2> HIDE DEF last
  <2> QED
    BY <1>1, <1>3, <2>2, <2>3 DEF Bucket
<1>6. \A r \in Table : r # s => bucket'[r] = bucket[r]
  BY <1>1, Zenon DEF Allow
<1>7. Found(id) = {} \/ bucket[s].id = id
  BY Zenon DEF SlotsFor, Found
<1>8. bucket[s].id = id \/ bucket[s].id = None \/ at - bucket[s].last >= Idle
  BY Zenon DEF SlotsFor, Found, Fresh, IdleSlots
<1>9. due'[id] = NewTat("keyed", due[id], at) /\ \A j \in Ids \ {id} : due'[j] = due[j]
  BY <1>1, Zenon DEF Allow
<1>10. LimitTypeOK'
  <2>1. bucket' \in [Table -> Buckets]
    BY <1>1, <1>5, <1>6, Zenon DEF Allow
  <2>2. due' \in [Ids -> Nat]
    BY <1>1, PlanFact, Zenon DEF Allow
  <2>3. tat' \in Nat
    BY <1>1, PlanFact, ZenonT(30) DEF Allow
  <2>4. passed' \in [Ids -> Seq(Nat)]
    BY <1>1 DEF Allow, LimitInv, LimitTypeOK
  <2> QED
    BY <2>1, <2>2, <2>3, <2>4, <1>1, AnsweredAsk, ZenonT(30) DEF LimitInv, LimitTypeOK
<1>11. AskedLately'
  BY AnsweredAsk, Zenon DEF LimitInv
<1>12. AheadOfLast'
  BY <1>1, <1>3, <1>4, <1>5, <1>6, Constants, SMTT(30) DEF LimitInv, AheadOfLast
<1>13. OneBucket'
  BY <1>1, <1>5, <1>6, <1>7, SMTT(30) DEF LimitInv, OneBucket, Found
<1>14. NothingForgotten'
  <2>1. ASSUME NEW r \in Table, bucket'[r].id = id PROVE r = s
    BY <2>1, <1>1, <1>5, <1>6, <1>7, ZenonT(30) DEF LimitInv, OneBucket, Found
  <2>2. bucket'[s].tat = due'[id]
    <3>1. CASE bucket[s].id = id
      BY <3>1, <1>1, <1>5, <1>9, ZenonT(30) DEF LimitInv, NothingForgotten, Found, TatIn
    <3>2. CASE Found(id) = {}
      <4>1. due[id] <= at
        BY <3>2, <1>1, Constants DEF LimitInv, NothingForgotten
      <4>2. TatIn(s, id) = 0
        BY <3>2, <1>1, Zenon DEF Found, TatIn
      <4>3. NewTat("keyed", due[id], at) = NewTat("keyed", 0, at)
        BY <4>1, <1>1, PlanFact, ZenonT(30)
      <4> QED
        BY <4>2, <4>3, <1>5, <1>9, Zenon
    <3> QED
      BY <3>1, <3>2, <1>7, ZenonT(30)
  <2>3. ASSUME NEW j \in Ids, j # id, NEW r \in Table, bucket'[r].id = j
        PROVE  bucket'[r].tat = due'[j]
    <3>1. r # s /\ bucket'[r] = bucket[r] /\ due'[j] = due[j]
      BY <2>3, <1>5, <1>6, <1>9, Zenon
    <3> QED
      BY <2>3, <3>1, Zenon DEF LimitInv, NothingForgotten, Found
  <2>4. ASSUME NEW j \in Ids, j # id, \A r \in Table : bucket'[r].id # j
        PROVE  due'[j] = 0 \/ due'[j] + MaxDelay <= clock'
    <3>1. due'[j] = due[j] /\ clock' = clock
      BY <2>4, <1>9, ZenonT(30)
    <3>2. CASE bucket[s].id = j
      <4>1. due[j] = bucket[s].tat
        BY <3>2, <1>1, Zenon DEF LimitInv, NothingForgotten, Found
      <4>2. bucket[s].tat <= bucket[s].last + Burst /\ bucket[s].tat \in Nat /\ bucket[s].last \in Nat
        BY <1>1, Zenon DEF LimitInv, AheadOfLast
      <4>3. at - bucket[s].last >= Idle
        BY <2>4, <3>2, <1>8, Constants, ZenonT(30)
      <4> QED
        BY <3>1, <4>1, <4>2, <4>3, <1>1, Constants
    <3>3. CASE bucket[s].id # j
      <4>1. Found(j) = {}
        BY <2>4, <3>3, <1>6, Zenon DEF Found
      <4> QED
        BY <3>1, <4>1, ZenonT(30) DEF LimitInv, NothingForgotten
    <3> QED
      BY <3>2, <3>3, Zenon
  <2>5. ASSUME NEW j \in Ids
        PROVE  /\ \A r \in Table : bucket'[r].id = j => bucket'[r].tat = due'[j]
               /\ (\A r \in Table : bucket'[r].id # j) => due'[j] = 0 \/ due'[j] + MaxDelay <= clock'
    <3>1. CASE j = id
      BY <3>1, <2>1, <2>2, <1>1, <1>5, ZenonT(30)
    <3>2. CASE j # id
      BY <3>2, <2>3, <2>4, Zenon
    <3> QED
      BY <3>1, <3>2, Zenon
  <2> QED
    BY <2>5, ZenonT(30) DEF NothingForgotten, Found
<1>15. NeverFarAhead'
  <2>1. tat' <= at + Tau("shared") + Interval["shared"] /\ tat' \in Nat
    BY <1>1, PlanFact, Zenon DEF Allow
  <2>2. tat' <= clock' + Tau("shared") + Interval["shared"]
    BY <1>1, <2>1, Constants, SMTT(30)
  <2>3. bucket'[s].tat <= clock' + Tau("keyed") + Interval["keyed"]
    BY <1>1, <1>3, <1>4, <1>5, Constants
  <2> QED
    BY <1>6, <2>2, <2>3, Zenon DEF LimitInv, NeverFarAhead
<1> QED
  BY <1>10, <1>11, <1>12, <1>13, <1>14, <1>15, Zenon DEF LimitInv

LEMMA CheckHolds == LimitInv /\ http_limit_check => LimitInv'
<1> SUFFICES ASSUME LimitInv, NEW t \in Threads, asked[t].id # None,
                    Decide(asked[t].id, asked[t].at),
                    asked' = [asked EXCEPT ![t] = Request(None, 0)], UNCHANGED clock
             PROVE  LimitInv'
  BY Zenon DEF http_limit_check
<1>1. CASE Deny(asked[t].id, asked[t].at)
  BY <1>1, DenyHolds, Zenon
<1>2. CASE /\ Passes("shared", tat, asked[t].at)
           /\ \E s \in SlotsFor(asked[t].id, asked[t].at) :
                 /\ Passes("keyed", TatIn(s, asked[t].id), asked[t].at)
                 /\ Allow(asked[t].id, asked[t].at, s)
  BY <1>2, AllowHolds, Zenon
<1> QED
  BY <1>1, <1>2, Zenon DEF Decide

\* Every reachable state of the limiter satisfies the inductive invariant.
THEOREM LimiterInvariant == LimitSpec => []LimitInv
<1>1. LimitInv /\ [LimitNext]_limitVars => LimitInv'
  <2>1. LimitInv /\ UNCHANGED limitVars => LimitInv'
    BY DEF limitVars, LimitInv, LimitTypeOK, AskedLately, AheadOfLast, OneBucket, NothingForgotten,
           NeverFarAhead, Found
  <2> QED
    BY <2>1, TickHolds, BuildHolds, CheckHolds, Zenon DEF LimitNext
<1> QED
  BY LimitInitHolds, <1>1, PTL DEF LimitSpec

\* "A bucket with no request for 60 seconds may be reused": the reuse of slots by
\* http_limit_rule_plan forgets no debt, for any number of threads, clients and
\* slots, as long as a burst and the delay of a thread fit into the idle time.
THEOREM ReuseForgetsNothing == LimitSpec => []NothingForgotten
<1>1. LimitInv => NothingForgotten
  BY Zenon DEF LimitInv
<1> QED
  BY <1>1, LimiterInvariant, PTL

\* No schedule of a limit gets further ahead of the clock than its burst, whatever
\* is sent and by however many threads: a client that is denied has room again after
\* one interval, as the Retry-After of http_limit_gcra_plan says.
THEOREM DebtIsBounded == LimitSpec => []NeverFarAhead
<1>1. LimitInv => NeverFarAhead
  BY Zenon DEF LimitInv
<1> QED
  BY <1>1, LimiterInvariant, PTL

\* http_limit_check commits to all limits or to none: a request that is denied
\* moves no schedule and takes no slot, for any number of threads, clients and slots.
THEOREM DenialIsFree == LimitSpec => DeniedCostsNothing
<1> DEFINE Costless == passed' = passed =>
         /\ tat' = tat
         /\ \A s \in Table : bucket'[s].id = bucket[s].id /\ bucket'[s].tat = bucket[s].tat
<1>1. ASSUME LimitInv, [LimitNext]_limitVars PROVE Costless \/ UNCHANGED limitVars
  <2>1. CASE Tick \/ http_limit_build_id
    BY <2>1, Zenon DEF Tick, http_limit_build_id
  <2>2. CASE http_limit_check
    <3>1. PICK t \in Threads : asked[t].id # None /\ Decide(asked[t].id, asked[t].at)
      BY <2>2, Zenon DEF http_limit_check
    <3>2. asked[t].id \in Ids /\ asked[t].at \in Nat /\ passed \in [Ids -> Seq(Nat)]
      BY <3>1, <1>1, Zenon DEF LimitInv, LimitTypeOK
    <3>3. ASSUME NEW s \in SlotsFor(asked[t].id, asked[t].at),
                 Allow(asked[t].id, asked[t].at, s)
          PROVE  passed' # passed
      <4>1. passed'[asked[t].id] = Append(passed[asked[t].id], asked[t].at)
        BY <3>2, <3>3, Zenon DEF Allow
      <4>2. passed[asked[t].id] \in Seq(Nat)
        BY <3>2, Zenon
      <4>3. Len(Append(passed[asked[t].id], asked[t].at)) = Len(passed[asked[t].id]) + 1
        BY <3>2, <4>2
      <4>4. Len(passed[asked[t].id]) \in Nat
        BY <4>2, SMTT(30)
      <4> QED
        BY <4>1, <4>3, <4>4, SMTT(30)
    <3>4. CASE Deny(asked[t].id, asked[t].at)
      BY <3>4, Zenon DEF Deny, Touched, Bucket
    <3> QED
      BY <3>1, <3>3, <3>4, Zenon DEF Decide
  <2> QED
    BY <1>1, <2>1, <2>2, Zenon DEF LimitNext
<1> QED
  BY <1>1, LimiterInvariant, PTL DEF LimitSpec, DeniedCostsNothing

-----------------------------------------------------------------------------
(* The awaited oneshots (Await). *)
Kinds == {"await", "handler"}
StackFrames == [kind : Kinds, call : Calls]
Waits == [mem : {"none", "live", "freed"}, out : BOOLEAN, completed : BOOLEAN,
          abandoned : BOOLEAN, done : BOOLEAN]

AwaitTypeOK ==
    /\ stack \in Seq(StackFrames)
    /\ wait \in [Calls -> Waits]
    /\ shot \in [Calls -> {"none", "running", "ended"}]
    /\ holds \in [Calls -> BOOLEAN]
    /\ timer \in [Calls -> {"none", "armed", "fired", "closing", "closed"}]

\* A call is on the stack once, and the handler of its client above it.
Nested ==
    /\ \A k, l \in 1..Len(stack) : stack[k] = stack[l] => k = l
    /\ \A l \in 1..Len(stack) : stack[l].kind = "handler" =>
           \E k \in 1..(l - 1) : stack[k] = Frame("await", stack[l].call)

\* Who has a wait: its call while it is on the stack, and its client.
Owned ==
    \A i \in Calls :
        /\ wait[i].mem = "none" => shot[i] = "none" /\ ~ holds[i]
        /\ holds[i] => shot[i] = "running" /\ wait[i].mem = "live" /\ ~ wait[i].completed
        /\ Frame("handler", i) \in Frames => shot[i] = "ended"
        /\ Frame("await", i) \in Frames => wait[i].mem = "live" /\ ~ wait[i].abandoned
        /\ wait[i].mem = "live" /\ (wait[i].out \/ ~ wait[i].abandoned) =>
               Frame("await", i) \in Frames

AwaitInv == AwaitTypeOK /\ Nested /\ Owned

LEMMA FrameType == \A kind \in Kinds, i \in Calls : Frame(kind, i) \in StackFrames
  BY Zenon DEF Frame, StackFrames

LEMMA FrameEqual ==
    \A kind1, kind2, i, j : Frame(kind1, i) = Frame(kind2, j) => kind1 = kind2 /\ i = j
<1> TAKE kind1, kind2, i, j
<1>1. Frame(kind1, i).kind = kind1 /\ Frame(kind1, i).call = i
  BY Zenon DEF Frame
<1>2. Frame(kind2, j).kind = kind2 /\ Frame(kind2, j).call = j
  BY Zenon DEF Frame
<1> QED
  BY <1>1, <1>2, Zenon

\* What a timeout and the end of a handler write into a wait.
LEMMA WaitFields ==
    ASSUME NEW w \in Waits
    PROVE  /\ [w EXCEPT !.done = TRUE] \in Waits
           /\ [w EXCEPT !.done = TRUE].mem = w.mem
           /\ [w EXCEPT !.done = TRUE].out = w.out
           /\ [w EXCEPT !.done = TRUE].completed = w.completed
           /\ [w EXCEPT !.done = TRUE].abandoned = w.abandoned
           /\ [w EXCEPT !.completed = TRUE, !.done = TRUE] \in Waits
           /\ [w EXCEPT !.completed = TRUE, !.done = TRUE].mem = w.mem
           /\ [w EXCEPT !.completed = TRUE, !.done = TRUE].out = w.out
           /\ [w EXCEPT !.completed = TRUE, !.done = TRUE].abandoned = w.abandoned
  BY Zenon DEF Waits

\* A call of a function: one frame more.
LEMMA Push ==
    ASSUME AwaitTypeOK, Nested, NEW f \in StackFrames, f \notin Frames,
           f.kind = "handler" => Frame("await", f.call) \in Frames,
           stack' = Append(stack, f)
    PROVE  stack' \in Seq(StackFrames) /\ Nested' /\ Frames' = Frames \cup {f}
<1>1. /\ stack \in Seq(StackFrames) /\ Len(stack) \in Nat
      /\ stack' \in Seq(StackFrames) /\ Len(stack') = Len(stack) + 1
      /\ \A k \in 1..Len(stack) : stack'[k] = stack[k]
      /\ stack'[Len(stack) + 1] = f
      /\ DOMAIN stack = 1..Len(stack) /\ DOMAIN stack' = 1..(Len(stack) + 1)
  BY DEF AwaitTypeOK
<1>2. Frames' = Frames \cup {f}
  BY <1>1 DEF Frames
<1>3. \A k, l \in 1..Len(stack') : stack'[k] = stack'[l] => k = l
  BY <1>1 DEF Nested, Frames
<1>4. ASSUME NEW l \in 1..Len(stack'), stack'[l].kind = "handler"
      PROVE  \E k \in 1..(l - 1) : stack'[k] = Frame("await", stack'[l].call)
  <2>1. CASE l \in 1..Len(stack)
    <3>1. PICK k \in 1..(l - 1) : stack[k] = Frame("await", stack[l].call)
      BY <1>1, <1>4, <2>1, Zenon DEF Nested
    <3> QED
      BY <1>1, <2>1, <3>1
  <2>2. CASE l = Len(stack) + 1
    <3>1. PICK k \in 1..Len(stack) : stack[k] = Frame("await", f.call)
      BY <1>1, <1>4, <2>2, Zenon DEF Frames
    <3> QED
      BY <1>1, <2>2, <3>1
  <2> QED
    BY <1>1, <2>1, <2>2
<1> QED
  BY <1>1, <1>2, <1>3, <1>4, Zenon DEF Nested

\* A return: one frame less.
LEMMA Pop ==
    ASSUME AwaitTypeOK, Nested, NEW f, Innermost(f), stack' = Return
    PROVE  /\ stack' \in Seq(StackFrames) /\ Nested' /\ Frames' = Frames \ {f}
           /\ f \in Frames /\ f \in StackFrames
<1>1. /\ stack \in Seq(StackFrames) /\ Len(stack) \in Nat /\ Len(stack) > 0
      /\ stack[Len(stack)] = f
      /\ DOMAIN stack = 1..Len(stack)
  BY DEF AwaitTypeOK, Innermost
<1>2. /\ stack' \in Seq(StackFrames) /\ Len(stack') = Len(stack) - 1
      /\ \A k \in 1..(Len(stack) - 1) : stack'[k] = stack[k]
      /\ DOMAIN stack' = 1..(Len(stack) - 1)
  BY <1>1 DEF Return
<1>3. Frames' = Frames \ {f}
  BY <1>1, <1>2 DEF Frames, Nested
<1>4. \A k, l \in 1..Len(stack') : stack'[k] = stack'[l] => k = l
  BY <1>1, <1>2 DEF Nested
<1>5. ASSUME NEW l \in 1..Len(stack'), stack'[l].kind = "handler"
      PROVE  \E k \in 1..(l - 1) : stack'[k] = Frame("await", stack'[l].call)
  <2>1. PICK k \in 1..(l - 1) : stack[k] = Frame("await", stack[l].call)
    BY <1>1, <1>2, <1>5, SMTT(30) DEF Nested
  <2> QED
    BY <1>1, <1>2, <2>1, SMTT(30)
<1>6. f \in Frames /\ f \in StackFrames
  BY <1>1 DEF Frames
<1> QED
  BY <1>2, <1>3, <1>4, <1>5, <1>6, Zenon DEF Nested
-----------------------------------------------------------------------------
LEMMA AwaitInitHolds == AwaitInit => AwaitInv
<1> SUFFICES ASSUME AwaitInit PROVE AwaitInv
  BY Zenon
<1>1. AwaitTypeOK
  BY DEF AwaitInit, AwaitTypeOK, Unused, Waits
<1>2. Nested /\ Frames = {}
  BY DEF AwaitInit, Nested, Frames
<1>3. Owned
  BY <1>2, Zenon DEF AwaitInit, Owned, Unused
<1> QED
  BY <1>1, <1>2, <1>3, Zenon DEF AwaitInv

LEMMA AwaitHolds == AwaitInv /\ aggregator_oneshot_await => AwaitInv'
<1> SUFFICES ASSUME AwaitInv, aggregator_oneshot_await PROVE AwaitInv'
  BY Zenon
<1> USE DEF AwaitInv
<1>1. PICK i \in Calls :
        /\ wait[i].mem = "none"
        /\ \/ /\ stack' = Append(stack, Frame("await", i))
              /\ wait' = [wait EXCEPT ![i] = [Unused EXCEPT !.mem = "live", !.out = TRUE]]
              /\ shot' = [shot EXCEPT ![i] = "running"]
              /\ holds' = [holds EXCEPT ![i] = TRUE]
           \/ /\ wait' = [wait EXCEPT ![i].mem = "freed"]
              /\ UNCHANGED <<stack, shot, holds>>
        /\ UNCHANGED timer
  BY Zenon DEF aggregator_oneshot_await
<1>2. Frame("await", i) \notin Frames /\ shot[i] = "none" /\ ~ holds[i]
  BY <1>1, Zenon DEF Owned
<1>3. CASE stack' = Append(stack, Frame("await", i)) /\ shot' = [shot EXCEPT ![i] = "running"]
            /\ wait' = [wait EXCEPT ![i] = [Unused EXCEPT !.mem = "live", !.out = TRUE]]
            /\ holds' = [holds EXCEPT ![i] = TRUE]
  <2>1. Frame("await", i) \in StackFrames /\ Frame("await", i).kind = "await"
    BY FrameType, Zenon DEF Frame, Kinds
  <2>2. stack' \in Seq(StackFrames) /\ Nested' /\ Frames' = Frames \cup {Frame("await", i)}
    BY <1>2, <1>3, <2>1, Push, Zenon
  <2>3. AwaitTypeOK'
    BY <1>1, <1>3, <2>2, Zenon DEF AwaitTypeOK, Unused, Waits
  <2>4. Owned'
    BY <1>1, <1>2, <1>3, <2>2, FrameEqual DEF Owned, AwaitTypeOK, Unused, Waits
  <2> QED
    BY <2>2, <2>3, <2>4, Zenon
<1>4. CASE wait' = [wait EXCEPT ![i].mem = "freed"] /\ UNCHANGED <<stack, shot, holds>>
  <2>1. AwaitTypeOK'
    BY <1>1, <1>4 DEF AwaitTypeOK, Waits
  <2>2. Nested' /\ Frames' = Frames
    BY <1>4, Zenon DEF Nested, Frames
  <2>3. Owned'
    BY <1>1, <1>2, <1>4, <2>2 DEF Owned, AwaitTypeOK, Waits
  <2> QED
    BY <2>1, <2>2, <2>3, Zenon
<1> QED
  BY <1>1, <1>3, <1>4, Zenon

\* The steps that leave the stack as it is.
LEMMA SameStack ==
    ASSUME AwaitInv, UNCHANGED stack
    PROVE  Nested' /\ Frames' = Frames
  BY Zenon DEF AwaitInv, Nested, Frames

LEMMA InnermostFrame ==
    ASSUME AwaitTypeOK, NEW f, Innermost(f)
    PROVE  f \in Frames
<1>1. stack \in Seq(StackFrames) /\ stack # <<>> /\ stack[Len(stack)] = f
  BY Zenon DEF AwaitTypeOK, Innermost
<1>2. Len(stack) \in 1..Len(stack) /\ DOMAIN stack = 1..Len(stack)
  BY <1>1
<1> QED
  BY <1>1, <1>2, Zenon DEF Frames

LEMMA TimeoutHolds == AwaitInv /\ uva_await_timeout => AwaitInv'
<1> SUFFICES ASSUME AwaitInv, uva_await_timeout PROVE AwaitInv'
  BY Zenon
<1> USE DEF AwaitInv
<1>1. PICK i \in Calls :
        /\ Innermost(Frame("await", i))
        /\ holds' = [holds EXCEPT ![i] = @ \/ (shot[i] = "running" /\ ~ wait[i].completed)]
        /\ timer' = [timer EXCEPT ![i] = IF TooDeep THEN "closing" ELSE "armed"]
        /\ UNCHANGED <<stack, wait, shot>>
  BY Zenon DEF uva_await_timeout
<1>2. Frame("await", i) \in Frames
  BY <1>1, InnermostFrame, Zenon
<1>3. wait[i].mem = "live"
  BY <1>2, Zenon DEF Owned
<1>4. Nested' /\ Frames' = Frames
  BY <1>1, SameStack, Zenon
<1>5. AwaitTypeOK'
  <2>1. holds' \in [Calls -> BOOLEAN]
    BY <1>1, Zenon DEF AwaitTypeOK
  <2> QED
    BY <1>1, <2>1, Zenon DEF AwaitTypeOK
<1>6. \A j \in Calls : holds'[j] => holds[j] \/ (j = i /\ shot[i] = "running" /\ ~ wait[i].completed)
  BY <1>1, Zenon DEF AwaitTypeOK
<1>7. Owned'
  BY <1>1, <1>3, <1>4, <1>6, Zenon DEF Owned
<1> QED
  BY <1>4, <1>5, <1>7, Zenon

LEMMA HandlerHolds == AwaitInv /\ aggregator_oneshot_await_handler => AwaitInv'
<1> SUFFICES ASSUME AwaitInv, aggregator_oneshot_await_handler PROVE AwaitInv'
  BY Zenon
<1> USE DEF AwaitInv
<1>1. PICK i \in Calls : shot[i] = "running" /\ HandlerCalled(i) /\ UNCHANGED timer
  BY Zenon DEF aggregator_oneshot_await_handler
<1>2. /\ shot' = [shot EXCEPT ![i] = "ended"]
      /\ holds' = [holds EXCEPT ![i] = FALSE]
  BY <1>1, Zenon DEF HandlerCalled
<1>3. Frame("handler", i) \notin Frames /\ wait[i].mem # "none"
  BY <1>1, Zenon DEF Owned
<1>4. CASE ~ holds[i]
  <2>1. UNCHANGED <<stack, wait>>
    BY <1>1, <1>4, Zenon DEF HandlerCalled
  <2>2. Nested' /\ Frames' = Frames
    BY <2>1, SameStack, Zenon
  <2>3. AwaitTypeOK'
    BY <1>1, <1>2, <2>1, Zenon DEF AwaitTypeOK
  <2>4. Owned'
    BY <1>2, <1>3, <2>1, <2>2, Zenon DEF Owned, AwaitTypeOK
  <2> QED
    BY <2>2, <2>3, <2>4, Zenon
<1>5. CASE holds[i] /\ wait[i].abandoned
  <2>1. wait' = [wait EXCEPT ![i].mem = "freed"] /\ UNCHANGED stack
    BY <1>1, <1>5, Zenon DEF HandlerCalled
  <2>2. Nested' /\ Frames' = Frames
    BY <2>1, SameStack, Zenon
  <2>3. AwaitTypeOK'
    BY <1>1, <1>2, <2>1, SMTT(30) DEF AwaitTypeOK, Waits
  <2>4. Owned'
    BY <1>2, <1>3, <1>5, <2>1, <2>2 DEF Owned, AwaitTypeOK, Waits
  <2> QED
    BY <2>2, <2>3, <2>4, Zenon
<1>6. CASE holds[i] /\ ~ wait[i].abandoned
  <2>1. stack' = Append(stack, Frame("handler", i)) /\ UNCHANGED wait
    BY <1>1, <1>6, Zenon DEF HandlerCalled
  <2>2. Frame("await", i) \in Frames
    BY <1>6, Zenon DEF Owned
  <2>3. Frame("handler", i) \in StackFrames /\ Frame("handler", i).call = i
    BY FrameType, Zenon DEF Frame, Kinds
  <2>4. stack' \in Seq(StackFrames) /\ Nested' /\ Frames' = Frames \cup {Frame("handler", i)}
    BY <1>3, <2>1, <2>2, <2>3, Push, Zenon
  <2>5. AwaitTypeOK'
    BY <1>1, <1>2, <2>1, <2>4, Zenon DEF AwaitTypeOK
  <2>6. Owned'
    BY <1>2, <1>3, <2>1, <2>4, FrameEqual DEF Owned, AwaitTypeOK
  <2> QED
    BY <2>4, <2>5, <2>6, Zenon
<1> QED
  BY <1>4, <1>5, <1>6, Zenon

LEMMA HandlerReturnsHolds == AwaitInv /\ HandlerReturns => AwaitInv'
<1> SUFFICES ASSUME AwaitInv, HandlerReturns PROVE AwaitInv'
  BY Zenon
<1> USE DEF AwaitInv
<1>1. PICK i \in Calls :
        /\ Innermost(Frame("handler", i))
        /\ stack' = Return
        /\ wait' = [wait EXCEPT ![i].completed = TRUE, ![i].done = TRUE]
        /\ UNCHANGED <<shot, holds, timer>>
  BY Zenon DEF HandlerReturns
<1>2. /\ stack' \in Seq(StackFrames) /\ Nested' /\ Frames' = Frames \ {Frame("handler", i)}
      /\ Frame("handler", i) \in Frames
  BY <1>1, Pop, Zenon
<1>3. shot[i] = "ended" /\ ~ holds[i]
  BY <1>2, Zenon DEF Owned
<1>4. AwaitTypeOK'
  <2>1. wait' = [wait EXCEPT ![i] = [wait[i] EXCEPT !.completed = TRUE, !.done = TRUE]]
    BY <1>1, Zenon DEF AwaitTypeOK
  <2>2. wait' \in [Calls -> Waits]
    BY <2>1, WaitFields, Zenon DEF AwaitTypeOK
  <2> QED
    BY <1>1, <1>2, <2>2, Zenon DEF AwaitTypeOK
<1>5. \A j \in Calls : Frame("await", j) \in Frames' <=> Frame("await", j) \in Frames
  BY <1>2, FrameEqual, Zenon
<1>6. /\ \A j \in Calls : j # i => wait'[j] = wait[j]
      /\ wait'[i].mem = wait[i].mem /\ wait'[i].out = wait[i].out
      /\ wait'[i].abandoned = wait[i].abandoned
  BY <1>1 DEF AwaitTypeOK, Waits
<1>7. Owned'
  BY <1>1, <1>2, <1>3, <1>5, <1>6, ZenonT(30) DEF Owned
<1> QED
  BY <1>2, <1>4, <1>7, Zenon

LEMMA DeletedHolds == AwaitInv /\ ClientDeleted => AwaitInv'
<1> SUFFICES ASSUME AwaitInv, ClientDeleted PROVE AwaitInv'
  BY Zenon
<1> USE DEF AwaitInv
<1>1. PICK i \in Calls :
        /\ shot[i] = "running"
        /\ shot' = [shot EXCEPT ![i] = "ended"]
        /\ holds' = [holds EXCEPT ![i] = FALSE]
        /\ UNCHANGED <<stack, wait, timer>>
  BY Zenon DEF ClientDeleted
<1>2. Nested' /\ Frames' = Frames
  BY <1>1, SameStack, Zenon
<1>3. AwaitTypeOK'
  BY <1>1, Zenon DEF AwaitTypeOK
<1>4. Owned'
  BY <1>1, <1>2, Zenon DEF Owned, AwaitTypeOK
<1> QED
  BY <1>2, <1>3, <1>4, Zenon

\* What the timer does is no matter of who has the wait.
LEMMA TimerHolds ==
    ASSUME AwaitInv, UNCHANGED <<stack, shot, holds>>,
           timer' \in [Calls -> {"none", "armed", "fired", "closing", "closed"}],
           \/ UNCHANGED wait
           \/ \E i \in Calls : wait' = uva_future_cancel(i)
    PROVE  AwaitInv'
<1> USE DEF AwaitInv
<1>1. Nested' /\ Frames' = Frames
  BY SameStack, Zenon
<1>2. /\ wait' \in [Calls -> Waits]
      /\ \A i \in Calls : /\ wait'[i].mem = wait[i].mem /\ wait'[i].out = wait[i].out
                          /\ wait'[i].completed = wait[i].completed
                          /\ wait'[i].abandoned = wait[i].abandoned
  <2>1. CASE UNCHANGED wait
    BY <2>1, Zenon DEF AwaitTypeOK
  <2>2. CASE \E i \in Calls : wait' = uva_future_cancel(i)
    <3>1. PICK i \in Calls : wait' = [wait EXCEPT ![i] = [wait[i] EXCEPT !.done = TRUE]]
      BY <2>2, Zenon DEF AwaitTypeOK, uva_future_cancel
    <3>2. wait[i] \in Waits /\ wait'[i] = [wait[i] EXCEPT !.done = TRUE]
      BY <3>1, Zenon DEF AwaitTypeOK
    <3>3. \A j \in Calls : j # i => wait'[j] = wait[j]
      BY <3>1, Zenon DEF AwaitTypeOK
    <3>4. /\ wait'[i] \in Waits /\ wait'[i].mem = wait[i].mem /\ wait'[i].out = wait[i].out
          /\ wait'[i].completed = wait[i].completed /\ wait'[i].abandoned = wait[i].abandoned
      BY <3>2, WaitFields, ZenonT(30)
    <3>5. wait' \in [Calls -> Waits]
      BY <3>1, <3>2, WaitFields, Zenon DEF AwaitTypeOK
    <3> QED
      BY <3>3, <3>4, <3>5, Zenon
  <2> QED
    BY <2>1, <2>2, Zenon
<1>3. AwaitTypeOK'
  BY <1>2, Zenon DEF AwaitTypeOK
<1>4. Owned'
  BY <1>1, <1>2 DEF Owned
<1> QED
  BY <1>1, <1>3, <1>4, Zenon

LEMMA ReturnHolds == AwaitInv /\ AwaitReturns => AwaitInv'
<1> SUFFICES ASSUME AwaitInv, AwaitReturns PROVE AwaitInv'
  BY Zenon
<1> USE DEF AwaitInv
<1>1. PICK i \in Calls :
        /\ Innermost(Frame("await", i))
        /\ stack' = Return
        /\ wait' = [wait EXCEPT ![i] = Leave(@)]
        /\ UNCHANGED <<shot, holds, timer>>
  BY Zenon DEF AwaitReturns
<1>2. /\ stack' \in Seq(StackFrames) /\ Nested' /\ Frames' = Frames \ {Frame("await", i)}
      /\ Frame("await", i) \in Frames
  BY <1>1, Pop, Zenon
<1>3. wait[i].mem = "live" /\ ~ wait[i].abandoned
  BY <1>2, Zenon DEF Owned
<1>4. /\ \A j \in Calls : j # i => wait'[j] = wait[j]
      /\ wait'[i] \in Waits
      /\ wait[i].completed => wait'[i].mem = "freed"
      /\ ~ wait[i].completed => /\ wait'[i].mem = "live" /\ wait'[i].abandoned
                                /\ ~ wait'[i].out /\ ~ wait'[i].completed
  BY <1>1, <1>3, Zenon DEF AwaitTypeOK, Waits, Leave
<1>5. AwaitTypeOK'
  <2>1. wait' \in [Calls -> Waits]
    BY <1>1, <1>4, Zenon DEF AwaitTypeOK
  <2> QED
    BY <1>1, <1>2, <2>1, Zenon DEF AwaitTypeOK
<1>6. /\ Frame("await", i) \notin Frames'
      /\ \A j \in Calls : j # i => (Frame("await", j) \in Frames' <=> Frame("await", j) \in Frames)
      /\ \A j \in Calls : Frame("handler", j) \in Frames' <=> Frame("handler", j) \in Frames
  BY <1>2, FrameEqual, Zenon
<1>7. Owned'
  BY <1>1, <1>3, <1>4, <1>6 DEF Owned
<1> QED
  BY <1>2, <1>5, <1>7, Zenon
-----------------------------------------------------------------------------
\* A handler is on the stack above its call, whose wait is live as long as it has
\* not returned.
LEMMA OwnersAreSafe == AwaitInv => NoDanglingWait
<1> SUFFICES ASSUME AwaitInv, NEW i \in Calls
             PROVE  /\ holds[i] \/ Frame("handler", i) \in Frames => wait[i].mem = "live"
                    /\ wait[i].mem = "live" /\ wait[i].out => Frame("await", i) \in Frames
  BY Zenon DEF NoDanglingWait
<1> USE DEF AwaitInv
<1>1. ASSUME Frame("handler", i) \in Frames PROVE Frame("await", i) \in Frames
  <2>1. stack \in Seq(StackFrames) /\ DOMAIN stack = 1..Len(stack) /\ Len(stack) \in Nat
    BY DEF AwaitTypeOK
  <2>2. PICK l \in 1..Len(stack) : stack[l] = Frame("handler", i)
    BY <1>1, <2>1, Zenon DEF Frames
  <2>3. stack[l].kind = "handler" /\ stack[l].call = i
    BY <2>2 DEF Frame
  <2>4. PICK k \in 1..(l - 1) : stack[k] = Frame("await", i)
    BY <2>3, Zenon DEF Nested
  <2> QED
    BY <2>1, <2>4 DEF Frames
<1> QED
  BY <1>1, Zenon DEF Owned

\* Every reachable state satisfies the inductive invariant.
THEOREM AwaitInvariant == AwaitSpec => []AwaitInv
<1>1. AwaitInv /\ [AwaitNext]_awaitVars => AwaitInv'
  <2> SUFFICES ASSUME AwaitInv, [AwaitNext]_awaitVars PROVE AwaitInv'
    BY Zenon
  <2>1. CASE on_await_timeout
    <3>1. PICK i \in Calls : /\ timer' = [timer EXCEPT ![i] = "fired"]
                             /\ wait' = uva_future_cancel(i)
                             /\ UNCHANGED <<stack, shot, holds>>
      BY <2>1, Zenon DEF on_await_timeout
    <3>2. timer' \in [Calls -> {"none", "armed", "fired", "closing", "closed"}]
      BY <3>1, Zenon DEF AwaitInv, AwaitTypeOK
    <3> QED
      BY <3>1, <3>2, TimerHolds, Zenon
  <2>2. CASE uva_await \/ on_timer_closed
    <3>1. timer' \in [Calls -> {"none", "armed", "fired", "closing", "closed"}]
      BY <2>2, Zenon DEF uva_await, on_timer_closed, AwaitInv, AwaitTypeOK
    <3>2. UNCHANGED <<stack, wait, shot, holds>>
      BY <2>2, Zenon DEF uva_await, on_timer_closed
    <3> QED
      BY <3>1, <3>2, TimerHolds, Zenon
  <2>3. CASE UNCHANGED awaitVars
    <3>1. timer' \in [Calls -> {"none", "armed", "fired", "closing", "closed"}]
      BY <2>3, Zenon DEF awaitVars, AwaitInv, AwaitTypeOK
    <3> QED
      BY <2>3, <3>1, TimerHolds, Zenon DEF awaitVars
  <2> QED
    BY <2>1, <2>2, <2>3, AwaitHolds, TimeoutHolds, HandlerHolds, HandlerReturnsHolds,
       DeletedHolds, ReturnHolds, Zenon DEF AwaitNext
<1> QED
  BY AwaitInitHolds, <1>1, PTL DEF AwaitSpec

\* aggregator_oneshot_await and its handler, for any number of calls and any depth:
\* neither a client nor a handler has a pointer to a wait that is freed, and a wait
\* points to the result of its caller only while that call is on the stack.
THEOREM NoWaitDangles == AwaitSpec => []NoDanglingWait
  BY AwaitInvariant, OwnersAreSafe, PTL
-----------------------------------------------------------------------------
ThreadStates == {"none", "starting", "loop", "drain", "ended"}
Loops == [thread : ThreadStates, ready : BOOLEAN, list : Seq(Nat), signal : BOOLEAN,
          stopping : BOOLEAN]
Entries == [id : Nat \ {0}, from : {"main", "worker"}]

ThreadsTypeOK ==
    /\ slot \in [Slots -> Loops]
    /\ main \in {"idle", "creating", "joining"}
    /\ accepted \in [Slots -> Seq(Entries)]
    /\ ran \in [Slots -> Seq(Nat)]
    /\ dropped \in SUBSET Nat

\* Work is numbered without gaps, and only numbers that were given are anywhere.
Numbered ==
    \E n \in Nat :
        /\ Work = 1..n
        /\ \A s \in Slots : \A k \in 1..Len(slot[s].list) : slot[s].list[k] \in 0..n
        /\ \A s \in Slots : \A k \in 1..Len(ran[s]) : ran[s][k] \in 1..n
        /\ dropped \subseteq 0..n

\* What a worker has run and what it has yet to run are in one order.
Ordered ==
    \A s \in Slots :
        /\ \A j, k \in 1..Len(ran[s]) : j < k => ran[s][j] < ran[s][k]
        /\ \A j \in 1..Len(ran[s]), k \in 1..Len(slot[s].list) :
               slot[s].list[k] # Stop => ran[s][j] < slot[s].list[k]
        /\ \A j, k \in 1..Len(slot[s].list) :
               j < k /\ slot[s].list[j] # Stop /\ slot[s].list[k] # Stop =>
                   slot[s].list[j] < slot[s].list[k]

FromMain(i) ==
    \E s \in Slots : \E k \in 1..Len(accepted[s]) :
        accepted[s][k].id = i /\ accepted[s][k].from = "main"

\* Nothing of the main thread is behind a stop, on the list or taken.
Behind ==
    \A s \in Slots :
        /\ \A j, k \in 1..Len(slot[s].list) :
               j < k /\ slot[s].list[j] = Stop => ~ FromMain(slot[s].list[k])
        /\ slot[s].stopping =>
               \A k \in 1..Len(slot[s].list) : ~ FromMain(slot[s].list[k])

\* A stop is there only while the main thread joins.
StopsInJoin ==
    \A s \in Slots :
        /\ slot[s].stopping => main = "joining"
        /\ \A k \in 1..Len(slot[s].list) : slot[s].list[k] = Stop => main = "joining"

\* A thread that is not ready has no work, and one that was ends by a stop.
Phases ==
    \A s \in Slots :
        /\ ~ slot[s].ready => slot[s].list = <<>>
        /\ slot[s].thread = "ended" /\ slot[s].ready => slot[s].stopping
        /\ slot[s].thread \in {"loop", "drain"} => slot[s].ready
        /\ slot[s].thread = "starting" => ~ slot[s].ready

NoneDropped == \A i \in dropped : ~ FromMain(i)

ThreadsInv == ThreadsTypeOK /\ Numbered /\ Ordered /\ Behind /\ StopsInJoin /\ Phases /\ NoneDropped

LEMMA WorkerFact ==
    ASSUME NEW thread \in ThreadStates
    PROVE  /\ Worker(thread) \in Loops
           /\ Worker(thread).thread = thread
           /\ ~ Worker(thread).ready
           /\ ~ Worker(thread).stopping
           /\ Worker(thread).list = <<>>
  BY DEF Worker, Loops

LEMMA StartHolds == ThreadsInit => ThreadsInv
<1> SUFFICES ASSUME ThreadsInit PROVE ThreadsInv
  BY Zenon
<1>1. "none" \in ThreadStates
  BY Zenon DEF ThreadStates
<1>2. \A s \in Slots : /\ slot[s] \in Loops
                       /\ slot[s].thread = "none"
                       /\ ~ slot[s].ready
                       /\ ~ slot[s].stopping
                       /\ slot[s].list = <<>>
                       /\ Len(slot[s].list) = 0
  BY <1>1, WorkerFact DEF ThreadsInit
<1>3. ThreadsTypeOK
  BY <1>2 DEF ThreadsInit, ThreadsTypeOK
<1>4. Numbered
  <2>1. Work = 1..0
    BY DEF Work, ThreadsInit
  <2> QED
    BY <2>1, <1>2 DEF Numbered, ThreadsInit
<1>5. Ordered /\ Behind /\ StopsInJoin
  BY <1>2 DEF Ordered, Behind, StopsInJoin, ThreadsInit
<1>6. Phases
  BY <1>2, Zenon DEF Phases
<1>7. NoneDropped
  BY Zenon DEF NoneDropped, ThreadsInit
<1> QED
  BY <1>3, <1>4, <1>5, <1>6, <1>7, Zenon DEF ThreadsInv

LEMMA SameAccepted ==
    ASSUME accepted' = accepted
    PROVE  Work' = Work /\ (\A i : FromMain(i)' <=> FromMain(i))
  BY DEF Work, FromMain

\* A step that accepts and runs nothing, and empties lists or leaves them alone.
LEMMA ListsStay ==
    ASSUME ThreadsInv, slot' \in [Slots -> Loops], main' \in {"idle", "creating", "joining"},
           UNCHANGED <<accepted, ran>>,
           dropped' \subseteq dropped \cup UNION {Listed(s) : s \in Slots},
           \A s \in Slots : \/ slot'[s].list = <<>>
                            \/ /\ slot'[s].list = slot[s].list
                               /\ slot'[s].stopping = slot[s].stopping,
           StopsInJoin', Phases', NoneDropped'
    PROVE  ThreadsInv'
<1>1. Work' = Work /\ (\A i : FromMain(i)' <=> FromMain(i))
  BY SameAccepted, Zenon
<1>2. PICK n \in Nat :
        /\ Work = 1..n
        /\ \A s \in Slots : \A k \in 1..Len(slot[s].list) : slot[s].list[k] \in 0..n
        /\ \A s \in Slots : \A k \in 1..Len(ran[s]) : ran[s][k] \in 1..n
        /\ dropped \subseteq 0..n
  BY Zenon DEF ThreadsInv, Numbered
<1>3. \A s \in Slots : \A x \in Listed(s) : x \in 0..n
  <2> SUFFICES ASSUME NEW s \in Slots, NEW x \in Listed(s) PROVE x \in 0..n
    BY Zenon
  <2>1. slot[s].list \in Seq(Nat)
    BY Zenon DEF ThreadsInv, ThreadsTypeOK, Loops
  <2>2. DOMAIN slot[s].list = 1..Len(slot[s].list)
    BY <2>1
  <2> QED
    BY <2>2, <1>2, Zenon DEF Listed
<1>4. dropped' \subseteq 0..n
  BY <1>2, <1>3, Zenon
<1>5. \A s \in Slots : \/ Len(slot'[s].list) = 0
                       \/ /\ slot'[s].list = slot[s].list
                          /\ slot'[s].stopping = slot[s].stopping
  OBVIOUS
<1>6. ThreadsTypeOK'
  BY <1>4 DEF ThreadsInv, ThreadsTypeOK
<1>7. Numbered'
  <2>1. \A s \in Slots : \A k \in 1..Len(slot'[s].list) : slot'[s].list[k] \in 0..n
    BY <1>2, <1>5
  <2> QED
    BY <1>1, <1>2, <1>4, <2>1, Zenon DEF Numbered
<1>8. Ordered'
  <2> SUFFICES ASSUME NEW s \in Slots
               PROVE  /\ \A j \in 1..Len(ran[s]), k \in 1..Len(slot'[s].list) :
                             slot'[s].list[k] # Stop => ran[s][j] < slot'[s].list[k]
                      /\ \A j, k \in 1..Len(slot'[s].list) :
                             j < k /\ slot'[s].list[j] # Stop /\ slot'[s].list[k] # Stop =>
                                 slot'[s].list[j] < slot'[s].list[k]
    BY Zenon DEF ThreadsInv, Ordered
  <2> QED
    BY <1>5 DEF ThreadsInv, Ordered
<1>9. Behind'
  BY <1>1, <1>5 DEF ThreadsInv, Behind
<1> QED
  BY <1>6, <1>7, <1>8, <1>9, Zenon DEF ThreadsInv

LEMMA CreateStep == ThreadsInv /\ create_threaded_loop => ThreadsInv'
<1> SUFFICES ASSUME ThreadsInv, create_threaded_loop PROVE ThreadsInv'
  BY Zenon
<1>1. "starting" \in ThreadStates
  BY Zenon DEF ThreadStates
<1>2. \A s \in Slots : /\ slot'[s] \in Loops
                       /\ slot'[s].thread = "starting"
                       /\ ~ slot'[s].ready
                       /\ ~ slot'[s].stopping
                       /\ slot'[s].list = <<>>
  BY <1>1, WorkerFact, Zenon DEF create_threaded_loop
<1>3. slot' \in [Slots -> Loops]
  BY <1>2, Zenon DEF create_threaded_loop
<1>4. StopsInJoin' /\ Phases'
  <2>1. \A s \in Slots : Len(slot'[s].list) = 0
    BY <1>2
  <2> QED
    BY <1>2, <2>1 DEF StopsInJoin, Phases
<1>5. NoneDropped'
  BY SameAccepted, Zenon DEF ThreadsInv, NoneDropped, create_threaded_loop
<1> QED
  BY <1>2, <1>3, <1>4, <1>5, ListsStay, Zenon DEF create_threaded_loop

\* The steps of a thread that leave its list alone.
LEMMA ThreadStep ==
    ASSUME ThreadsInv, NEW s \in Slots, NEW w \in Loops, slot' = [slot EXCEPT ![s] = w],
           w.list = slot[s].list, w.stopping = slot[s].stopping,
           w.thread = "ended" /\ w.ready => w.stopping,
           w.thread \in {"loop", "drain"} => w.ready,
           w.thread = "starting" => ~ w.ready,
           ~ w.ready => ~ slot[s].ready,
           UNCHANGED <<main, accepted, ran, dropped>>
    PROVE  ThreadsInv'
<1>1. slot'[s] = w /\ (\A t \in Slots : t # s => slot'[t] = slot[t])
  BY Zenon DEF ThreadsInv, ThreadsTypeOK
<1>2. slot' \in [Slots -> Loops]
  BY Zenon DEF ThreadsInv, ThreadsTypeOK
<1>3. StopsInJoin'
  BY <1>1 DEF ThreadsInv, StopsInJoin
<1>4. Phases'
  BY <1>1 DEF ThreadsInv, Phases
<1>5. NoneDropped'
  BY SameAccepted, Zenon DEF ThreadsInv, NoneDropped
<1>6. main' \in {"idle", "creating", "joining"}
  BY Zenon DEF ThreadsInv, ThreadsTypeOK
<1> QED
  BY <1>1, <1>2, <1>3, <1>4, <1>5, <1>6, ListsStay, Zenon

LEMMA RunStep == ThreadsInv /\ threaded_loop_run => ThreadsInv'
<1> SUFFICES ASSUME ThreadsInv, threaded_loop_run PROVE ThreadsInv'
  BY Zenon
<1>1. PICK s \in Slots :
        /\ slot[s].thread = "starting"
        /\ \/ slot' = [slot EXCEPT ![s].thread = "loop", ![s].ready = TRUE]
           \/ slot' = [slot EXCEPT ![s].thread = "ended"]
        /\ UNCHANGED <<main, accepted, ran, dropped, pools>>
  BY Zenon DEF threaded_loop_run
<1>2. slot[s] \in Loops /\ ~ slot[s].ready
  BY <1>1, Zenon DEF ThreadsInv, ThreadsTypeOK, Phases
<1>3. CASE slot' = [slot EXCEPT ![s].thread = "loop", ![s].ready = TRUE]
  <2> DEFINE w == [slot[s] EXCEPT !.thread = "loop", !.ready = TRUE]
  <2>1. slot' = [slot EXCEPT ![s] = w]
    BY <1>3, Zenon DEF ThreadsInv, ThreadsTypeOK
  <2>2. /\ w \in Loops
        /\ w.thread = "loop" /\ w.ready
        /\ w.list = slot[s].list /\ w.stopping = slot[s].stopping
    BY <1>2, Zenon DEF Loops, ThreadStates
  <2> HIDE DEF w
  <2> QED
    BY <1>1, <2>1, <2>2, ThreadStep, Zenon
<1>4. CASE slot' = [slot EXCEPT ![s].thread = "ended"]
  <2> DEFINE w == [slot[s] EXCEPT !.thread = "ended"]
  <2>1. slot' = [slot EXCEPT ![s] = w]
    BY <1>4, Zenon DEF ThreadsInv, ThreadsTypeOK
  <2>2. /\ w \in Loops
        /\ w.thread = "ended" /\ ~ w.ready
        /\ w.list = slot[s].list /\ w.stopping = slot[s].stopping
    BY <1>2, Zenon DEF Loops, ThreadStates
  <2> HIDE DEF w
  <2> QED
    BY <1>1, <1>2, <2>1, <2>2, ThreadStep, Zenon
<1> QED
  BY <1>1, <1>3, <1>4, Zenon

LEMMA CallbackStep == ThreadsInv /\ threaded_loop_async_cb => ThreadsInv'
<1> SUFFICES ASSUME ThreadsInv, threaded_loop_async_cb PROVE ThreadsInv'
  BY Zenon
<1>1. PICK s \in Slots :
        /\ slot[s].thread = "loop"
        /\ slot' = [slot EXCEPT ![s].thread = "drain", ![s].signal = FALSE]
        /\ UNCHANGED <<main, accepted, ran, dropped, pools>>
  BY Zenon DEF threaded_loop_async_cb
<1>2. slot[s] \in Loops /\ slot[s].ready
  BY <1>1, Zenon DEF ThreadsInv, ThreadsTypeOK, Phases
<1> DEFINE w == [slot[s] EXCEPT !.thread = "drain", !.signal = FALSE]
<1>3. slot' = [slot EXCEPT ![s] = w]
  BY <1>1, Zenon DEF ThreadsInv, ThreadsTypeOK
<1>4. /\ w \in Loops
      /\ w.thread = "drain" /\ w.ready
      /\ w.list = slot[s].list /\ w.stopping = slot[s].stopping
  BY <1>2, Zenon DEF Loops, ThreadStates
<1> HIDE DEF w
<1> QED
  BY <1>1, <1>3, <1>4, ThreadStep, Zenon

LEMMA EndStep == ThreadsInv /\ LoopEnds => ThreadsInv'
<1> SUFFICES ASSUME ThreadsInv, LoopEnds PROVE ThreadsInv'
  BY Zenon
<1>1. PICK s \in Slots :
        /\ slot[s].thread = "loop" /\ slot[s].stopping
        /\ slot' = [slot EXCEPT ![s].thread = "ended"]
        /\ UNCHANGED <<main, accepted, ran, dropped, pools>>
  BY Zenon DEF LoopEnds
<1>2. slot[s] \in Loops /\ slot[s].ready
  BY <1>1, Zenon DEF ThreadsInv, ThreadsTypeOK, Phases
<1> DEFINE w == [slot[s] EXCEPT !.thread = "ended"]
<1>3. slot' = [slot EXCEPT ![s] = w]
  BY <1>1, Zenon DEF ThreadsInv, ThreadsTypeOK
<1>4. /\ w \in Loops
      /\ w.thread = "ended" /\ w.ready
      /\ w.list = slot[s].list /\ w.stopping = slot[s].stopping
  BY <1>2, Zenon DEF Loops, ThreadStates
<1> HIDE DEF w
<1> QED
  BY <1>1, <1>3, <1>4, ThreadStep, Zenon

\* No stop is there while the main thread creates a pool.
LEMMA ReturnStep == ThreadsInv /\ CreateReturns => ThreadsInv'
<1> SUFFICES ASSUME ThreadsInv, CreateReturns PROVE ThreadsInv'
  BY Zenon
<1>1. slot' \in [Slots -> Loops] /\ main' \in {"idle", "creating", "joining"}
  BY Zenon DEF ThreadsInv, ThreadsTypeOK, CreateReturns
<1>2. StopsInJoin' /\ Phases'
  BY Zenon DEF ThreadsInv, StopsInJoin, Phases, CreateReturns
<1>3. NoneDropped'
  BY SameAccepted, Zenon DEF ThreadsInv, NoneDropped, CreateReturns
<1> QED
  BY <1>1, <1>2, <1>3, ListsStay, Zenon DEF CreateReturns

LEMMA JoinStep == ThreadsInv /\ Join => ThreadsInv'
<1> SUFFICES ASSUME ThreadsInv, Join PROVE ThreadsInv'
  BY Zenon
<1>1. "none" \in ThreadStates
  BY Zenon DEF ThreadStates
<1>2. \A s \in Slots : /\ slot'[s] \in Loops
                       /\ slot'[s].thread = "none"
                       /\ ~ slot'[s].ready
                       /\ ~ slot'[s].stopping
                       /\ slot'[s].list = <<>>
                       /\ Len(slot'[s].list) = 0
  BY <1>1, WorkerFact DEF Join
<1>3. slot' \in [Slots -> Loops]
  BY <1>2, Zenon DEF Join
<1>4. StopsInJoin' /\ Phases'
  BY <1>2 DEF StopsInJoin, Phases
<1>5. \A s \in Slots : \A x \in Listed(s) : ~ FromMain(x)
  <2> SUFFICES ASSUME NEW s \in Slots, NEW x \in Listed(s) PROVE ~ FromMain(x)
    BY Zenon
  <2>1. slot[s].list \in Seq(Nat) /\ slot[s].thread = "ended"
    BY Zenon DEF ThreadsInv, ThreadsTypeOK, Loops, Join, Joined
  <2>2. PICK k \in 1..Len(slot[s].list) : x = slot[s].list[k]
    BY <2>1 DEF Listed
  <2>3. slot[s].list # <<>>
    BY <2>1, <2>2
  <2>4. slot[s].stopping
    BY <2>1, <2>3, Zenon DEF ThreadsInv, Phases
  <2> QED
    BY <2>2, <2>4, Zenon DEF ThreadsInv, Behind
<1>6. NoneDropped'
  BY <1>5, SameAccepted, Zenon DEF ThreadsInv, NoneDropped, Join
<1> QED
  BY <1>2, <1>3, <1>4, <1>6, ListsStay, Zenon DEF Join

\* Appending to a list, of a worker or of the accepted work.
LEMMA EnqueueFact ==
    ASSUME NEW w \in Loops, NEW x \in Nat
    PROVE  LET v == threaded_loop_slot_enqueue(w, x)
           IN  /\ v \in Loops
               /\ v.thread = w.thread /\ v.ready = w.ready /\ v.stopping = w.stopping
               /\ Len(v.list) = Len(w.list) + 1
               /\ Len(w.list) \in Nat
               /\ \A k \in 1..Len(w.list) : v.list[k] = w.list[k]
               /\ v.list[Len(w.list) + 1] = x
<1>1. w.list \in Seq(Nat)
  BY Zenon DEF Loops
<1>2. Append(w.list, x) \in Seq(Nat)
  BY <1>1
<1>3. /\ Len(Append(w.list, x)) = Len(w.list) + 1
      /\ \A k \in 1..Len(w.list) : Append(w.list, x)[k] = w.list[k]
      /\ Append(w.list, x)[Len(w.list) + 1] = x
  BY <1>1
<1> DEFINE l == Append(w.list, x)
<1> HIDE DEF l
<1>4. l \in Seq(Nat) => [w EXCEPT !.list = l, !.signal = TRUE] \in Loops
  BY Zenon DEF Loops
<1>5. /\ [w EXCEPT !.list = l, !.signal = TRUE].thread = w.thread
      /\ [w EXCEPT !.list = l, !.signal = TRUE].ready = w.ready
      /\ [w EXCEPT !.list = l, !.signal = TRUE].stopping = w.stopping
      /\ [w EXCEPT !.list = l, !.signal = TRUE].list = l
  BY Zenon DEF Loops
<1>6. threaded_loop_slot_enqueue(w, x) = [w EXCEPT !.list = l, !.signal = TRUE]
  BY Zenon DEF threaded_loop_slot_enqueue, l
<1>7. Len(w.list) \in Nat
  BY <1>1
<1> QED
  BY <1>2, <1>3, <1>4, <1>5, <1>6, <1>7, Zenon DEF l

\* A number that is new is given.
LEMMA AcceptedFact ==
    ASSUME ThreadsInv, NEW s \in Slots, NEW from \in {"main", "worker"}, NEW n \in Nat,
           Work = 1..n,
           accepted' = [accepted EXCEPT ![s] = Append(@, [id |-> n + 1, from |-> from])]
    PROVE  /\ accepted' \in [Slots -> Seq(Entries)]
           /\ Work' = 1..(n + 1)
           /\ \A i : FromMain(i)' => FromMain(i) \/ (i = n + 1 /\ from = "main")
<1> DEFINE e == [id |-> n + 1, from |-> from]
<1>1. e \in Entries /\ e.id = n + 1 /\ e.from = from
  BY DEF Entries
<1> HIDE DEF e
<1>2. accepted' = [accepted EXCEPT ![s] = Append(accepted[s], e)]
  BY Zenon DEF e
<1>3. accepted \in [Slots -> Seq(Entries)]
  BY Zenon DEF ThreadsInv, ThreadsTypeOK
<1>4. accepted[s] \in Seq(Entries)
  BY <1>3, Zenon
<1>5. /\ Append(accepted[s], e) \in Seq(Entries)
      /\ Len(Append(accepted[s], e)) = Len(accepted[s]) + 1
      /\ \A k \in 1..Len(accepted[s]) : Append(accepted[s], e)[k] = accepted[s][k]
      /\ Append(accepted[s], e)[Len(accepted[s]) + 1] = e
  BY <1>1, <1>4
<1>6. /\ accepted'[s] = Append(accepted[s], e)
      /\ \A t \in Slots : t # s => accepted'[t] = accepted[t]
  BY <1>2, <1>3, Zenon
<1>7. accepted' \in [Slots -> Seq(Entries)]
  BY <1>2, <1>3, <1>5, Zenon
<1>8. \A t \in Slots : \A x :
        (\E k \in DOMAIN accepted'[t] : accepted'[t][k] = x) <=>
            (\E k \in DOMAIN accepted[t] : accepted[t][k] = x) \/ (t = s /\ x = e)
  <2> SUFFICES ASSUME NEW t \in Slots, NEW x
               PROVE  (\E k \in DOMAIN accepted'[t] : accepted'[t][k] = x) <=>
                          (\E k \in DOMAIN accepted[t] : accepted[t][k] = x) \/ (t = s /\ x = e)
    BY Zenon
  <2>1. CASE t # s
    BY <2>1, <1>6, Zenon
  <2>2. CASE t = s
    <3>1. /\ DOMAIN accepted'[s] = 1..(Len(accepted[s]) + 1)
          /\ DOMAIN accepted[s] = 1..Len(accepted[s])
      BY <1>4, <1>5, <1>6
    <3>2. Len(accepted[s]) \in Nat
      BY <1>4
    <3> QED
      BY <2>2, <3>1, <3>2, <1>5, <1>6
  <2> QED
    BY <2>1, <2>2, Zenon
<1>9. Work' = 1..(n + 1)
  <2>1. \A i : i \in Work' <=>
          \E t \in Slots : \E k \in DOMAIN accepted'[t] : accepted'[t][k].id = i
    BY DEF Work
  <2>2. \A i : i \in Work <=>
          \E t \in Slots : \E k \in DOMAIN accepted[t] : accepted[t][k].id = i
    BY DEF Work
  <2>3. \A i : i \in Work' <=> i \in Work \/ i = n + 1
    BY <2>1, <2>2, <1>1, <1>8, SMTT(30)
  <2>4. \A i : i \in 1..n \/ i = n + 1 <=> i \in 1..(n + 1)
    OBVIOUS
  <2>5. \A i : i \in Work' <=> i \in 1..(n + 1)
    BY <2>3, <2>4, Zenon
  <2> QED
    BY <2>5, Zenon
<1>10. \A i : FromMain(i)' => FromMain(i) \/ (i = n + 1 /\ from = "main")
  <2> SUFFICES ASSUME NEW i, FromMain(i)' PROVE FromMain(i) \/ (i = n + 1 /\ from = "main")
    BY Zenon
  <2>1. PICK t \in Slots : \E k \in 1..Len(accepted'[t]) :
          accepted'[t][k].id = i /\ accepted'[t][k].from = "main"
    BY Zenon DEF FromMain
  <2>2. PICK k \in DOMAIN accepted'[t] : accepted'[t][k].id = i /\ accepted'[t][k].from = "main"
    BY <2>1, <1>7
  <2>3. (\E j \in DOMAIN accepted[t] : accepted[t][j] = accepted'[t][k]) \/ accepted'[t][k] = e
    BY <1>8
  <2>4. DOMAIN accepted[t] = 1..Len(accepted[t])
    BY <1>3
  <2> QED
    BY <2>2, <2>3, <2>4, <1>1, SMTT(30) DEF FromMain
<1> QED
  BY <1>7, <1>9, <1>10, Zenon

LEMMA AcceptStep ==
    ASSUME ThreadsInv, NEW s \in Slots, NEW from \in {"main", "worker"}, Accept(s, from),
           slot[s].ready, from = "main" => main = "idle"
    PROVE  ThreadsInv'
<1>1. PICK n \in Nat :
        /\ Work = 1..n
        /\ \A t \in Slots : \A k \in 1..Len(slot[t].list) : slot[t].list[k] \in 0..n
        /\ \A t \in Slots : \A k \in 1..Len(ran[t]) : ran[t][k] \in 1..n
        /\ dropped \subseteq 0..n
  BY Zenon DEF ThreadsInv, Numbered
<1>2. PICK work \in 1..MaxWork :
        /\ Work = 1..(work - 1)
        /\ slot' = [slot EXCEPT ![s] = threaded_loop_slot_enqueue(@, work)]
        /\ accepted' = [accepted EXCEPT ![s] = Append(@, [id |-> work, from |-> from])]
        /\ UNCHANGED <<main, ran, dropped, pools>>
  BY Zenon DEF Accept
<1>3. /\ slot' = [slot EXCEPT ![s] = threaded_loop_slot_enqueue(slot[s], n + 1)]
      /\ accepted' = [accepted EXCEPT ![s] = Append(@, [id |-> n + 1, from |-> from])]
      /\ UNCHANGED <<main, ran, dropped, pools>>
  <2>1. work \in Nat /\ work > 0
    BY ThreadedLoopAssumption
  <2>2. \A i \in Nat : i \in 1..n <=> i \in 1..(work - 1)
    BY <1>1, <1>2, Zenon
  <2>3. work - 1 = n
    BY <1>1, <2>1, <2>2
  <2>4. work = n + 1
    BY <2>1, <2>3
  <2> QED
    BY <1>2, <2>4, Zenon
<1>4. /\ accepted' \in [Slots -> Seq(Entries)]
      /\ Work' = 1..(n + 1)
      /\ \A i : FromMain(i)' => FromMain(i) \/ (i = n + 1 /\ from = "main")
  BY <1>1, <1>3, AcceptedFact, Zenon
<1> DEFINE v == threaded_loop_slot_enqueue(slot[s], n + 1)
           m == Len(slot[s].list)
<1>5. slot[s] \in Loops /\ n + 1 \in Nat
  BY DEF ThreadsInv, ThreadsTypeOK
<1>6. /\ v \in Loops
      /\ v.thread = slot[s].thread /\ v.ready = slot[s].ready
      /\ v.stopping = slot[s].stopping
      /\ Len(v.list) = m + 1
      /\ m \in Nat
      /\ \A k \in 1..m : v.list[k] = slot[s].list[k]
      /\ v.list[m + 1] = n + 1
  BY <1>5, EnqueueFact, ZenonT(30)
<1>7. slot' \in [Slots -> Loops] /\ slot'[s] = v /\ (\A t \in Slots : t # s => slot'[t] = slot[t])
  BY <1>3, <1>6, Zenon DEF ThreadsInv, ThreadsTypeOK
<1> HIDE DEF v, m
<1>8. \A k \in 1..Len(v.list) : k \in 1..m \/ k = m + 1
  BY <1>6
<1>9. ThreadsTypeOK'
  BY <1>3, <1>4, <1>7, Zenon DEF ThreadsInv, ThreadsTypeOK
<1>10. Numbered'
  <2>1. \A t \in Slots : \A k \in 1..Len(slot'[t].list) : slot'[t].list[k] \in 0..(n + 1)
    <3> SUFFICES ASSUME NEW t \in Slots, NEW k \in 1..Len(slot'[t].list)
                 PROVE  slot'[t].list[k] \in 0..(n + 1)
      BY Zenon
    <3>1. CASE t # s
      <4>1. slot[t].list[k] \in 0..n
        BY <3>1, <1>1, <1>7, Zenon
      <4> QED
        BY <3>1, <4>1, <1>7
    <3>2. CASE t = s /\ k \in 1..m
      <4>1. slot[s].list[k] \in 0..n
        BY <3>2, <1>1, Zenon DEF m
      <4>2. slot'[t].list[k] = slot[s].list[k]
        BY <3>2, <1>6, <1>7, Zenon
      <4> QED
        BY <4>1, <4>2
    <3>3. CASE t = s /\ k = m + 1
      BY <3>3, <1>6, <1>7
    <3> QED
      BY <3>1, <3>2, <3>3, <1>7, <1>8, Zenon
  <2>2. \A t \in Slots : \A k \in 1..Len(ran[t]) : ran[t][k] \in 1..(n + 1)
    BY <1>1
  <2>3. dropped \subseteq 0..(n + 1)
    BY <1>1
  <2> QED
    BY <1>3, <1>4, <1>5, <2>1, <2>2, <2>3, Zenon DEF Numbered
<1>11. Ordered'
  <2> SUFFICES ASSUME NEW t \in Slots
               PROVE  /\ \A j, k \in 1..Len(ran[t]) : j < k => ran[t][j] < ran[t][k]
                      /\ \A j \in 1..Len(ran[t]), k \in 1..Len(slot'[t].list) :
                             slot'[t].list[k] # Stop => ran[t][j] < slot'[t].list[k]
                      /\ \A j, k \in 1..Len(slot'[t].list) :
                             j < k /\ slot'[t].list[j] # Stop /\ slot'[t].list[k] # Stop =>
                                 slot'[t].list[j] < slot'[t].list[k]
    BY <1>3, Zenon DEF Ordered
  <2>1. CASE t # s
    BY <2>1, <1>7, Zenon DEF ThreadsInv, Ordered
  <2>2. CASE t = s
    <3>1. \A j, k \in 1..Len(ran[s]) : j < k => ran[s][j] < ran[s][k]
      BY Zenon DEF ThreadsInv, Ordered
    <3>2. \A j \in 1..Len(ran[s]), k \in 1..Len(v.list) : v.list[k] # Stop => ran[s][j] < v.list[k]
      <4> SUFFICES ASSUME NEW j \in 1..Len(ran[s]), NEW k \in 1..Len(v.list), v.list[k] # Stop
                   PROVE  ran[s][j] < v.list[k]
        BY Zenon
      <4>1. CASE k \in 1..m
        BY <4>1, <1>6, Zenon DEF ThreadsInv, Ordered, m
      <4>2. CASE k = m + 1
        <5>1. ran[s][j] \in 1..n
          BY <1>1, Zenon
        <5> QED
          BY <4>2, <5>1, <1>6
      <4> QED
        BY <4>1, <4>2, <1>8, Zenon
    <3>3. \A j, k \in 1..Len(v.list) :
            j < k /\ v.list[j] # Stop /\ v.list[k] # Stop => v.list[j] < v.list[k]
      <4> SUFFICES ASSUME NEW j \in 1..Len(v.list), NEW k \in 1..Len(v.list), j < k,
                          v.list[j] # Stop, v.list[k] # Stop
                   PROVE  v.list[j] < v.list[k]
        BY Zenon
      <4>1. j \in 1..m
        BY <1>6
      <4>2. CASE k \in 1..m
        BY <4>1, <4>2, <1>6, Zenon DEF ThreadsInv, Ordered, m
      <4>3. CASE k = m + 1
        <5>1. slot[s].list[j] \in 0..n
          BY <4>1, <1>1, Zenon DEF m
        <5>2. v.list[j] = slot[s].list[j] /\ v.list[k] = n + 1
          BY <4>1, <4>3, <1>6, Zenon
        <5> QED
          BY <5>1, <5>2
      <4> QED
        BY <1>8, <4>2, <4>3, Zenon
    <3> QED
      BY <2>2, <1>7, <3>1, <3>2, <3>3, Zenon
  <2> QED
    BY <2>1, <2>2, Zenon
<1>12. \A i : FromMain(i) => i \in 1..n
  <2> SUFFICES ASSUME NEW i, FromMain(i) PROVE i \in Work
    BY <1>1, Zenon
  <2>1. \A t \in Slots : DOMAIN accepted[t] = 1..Len(accepted[t])
    BY DEF ThreadsInv, ThreadsTypeOK
  <2> QED
    BY <2>1 DEF FromMain, Work
<1>13. \A i \in 0..n : FromMain(i)' => FromMain(i)
  BY <1>4
<1>14. FromMain(n + 1)' => main = "idle"
  BY <1>4, <1>12
<1>15. Behind'
  <2> SUFFICES ASSUME NEW t \in Slots,
                      NEW k \in 1..Len(slot'[t].list),
                      \/ slot'[t].stopping
                      \/ \E j \in 1..Len(slot'[t].list) : j < k /\ slot'[t].list[j] = Stop,
                      NEW i, i = slot'[t].list[k], FromMain(i)'
               PROVE  FALSE
    BY Zenon DEF Behind
  <2>1. CASE t # s
    <3>1. i \in 0..n
      BY <2>1, <1>1, <1>7, Zenon
    <3> QED
      BY <2>1, <3>1, <1>7, <1>13 DEF ThreadsInv, Behind
  <2>2. CASE t = s /\ k \in 1..m
    <3>1. i = slot[s].list[k] /\ i \in 0..n
      BY <2>2, <1>1, <1>6, <1>7, Zenon DEF m
    <3>2. \/ slot[s].stopping
          \/ \E j \in 1..m : j < k /\ slot[s].list[j] = Stop
      BY <2>2, <1>6, <1>7, SMTT(30)
    <3> QED
      BY <2>2, <3>1, <3>2, <1>13, Zenon DEF ThreadsInv, Behind, m
  <2>3. CASE t = s /\ k = m + 1
    <3>1. main = "idle"
      BY <2>3, <1>6, <1>7, <1>14, Zenon
    <3>2. \/ slot[s].stopping
          \/ \E j \in 1..m : j < k /\ slot[s].list[j] = Stop
      BY <2>3, <1>6, <1>7
    <3> QED
      BY <3>1, <3>2, Zenon DEF ThreadsInv, StopsInJoin, m
  <2> QED
    BY <2>1, <2>2, <2>3, <1>7, <1>8, Zenon
<1>16. StopsInJoin'
  <2> SUFFICES ASSUME NEW t \in Slots
               PROVE  /\ slot'[t].stopping => main = "joining"
                      /\ \A k \in 1..Len(slot'[t].list) :
                             slot'[t].list[k] = Stop => main = "joining"
    BY <1>3, Zenon DEF StopsInJoin
  <2>1. CASE t # s
    BY <2>1, <1>7, Zenon DEF ThreadsInv, StopsInJoin
  <2>2. CASE t = s
    <3>1. v.stopping => main = "joining"
      BY <1>6, Zenon DEF ThreadsInv, StopsInJoin
    <3>2. n + 1 # Stop
      BY DEF Stop
    <3>3. \A k \in 1..m : slot[s].list[k] = Stop => main = "joining"
      BY Zenon DEF ThreadsInv, StopsInJoin, m
    <3>4. \A k \in 1..Len(v.list) : v.list[k] = Stop => main = "joining"
      BY <3>2, <3>3, <1>6, <1>8, Zenon
    <3> QED
      BY <2>2, <3>1, <3>4, <1>7, Zenon
  <2> QED
    BY <2>1, <2>2, Zenon
<1>17. Phases'
  BY <1>6, <1>7, Zenon DEF ThreadsInv, Phases
<1>18. NoneDropped'
  BY <1>1, <1>3, <1>13, Zenon DEF ThreadsInv, NoneDropped
<1> QED
  BY <1>9, <1>10, <1>11, <1>15, <1>16, <1>17, <1>18, Zenon DEF ThreadsInv

\* The head of a list is taken, and run unless it is the stop.
Taken(s, w) ==
    /\ slot[s].ready /\ slot[s].list # <<>>
    /\ slot' = [slot EXCEPT ![s] = w]
    /\ w.list = Tail(slot[s].list) /\ w.thread = "drain" /\ w.ready
    /\ w.stopping => main = "joining" /\ (slot[s].stopping \/ Head(slot[s].list) = Stop)
    /\ \/ Head(slot[s].list) = Stop /\ ran' = ran
       \/ /\ Head(slot[s].list) # Stop
          /\ ran' = [ran EXCEPT ![s] = Append(@, Head(slot[s].list))]
    /\ UNCHANGED <<main, accepted, dropped>>

LEMMA TakeStep ==
    ASSUME ThreadsInv, NEW s \in Slots, NEW w \in Loops, Taken(s, w)
    PROVE  ThreadsInv'
<1> DEFINE l == slot[s].list
           h == Head(slot[s].list)
<1>1. slot[s] \in Loops /\ slot' \in [Slots -> Loops]
  BY Zenon DEF ThreadsInv, ThreadsTypeOK, Taken
<1>2. l \in Seq(Nat)
  BY <1>1, Zenon DEF Loops
<1>3. /\ h \in Nat /\ h = l[1] /\ Len(l) \in Nat /\ Len(l) > 0
      /\ Len(w.list) = Len(l) - 1
      /\ \A k \in 1..Len(w.list) : w.list[k] = l[k + 1] /\ k + 1 \in 1..Len(l)
  <2>1. l # <<>> /\ w.list = Tail(l)
    BY Zenon DEF Taken
  <2> QED
    BY <1>2, <2>1
<1>4. slot'[s] = w /\ (\A t \in Slots : t # s => slot'[t] = slot[t])
  BY Zenon DEF ThreadsInv, ThreadsTypeOK, Taken
<1>5. Work' = Work /\ (\A i : FromMain(i)' <=> FromMain(i))
  BY SameAccepted, Zenon DEF Taken
<1>6. PICK n \in Nat :
        /\ Work = 1..n
        /\ \A t \in Slots : \A k \in 1..Len(slot[t].list) : slot[t].list[k] \in 0..n
        /\ \A t \in Slots : \A k \in 1..Len(ran[t]) : ran[t][k] \in 1..n
        /\ dropped \subseteq 0..n
  BY Zenon DEF ThreadsInv, Numbered
<1>7. 1 \in 1..Len(l) /\ h \in 0..n
  BY <1>3, <1>6
<1> HIDE DEF l, h
<1>8. \A t \in Slots : t # s => ran'[t] = ran[t]
  BY Zenon DEF ThreadsInv, ThreadsTypeOK, Taken
<1>9. \/ h = Stop /\ ran'[s] = ran[s]
      \/ /\ h # Stop
         /\ ran'[s] \in Seq(Nat)
         /\ Len(ran'[s]) = Len(ran[s]) + 1
         /\ \A k \in 1..Len(ran[s]) : ran'[s][k] = ran[s][k]
         /\ ran'[s][Len(ran[s]) + 1] = h
  <2>1. ran \in [Slots -> Seq(Nat)] /\ ran[s] \in Seq(Nat)
    BY Zenon DEF ThreadsInv, ThreadsTypeOK
  <2>2. /\ Append(ran[s], h) \in Seq(Nat)
        /\ Len(Append(ran[s], h)) = Len(ran[s]) + 1
        /\ \A k \in 1..Len(ran[s]) : Append(ran[s], h)[k] = ran[s][k]
        /\ Append(ran[s], h)[Len(ran[s]) + 1] = h
    BY <2>1, <1>3
  <2>3. CASE h = Stop /\ ran' = ran
    BY <2>3, Zenon
  <2>4. CASE h # Stop /\ ran' = [ran EXCEPT ![s] = Append(@, h)]
    <3>1. ran'[s] = Append(ran[s], h)
      BY <2>1, <2>4, Zenon
    <3> QED
      BY <2>2, <2>4, <3>1, Zenon
  <2> QED
    BY <2>3, <2>4, Zenon DEF h, Taken
<1>10. Len(ran[s]) \in Nat
  BY DEF ThreadsInv, ThreadsTypeOK
<1>11. ThreadsTypeOK'
  <2>1. ran' \in [Slots -> Seq(Nat)]
    <3>1. DOMAIN ran' = Slots /\ ran' = [t \in Slots |-> ran'[t]]
      BY Zenon DEF ThreadsInv, ThreadsTypeOK, Taken
    <3>2. \A t \in Slots : ran'[t] \in Seq(Nat)
      BY <1>8, <1>9, Zenon DEF ThreadsInv, ThreadsTypeOK
    <3> QED
      BY <3>1, <3>2, Zenon
  <2> QED
    BY <1>1, <2>1, Zenon DEF ThreadsInv, ThreadsTypeOK, Taken
<1>12. Numbered'
  <2>1. \A t \in Slots : \A k \in 1..Len(slot'[t].list) : slot'[t].list[k] \in 0..n
    <3>1. \A k \in 1..Len(l) : l[k] \in 0..n
      BY <1>6, Zenon DEF l
    <3>2. \A k \in 1..Len(w.list) : w.list[k] \in 0..n
      BY <3>1, <1>3, Zenon
    <3> QED
      BY <3>2, <1>4, <1>6, Zenon
  <2>2. \A t \in Slots : \A k \in 1..Len(ran'[t]) : ran'[t][k] \in 1..n
    <3> SUFFICES ASSUME NEW t \in Slots, NEW k \in 1..Len(ran'[t]) PROVE ran'[t][k] \in 1..n
      BY Zenon
    <3>1. CASE t # s \/ k \in 1..Len(ran[s])
      BY <3>1, <1>6, <1>8, <1>9, Zenon
    <3>2. CASE t = s /\ k \notin 1..Len(ran[s])
      <4>1. h # Stop /\ k = Len(ran[s]) + 1 /\ ran'[s][k] = h
        BY <3>2, <1>9, <1>10
      <4> QED
        BY <3>2, <4>1, <1>7 DEF Stop
    <3> QED
      BY <3>1, <3>2, Zenon
  <2> QED
    BY <1>5, <1>6, <2>1, <2>2, Zenon DEF Numbered, Taken
<1>13. Behind'
  <2> SUFFICES ASSUME NEW t \in Slots,
                      NEW k \in 1..Len(slot'[t].list),
                      \/ slot'[t].stopping
                      \/ \E j \in 1..Len(slot'[t].list) : j < k /\ slot'[t].list[j] = Stop,
                      NEW i, i = slot'[t].list[k], FromMain(i)
               PROVE  FALSE
    BY <1>5, Zenon DEF Behind
  <2>1. CASE t # s
    BY <2>1, <1>4, Zenon DEF ThreadsInv, Behind
  <2>2. CASE t = s
    <3>0. k \in 1..Len(w.list) /\ i = w.list[k]
      BY <2>2, <1>4, Zenon
    <3>1. i = l[k + 1] /\ k + 1 \in 1..Len(l) /\ 1 < k + 1
      BY <3>0, <1>3
    <3>2. slot[s].stopping \/ \E j \in 1..Len(l) : j < k + 1 /\ l[j] = Stop
      <4>1. CASE slot'[s].stopping
        <5>1. slot[s].stopping \/ h = Stop
          BY <4>1, <1>4, Zenon DEF h, Taken
        <5> QED
          BY <5>1, <3>1, <1>3, <1>7, Zenon
      <4>2. CASE \E j \in 1..Len(w.list) : j < k /\ w.list[j] = Stop
        <5>1. PICK j \in 1..Len(w.list) : j < k /\ w.list[j] = Stop
          BY <4>2, Zenon
        <5>2. l[j + 1] = Stop /\ j + 1 \in 1..Len(l) /\ j + 1 < k + 1
          BY <5>1, <3>0, <1>3
        <5> QED
          BY <5>2, Zenon
      <4>3. \/ slot'[s].stopping
            \/ \E j \in 1..Len(w.list) : j < k /\ w.list[j] = Stop
        BY <2>2, <1>4, Zenon
      <4> QED
        BY <4>1, <4>2, <4>3, Zenon
    <3> QED
      BY <3>1, <3>2, Zenon DEF ThreadsInv, Behind, l
  <2> QED
    BY <2>1, <2>2, Zenon
<1>14. StopsInJoin' /\ Phases'
  <2>1. \A k \in 1..Len(l) : l[k] = Stop => main = "joining"
    BY Zenon DEF ThreadsInv, StopsInJoin, l
  <2>2. \A k \in 1..Len(w.list) : w.list[k] = Stop => main = "joining"
    BY <2>1, <1>3, Zenon
  <2>3. StopsInJoin'
    <3> SUFFICES ASSUME NEW t \in Slots
                 PROVE  /\ slot'[t].stopping => main = "joining"
                        /\ \A k \in 1..Len(slot'[t].list) :
                               slot'[t].list[k] = Stop => main = "joining"
      BY Zenon DEF StopsInJoin, Taken
    <3>1. CASE t # s
      BY <3>1, <1>4, Zenon DEF ThreadsInv, StopsInJoin
    <3>2. CASE t = s
      <4>1. w.stopping => main = "joining"
        BY Zenon DEF Taken
      <4> QED
        BY <3>2, <4>1, <2>2, <1>4, Zenon
    <3> QED
      BY <3>1, <3>2, Zenon
  <2>4. Phases'
    BY <1>4, Zenon DEF ThreadsInv, Phases, Taken
  <2> QED
    BY <2>3, <2>4, Zenon
<1>15. NoneDropped'
  BY <1>5, Zenon DEF ThreadsInv, NoneDropped, Taken
<1>16. \A k \in 1..Len(ran'[s]) :
         \/ k \in 1..Len(ran[s]) /\ ran'[s][k] = ran[s][k]
         \/ k = Len(ran[s]) + 1 /\ h # Stop /\ ran'[s][k] = h
  <2> SUFFICES ASSUME NEW k \in 1..Len(ran'[s])
               PROVE  \/ k \in 1..Len(ran[s]) /\ ran'[s][k] = ran[s][k]
                      \/ k = Len(ran[s]) + 1 /\ h # Stop /\ ran'[s][k] = h
    BY Zenon
  <2>1. CASE h = Stop /\ ran'[s] = ran[s]
    BY <2>1, Zenon
  <2>2. CASE h # Stop
    <3>1. k \in 1..Len(ran[s]) \/ k = Len(ran[s]) + 1
      BY <2>2, <1>9, <1>10
    <3> QED
      BY <2>2, <3>1, <1>9, Zenon
  <2> QED
    BY <2>1, <2>2, <1>9, Zenon
<1>17. \A k \in 1..Len(w.list) : w.list[k] # Stop /\ h # Stop => h < w.list[k]
  <2> SUFFICES ASSUME NEW k \in 1..Len(w.list), w.list[k] # Stop, h # Stop PROVE h < w.list[k]
    BY Zenon
  <2>1. w.list[k] = l[k + 1] /\ k + 1 \in 1..Len(l) /\ 1 < k + 1
    BY <1>3
  <2>2. l[1] = h /\ 1 \in 1..Len(l)
    BY <1>3, <1>7, Zenon
  <2> QED
    BY <2>1, <2>2, Zenon DEF ThreadsInv, Ordered, l
<1>18. \A j \in 1..Len(ran[s]) : h # Stop => ran[s][j] < h
  BY <1>3, <1>7, Zenon DEF ThreadsInv, Ordered, l
<1>19. Ordered'
  <2> SUFFICES ASSUME NEW t \in Slots
               PROVE  /\ \A j, k \in 1..Len(ran'[t]) : j < k => ran'[t][j] < ran'[t][k]
                      /\ \A j \in 1..Len(ran'[t]), k \in 1..Len(slot'[t].list) :
                             slot'[t].list[k] # Stop => ran'[t][j] < slot'[t].list[k]
                      /\ \A j, k \in 1..Len(slot'[t].list) :
                             j < k /\ slot'[t].list[j] # Stop /\ slot'[t].list[k] # Stop =>
                                 slot'[t].list[j] < slot'[t].list[k]
    BY Zenon DEF Ordered
  <2>1. CASE t # s
    BY <2>1, <1>4, <1>8, Zenon DEF ThreadsInv, Ordered
  <2>2. CASE t = s
    <3>1. \A j, k \in 1..Len(ran'[s]) : j < k => ran'[s][j] < ran'[s][k]
      <4> SUFFICES ASSUME NEW j \in 1..Len(ran'[s]), NEW k \in 1..Len(ran'[s]), j < k
                   PROVE  ran'[s][j] < ran'[s][k]
        BY Zenon
      <4>1. j \in 1..Len(ran[s]) /\ ran'[s][j] = ran[s][j]
        BY <1>10, <1>16, SMTT(20)
      <4>2. CASE k \in 1..Len(ran[s]) /\ ran'[s][k] = ran[s][k]
        BY <4>1, <4>2, Zenon DEF ThreadsInv, Ordered
      <4>3. CASE h # Stop /\ ran'[s][k] = h
        BY <4>1, <4>3, <1>18, Zenon
      <4> QED
        BY <4>2, <4>3, <1>16, Zenon
    <3>2. \A j \in 1..Len(ran'[s]), k \in 1..Len(w.list) :
            w.list[k] # Stop => ran'[s][j] < w.list[k]
      <4> SUFFICES ASSUME NEW j \in 1..Len(ran'[s]), NEW k \in 1..Len(w.list), w.list[k] # Stop
                   PROVE  ran'[s][j] < w.list[k]
        BY Zenon
      <4>1. CASE j \in 1..Len(ran[s]) /\ ran'[s][j] = ran[s][j]
        <5>1. w.list[k] = l[k + 1] /\ k + 1 \in 1..Len(l)
          BY <1>3, Zenon
        <5> QED
          BY <4>1, <5>1, Zenon DEF ThreadsInv, Ordered, l
      <4>2. CASE h # Stop /\ ran'[s][j] = h
        BY <4>2, <1>17, Zenon
      <4> QED
        BY <4>1, <4>2, <1>16, Zenon
    <3>3. \A j, k \in 1..Len(w.list) :
            j < k /\ w.list[j] # Stop /\ w.list[k] # Stop => w.list[j] < w.list[k]
      <4> SUFFICES ASSUME NEW j \in 1..Len(w.list), NEW k \in 1..Len(w.list), j < k,
                          w.list[j] # Stop, w.list[k] # Stop
                   PROVE  w.list[j] < w.list[k]
        BY Zenon
      <4>1. /\ w.list[j] = l[j + 1] /\ j + 1 \in 1..Len(l)
            /\ w.list[k] = l[k + 1] /\ k + 1 \in 1..Len(l)
        BY <1>3, Zenon
      <4>2. j + 1 < k + 1
        OBVIOUS
      <4> QED
        BY <4>1, <4>2, Zenon DEF ThreadsInv, Ordered, l
    <3>4. slot'[t].list = w.list /\ ran'[t] = ran'[s]
      BY <2>2, <1>4, Zenon
    <3>5. \A j, k \in 1..Len(ran'[t]) : j < k => ran'[t][j] < ran'[t][k]
      BY <3>1, <3>4, Zenon
    <3>6. \A j \in 1..Len(ran'[t]), k \in 1..Len(slot'[t].list) :
            slot'[t].list[k] # Stop => ran'[t][j] < slot'[t].list[k]
      BY <3>2, <3>4, Zenon
    <3>7. \A j, k \in 1..Len(slot'[t].list) :
            j < k /\ slot'[t].list[j] # Stop /\ slot'[t].list[k] # Stop =>
                slot'[t].list[j] < slot'[t].list[k]
      BY <3>3, <3>4, Zenon
    <3> QED
      BY <3>5, <3>6, <3>7, Zenon
  <2> QED
    BY <2>1, <2>2, Zenon
<1> QED
  BY <1>11, <1>12, <1>13, <1>14, <1>15, <1>19, Zenon DEF ThreadsInv

LEMMA DrainStep == ThreadsInv /\ Drain => ThreadsInv'
<1> SUFFICES ASSUME ThreadsInv, Drain PROVE ThreadsInv'
  BY Zenon
<1>1. PICK s \in Slots :
        /\ slot[s].thread = "drain"
        /\ \/ /\ slot[s].list = <<>>
              /\ slot' = [slot EXCEPT ![s].thread = "loop"]
              /\ UNCHANGED ran
           \/ /\ slot[s].list # <<>> /\ Head(slot[s].list) = Stop
              /\ slot' = [slot EXCEPT ![s] = [Take(slot[s]) EXCEPT !.stopping = TRUE]]
              /\ UNCHANGED ran
           \/ /\ slot[s].list # <<>> /\ Head(slot[s].list) # Stop
              /\ slot' = [slot EXCEPT ![s] = Take(slot[s])]
              /\ ran' = [ran EXCEPT ![s] = Append(@, Head(slot[s].list))]
        /\ UNCHANGED <<main, accepted, dropped, pools>>
  BY Zenon DEF Drain
<1>2. slot[s] \in Loops /\ slot[s].ready /\ slot[s].list \in Seq(Nat)
  BY <1>1, Zenon DEF ThreadsInv, ThreadsTypeOK, Phases, Loops
<1>3. CASE slot[s].list = <<>>
  <2> DEFINE w == [slot[s] EXCEPT !.thread = "loop"]
  <2>1. slot' = [slot EXCEPT ![s] = w] /\ UNCHANGED ran
    BY <1>1, <1>3, Zenon DEF ThreadsInv, ThreadsTypeOK
  <2>2. /\ w \in Loops
        /\ w.thread = "loop" /\ w.ready
        /\ w.list = slot[s].list /\ w.stopping = slot[s].stopping
    BY <1>2, Zenon DEF Loops, ThreadStates
  <2> HIDE DEF w
  <2> QED
    BY <1>1, <2>1, <2>2, ThreadStep, Zenon
<1>4. CASE slot[s].list # <<>>
  <2> DEFINE l == Tail(slot[s].list)
             v == Take(slot[s])
             w == [v EXCEPT !.stopping = TRUE]
  <2>1. l \in Seq(Nat)
    BY <1>2, <1>4
  <2> HIDE DEF l
  <2>2. v = [slot[s] EXCEPT !.list = l]
    BY Zenon DEF Take, l
  <2>3. /\ v \in Loops
        /\ v.thread = "drain" /\ v.ready
        /\ v.list = l /\ v.stopping = slot[s].stopping
    BY <1>1, <1>2, <2>1, <2>2, Zenon DEF Loops
  <2> HIDE DEF v
  <2>4. /\ w \in Loops
        /\ w.thread = "drain" /\ w.ready
        /\ w.list = l /\ w.stopping
    BY <2>3, Zenon DEF Loops
  <2> HIDE DEF w
  <2>5. CASE Head(slot[s].list) = Stop
    <3>1. main = "joining"
      <4>1. slot[s].list[1] = Stop /\ 1 \in 1..Len(slot[s].list)
        BY <1>2, <1>4, <2>5
      <4> QED
        BY <4>1, Zenon DEF ThreadsInv, StopsInJoin
    <3>2. slot' = [slot EXCEPT ![s] = w] /\ ran' = ran
      BY <1>1, <1>4, <2>5, Zenon DEF v, w
    <3>3. Taken(s, w)
      BY <1>1, <1>2, <1>4, <2>4, <2>5, <3>1, <3>2, Zenon DEF l, Taken
    <3> QED
      BY <2>4, <3>3, TakeStep, Zenon
  <2>6. CASE Head(slot[s].list) # Stop
    <3>1. v.stopping => main = "joining"
      BY <2>3, Zenon DEF ThreadsInv, StopsInJoin
    <3>2. /\ slot' = [slot EXCEPT ![s] = v]
          /\ ran' = [ran EXCEPT ![s] = Append(@, Head(slot[s].list))]
      BY <1>1, <1>4, <2>6, Zenon DEF v
    <3>3. Taken(s, v)
      BY <1>1, <1>2, <1>4, <2>3, <2>6, <3>1, <3>2, Zenon DEF l, Taken
    <3> QED
      BY <2>3, <3>3, TakeStep, Zenon
  <2> QED
    BY <2>5, <2>6, Zenon
<1> QED
  BY <1>3, <1>4, Zenon

\* del_threaded_loop puts a stop behind everything: none was there before.
LEMMA DeleteStep == ThreadsInv /\ del_threaded_loop => ThreadsInv'
<1> SUFFICES ASSUME ThreadsInv, del_threaded_loop PROVE ThreadsInv'
  BY Zenon
<1>1. /\ main = "idle" /\ main' = "joining"
      /\ slot' = [s \in Slots |-> IF slot[s].ready
                                  THEN threaded_loop_slot_enqueue(slot[s], Stop) ELSE slot[s]]
      /\ UNCHANGED <<accepted, ran, dropped>>
  BY Zenon DEF del_threaded_loop
<1>2. Work' = Work /\ (\A i : FromMain(i)' <=> FromMain(i))
  BY <1>1, SameAccepted, Zenon
<1>3. \A s \in Slots : slot[s] \in Loops
  BY Zenon DEF ThreadsInv, ThreadsTypeOK
<1>4. Stop \in Nat
  BY Zenon DEF Stop
<1>5. \A s \in Slots :
        /\ slot'[s] \in Loops
        /\ slot'[s].thread = slot[s].thread /\ slot'[s].ready = slot[s].ready
        /\ slot'[s].stopping = slot[s].stopping
        /\ ~ slot[s].ready => slot'[s].list = slot[s].list
  <2> SUFFICES ASSUME NEW s \in Slots
               PROVE  /\ slot'[s] \in Loops
                      /\ slot'[s].thread = slot[s].thread /\ slot'[s].ready = slot[s].ready
                      /\ slot'[s].stopping = slot[s].stopping
                      /\ ~ slot[s].ready => slot'[s].list = slot[s].list
    BY Zenon
  <2>1. CASE slot[s].ready
    BY <2>1, <1>1, <1>3, <1>4, EnqueueFact, ZenonT(30)
  <2>2. CASE ~ slot[s].ready
    BY <2>2, <1>1, <1>3, Zenon
  <2> QED
    BY <2>1, <2>2, Zenon
<1>6. \A s \in Slots : \A k \in 1..Len(slot'[s].list) :
        \/ k \in 1..Len(slot[s].list) /\ slot'[s].list[k] = slot[s].list[k]
        \/ k = Len(slot[s].list) + 1 /\ slot'[s].list[k] = Stop
  <2> SUFFICES ASSUME NEW s \in Slots, NEW k \in 1..Len(slot'[s].list)
               PROVE  \/ k \in 1..Len(slot[s].list) /\ slot'[s].list[k] = slot[s].list[k]
                      \/ k = Len(slot[s].list) + 1 /\ slot'[s].list[k] = Stop
    BY Zenon
  <2>1. CASE slot[s].ready
    <3>1. /\ Len(slot'[s].list) = Len(slot[s].list) + 1
          /\ Len(slot[s].list) \in Nat
          /\ \A j \in 1..Len(slot[s].list) : slot'[s].list[j] = slot[s].list[j]
          /\ slot'[s].list[Len(slot[s].list) + 1] = Stop
      BY <2>1, <1>1, <1>3, <1>4, EnqueueFact
    <3>2. k \in 1..Len(slot[s].list) \/ k = Len(slot[s].list) + 1
      BY <3>1, SMTT(30)
    <3> QED
      BY <3>1, <3>2, Zenon
  <2>2. CASE ~ slot[s].ready
    BY <2>2, <1>5, Zenon
  <2> QED
    BY <2>1, <2>2, Zenon
<1>7. \A s \in Slots : Len(slot[s].list) \in Nat
  BY <1>3 DEF Loops
<1>8. \A s \in Slots : /\ ~ slot[s].stopping
                       /\ \A k \in 1..Len(slot[s].list) : slot[s].list[k] # Stop
  BY <1>1, Zenon DEF ThreadsInv, StopsInJoin
<1>9. ThreadsTypeOK'
  <2>1. slot' \in [Slots -> Loops]
    BY <1>1, <1>5, Zenon
  <2> QED
    BY <2>1, <1>1, Zenon DEF ThreadsInv, ThreadsTypeOK
<1>10. Numbered'
  <2>1. PICK n \in Nat :
          /\ Work = 1..n
          /\ \A s \in Slots : \A k \in 1..Len(slot[s].list) : slot[s].list[k] \in 0..n
          /\ \A s \in Slots : \A k \in 1..Len(ran[s]) : ran[s][k] \in 1..n
          /\ dropped \subseteq 0..n
    BY Zenon DEF ThreadsInv, Numbered
  <2>2. Stop \in 0..n
    BY DEF Stop
  <2>3. \A s \in Slots : \A k \in 1..Len(slot'[s].list) : slot'[s].list[k] \in 0..n
    BY <2>1, <2>2, <1>6, Zenon
  <2> QED
    BY <2>1, <2>3, <1>1, <1>2, Zenon DEF Numbered
<1>11. Ordered'
  <2> SUFFICES ASSUME NEW s \in Slots
               PROVE  /\ \A j \in 1..Len(ran[s]), k \in 1..Len(slot'[s].list) :
                             slot'[s].list[k] # Stop => ran[s][j] < slot'[s].list[k]
                      /\ \A j, k \in 1..Len(slot'[s].list) :
                             j < k /\ slot'[s].list[j] # Stop /\ slot'[s].list[k] # Stop =>
                                 slot'[s].list[j] < slot'[s].list[k]
    BY <1>1, Zenon DEF ThreadsInv, Ordered
  <2>1. \A k \in 1..Len(slot'[s].list) : slot'[s].list[k] # Stop =>
          k \in 1..Len(slot[s].list) /\ slot'[s].list[k] = slot[s].list[k]
    BY <1>6, Zenon
  <2>2. /\ \A j \in 1..Len(ran[s]), k \in 1..Len(slot[s].list) :
               slot[s].list[k] # Stop => ran[s][j] < slot[s].list[k]
        /\ \A j, k \in 1..Len(slot[s].list) :
               j < k /\ slot[s].list[j] # Stop /\ slot[s].list[k] # Stop =>
                   slot[s].list[j] < slot[s].list[k]
    BY Zenon DEF ThreadsInv, Ordered
  <2> QED
    BY <2>1, <2>2, Zenon
<1>12. Behind'
  <2> SUFFICES ASSUME NEW s \in Slots, NEW j \in 1..Len(slot'[s].list),
                      NEW k \in 1..Len(slot'[s].list), j < k, slot'[s].list[j] = Stop
               PROVE  FALSE
    BY <1>5, <1>8, Zenon DEF Behind
  <2>1. j = Len(slot[s].list) + 1
    BY <1>6, <1>8, Zenon
  <2>2. k \in 1..Len(slot[s].list) \/ k = Len(slot[s].list) + 1
    BY <1>6, Zenon
  <2> QED
    BY <2>1, <2>2, <1>7
<1>13. StopsInJoin'
  BY <1>1, Zenon DEF StopsInJoin
<1>14. Phases'
  BY <1>5, Zenon DEF ThreadsInv, Phases
<1>15. NoneDropped'
  BY <1>1, <1>2, Zenon DEF ThreadsInv, NoneDropped
<1> QED
  BY <1>9, <1>10, <1>11, <1>12, <1>13, <1>14, <1>15, Zenon DEF ThreadsInv

\* No step of the main thread or of a worker breaks the invariant: a stop comes
\* behind everything the main thread handed in, and work is taken from the head.
THEOREM PoolInvariant == ThreadsSpec => []ThreadsInv
<1>1. ThreadsInv /\ [ThreadsNext]_threadVars => ThreadsInv'
  <2> SUFFICES ASSUME ThreadsInv, [ThreadsNext]_threadVars PROVE ThreadsInv'
    BY Zenon
  <2>1. CASE create_threaded_loop
    BY <2>1, CreateStep, Zenon
  <2>2. CASE threaded_loop_run
    BY <2>2, RunStep, Zenon
  <2>3. CASE CreateReturns
    BY <2>3, ReturnStep, Zenon
  <2>4. CASE threaded_loop_queue_work
    BY <2>4, AcceptStep, Zenon DEF threaded_loop_queue_work
  <2>5. CASE WorkerQueues
    <3>1. PICK s \in Slots : slot[s].thread \in {"loop", "drain"} /\ Accept(s, "worker")
      BY <2>5, Zenon DEF WorkerQueues
    <3>2. slot[s].ready
      BY <3>1, Zenon DEF ThreadsInv, Phases
    <3> QED
      BY <3>1, <3>2, AcceptStep, Zenon
  <2>6. CASE threaded_loop_async_cb
    BY <2>6, CallbackStep, Zenon
  <2>7. CASE Drain
    BY <2>7, DrainStep, Zenon
  <2>8. CASE LoopEnds
    BY <2>8, EndStep, Zenon
  <2>9. CASE del_threaded_loop
    BY <2>9, DeleteStep, Zenon
  <2>10. CASE Join
    BY <2>10, JoinStep, Zenon
  <2>11. CASE UNCHANGED threadVars
    <3>1. UNCHANGED <<slot, main, accepted, ran, dropped>>
      BY <2>11, Zenon DEF threadVars
    <3>2. slot' \in [Slots -> Loops] /\ main' \in {"idle", "creating", "joining"}
      BY <3>1, Zenon DEF ThreadsInv, ThreadsTypeOK
    <3>3. StopsInJoin' /\ Phases'
      BY <3>1, Zenon DEF ThreadsInv, StopsInJoin, Phases
    <3>4. NoneDropped'
      BY <3>1, SameAccepted, Zenon DEF ThreadsInv, NoneDropped
    <3> QED
      BY <3>1, <3>2, <3>3, <3>4, ListsStay, Zenon
  <2> QED
    BY <2>1, <2>2, <2>3, <2>4, <2>5, <2>6, <2>7, <2>8, <2>9, <2>10, <2>11, Zenon DEF ThreadsNext
<1> QED
  BY StartHolds, <1>1, PTL DEF ThreadsSpec

\* Every worker runs its work in the order in which threaded_loop_queue_work took it,
\* none twice, and del_threaded_loop throws away nothing that the main thread handed
\* in, for any number of workers and pools, whatever the workers queue themselves.
THEOREM MainWorkIsAlwaysRun == ThreadsSpec => []MainWorkIsRun
<1>1. ThreadsInv => MainWorkIsRun
  <2> SUFFICES ASSUME ThreadsInv, NEW s \in Slots
               PROVE  /\ \A k, j \in DOMAIN ran[s] : k < j => ran[s][k] < ran[s][j]
                      /\ \A k \in DOMAIN accepted[s] :
                            accepted[s][k].from = "main" => accepted[s][k].id \notin dropped
    BY Zenon DEF MainWorkIsRun
  <2>1. DOMAIN ran[s] = 1..Len(ran[s]) /\ DOMAIN accepted[s] = 1..Len(accepted[s])
    BY DEF ThreadsInv, ThreadsTypeOK
  <2>2. \A k, j \in 1..Len(ran[s]) : k < j => ran[s][k] < ran[s][j]
    BY Zenon DEF ThreadsInv, Ordered
  <2>3. \A k \in 1..Len(accepted[s]) :
          accepted[s][k].from = "main" => accepted[s][k].id \notin dropped
    BY Zenon DEF ThreadsInv, NoneDropped, FromMain
  <2> QED
    BY <2>1, <2>2, <2>3, Zenon
<1> QED
  BY PoolInvariant, <1>1, PTL
=============================================================================
