---------------------------- MODULE StoresProofs ----------------------------
(* The timing wheel, for any number of series, any spans and any clock: no   *)
(* node is left behind the cursor, and the wheel implements a table of       *)
(* deadlines.  The operation log, for every ring size, budget and set of     *)
(* entries: the slots between the cursors hold inserted entries, and the     *)
(* ring implements BoundedLog.  The lemmas on the ring are those of          *)
(* OplogRingProofs.                                                          *)
EXTENDS ExpireTree, Oplog, OplogRingProofs, TLAPS

\* Each level covers more than the one below.
LEMMA SpanFacts ==
    /\ Span0 \in Nat \ {0} /\ Span1 \in Nat \ {0}
    /\ Span2 \in Nat \ {0} /\ Span3 \in Nat \ {0}
    /\ Span0 < Span1 /\ Span1 < Span2 /\ Span2 < Span3
<1>1. \A a \in Nat \ {0}, b \in Nat \ {0, 1} : a * b \in Nat \ {0} /\ a < a * b
  OBVIOUS
<1>2. Span1 \in Nat \ {0} /\ Span0 < Span1
  BY <1>1, ExpireAssumption, Zenon DEF Span1
<1>3. Span2 \in Nat \ {0} /\ Span1 < Span2
  BY <1>1, <1>2, ExpireAssumption, Zenon DEF Span2
<1>4. Span3 \in Nat \ {0} /\ Span2 < Span3
  BY <1>1, <1>3, ExpireAssumption, Zenon DEF Span3
<1>5. QED
  BY <1>2, <1>3, <1>4, ExpireAssumption, Zenon

\* Division with remainder, for the slots of a level.
LEMMA DivFact ==
    ASSUME NEW S \in Nat \ {0}, NEW k \in Nat
    PROVE  /\ k \div S \in Nat
           /\ k % S \in 0 .. S - 1
           /\ k = S * (k \div S) + (k % S)
<1>1. /\ k \div S \in Nat
      /\ k % S \in 0 .. S - 1
  OBVIOUS
<1>2. PICK q \in Int, r \in Int : q = k \div S /\ r = k % S
  BY <1>1
<1>3. k = S * q + r
  BY <1>2
<1>4. QED
  BY <1>1, <1>2, <1>3, Zenon

\* A slot opens at a second that is no later than the keys in it, and less
\* than its span earlier.
LEMMA OpensFact ==
    ASSUME NEW S \in Nat \ {0}, NEW k \in Nat
    PROVE  /\ Opens(k, S) \in Nat
           /\ Opens(k, S) <= k
           /\ k < Opens(k, S) + S
<1>1. DEFINE o == S * (k \div S)
             r == k % S
<1>2. k \div S \in Nat /\ r \in 0 .. S - 1 /\ k = o + r
  BY DivFact, Zenon
<1>3. \A q \in Nat : S * q \in Nat
  OBVIOUS
<1>4. o \in Nat
  BY <1>2, <1>3, Zenon
<1>5. HIDE DEF o, r
<1>6. o <= k /\ k < o + S
  BY <1>2, <1>4
<1>7. QED
  BY <1>4, <1>6, Zenon DEF Opens, o

\* At that second the walk looks into the very slot of the key.
LEMMA OpenSlot ==
    ASSUME NEW S \in Nat \ {0}, NEW k \in Nat
    PROVE  /\ Opens(k, S) % S = 0
           /\ Slot(Opens(k, S), S) = Slot(k, S)
<1>1. \A q \in Nat : (S * q) % S = 0
  OBVIOUS
<1>2. \A q \in Nat : (S * q) \div S = q
  OBVIOUS
<1>3. k \div S \in Nat
  BY DivFact, Zenon
<1>4. Opens(k, S) \div S = k \div S
  BY <1>2, <1>3, Zenon DEF Opens
<1>5. Opens(k, S) % S = 0
  BY <1>1, <1>3, Zenon DEF Opens
<1>6. QED
  BY <1>4, <1>5, Zenon DEF Slot
-----------------------------------------------------------------------------
\* What NoneMissed says of one node, with the bound that holds for `far`.
Fits(l, k, c, bound) ==
    /\ l = "lv0" => k > c
    /\ l = "lv1" => Opens(k, Span0) > c
    /\ l = "lv2" => Opens(k, Span1) > c
    /\ l = "lv3" => Opens(k, Span2) > c
    /\ l = "far" => k >= bound

\* expire_schedule puts a node where it fits.
LEMMA ScheduleFits ==
    ASSUME NEW k \in Nat, NEW c \in Nat, NEW bound \in Int, bound <= c + Span3
    PROVE  /\ Fits(Level(k - c), k, c, bound)
           /\ Level(k - c) \in Levels \ {"none"}
           /\ Level(k - c) = "due" <=> k <= c
<1>1. k - c \in Int
  OBVIOUS
<1>2. k - c >= Span0 => Opens(k, Span0) > c
  BY OpensFact, SpanFacts
<1>3. k - c >= Span1 => Opens(k, Span1) > c
  BY OpensFact, SpanFacts
<1>4. k - c >= Span2 => Opens(k, Span2) > c
  BY OpensFact, SpanFacts
<1>5. k - c >= Span3 => k >= bound
  BY SpanFacts
<1>6. QED
  BY <1>1, <1>2, <1>3, <1>4, <1>5, SpanFacts DEF Level, Fits, Levels

\* A node that fits behind a later cursor fits behind an earlier one.
LEMMA FitsEarlier ==
    ASSUME NEW l, NEW k \in Nat, NEW c \in Nat, NEW b \in Int,
           NEW d \in Nat, NEW e \in Int, d <= c, e <= b, Fits(l, k, c, b)
    PROVE  Fits(l, k, d, e)
<1>1. /\ Opens(k, Span0) \in Nat
      /\ Opens(k, Span1) \in Nat
      /\ Opens(k, Span2) \in Nat
  BY OpensFact, SpanFacts, Zenon
<1>2. QED
  BY <1>1 DEF Fits

\* A node that fits and is not due has its key ahead.
LEMMA FitsAhead ==
    ASSUME NEW l \in Levels \ {"none", "due"}, NEW k \in Nat, NEW c \in Nat,
           NEW b \in Int, b > c, Fits(l, k, c, b)
    PROVE  k > c
<1>1. /\ Opens(k, Span0) \in Nat /\ Opens(k, Span0) <= k
      /\ Opens(k, Span1) \in Nat /\ Opens(k, Span1) <= k
      /\ Opens(k, Span2) \in Nat /\ Opens(k, Span2) <= k
  BY OpensFact, SpanFacts, Zenon
<1>2. QED
  BY <1>1 DEF Fits, Levels
-----------------------------------------------------------------------------
\* Where the keys on `far` start: beyond the horizon, and during a walk beyond
\* its end, which is what the horizon has come down to.
Beyond == IF phase = "walk" THEN purging + 1 ELSE cursor + Span3

\* The inductive invariant: every node fits, a walk is short and ahead of it is
\* its end, and a purge collects at the second that it was asked for.
IInv ==
    /\ TypeOK
    /\ \A s \in Series : Fits(level[s], key[s], cursor, Beyond)
    /\ \A s \in Series : level[s] = "none" => key[s] = 0
    /\ phase = "walk" => cursor <= purging /\ purging - cursor <= Span1
    /\ phase = "collect" => cursor = purging

LEMMA BeyondType ==
    ASSUME IInv
    PROVE  Beyond \in Int /\ Beyond > cursor /\ Beyond <= cursor + Span3
  BY SpanFacts, ExpireAssumption DEF IInv, TypeOK, Beyond

\* A node that was scheduled again at base c fits there.
LEMMA RescheduledFits ==
    ASSUME IInv, NEW S, NEW c \in Nat, NEW b \in Int, b <= c + Span3,
           NEW s \in S, s \in Series
    PROVE  /\ Rescheduled(S, c)[s] \in Levels \ {"none"}
           /\ Fits(Rescheduled(S, c)[s], key[s], c, b)
           /\ Rescheduled(S, c)[s] = "due" <=> key[s] <= c
<1>1. key[s] \in Nat
  BY Zenon DEF IInv, TypeOK
<1>2. Rescheduled(S, c)[s] = Level(key[s] - c)
  BY Zenon DEF Rescheduled
<1>3. QED
  BY <1>1, <1>2, ScheduleFits, Zenon

LEMMA RescheduledOthers ==
    ASSUME NEW S, NEW c, NEW s \in Series, s \notin S
    PROVE  Rescheduled(S, c)[s] = level[s]
  BY Zenon DEF Rescheduled

\* Arming a series puts it where it fits, also before the first purge, when the
\* wall clock stands in for the cursor.
LEMMA BaseFact ==
    ASSUME IInv, NEW now \in Clock
    PROVE  expire_base(now) \in Nat /\ cursor <= expire_base(now)
  BY ExpireAssumption DEF IInv, TypeOK, expire_base
-----------------------------------------------------------------------------
LEMMA InitInv == Init => IInv
<1>1. SUFFICES ASSUME Init PROVE IInv
  BY Zenon
<1>2. TypeOK
  BY <1>1, Zenon DEF Init, TypeOK, Levels
<1>3. QED
  BY <1>1, <1>2, Zenon DEF Init, IInv, Fits

LEMMA ArmInv ==
    ASSUME IInv, phase = "idle", NEW s \in Series, NEW k \in Nat, NEW now \in Clock,
           expire_arm(s, k, now), UNCHANGED <<cursor, phase, purging>>
    PROVE  IInv'
<1>1. DEFINE b == expire_base(now)
<1>2. b \in Nat /\ cursor <= b
  BY BaseFact, Zenon
<1>3. Level(k - b) \in Levels \ {"none"} /\ Fits(Level(k - b), k, b, b + Span3)
  BY <1>2, ScheduleFits, SpanFacts
<1>4. Fits(Level(k - b), k, cursor, cursor + Span3)
  BY <1>2, <1>3, FitsEarlier, SpanFacts DEF IInv, TypeOK
<1>5. /\ key' \in [Series -> Nat]
      /\ level' \in [Series -> Levels]
      /\ key'[s] = k
      /\ level'[s] = Level(k - b)
      /\ \A t \in Series \ {s} : key'[t] = key[t] /\ level'[t] = level[t]
  BY <1>3, Zenon DEF IInv, TypeOK, expire_arm
<1>6. TypeOK'
  BY <1>5, Zenon DEF IInv, TypeOK
<1>7. Beyond' = cursor + Span3 /\ Beyond = cursor + Span3
  BY Zenon DEF Beyond
<1>8. \A t \in Series : Fits(level[t], key[t], cursor, Beyond)'
  BY <1>4, <1>5, <1>7, Zenon DEF IInv
<1>9. QED
  BY <1>3, <1>5, <1>6, <1>8, Zenon DEF IInv

LEMMA UpsertInv ==
    ASSUME IInv, NEW s \in Series, NEW now \in Clock, NEW ttl \in Ttls,
           metric_upsert(s, now, ttl)
    PROVE  IInv'
<1>1. now + ttl \in Nat
  BY ExpireAssumption
<1>2. CASE UNCHANGED <<key, level>>
  BY <1>2, Zenon DEF metric_upsert, IInv, TypeOK, Beyond
<1>3. CASE expire_arm(s, now + ttl, now)
  BY <1>1, <1>3, ArmInv, Zenon DEF metric_upsert
<1>4. QED
  BY <1>2, <1>3, Zenon DEF metric_upsert, metric_refresh_expire

LEMMA DeleteInv ==
    ASSUME IInv, NEW s \in Series, NEW now \in Clock, metric_delete(s, now)
    PROVE  IInv'
<1>1. DEFINE b == expire_base(now)
<1>2. b \in Nat /\ cursor <= b
  BY BaseFact, Zenon
<1>3. PICK moved \in SUBSET (There \ {s}) :
        level' = [Rescheduled(moved, b) EXCEPT ![s] = "none"]
  BY Zenon DEF metric_delete
<1>4. /\ \A t \in Series \ {s} : level'[t] = Rescheduled(moved, b)[t]
      /\ level'[s] = "none"
      /\ DOMAIN level' = Series
      /\ level' = [t \in Series |-> level'[t]]
  BY <1>3, Zenon DEF Rescheduled
<1>5. key' = [key EXCEPT ![s] = 0] /\ UNCHANGED <<cursor, phase, purging>> /\ phase = "idle"
  BY Zenon DEF metric_delete
<1>6. Beyond' = cursor + Span3 /\ Beyond = cursor + Span3
  BY <1>5, Zenon DEF Beyond
<1>7. ASSUME NEW t \in Series
      PROVE  /\ level'[t] \in Levels
             /\ key'[t] \in Nat
             /\ Fits(level'[t], key'[t], cursor, cursor + Span3)
             /\ level'[t] = "none" => key'[t] = 0
  <2>1. CASE t = s
    BY <1>4, <1>5, <2>1, Zenon DEF IInv, TypeOK, Fits, Levels
  <2>2. CASE t # s /\ t \in moved
    <3>1. level'[t] \in Levels \ {"none"} /\ Fits(level'[t], key[t], b, b + Span3)
      BY <1>2, <1>4, <2>2, RescheduledFits, SpanFacts
    <3>2. key[t] \in Nat /\ key'[t] = key[t]
      BY <1>5, <2>2, Zenon DEF IInv, TypeOK
    <3>3. Fits(level'[t], key[t], cursor, cursor + Span3)
      BY <1>2, <3>1, <3>2, FitsEarlier, SpanFacts DEF IInv, TypeOK
    <3>4. QED
      BY <3>1, <3>2, <3>3, Zenon
  <2>3. CASE t # s /\ t \notin moved
    BY <1>4, <1>5, <1>6, <2>3, RescheduledOthers DEF IInv, TypeOK
  <2>4. QED
    BY <2>1, <2>2, <2>3, Zenon
<1>8. level' \in [Series -> Levels] /\ key' \in [Series -> Nat]
  BY <1>4, <1>5, <1>7, Zenon DEF IInv, TypeOK
<1>9. QED
  BY <1>5, <1>6, <1>7, <1>8, Zenon DEF IInv, TypeOK

LEMMA DrainInv == IInv /\ expire_drain_all => IInv'
  BY DEF expire_drain_all, IInv, TypeOK, Levels, Fits

LEMMA PurgeInv ==
    ASSUME IInv, NEW now \in Clock, expire_purge(now)
    PROVE  IInv'
<1>1. now \in Nat \ {0}
  BY ExpireAssumption, Zenon
<1>2. CASE cursor = 0 \/ now - cursor > Span1
  <2>1. /\ cursor' = now /\ purging' = now /\ phase' = "collect" /\ key' = key
        /\ level' = Rescheduled(There, now)
    BY <1>2, Zenon DEF expire_purge
  <2>2. ASSUME NEW s \in Series
        PROVE  /\ level'[s] \in Levels
               /\ Fits(level'[s], key[s], now, now + Span3)
               /\ level'[s] = "none" => key[s] = 0
    <3>1. CASE s \in There
      BY <1>1, <2>1, <3>1, RescheduledFits, SpanFacts
    <3>2. CASE s \notin There
      <4>1. level'[s] = "none"
        BY <2>1, <3>2, RescheduledOthers, Zenon DEF There
      <4>2. level[s] = "none"
        BY <3>2, Zenon DEF There
      <4>3. QED
        BY <4>1, <4>2, Zenon DEF IInv, Fits, Levels
    <3>3. QED
      BY <3>1, <3>2, Zenon
  <2>3. level' \in [Series -> Levels]
    BY <2>1, <2>2, Zenon DEF Rescheduled
  <2>4. QED
    BY <1>1, <2>1, <2>2, <2>3, Zenon DEF IInv, TypeOK, Beyond
<1>3. CASE cursor # 0 /\ ~ (now - cursor > Span1) /\ now < cursor
  <2>1. /\ cursor' = now /\ purging' = now /\ phase' = "collect"
        /\ key' = key /\ level' = level
    BY <1>3, Zenon DEF expire_purge
  <2>2. Beyond = cursor + Span3
    BY Zenon DEF expire_purge, Beyond
  <2>3. \A s \in Series : Fits(level[s], key[s], now, now + Span3)
    BY <1>1, <1>3, <2>2, FitsEarlier, SpanFacts DEF IInv, TypeOK
  <2>4. QED
    BY <1>1, <2>1, <2>3, Zenon DEF IInv, TypeOK, Beyond
<1>4. CASE cursor # 0 /\ ~ (now - cursor > Span1) /\ ~ (now < cursor)
  <2>1. /\ cursor' = cursor /\ purging' = now /\ phase' = "walk"
        /\ key' = key /\ level' = level
    BY <1>4, Zenon DEF expire_purge
  <2>2. Beyond = cursor + Span3 /\ Beyond' = now + 1
    BY <2>1, Zenon DEF expire_purge, Beyond
  <2>3. now + 1 <= cursor + Span3
    BY <1>1, <1>4, SpanFacts DEF IInv, TypeOK
  <2>4. \A s \in Series : Fits(level[s], key[s], cursor, now + 1)
    BY <1>1, <2>2, <2>3, FitsEarlier, SpanFacts DEF IInv, TypeOK
  <2>5. TypeOK'
    BY <1>1, <2>1, Zenon DEF IInv, TypeOK
  <2>6. cursor' <= purging' /\ purging' - cursor' <= Span1
    BY <1>1, <1>4, <2>1, SpanFacts DEF IInv, TypeOK
  <2>7. QED
    BY <2>1, <2>2, <2>4, <2>5, <2>6, Zenon DEF IInv
<1>5. QED
  BY <1>2, <1>3, <1>4, Zenon

\* The second that opens the slot of a node is never passed by: the node is
\* scheduled again at that second.
LEMMA OpenedInTime ==
    ASSUME IInv, NEW s \in Series, NEW c \in Nat, c = cursor + 1, s \notin Opened(c),
           level[s] # "lv0"
    PROVE  Fits(level[s], key[s], c, Beyond)
<1>1. key[s] \in Nat /\ cursor \in Nat
  BY Zenon DEF IInv, TypeOK
<1>2. Fits(level[s], key[s], cursor, Beyond)
  BY Zenon DEF IInv
<1>3. ASSUME NEW S \in Nat \ {0}, Opens(key[s], S) > cursor,
             ~ (c % S = 0 /\ Slot(key[s], S) = Slot(c, S))
      PROVE  Opens(key[s], S) > c
  <2>1. Opens(key[s], S) # c
    BY <1>1, <1>3, OpenSlot, Zenon
  <2>2. Opens(key[s], S) \in Nat
    BY <1>1, OpensFact, Zenon
  <2>3. QED
    BY <1>1, <1>3, <2>1, <2>2
<1>4. level[s] = "lv1" => Opens(key[s], Span0) > c
  BY <1>2, <1>3, SpanFacts, Zenon DEF Fits, Opened
<1>5. level[s] = "lv2" => Opens(key[s], Span1) > c
  BY <1>2, <1>3, SpanFacts, Zenon DEF Fits, Opened
<1>6. level[s] = "lv3" => Opens(key[s], Span2) > c
  BY <1>2, <1>3, SpanFacts, Zenon DEF Fits, Opened
<1>7. QED
  BY <1>2, <1>4, <1>5, <1>6, Zenon DEF Fits

LEMMA WalkInv == IInv /\ WalkSecond => IInv'
<1>1. SUFFICES ASSUME IInv, WalkSecond PROVE IInv'
  BY Zenon
<1>2. DEFINE c == cursor + 1
             cascaded == Rescheduled(Opened(c), c)
<1>3. /\ phase = "walk" /\ cursor < purging
      /\ cursor' = c /\ key' = key /\ phase' = phase /\ purging' = purging
  BY <1>1, Zenon DEF WalkSecond
<1>4. level' = [s \in Series |->
        IF cascaded[s] = "lv0" /\ key[s] % Span0 = c % Span0
        THEN IF key[s] <= purging THEN "due" ELSE Level(key[s] - c)
        ELSE cascaded[s]]
  BY <1>1, Zenon DEF WalkSecond
<1>5. /\ c \in Nat /\ cursor \in Nat /\ purging \in Nat
      /\ c <= purging /\ purging - c <= Span1
  BY <1>1, <1>3, SpanFacts, ExpireAssumption DEF IInv, TypeOK
<1>6. Beyond = purging + 1 /\ Beyond' = purging + 1
  BY <1>3, Zenon DEF Beyond
<1>7. purging + 1 \in Int /\ purging + 1 <= c + Span3
  BY <1>5, SpanFacts
<1>8. ASSUME NEW s \in Series
      PROVE  /\ level'[s] \in Levels
             /\ Fits(level'[s], key[s], c, purging + 1)
             /\ level'[s] = "none" => key[s] = 0
  <2>1. key[s] \in Nat /\ level[s] \in Levels
    BY <1>1, Zenon DEF IInv, TypeOK
  <2>2. CASE cascaded[s] = "lv0" /\ key[s] % Span0 = c % Span0
    <3>1. level'[s] = IF key[s] <= purging THEN "due" ELSE Level(key[s] - c)
      BY <1>4, <2>2, Zenon
    <3>2. Fits("due", key[s], c, purging + 1)
      BY Zenon DEF Fits
    <3>3. /\ Level(key[s] - c) \in Levels \ {"none"}
          /\ Fits(Level(key[s] - c), key[s], c, purging + 1)
      BY <1>5, <1>7, <2>1, ScheduleFits, Zenon
    <3>4. QED
      BY <3>1, <3>2, <3>3, Zenon DEF Levels
  <2>3. CASE ~ (cascaded[s] = "lv0" /\ key[s] % Span0 = c % Span0)
    <3>1. level'[s] = cascaded[s]
      BY <1>4, <2>3, Zenon
    <3>2. CASE s \in Opened(c)
      BY <1>1, <1>5, <1>7, <3>1, <3>2, RescheduledFits, Zenon
    <3>3. CASE s \notin Opened(c)
      <4>1. level'[s] = level[s]
        BY <3>1, <3>3, RescheduledOthers, Zenon
      <4>2. CASE level[s] # "lv0"
        BY <1>1, <1>5, <1>6, <2>1, <3>3, <4>1, <4>2, OpenedInTime, Zenon DEF IInv
      <4>3. CASE level[s] = "lv0"
        <5>1. key[s] > cursor
          BY <1>1, <4>3, Zenon DEF IInv, Fits
        <5>2. key[s] # c
          BY <2>3, <3>1, <4>1, <4>3, Zenon
        <5>3. key[s] > c
          BY <1>5, <2>1, <5>1, <5>2
        <5>4. QED
          BY <2>1, <4>1, <4>3, <5>3, Zenon DEF Fits
      <4>4. QED
        BY <4>2, <4>3, Zenon
    <3>4. QED
      BY <3>2, <3>3, Zenon
  <2>4. QED
    BY <2>2, <2>3, Zenon
<1>9. level' \in [Series -> Levels]
  BY <1>4, <1>8, Zenon
<1>10. HIDE DEF c, cascaded
<1>11. TypeOK'
  BY <1>1, <1>3, <1>5, <1>9, Zenon DEF IInv, TypeOK
<1>12. QED
  BY <1>3, <1>5, <1>6, <1>8, <1>11, Zenon DEF IInv

LEMMA CascadeFarInv == IInv /\ CascadeFar => IInv'
<1>1. SUFFICES ASSUME IInv, CascadeFar PROVE IInv'
  BY Zenon
<1>2. DEFINE taken == {s \in Series : level[s] = "far" /\ key[s] - cursor < Span3}
<1>3. /\ phase' = "collect" /\ key' = key /\ cursor' = cursor /\ purging' = purging
      /\ cursor = purging /\ phase = "walk"
      /\ level' = Rescheduled(taken, cursor)
  BY <1>1, Zenon DEF CascadeFar
<1>4. Beyond = cursor + 1 /\ Beyond' = cursor + Span3 /\ cursor \in Nat
  BY <1>1, <1>3, Zenon DEF Beyond, IInv, TypeOK
<1>5. ASSUME NEW s \in Series
      PROVE  /\ level'[s] \in Levels
             /\ Fits(level'[s], key[s], cursor, cursor + Span3)
             /\ level'[s] = "none" => key[s] = 0
  <2>1. CASE s \in taken
    BY <1>1, <1>3, <1>4, <2>1, RescheduledFits, SpanFacts
  <2>2. CASE s \notin taken
    <3>1. level'[s] = level[s]
      BY <1>3, <2>2, RescheduledOthers, Zenon
    <3>2. level[s] = "far" => key[s] >= cursor + Span3
      BY <1>1, <1>4, <2>2, SpanFacts DEF IInv, TypeOK
    <3>3. QED
      BY <1>1, <3>1, <3>2, Zenon DEF IInv, TypeOK, Fits
  <2>3. QED
    BY <2>1, <2>2, Zenon
<1>6. level' \in [Series -> Levels]
  BY <1>3, <1>5, Zenon DEF Rescheduled
<1>7. TypeOK'
  BY <1>1, <1>3, <1>6, Zenon DEF IInv, TypeOK
<1>8. QED
  BY <1>3, <1>4, <1>5, <1>7, Zenon DEF IInv

\* What Collect deletes is exactly what is over at the second of the purge.
LEMMA CollectExpired ==
    ASSUME IInv, phase = "collect", NEW s \in Series
    PROVE  level[s] = "none" \/ (level[s] = "due" /\ key[s] <= purging) \/ key[s] > purging
<1>1. key[s] \in Nat /\ cursor \in Nat /\ cursor = purging /\ level[s] \in Levels
  BY Zenon DEF IInv, TypeOK
<1>2. Fits(level[s], key[s], cursor, Beyond) /\ Beyond \in Int /\ Beyond > cursor
  BY BeyondType, Zenon DEF IInv
<1>3. CASE level[s] \in Levels \ {"none", "due"}
  BY <1>1, <1>2, <1>3, FitsAhead, Zenon
<1>4. CASE level[s] = "due"
  BY <1>1, <1>4
<1>5. QED
  BY <1>1, <1>3, <1>4, Zenon

LEMMA CollectInv == IInv /\ Collect => IInv'
<1>1. SUFFICES ASSUME IInv, Collect PROVE IInv'
  BY Zenon
<1>2. DEFINE collected == {s \in Series : level[s] = "due"}
             expired == {s \in collected : key[s] <= purging}
<1>3. PICK moved \in SUBSET (There \ expired) :
        level' = [s \in Series |->
          IF s \in expired THEN "none" ELSE Rescheduled(collected \cup moved, cursor)[s]]
  BY <1>1, Zenon DEF Collect
<1>4. /\ phase = "collect" /\ phase' = "idle" /\ purging' = 0 /\ cursor' = cursor
      /\ key' = [s \in Series |-> IF s \in expired THEN 0 ELSE key[s]]
  BY <1>1, Zenon DEF Collect
<1>5. cursor \in Nat /\ Beyond = cursor + Span3 /\ Beyond' = cursor + Span3
  BY <1>1, <1>4, Zenon DEF IInv, TypeOK, Beyond
<1>6. ASSUME NEW s \in Series
      PROVE  /\ level'[s] \in Levels
             /\ key'[s] \in Nat
             /\ Fits(level'[s], key'[s], cursor, cursor + Span3)
             /\ level'[s] = "none" => key'[s] = 0
  <2>1. key[s] \in Nat /\ level[s] \in Levels
    BY <1>1, Zenon DEF IInv, TypeOK
  <2>2. CASE s \in expired
    <3>1. level'[s] = "none" /\ key'[s] = 0
      BY <1>3, <1>4, <2>2, Zenon
    <3>2. QED
      BY <3>1 DEF Fits, Levels
  <2>3. CASE s \notin expired
    <3>1. level'[s] = Rescheduled(collected \cup moved, cursor)[s] /\ key'[s] = key[s]
      BY <1>3, <1>4, <2>3, Zenon
    <3>2. CASE s \in collected \cup moved
      BY <1>1, <1>5, <2>1, <3>1, <3>2, RescheduledFits, SpanFacts
    <3>3. CASE s \notin collected \cup moved
      BY <1>1, <1>5, <2>1, <3>1, <3>3, RescheduledOthers DEF IInv
    <3>4. QED
      BY <3>2, <3>3, Zenon
  <2>4. QED
    BY <2>2, <2>3, Zenon
<1>7. level' \in [Series -> Levels] /\ key' \in [Series -> Nat]
  BY <1>3, <1>4, <1>6, Zenon
<1>8. HIDE DEF expired, collected
<1>9. TypeOK'
  BY <1>1, <1>4, <1>7, Zenon DEF IInv, TypeOK
<1>10. QED
  BY <1>4, <1>5, <1>6, <1>9, Zenon DEF IInv

LEMMA StepInv == IInv /\ [Next]_vars => IInv'
<1>1. CASE UNCHANGED vars
  BY <1>1, Zenon DEF IInv, TypeOK, Beyond, vars
<1>2. CASE Next
  BY <1>2, UpsertInv, DeleteInv, DrainInv, PurgeInv, WalkInv, CascadeFarInv, CollectInv, Zenon
  DEF Next
<1>3. QED
  BY <1>1, <1>2, Zenon

\* The wheel keeps its invariant through writes, deletions, purges, walks and
\* clocks that jump either way.
THEOREM WheelInvariant == Spec => []IInv
  BY InitInv, StepInv, PTL DEF Spec

\* The keys, levels and cursor of the wheel are of their types in every state.
THEOREM WheelTypes == Spec => []TypeOK
<1>1. IInv => TypeOK
  BY Zenon DEF IInv
<1>2. QED
  BY <1>1, WheelInvariant, PTL

\* Whatever the clock does, no node is in a slot that the cursor has passed: each
\* slot that holds a node opens again, no later than the key of the node.
THEOREM NothingIsMissed == Spec => []NoneMissed
<1>1. ASSUME IInv PROVE NoneMissed
  <2>1. \A s \in Series : Fits(level[s], key[s], cursor, Beyond)
    BY <1>1, Zenon DEF IInv
  <2>2. ASSUME NEW s \in Series, level[s] = "far"
        PROVE  IF phase = "walk" THEN key[s] > purging ELSE key[s] - cursor >= Span3
    BY <1>1, <2>1, <2>2, SpanFacts, ExpireAssumption DEF Fits, Beyond, IInv, TypeOK
  <2>3. QED
    BY <2>1, <2>2, Zenon DEF Fits, NoneMissed
<1>2. QED
  BY <1>1, WheelInvariant, PTL
-----------------------------------------------------------------------------
\* Each step of the wheel is a step of the table of deadlines, or none.
LEMMA WheelStep == IInv /\ [Next]_vars => [D!Next]_(D!vars)
<1>1. SUFFICES ASSUME IInv, [Next]_vars, ~ UNCHANGED <<key, purging>> PROVE D!Next
  BY Zenon DEF D!vars
<1>2. CASE UNCHANGED vars
  BY <1>1, <1>2, Zenon DEF vars
<1>3. ASSUME NEW s \in Series, NEW now \in Clock, NEW ttl \in Ttls,
             metric_upsert(s, now, ttl)
      PROVE  D!Next
  <2>1. expire_arm(s, now + ttl, now) /\ purging = 0 /\ purging' = purging
    BY <1>1, <1>3, Zenon DEF metric_upsert, metric_refresh_expire, IInv, TypeOK
  <2>2. now + ttl \in Nat
    BY ExpireAssumption
  <2>3. key' = [key EXCEPT ![s] = now + ttl] /\ key'[s] = now + ttl
    BY <1>1, <2>1, Zenon DEF expire_arm, IInv, TypeOK
  <2>4. D!Write(s)
    BY <2>1, <2>2, <2>3, Zenon DEF D!Write
  <2>5. QED
    BY <2>4, Zenon DEF D!Next
<1>4. ASSUME NEW s \in Series, NEW now \in Clock, metric_delete(s, now)
      PROVE  D!Next
  <2>1. D!Delete(s)
    BY <1>1, <1>4, Zenon DEF metric_delete, D!Delete, IInv, TypeOK
  <2>2. QED
    BY <2>1, Zenon DEF D!Next
<1>5. CASE expire_drain_all
  BY <1>1, <1>5, Zenon DEF expire_drain_all, D!Next, D!Wipe, IInv, TypeOK
<1>6. ASSUME NEW now \in Clock, expire_purge(now)
      PROVE  D!Next
  <2>1. D!PurgeStart
    BY <1>1, <1>6, ExpireAssumption, Zenon DEF expire_purge, D!PurgeStart, IInv, TypeOK
  <2>2. QED
    BY <2>1, Zenon DEF D!Next
<1>7. CASE WalkSecond
  BY <1>1, <1>7, Zenon DEF WalkSecond
<1>8. CASE CascadeFar
  BY <1>1, <1>8, Zenon DEF CascadeFar
<1>9. CASE Collect
  <2>1. /\ phase = "collect" /\ purging # 0 /\ purging' = 0 /\ purging \in Nat
        /\ key' = [s \in Series |->
             IF level[s] = "due" /\ key[s] <= purging THEN 0 ELSE key[s]]
    BY <1>1, <1>9, ExpireAssumption, Zenon DEF Collect, IInv, TypeOK
  <2>2. ASSUME NEW s \in Series
        PROVE  (IF level[s] = "due" /\ key[s] <= purging THEN 0 ELSE key[s])
                 = (IF key[s] <= purging THEN 0 ELSE key[s])
    <3>1. key[s] \in Nat
      BY <1>1, Zenon DEF IInv, TypeOK
    <3>2. level[s] = "none" => key[s] = 0
      BY <1>1, Zenon DEF IInv
    <3>3. level[s] = "none" \/ (level[s] = "due" /\ key[s] <= purging) \/ key[s] > purging
      BY <1>1, <2>1, CollectExpired, Zenon
    <3>4. QED
      BY <2>1, <3>1, <3>2, <3>3
  <2>3. key' = [s \in Series |-> IF key[s] <= purging THEN 0 ELSE key[s]]
    BY <2>1, <2>2, Zenon
  <2>4. D!PurgeEnd
    BY <2>1, <2>3, Zenon DEF D!PurgeEnd
  <2>5. QED
    BY <2>4, Zenon DEF D!Next
<1>10. QED
  BY <1>1, <1>2, <1>3, <1>4, <1>5, <1>6, <1>7, <1>8, <1>9, Zenon DEF Next

\* The timing wheel implements a table of deadlines, for any spans and any
\* clock: expire_purge deletes every series whose key has come, and no other.
THEOREM WheelImplementsDeadlines == Spec => ImplementsDeadlines
<1>1. Init => D!Init
  BY Zenon DEF Init, D!Init
<1>2. QED
  BY <1>1, WheelStep, WheelInvariant, PTL DEF Spec, ImplementsDeadlines, D!Spec
-----------------------------------------------------------------------------
OplogInv == OplogTypeOK /\ LiveSlotsWritten

\* Under the invariant the entries form a sequence of inserted entries.
LEMMA EntriesFact ==
    ASSUME NEW r \in Rings, \A i \in 0 .. Count(r) - 1 : Entry(r, i) \in Data
    PROVE  /\ Entries(r) \in Seq(Data)
           /\ Len(Entries(r)) = Count(r)
           /\ \A i \in 1 .. Count(r) : Entries(r)[i] = Entry(r, i - 1)
<1>1. Count(r) \in Nat
  BY CountFact, RingSizeFact
<1>2. \A i \in 1 .. Count(r) : Entry(r, i - 1) \in Data
  BY <1>1
<1>3. Entries(r) \in Seq(Data)
  BY <1>1, <1>2, FunctionIsSeq, Zenon DEF Entries
<1>4. DOMAIN Entries(r) = 1 .. Count(r)
  BY Zenon DEF Entries
<1> QED
  BY <1>1, <1>3, <1>4, LenFact DEF Entries

LEMMA FirstEntriesFact ==
    ASSUME NEW r \in Rings, \A i \in 0 .. Count(r) - 1 : Entry(r, i) \in Data,
           NEW n \in 0 .. Count(r)
    PROVE  FirstEntries(r, n) \in Seq(Data)
<1>1. Entries(r) \in Seq(Data) /\ Len(Entries(r)) = Count(r)
  BY EntriesFact, Zenon
<1>2. Count(r) \in Nat
  BY CountFact, RingSizeFact
<1> QED
  BY <1>1, <1>2, SubSeqFact DEF FirstEntries

LEMMA InitInvariant == OplogInit => OplogInv
<1> SUFFICES ASSUME OplogInit PROVE OplogInv
  BY Zenon
<1>1. ring \in Rings
  BY RingSizeFact DEF OplogInit, oplog_record_init, Rings, Slotted, Slots
<1>2. Count(ring) = 0
  BY <1>1, CountFact DEF OplogInit, oplog_record_init
<1>3. LiveSlotsWritten
  BY <1>2 DEF LiveSlotsWritten
<1>4. reply \in [op : {"init", "insert", "shift", "get"}, overflow : -1 .. 1,
                  batch : Seq(Data)]
  BY EmptySeq DEF OplogInit, Reply
<1> QED
  BY <1>1, <1>3, <1>4, Zenon DEF OplogInv, OplogTypeOK

\* Every operation keeps the cursors in range and inserted entries between them.
LEMMA NextInvariant == OplogInv /\ [OplogNext]_oplogVars => OplogInv'
<1> SUFFICES ASSUME OplogInv, [OplogNext]_oplogVars PROVE OplogInv'
  BY Zenon
<1>0. /\ ring \in Rings
      /\ \A i \in 0 .. Count(ring) - 1 : Entry(ring, i) \in Data
      /\ Count(ring) \in 0 .. RingSize - 1
      /\ reply \in [op : {"init", "insert", "shift", "get"}, overflow : -1 .. 1,
                     batch : Seq(Data)]
  BY CountFact, Zenon DEF OplogInv, OplogTypeOK, LiveSlotsWritten
<1>1. ASSUME NEW d \in Data, Insert(d) PROVE OplogInv'
  <2> DEFINE q == oplog_record_insert(ring, d)
  <2>1. ring' = q
    BY <1>1, Zenon DEF Insert
  <2>2. /\ q \in Rings
        /\ Count(q) = IF InsertResult(ring) = 1 THEN Count(ring) ELSE Count(ring) + 1
    BY <1>0, InsertFact, Zenon
  <2>3. ASSUME NEW i \in 0 .. Count(q) - 1 PROVE Entry(q, i) \in Data
    <3>1. Entry(q, i) = IF i = Count(q) - 1 THEN d
                        ELSE IF InsertResult(ring) = 1 THEN Entry(ring, i + 1)
                             ELSE Entry(ring, i)
      BY <1>0, InsertedEntries, Zenon
    <3> HIDE DEF q
    <3> QED BY <3>1, <2>2, <1>0, RingSizeFact
  <2>4. reply' \in [op : {"init", "insert", "shift", "get"}, overflow : -1 .. 1,
                    batch : Seq(Data)]
    BY <1>1, EmptySeq DEF Insert, Reply, InsertResult
  <2> HIDE DEF q
  <2> QED BY <2>1, <2>2, <2>3, <2>4, Zenon DEF OplogInv, OplogTypeOK, LiveSlotsWritten
<1>2. CASE InsertFails
  <2>1. reply' \in [op : {"init", "insert", "shift", "get"}, overflow : -1 .. 1,
                    batch : Seq(Data)]
    BY <1>2, EmptySeq DEF InsertFails, Reply
  <2> QED BY <1>0, <1>2, <2>1, Zenon DEF InsertFails, OplogInv, OplogTypeOK, LiveSlotsWritten
<1>3. CASE Shift
  <2>1. PICK n \in 0 .. Count(ring) :
            /\ ring' = oplog_record_shift(ring, n)
            /\ reply' = Reply("shift", 0, FirstEntries(ring, n))
    BY <1>3, Zenon DEF Shift
  <2>2. /\ ring' \in Rings
        /\ Count(ring') = Count(ring) - n
        /\ \A i \in 0 .. Count(ring) - n - 1 : Entry(ring', i) = Entry(ring, n + i)
    BY <1>0, <2>1, ShiftFact, Zenon
  <2>3. ASSUME NEW i \in 0 .. Count(ring') - 1 PROVE Entry(ring', i) \in Data
    BY <2>2, <1>0, RingSizeFact
  <2>4. reply' \in [op : {"init", "insert", "shift", "get"}, overflow : -1 .. 1,
                    batch : Seq(Data)]
    BY <1>0, <2>1, FirstEntriesFact DEF Reply
  <2> QED BY <2>2, <2>3, <2>4, Zenon DEF OplogInv, OplogTypeOK, LiveSlotsWritten
<1>4. CASE Get
  <2>1. PICK n \in 0 .. Count(ring) :
            /\ ring' = ring
            /\ reply' = Reply("get", 0, FirstEntries(ring, n))
    BY <1>4, Zenon DEF Get
  <2>2. reply' \in [op : {"init", "insert", "shift", "get"}, overflow : -1 .. 1,
                    batch : Seq(Data)]
    BY <1>0, <2>1, FirstEntriesFact DEF Reply
  <2> QED BY <1>0, <2>1, <2>2, Zenon DEF OplogInv, OplogTypeOK, LiveSlotsWritten
<1>5. CASE UNCHANGED oplogVars
  BY <1>5, <1>0, Zenon DEF oplogVars, OplogInv, OplogTypeOK, LiveSlotsWritten
<1> QED
  BY <1>1, <1>2, <1>3, <1>4, <1>5, Zenon DEF OplogNext

\* Type correctness of the ring and of what its callers get.
THEOREM TypeCorrect == OplogSpec => []OplogTypeOK
<1>1. OplogInv => OplogTypeOK
  BY Zenon DEF OplogInv
<1> QED
  BY <1>1, InitInvariant, NextInvariant, PTL DEF OplogSpec

\* No reader of the ring meets a slot that was never written.
THEOREM LiveSlotsAreWritten == OplogSpec => []LiveSlotsWritten
<1>1. OplogInv => LiveSlotsWritten
  BY Zenon DEF OplogInv
<1> QED
  BY <1>1, InitInvariant, NextInvariant, PTL DEF OplogSpec

-----------------------------------------------------------------------------
\* An insert into the ring is an insert into the queue of its entries.
LEMMA InsertRefines ==
    ASSUME NEW r \in Rings, NEW d \in Data,
           \A i \in 0 .. Count(r) - 1 : Entry(r, i) \in Data
    PROVE  Entries(oplog_record_insert(r, d)) =
               IF Len(Entries(r)) = RingSize - 1 THEN Append(Tail(Entries(r)), d)
               ELSE Append(Entries(r), d)
<1> DEFINE q == oplog_record_insert(r, d)
           e == Entries(r)
           f == Entries(q)
<1>1. /\ q \in Rings
      /\ Count(q) = IF InsertResult(r) = 1 THEN Count(r) ELSE Count(r) + 1
      /\ Count(r) \in 0 .. RingSize - 1
      /\ Count(q) \in 0 .. RingSize - 1
      /\ InsertResult(r) = 1 <=> Count(r) = RingSize - 1
  BY InsertFact, CountFact, Zenon
<1>2. /\ e \in Seq(Data)
      /\ Len(e) = Count(r)
      /\ \A i \in 1 .. Count(r) : e[i] = Entry(r, i - 1)
  BY EntriesFact, Zenon
<1>3. \A i \in 0 .. Count(q) - 1 :
          Entry(q, i) = IF i = Count(q) - 1 THEN d
                        ELSE IF InsertResult(r) = 1 THEN Entry(r, i + 1)
                             ELSE Entry(r, i)
  BY InsertedEntries, Zenon
<1>4. \A i \in 0 .. Count(q) - 1 : Entry(q, i) \in Data
  <2> HIDE DEF q
  <2> QED BY <1>1, <1>3, RingSizeFact
<1>5. /\ f \in Seq(Data)
      /\ Len(f) = Count(q)
      /\ \A i \in 1 .. Count(q) : f[i] = Entry(q, i - 1)
  BY <1>1, <1>4, EntriesFact, Zenon
<1> HIDE DEF q, e, f
<1>6. CASE Count(r) = RingSize - 1
  <2>1. e # <<>>
    BY <1>2, <1>6, EmptySeq, RingSizeFact
  <2>2. /\ Tail(e) \in Seq(Data)
        /\ Len(Tail(e)) = Len(e) - 1
        /\ \A i \in 1 .. Len(Tail(e)) : Tail(e)[i] = e[i + 1]
    BY <1>2, <2>1, TailFact, Zenon
  <2> DEFINE g == Append(Tail(e), d)
  <2>3. /\ g \in Seq(Data)
        /\ Len(g) = Len(Tail(e)) + 1
        /\ \A i \in 1 .. Len(Tail(e)) : g[i] = Tail(e)[i]
        /\ g[Len(Tail(e)) + 1] = d
    BY <2>2, AppendFact
  <2> HIDE DEF g
  <2>4. ASSUME NEW i \in 1 .. Len(f) PROVE f[i] = g[i]
    <3>1. f[i] = Entry(q, i - 1) /\ i - 1 \in 0 .. Count(q) - 1
      BY <1>5, <1>1, RingSizeFact
    <3>2. CASE i = Count(q)
      BY <3>1, <3>2, <1>1, <1>2, <1>3, <1>6, <2>2, <2>3, RingSizeFact
    <3>3. CASE i # Count(q)
      <4>1. f[i] = Entry(r, i) /\ i + 1 \in 1 .. Count(r)
        BY <3>1, <3>3, <1>1, <1>3, <1>5, <1>6, RingSizeFact
      <4>2. g[i] = e[i + 1]
        BY <4>1, <1>2, <2>2, <2>3
      <4> QED BY <4>1, <4>2, <1>2
    <3> QED BY <3>2, <3>3, Zenon
  <2>5. f \in Seq(Data) /\ Len(f) = Len(g)
    BY <1>1, <1>2, <1>5, <1>6, <2>2, <2>3
  <2>6. f = g
    BY <2>3, <2>4, <2>5, SeqEqual, Zenon
  <2> QED BY <2>6, <1>2, <1>6, Zenon DEF g, e, f, q
<1>7. CASE Count(r) # RingSize - 1
  <2> DEFINE g == Append(e, d)
  <2>1. /\ g \in Seq(Data)
        /\ Len(g) = Len(e) + 1
        /\ \A i \in 1 .. Len(e) : g[i] = e[i]
        /\ g[Len(e) + 1] = d
    BY <1>2, AppendFact, SMTT(30)
  <2> HIDE DEF g
  <2>2. ASSUME NEW i \in 1 .. Len(f) PROVE f[i] = g[i]
    <3>1. f[i] = Entry(q, i - 1) /\ i - 1 \in 0 .. Count(q) - 1
      BY <1>5, <1>1, RingSizeFact
    <3>2. CASE i = Count(q)
      BY <3>1, <3>2, <1>1, <1>2, <1>3, <1>7, <2>1, RingSizeFact, Zenon
    <3>3. CASE i # Count(q)
      <4>1. f[i] = Entry(r, i - 1) /\ i \in 1 .. Count(r)
        BY <3>1, <3>3, <1>1, <1>3, <1>5, <1>7, RingSizeFact
      <4> QED BY <4>1, <1>2, <2>1, Zenon
    <3> QED BY <3>2, <3>3, Zenon
  <2>3. f = g
    BY <1>1, <1>2, <1>5, <1>7, <2>1, <2>2, SeqEqual, Zenon
  <2> QED BY <2>3, <1>2, <1>7, Zenon DEF g, e, f, q
<1> QED
  BY <1>6, <1>7, Zenon

\* A shift of the ring drops a prefix of the queue of its entries.
LEMMA ShiftRefines ==
    ASSUME NEW r \in Rings, NEW n \in 0 .. Count(r),
           \A i \in 0 .. Count(r) - 1 : Entry(r, i) \in Data
    PROVE  Entries(oplog_record_shift(r, n)) =
               SubSeq(Entries(r), n + 1, Len(Entries(r)))
<1> DEFINE q == oplog_record_shift(r, n)
           e == Entries(r)
           f == Entries(q)
           g == SubSeq(e, n + 1, Len(e))
<1>1. /\ q \in Rings
      /\ Count(q) = Count(r) - n
      /\ \A i \in 0 .. Count(r) - n - 1 : Entry(q, i) = Entry(r, n + i)
      /\ Count(r) \in Nat
  BY ShiftFact, CountFact, RingSizeFact
<1>2. /\ e \in Seq(Data)
      /\ Len(e) = Count(r)
      /\ \A i \in 1 .. Count(r) : e[i] = Entry(r, i - 1)
  BY EntriesFact, Zenon
<1>3. \A i \in 0 .. Count(q) - 1 : Entry(q, i) \in Data
  <2> HIDE DEF q
  <2> QED BY <1>1
<1>4. /\ f \in Seq(Data)
      /\ Len(f) = Count(q)
      /\ \A i \in 1 .. Count(q) : f[i] = Entry(q, i - 1)
  BY <1>1, <1>3, EntriesFact, Zenon
<1> HIDE DEF q, e, f
<1>5. \A i \in n + 1 .. Len(e) : e[i] \in Data
  BY <1>1, <1>2
<1>6. /\ g \in Seq(Data)
      /\ Len(g) = Len(e) - (n + 1) + 1
      /\ \A i \in 1 .. Len(e) - (n + 1) + 1 : g[i] = e[(n + 1) + i - 1]
  <2>1. n + 1 \in 1 .. Len(e) + 1 /\ Len(e) \in 0 .. Len(e) /\ n + 1 <= Len(e) + 1
    BY <1>1, <1>2
  <2> QED BY <1>2, <2>1, SubSeqFact, Zenon
<1> HIDE DEF g
<1>7. Len(f) = Len(g)
  BY <1>1, <1>2, <1>4, <1>6
<1>8. ASSUME NEW i \in 1 .. Len(f) PROVE f[i] = g[i]
  <2>1. f[i] = Entry(r, n + (i - 1))
    BY <1>1, <1>4
  <2>2. g[i] = e[n + i] /\ n + i \in 1 .. Count(r)
    BY <1>1, <1>2, <1>4, <1>6
  <2> QED BY <2>1, <2>2, <1>1, <1>2
<1>9. f = g
  BY <1>4, <1>6, <1>7, <1>8, SeqEqual, Zenon
<1> QED
  BY <1>9, Zenon DEF g, e, f, q

\* Nothing was collected before the loop started.
LEMMA NoBytes == \A r \in Rings : Bytes(r, 0) = 0
<1> TAKE r \in Rings
<1>1. Len(FirstEntries(r, 0)) = 0
  BY LogFact, BatchFact
<1> DEFINE Sum(f) == f = [i \in 0 .. 0 |->
                           IF i = 0 THEN 0 ELSE f[i - 1] + ByteLen[FirstEntries(r, 0)[i]]]
<1>2. Sum([i \in 0 .. 0 |-> 0])
  OBVIOUS
<1>3. Sum(CHOOSE f : Sum(f))
  BY <1>2, Zenon
<1>4. (CHOOSE f : Sum(f))[0] = 0
  BY <1>3
<1> QED
  BY <1>1, <1>4, Zenon DEF Bytes, Text

LEMMA InitRefines == OplogInit => Abstract!Init
<1> SUFFICES ASSUME OplogInit PROVE Abstract!Init
  BY Zenon
<1>1. ring \in Rings /\ Count(ring) = 0
  <2>1. ring \in Rings
    BY RingSizeFact DEF OplogInit, oplog_record_init, Rings, Slotted, Slots
  <2> QED BY <2>1, CountFact DEF OplogInit, oplog_record_init
<1>2. Entries(ring) \in Seq(Data) /\ Len(Entries(ring)) = 0
  BY <1>1, EntriesFact
<1>3. Entries(ring) = <<>>
  BY <1>2, EmptySeq
<1> QED
  BY <1>3, Zenon DEF OplogInit, Abstract!Init, Reply, Abstract!Reply

\* Every call on the ring is the same call on the queue.
LEMMA NextRefines == OplogInv /\ [OplogNext]_oplogVars => [Abstract!Next]_Abstract!vars
<1> SUFFICES ASSUME OplogInv, [OplogNext]_oplogVars PROVE [Abstract!Next]_Abstract!vars
  BY Zenon
<1>0. /\ ring \in Rings
      /\ \A i \in 0 .. Count(ring) - 1 : Entry(ring, i) \in Data
      /\ Count(ring) \in 0 .. RingSize - 1
      /\ InsertResult(ring) = 1 <=> Count(ring) = RingSize - 1
      /\ Entries(ring) \in Seq(Data)
      /\ Len(Entries(ring)) = Count(ring)
  BY CountFact, EntriesFact, Zenon DEF OplogInv, OplogTypeOK, LiveSlotsWritten
<1>1. ASSUME NEW d \in Data, Insert(d) PROVE Abstract!Next
  <2>1. Entries(ring)' = IF Len(Entries(ring)) = RingSize - 1
                         THEN Append(Tail(Entries(ring)), d)
                         ELSE Append(Entries(ring), d)
    <3>1. Entries(ring)' = Entries(oplog_record_insert(ring, d))
      BY <1>1, Zenon DEF Insert, Entries, Entry, Count
    <3> QED BY <3>1, <1>0, InsertRefines, Zenon
  <2>2. reply' = Reply("insert", IF Count(ring) = RingSize - 1 THEN 1 ELSE 0, <<>>)
    BY <1>0, <1>1, Zenon DEF Insert, InsertResult
  <2>3. Abstract!Insert(d)
    BY <1>0, <2>1, <2>2, Zenon DEF Abstract!Insert, Reply, Abstract!Reply
  <2> QED BY <2>3, Zenon DEF Abstract!Next
<1>2. CASE InsertFails
  <2>1. Entries(ring)' = Entries(ring)
    BY <1>2, Zenon DEF InsertFails, Entries, Entry, Count
  <2>2. Abstract!InsertFails
    BY <1>2, <2>1, Zenon DEF InsertFails, Abstract!InsertFails, Reply, Abstract!Reply
  <2> QED BY <2>2, Zenon DEF Abstract!Next
<1>3. CASE Shift
  <2>1. PICK n \in 0 .. Count(ring) :
            /\ ShiftStopsAfter(ring, n)
            /\ ring' = oplog_record_shift(ring, n)
            /\ reply' = Reply("shift", 0, FirstEntries(ring, n))
    BY <1>3, Zenon DEF Shift
  <2>2. Entries(ring)' = SubSeq(Entries(ring), n + 1, Len(Entries(ring)))
    <3>1. Entries(ring)' = Entries(oplog_record_shift(ring, n))
      BY <2>1, Zenon DEF Entries, Entry, Count
    <3> QED BY <3>1, <1>0, ShiftRefines, Zenon
  <2>3. Entries(ring) # <<>> => n > 0
    <3>1. Entries(ring) # <<>> => Count(ring) > 0
      BY <1>0, EmptySeq
    <3>2. CASE n = 0
      BY <3>1, <3>2, <2>1, <1>0, NoBytes, Zenon DEF ShiftStopsAfter
    <3> QED BY <3>2, <1>0
  <2>4. \/ Text(SubSeq(Entries(ring), 1, n)) <= SyncMaxBytes
        \/ Text(SubSeq(Entries(ring), 1, n - 1)) = 0
    BY <2>1, Zenon DEF ShiftStopsAfter, GetStopsAfter, Bytes, FirstEntries
  <2>5. /\ n \in 0 .. Len(Entries(ring))
        /\ reply' = Abstract!Reply("shift", 0, SubSeq(Entries(ring), 1, n))
    BY <1>0, <2>1, Zenon DEF Reply, Abstract!Reply, FirstEntries
  <2>6. Abstract!Shift
    BY <2>2, <2>3, <2>4, <2>5, Zenon DEF Abstract!Shift
  <2> QED BY <2>6, Zenon DEF Abstract!Next
<1>4. CASE Get
  <2>1. PICK n \in 0 .. Count(ring) :
            /\ GetStopsAfter(ring, n)
            /\ ring' = ring
            /\ reply' = Reply("get", 0, FirstEntries(ring, n))
    BY <1>4, Zenon DEF Get
  <2>2. Entries(ring)' = Entries(ring)
    BY <2>1, Zenon DEF Entries, Entry, Count
  <2>3. Text(SubSeq(Entries(ring), 1, n)) <= SyncMaxBytes
    BY <2>1, Zenon DEF GetStopsAfter, Bytes, FirstEntries
  <2>4. Abstract!Get
    BY <1>0, <2>1, <2>2, <2>3, Zenon DEF Abstract!Get, Reply, Abstract!Reply, FirstEntries
  <2> QED BY <2>4, Zenon DEF Abstract!Next
<1>5. CASE UNCHANGED oplogVars
  BY <1>5, Zenon DEF oplogVars, Abstract!vars, Entries, Entry, Count
<1> QED
  BY <1>1, <1>2, <1>3, <1>4, <1>5, Zenon DEF OplogNext

\* The ring of oplog_record_insert, oplog_record_shift_string and
\* oplog_record_get_string implements the bounded queue, whatever its size, the
\* budget and the lengths of the entries.
THEOREM RingImplementsBoundedLog == OplogSpec => ImplementsBoundedLog
<1>1. OplogInit => OplogInv
  BY InitInvariant, Zenon
<1>2. OplogInv /\ [OplogNext]_oplogVars => OplogInv'
  BY NextInvariant, Zenon
<1>3. OplogInit => Abstract!Init
  BY InitRefines, Zenon
<1>4. OplogInv /\ [OplogNext]_oplogVars => [Abstract!Next]_Abstract!vars
  BY NextRefines, Zenon
<1> QED
  BY <1>1, <1>2, <1>3, <1>4, PTL DEF OplogSpec, ImplementsBoundedLog, Abstract!Spec
=============================================================================
