----------------------------- MODULE ExpireTree -----------------------------
(***************************************************************************)
(* Expiry of the series of a namespace: a timing wheel of four levels.     *)
(* Level 0 has a slot for each second, a slot of level i covers a span of  *)
(* Span(i - 1) seconds, and the list `far` takes what is beyond level 3.   *)
(* Cursors and keys are seconds of the wall clock, which may be set back.  *)
(*                                                                         *)
(* The slot of a node follows from its level and its key.  The list `far`  *)
(* is sorted by key, so that its nodes are told apart by their keys alone. *)
(* A purge holds the locks of both trees: no other step comes between its  *)
(* own, and the walk is one step per second.                               *)
(***************************************************************************)
EXTENDS Integers, FiniteSets

CONSTANTS
    Series,      \* label sets
    Span0,       \* slots of level 0: 256
    LvnSize,     \* slots of the other levels: 64
    Clock,       \* seconds that the wall clock may show
    Ttls,        \* times to live that are configured
    Never,       \* INT64_MAX - UINT32_MAX: the time to live of what never expires
    MaxSeries    \* max_series of the namespace

ASSUME ExpireAssumption ==
    /\ Span0 \in Nat \ {0}
    /\ LvnSize \in Nat \ {0, 1}
    /\ Clock \subseteq Nat \ {0}
    /\ Ttls \subseteq Nat \ {0}
    /\ Never \in Nat
    /\ MaxSeries \in Nat

Span1 == Span0 * LvnSize
Span2 == Span1 * LvnSize
Span3 == Span2 * LvnSize

VARIABLES
    key,        \* key[s]: expire_node->key of the series
    level,      \* level[s]: its list, "none" for a series that is not there
    cursor,     \* the second that the wheel has reached, 0 before the first purge
    phase,      \* how far the purge is
    purging     \* its second, 0 when there is none

vars == <<key, level, cursor, phase, purging>>

Levels == {"none", "due", "lv0", "lv1", "lv2", "lv3", "far"}
There == {s \in Series : level[s] # "none"}

Init ==
    /\ key = [s \in Series |-> 0]
    /\ level = [s \in Series |-> "none"]
    /\ cursor = 0
    /\ phase = "idle"
    /\ purging = 0
-----------------------------------------------------------------------------
\* expire_schedule: the list of a key that is delta seconds ahead.
Level(delta) ==
    IF delta <= 0 THEN "due"
    ELSE IF delta < Span0 THEN "lv0"
    ELSE IF delta < Span1 THEN "lv1"
    ELSE IF delta < Span2 THEN "lv2"
    ELSE IF delta < Span3 THEN "lv3"
    ELSE "far"

Slot(k, span) == (k \div span) % LvnSize

\* The nodes of S are taken off their lists and scheduled anew.
Rescheduled(S, base) ==
    [s \in Series |-> IF s \in S THEN Level(key[s] - base) ELSE level[s]]

expire_base(now) == IF cursor > 0 THEN cursor ELSE now

expire_arm(s, k, now) ==
    /\ key' = [key EXCEPT ![s] = k]
    /\ level' = [level EXCEPT ![s] = Level(k - expire_base(now))]
-----------------------------------------------------------------------------
\* A series that never expires keeps the key it has while that is ahead.
metric_refresh_expire(s, now, ttl) ==
    IF key[s] = now + ttl \/ (ttl >= Never /\ key[s] > now)
    THEN UNCHANGED <<key, level>>
    ELSE expire_arm(s, now + ttl, now)

metric_upsert(s, now, ttl) ==
    /\ phase = "idle"
    /\ IF s \in There
       THEN metric_refresh_expire(s, now, ttl)
       ELSE /\ Cardinality(There) < MaxSeries
            /\ expire_arm(s, now + ttl, now)
    /\ UNCHANGED <<cursor, phase, purging>>

\* The red-black tree removes a node of its own choice: the series that was
\* there moves into the node of s, and is armed again with its own key.
metric_delete(s, now) ==
    /\ phase = "idle"
    /\ s \in There
    /\ \E moved \in SUBSET (There \ {s}) :
          /\ Cardinality(moved) <= 1
          /\ level' = [Rescheduled(moved, expire_base(now)) EXCEPT ![s] = "none"]
    /\ key' = [key EXCEPT ![s] = 0]
    /\ UNCHANGED <<cursor, phase, purging>>

\* expire_purge of INT64_MAX drains every list.
expire_drain_all ==
    /\ phase = "idle"
    /\ key' = [s \in Series |-> 0]
    /\ level' = [s \in Series |-> "none"]
    /\ UNCHANGED <<cursor, phase, purging>>
-----------------------------------------------------------------------------
\* Mutant: a long jump moves the cursor past the slots in between.
jump_moves_cursor_only(now) ==
    /\ phase = "idle"
    /\ purging' = now
    /\ cursor' = IF cursor = 0 \/ now - cursor > Span1 \/ now < cursor THEN now ELSE cursor
    /\ phase' = IF cursor' = now THEN "collect" ELSE "walk"
    /\ UNCHANGED <<key, level>>

\* expire_wheel_advance, up to its loop: a first call or a long jump rebuilds the
\* wheel, and a step back moves the cursor only.
expire_purge(now) ==
    /\ phase = "idle"
    /\ purging' = now
    /\ IF cursor = 0 \/ now - cursor > Span1
       THEN /\ cursor' = now
            /\ level' = Rescheduled(There, now)
            /\ phase' = "collect"
       ELSE /\ cursor' = IF now < cursor THEN now ELSE cursor
            /\ phase' = IF now < cursor THEN "collect" ELSE "walk"
            /\ UNCHANGED level
    /\ UNCHANGED key

\* Nodes in the slots of levels 1 to 3 that open at second c.  A node that one of
\* the three loops puts into a slot of the next is scheduled at the same second
\* again, and comes to the same level: the loops are one set here.
Opened(c) ==
    {s \in Series :
       \/ level[s] = "lv1" /\ c % Span0 = 0 /\ Slot(key[s], Span0) = Slot(c, Span0)
       \/ level[s] = "lv2" /\ c % Span1 = 0 /\ Slot(key[s], Span1) = Slot(c, Span1)
       \/ level[s] = "lv3" /\ c % Span2 = 0 /\ Slot(key[s], Span2) = Slot(c, Span2)}

\* One second of the walk: cascade, then empty the slot of level 0.
WalkSecond ==
    /\ phase = "walk"
    /\ cursor < purging
    /\ LET c == cursor + 1
           cascaded == Rescheduled(Opened(c), c)
       IN /\ cursor' = c
          /\ level' = [s \in Series |->
                IF cascaded[s] = "lv0" /\ key[s] % Span0 = c % Span0
                THEN IF key[s] <= purging THEN "due" ELSE Level(key[s] - c)
                ELSE cascaded[s]]
    /\ UNCHANGED <<key, phase, purging>>

\* The head of `far` is taken while it is within the horizon.
CascadeFar ==
    /\ phase = "walk"
    /\ cursor = purging
    /\ level' = Rescheduled({s \in Series : level[s] = "far" /\ key[s] - cursor < Span3}, cursor)
    /\ phase' = "collect"
    /\ UNCHANGED <<key, cursor, purging>>

\* Mutant: all that is on `due` is deleted, its key not looked at again.
collect_all_due ==
    LET due == {s \in Series : level[s] = "due"} IN
    /\ phase = "collect"
    /\ key' = [s \in Series |-> IF s \in due THEN 0 ELSE key[s]]
    /\ level' = [s \in Series |-> IF s \in due THEN "none" ELSE level[s]]
    /\ phase' = "idle"
    /\ purging' = 0
    /\ UNCHANGED cursor

\* The rest of expire_purge: what is due and over is deleted, what is due and not
\* over goes back to the wheel.
Collect ==
    LET due == {s \in Series : level[s] = "due"}
        expired == {s \in due : key[s] <= purging}
    IN
    /\ phase = "collect"
    /\ key' = [s \in Series |-> IF s \in expired THEN 0 ELSE key[s]]
    /\ \E moved \in SUBSET (There \ expired) :
          /\ Cardinality(moved) <= Cardinality(expired)
          /\ level' = [s \in Series |->
                IF s \in expired THEN "none"
                                 ELSE Rescheduled(due \cup moved, cursor)[s]]
    /\ phase' = "idle"
    /\ purging' = 0
    /\ UNCHANGED cursor

Next ==
    \/ \E s \in Series, now \in Clock :
          \/ \E ttl \in Ttls : metric_upsert(s, now, ttl)
          \/ metric_delete(s, now)
    \/ expire_drain_all
    \/ \E now \in Clock : expire_purge(now)
    \/ WalkSecond
    \/ CascadeFar
    \/ Collect

Spec == Init /\ [][Next]_vars
-----------------------------------------------------------------------------
TypeOK ==
    /\ key \in [Series -> Nat]
    /\ level \in [Series -> Levels]
    /\ cursor \in Nat
    /\ phase \in {"idle", "walk", "collect"}
    /\ purging \in {0} \cup Clock
    /\ phase = "idle" <=> purging = 0

\* The second at which the slot of key k opens, on a level of that span.
Opens(k, span) == span * (k \div span)

\* A node is in a slot that the cursor has yet to reach, and that it reaches no
\* later than the key of the node: also after the clock was set back, a long
\* jump, or any number of cascades.  What is on `far` is beyond the horizon, and
\* beyond the end of a walk.
NoneMissed ==
    \A s \in Series :
        /\ level[s] = "lv0" => key[s] > cursor
        /\ level[s] = "lv1" => Opens(key[s], Span0) > cursor
        /\ level[s] = "lv2" => Opens(key[s], Span1) > cursor
        /\ level[s] = "lv3" => Opens(key[s], Span2) > cursor
        /\ level[s] = "far" =>
              IF phase = "walk" THEN key[s] > purging ELSE key[s] - cursor >= Span3

\* The deadlines that the wheel keeps.
D == INSTANCE Deadlines WITH deadline <- key

\* The wheel is as good as a table of deadlines: a purge takes every series
\* whose key has come, never one whose key is ahead.
ImplementsDeadlines == D!Spec
=============================================================================
