-------------------------- MODULE ReplicationProofs -------------------------
(* The totals of the two ends of every log agree, for any number of servers, *)
(* ring size, size of an answer, and number of samples and timeouts.         *)
EXTENDS Replication, OplogRingProofs, FiniteSetTheorems, TLAPS

\* The lines of the logs are the entries of OplogRing.
LEMMA LogLines == Data = Records
  BY ReplicationAssumption, Zenon

LEMMA InsertCount ==
    ASSUME NEW r \in Rings, NEW d \in Records
    PROVE  /\ oplog_record_insert(r, d) \in Rings
           /\ Count(oplog_record_insert(r, d)) =
                  IF InsertResult(r) = 1 THEN Count(r) ELSE Count(r) + 1
  BY LogLines, InsertFact, Zenon

LEMMA ShiftCount ==
    ASSUME NEW r \in Rings, NEW k \in 0 .. Count(r)
    PROVE  oplog_record_shift(r, k) \in Rings /\ Count(oplog_record_shift(r, k)) = Count(r) - k
  BY ShiftFact, Zenon

-----------------------------------------------------------------------------
\* Only an answer carries entries.
OnlyAnswers ==
    \A n, p \in Servers : sync[n][p].state # "answer" => sync[n][p].batch = <<>>

\* The totals of n's log for p.
Agree(n, p) ==
    /\ stats[n][p].enqueued = Count(rings[n][p]) + Len(sync[p][n].batch)
                                 + LinesRead(stats[p][n]) + Len(gone[n][p])
    /\ stats[n][p].overflow <= Len(gone[n][p])

IInv == TypeOK /\ OnlyAnswers /\ TotalsAgree

LEMMA TotalsByLog == TotalsAgree <=> (restarts = 0 => \A n, p \in Servers : Agree(n, p))
  BY Zenon DEF TotalsAgree, Agree

LEMMA InitHolds == Init => IInv
<1> SUFFICES ASSUME Init PROVE IInv
  BY Zenon
<1>1. <<>> \in Seq(Slotted) /\ Len(<<>>) = 0
  BY EmptySeq, Zenon
<1>2. Idle \in Syncs
  BY <1>1, Zenon DEF Idle, Syncs
<1>3. ZeroStats \in Totals
  BY Zenon DEF ZeroStats, Totals
<1>4. TypeOK
  BY <1>1, <1>2, <1>3, InitRing, EmptySeq, Zenon DEF Init, TypeOK, Passes
<1>5. OnlyAnswers
  BY Zenon DEF Init, OnlyAnswers, Idle
<1>6. ASSUME NEW n \in Servers, NEW p \in Servers PROVE Agree(n, p)
  <2>1. LinesRead(ZeroStats) = 0 /\ ZeroStats.enqueued = 0 /\ ZeroStats.overflow = 0
    BY DEF LinesRead, ZeroStats
  <2>2. /\ stats[n][p] = ZeroStats /\ stats[p][n] = ZeroStats /\ gone[n][p] = <<>>
        /\ sync[p][n].batch = <<>> /\ Count(rings[n][p]) = 0
    BY InitRing, Zenon DEF Init, Idle
  <2> QED
    BY <1>1, <2>1, <2>2 DEF Agree
<1> QED
  BY <1>4, <1>5, <1>6, TotalsByLog, Zenon DEF IInv

\* Steps that touch neither logs nor answers.
LEMMA SameLogs ==
    ASSUME IInv, UNCHANGED <<rings, stats, gone, sync, restarts>>,
           samples' \in Seq([origin : Servers, series : Series]),
           pass' \in [Servers -> Passes]
    PROVE  IInv'
<1>1. TypeOK'
  BY Zenon DEF IInv, TypeOK
<1>2. OnlyAnswers'
  BY Zenon DEF IInv, OnlyAnswers
<1>3. TotalsAgree'
  BY Zenon DEF IInv, TotalsAgree, Count, LinesRead
<1> QED
  BY <1>1, <1>2, <1>3, Zenon DEF IInv

LEMMA PushHolds ==
    ASSUME IInv, NEW n \in Servers, NEW s \in Series, Push(n, s)
    PROVE  IInv'
<1>1. samples \in Seq([origin : Servers, series : Series]) /\ Len(samples) \in Nat
  BY DEF IInv, TypeOK
<1>2. [origin |-> n, series |-> s] \in [origin : Servers, series : Series]
  BY Zenon
<1>3. /\ samples' \in Seq([origin : Servers, series : Series])
      /\ Len(samples') = Len(samples) + 1
  BY <1>1, <1>2, AppendFact, Zenon DEF Push
<1>4. Len(samples') \in 1 .. MaxSamples
  BY <1>1, <1>3, ReplicationAssumption DEF Push
<1>5. [id |-> Len(samples'), series |-> s, i |-> IF Primary[s] = n THEN 1 ELSE 0] \in Passes
  BY <1>4, Zenon DEF Passes
<1>6. pass' \in [Servers -> Passes]
  BY <1>5, Zenon DEF Push, IInv, TypeOK
<1> QED
  BY <1>3, <1>6, SameLogs, Zenon DEF Push, logVars, syncVars

LEMMA PassReturnsHolds ==
    ASSUME IInv, NEW n \in Servers, PassReturns(n)
    PROVE  IInv'
<1>1. pass' \in [Servers -> Passes]
  BY Zenon DEF PassReturns, IInv, TypeOK, Passes
<1>2. samples' \in Seq([origin : Servers, series : Series])
  BY Zenon DEF PassReturns, IInv, TypeOK
<1> QED
  BY <1>1, <1>2, SameLogs, Zenon DEF PassReturns, logVars, syncVars

\* One cell of a table by servers is written.
LEMMA Cell ==
    ASSUME NEW T, NEW f \in [Servers -> [Servers -> T]], NEW a \in Servers, NEW b \in Servers,
           NEW v \in T, NEW g, g = [f EXCEPT ![a][b] = v]
    PROVE  /\ g \in [Servers -> [Servers -> T]]
           /\ g[a][b] = v
           /\ \A c, d \in Servers : c # a \/ d # b => g[c][d] = f[c][d]
  BY Zenon

\* The step leaves the log of a for b, and its totals, as they are.
Unaffected(a, b) ==
    /\ rings'[a][b] = rings[a][b] /\ gone'[a][b] = gone[a][b]
    /\ sync'[b][a].batch = sync[b][a].batch
    /\ LinesRead(stats'[b][a]) = LinesRead(stats[b][a])
    /\ stats'[a][b].enqueued = stats[a][b].enqueued
    /\ stats'[a][b].overflow = stats[a][b].overflow

\* Steps that only change the totals, the log and the answer of one pair of servers.
LEMMA OnePair ==
    ASSUME IInv, TypeOK', OnlyAnswers', UNCHANGED restarts,
           NEW n \in Servers, NEW p \in Servers, restarts = 0 => Agree(n, p)',
           \A a, b \in Servers : a # n \/ b # p => Unaffected(a, b)
    PROVE  IInv'
<1>1. ASSUME restarts' = 0, NEW a \in Servers, NEW b \in Servers PROVE Agree(a, b)'
  <2>1. CASE a = n /\ b = p
    BY <1>1, <2>1, Zenon
  <2>2. CASE a # n \/ b # p
    <3>1. Agree(a, b)
      BY <1>1, TotalsByLog, Zenon DEF IInv
    <3> QED
      BY <2>2, <3>1 DEF Agree, Count, LinesRead, Unaffected
  <2> QED
    BY <2>1, <2>2, Zenon
<1>2. TotalsAgree'
  BY <1>1, Zenon DEF TotalsAgree, Agree
<1> QED
  BY <1>2, Zenon DEF IInv

\* The totals after an insert and after an answer.
LEMMA TotalsType ==
    ASSUME NEW t \in Totals
    PROVE  /\ t.enqueued \in Nat /\ t.overflow \in Nat /\ t.applied \in Nat
           /\ t.skipped \in Nat /\ LinesRead(t) \in Nat
<1>1. t.enqueued \in Nat /\ t.overflow \in Nat /\ t.applied \in Nat /\ t.skipped \in Nat
  BY Zenon DEF Totals
<1> QED
  BY <1>1 DEF LinesRead

LEMMA Enqueued ==
    ASSUME NEW t \in Totals, NEW x \in Nat, NEW u,
           u = [t EXCEPT !.enqueued = t.enqueued + 1, !.overflow = t.overflow + x]
    PROVE  /\ t.enqueued \in Nat /\ t.overflow \in Nat /\ LinesRead(t) \in Nat
           /\ u \in Totals /\ u.enqueued = t.enqueued + 1
           /\ u.overflow = t.overflow + x /\ LinesRead(u) = LinesRead(t)
<1> DEFINE v == [t EXCEPT !.enqueued = t.enqueued + 1]
<1>1. v \in Totals /\ t.overflow + x \in Nat
  BY DEF Totals
<1>2. u = [v EXCEPT !.overflow = t.overflow + x]
  BY Zenon
<1>3. u \in Totals
  <2> HIDE DEF v
  <2> QED
    BY <1>1, <1>2, Zenon DEF Totals
<1>4. u.enqueued = t.enqueued + 1
  BY Zenon DEF Totals
<1>5. u.overflow = t.overflow + x
  BY Zenon DEF Totals
<1>6. u.applied = t.applied /\ u.skipped = t.skipped
  BY Zenon DEF Totals
<1> QED
  BY <1>3, <1>4, <1>5, <1>6, TotalsType, Zenon DEF LinesRead

\* The totals t after x lines that were applied and y that were skipped.
Counted(t, x, y) == [t EXCEPT !.applied = t.applied + x, !.skipped = t.skipped + y]

LEMMA AppliedTotal ==
    ASSUME NEW t \in Totals, NEW x \in Nat, NEW y \in Nat
    PROVE  \E u \in Totals :
               /\ u = Counted(t, x, y) /\ u.enqueued = t.enqueued /\ u.overflow = t.overflow
               /\ LinesRead(u) = LinesRead(t) + (x + y)
<1>1. PICK u : u = Counted(t, x, y)
  BY Zenon
<1> DEFINE v == [t EXCEPT !.applied = t.applied + x]
<1>2. v \in Totals /\ t.skipped + y \in Nat
  BY DEF Totals
<1>3. u = [v EXCEPT !.skipped = t.skipped + y]
  BY <1>1, Zenon DEF Counted
<1>4. u \in Totals
  <2> HIDE DEF v
  <2> QED
    BY <1>2, <1>3, Zenon DEF Totals
<1>5. u.enqueued = t.enqueued /\ u.overflow = t.overflow
  BY <1>1, Zenon DEF Totals, Counted
<1>6. u.applied = t.applied + x /\ u.skipped = t.skipped + y
  BY <1>1, Zenon DEF Totals, Counted
<1>7. LinesRead(u) = LinesRead(t) + (x + y)
  <2>1. t.applied \in Nat /\ t.skipped \in Nat
    BY TotalsType, Zenon
  <2> QED
    BY <1>6, <2>1 DEF LinesRead
<1> QED
  BY <1>1, <1>4, <1>5, <1>7, Zenon

\* Every line is applied or skipped.
LEMMA AppliedOrSkipped ==
    ASSUME NEW lines \in Seq(Slotted)
    PROVE  /\ Applied(lines) \in Nat /\ Skipped(lines) \in Nat
           /\ Applied(lines) + Skipped(lines) = Len(lines)
<1> DEFINE fit == {k \in DOMAIN lines : lines[k] \notin Unfit}
           unfit == {k \in DOMAIN lines : lines[k] \in Unfit}
<1>1. Len(lines) \in Nat /\ DOMAIN lines = 1 .. Len(lines)
  BY LenFact
<1>2. IsFiniteSet(1 .. Len(lines)) /\ Cardinality(1 .. Len(lines)) = Len(lines)
  <2>1. /\ IsFiniteSet(1 .. Len(lines))
        /\ Cardinality(1 .. Len(lines)) = IF 1 > Len(lines) THEN 0 ELSE Len(lines) - 1 + 1
    BY <1>1, FS_Interval
  <2> QED
    BY <1>1, <2>1
<1>3. fit \cup unfit = 1 .. Len(lines) /\ fit \cap unfit = {}
  BY <1>1, Zenon
<1>4. IsFiniteSet(fit) /\ IsFiniteSet(unfit)
  BY <1>2, <1>3, FS_Subset, Zenon
<1>5. Cardinality(fit) \in Nat /\ Cardinality(unfit) \in Nat
  BY <1>4, FS_CardinalityType, Zenon
<1>6. Cardinality(fit \cup unfit) = Cardinality(fit) + Cardinality(unfit)
  <2>1. /\ Cardinality(fit \cup unfit) =
               Cardinality(fit) + Cardinality(unfit) - Cardinality(fit \cap unfit)
        /\ Cardinality({}) = 0
    BY <1>4, FS_Union, FS_EmptySet, Zenon
  <2>2. PICK a \in Nat, b \in Nat : a = Cardinality(fit) /\ b = Cardinality(unfit)
    BY <1>5, Zenon
  <2>3. Cardinality(fit \cup unfit) = a + b - 0
    BY <1>3, <2>1, <2>2, Zenon
  <2>4. a + b - 0 = a + b
    OBVIOUS
  <2> QED
    BY <2>2, <2>3, <2>4, Zenon
<1> QED
  BY <1>2, <1>3, <1>5, <1>6, Zenon DEF Applied, Skipped

LEMMA PassRoundHolds ==
    ASSUME IInv, NEW n \in Servers, PassRound(n)
    PROVE  IInv'
<1>1. /\ pass[n] \in [id : 1 .. MaxSamples, series : Series, i : Nat]
      /\ pass' = [pass EXCEPT ![n].i = pass[n].i + 1]
      /\ UNCHANGED <<samples, sync, restarts>>
  BY Zenon DEF PassRound, IInv, TypeOK, Passes, syncVars
<1>2. pass' \in [Servers -> Passes]
  <2>1. [pass[n] EXCEPT !.i = pass[n].i + 1] \in [id : 1 .. MaxSamples, series : Series, i : Nat]
    BY <1>1
  <2>2. pass' = [pass EXCEPT ![n] = [pass[n] EXCEPT !.i = pass[n].i + 1]]
    BY <1>1, Zenon DEF IInv, TypeOK
  <2> QED
    BY <2>1, <2>2, Zenon DEF IInv, TypeOK, Passes
<1>3. PICK peer \in Servers : peer = (Primary[pass[n].series] + pass[n].i) % N
  <2>1. Primary[pass[n].series] \in Servers /\ N \in Nat \ {0} /\ pass[n].i \in Nat
    BY <1>1, ReplicationAssumption, Zenon
  <2> QED
    BY <2>1 DEF Servers
<1>4. CASE peer = n
  <2>1. UNCHANGED logVars
    BY <1>3, <1>4, Zenon DEF PassRound
  <2> QED
    BY <1>1, <1>2, <2>1, SameLogs, Zenon DEF logVars, IInv, TypeOK
<1>5. CASE peer # n
  <2>1. PICK r \in Rings, t \in Totals, old \in Seq(Slotted), d \in Records, evicted \in {0, 1} :
            /\ r = rings[n][peer] /\ t = stats[n][peer] /\ old = gone[n][peer]
            /\ d = RecordOf(n) /\ evicted = InsertResult(r)
    <3>1. /\ rings[n][peer] \in Rings /\ stats[n][peer] \in Totals
          /\ gone[n][peer] \in Seq(Slotted)
      BY Zenon DEF IInv, TypeOK
    <3>2. RecordOf(n) \in Records
      BY <1>1 DEF RecordOf, Records
    <3> QED
      BY <3>1, <3>2, LogFact, Zenon
  <2> DEFINE q == oplog_record_insert(r, d)
             u == [t EXCEPT !.enqueued = t.enqueued + 1, !.overflow = t.overflow + evicted]
             g == IF evicted = 1 THEN Append(old, Entry(r, 0)) ELSE old
  <2>2. /\ rings' = [rings EXCEPT ![n][peer] = q]
        /\ stats' = [stats EXCEPT ![n][peer] = u]
        /\ gone' = [gone EXCEPT ![n][peer] = g]
    <3>1. /\ rings' = [rings EXCEPT ![n][peer] = oplog_record_insert(rings[n][peer], RecordOf(n))]
          /\ stats' = [stats EXCEPT ![n][peer].enqueued = @ + 1,
                                    ![n][peer].overflow = @ + InsertResult(rings[n][peer])]
          /\ gone' = [gone EXCEPT ![n][peer] =
                 IF InsertResult(rings[n][peer]) = 1 THEN Append(@, Entry(rings[n][peer], 0)) ELSE @]
      BY <1>3, <1>5, Zenon DEF PassRound
    <3> QED
      BY <2>1, <3>1, Zenon DEF IInv, TypeOK
  <2>3. /\ q \in Rings
        /\ Count(q) = IF evicted = 1 THEN Count(r) ELSE Count(r) + 1
        /\ Count(r) \in Nat
    BY <2>1, InsertCount, LogFact, Zenon
  <2>4. /\ u \in Totals /\ u.enqueued = t.enqueued + 1
        /\ u.overflow = t.overflow + evicted /\ LinesRead(u) = LinesRead(t)
        /\ t.overflow \in Nat /\ t.enqueued \in Nat
    <3>1. evicted \in Nat
      OBVIOUS
    <3>2. u = [t EXCEPT !.enqueued = t.enqueued + 1, !.overflow = t.overflow + evicted]
      BY Zenon
    <3> HIDE DEF u
    <3> QED
      BY <3>1, <3>2, Enqueued, ZenonT(30)
  <2>5. g \in Seq(Slotted) /\ Len(g) = Len(old) + evicted /\ Len(old) \in Nat
    <3>1. Entry(r, 0) \in Slotted
      BY <2>3, EntryType
    <3> QED
      BY <3>1, AppendFact, LenFact
  <2> HIDE DEF q, u, g
  <2>6. /\ rings' \in [Servers -> [Servers -> Rings]]
        /\ rings'[n][peer] = q
        /\ \A a, b \in Servers : a # n \/ b # peer => rings'[a][b] = rings[a][b]
    BY <2>2, <2>3, Cell, SMTT(30) DEF IInv, TypeOK
  <2>7. /\ stats' \in [Servers -> [Servers -> Totals]]
        /\ stats'[n][peer] = u
        /\ \A a, b \in Servers : a # n \/ b # peer => stats'[a][b] = stats[a][b]
    BY <2>2, <2>4, Cell, Zenon DEF IInv, TypeOK
  <2>8. /\ gone' \in [Servers -> [Servers -> Seq(Slotted)]]
        /\ gone'[n][peer] = g
        /\ \A a, b \in Servers : a # n \/ b # peer => gone'[a][b] = gone[a][b]
    BY <2>2, <2>5, Cell, SMTT(30) DEF IInv, TypeOK
  <2>9. TypeOK'
    BY <1>1, <1>2, <2>6, <2>7, <2>8, Zenon DEF IInv, TypeOK
  <2>10. OnlyAnswers'
    BY <1>1, Zenon DEF IInv, OnlyAnswers
  <2>11. \A a, b \in Servers : LinesRead(stats'[a][b]) = LinesRead(stats[a][b])
    BY <2>1, <2>4, <2>7, Zenon
  <2>12. ASSUME restarts = 0 PROVE Agree(n, peer)'
    <3>1. Agree(n, peer)
      BY <2>12, TotalsByLog, Zenon DEF IInv
    <3>2. PICK batched \in Nat, applied \in Nat :
              batched = Len(sync[peer][n].batch) /\ applied = LinesRead(stats[peer][n])
      <4>1. sync[peer][n] \in Syncs /\ stats[peer][n] \in Totals
        BY Zenon DEF IInv, TypeOK
      <4> QED
        BY <4>1, LenFact, TotalsType, Zenon DEF Syncs
    <3>3. /\ t.enqueued = Count(r) + batched + applied + Len(old)
          /\ t.overflow <= Len(old)
      BY <2>1, <3>1, <3>2, Zenon DEF Agree
    <3>4. u.enqueued = Count(q) + batched + applied + Len(g) /\ u.overflow <= Len(g)
      <4>1. CASE evicted = 1
        <5>1. Count(q) = Count(r) /\ Len(g) = Len(old) + 1 /\ u.overflow = t.overflow + 1
          BY <2>3, <2>4, <2>5, <4>1, Zenon
        <5> QED
          BY <2>3, <2>4, <2>5, <3>3, <5>1
      <4>2. CASE evicted = 0
        <5>1. Count(q) = Count(r) + 1 /\ Len(g) = Len(old) /\ u.overflow = t.overflow
          BY <2>3, <2>4, <2>5, <4>2
        <5> QED
          BY <2>3, <2>4, <2>5, <3>3, <5>1
      <4> QED
        BY <4>1, <4>2, Zenon
    <3>5. /\ stats'[n][peer].enqueued = Count(rings'[n][peer]) + Len(sync'[peer][n].batch)
                                           + LinesRead(stats'[peer][n]) + Len(gone'[n][peer])
          /\ stats'[n][peer].overflow <= Len(gone'[n][peer])
      BY <1>1, <2>6, <2>7, <2>8, <2>11, <3>2, <3>4, Zenon
    <3> QED
      BY <3>5, Zenon DEF Agree, Count, LinesRead
  <2>13. \A a, b \in Servers : a # n \/ b # peer => Unaffected(a, b)
    BY <1>1, <2>6, <2>7, <2>8, <2>11, ZenonT(30) DEF Unaffected
  <2> QED
    BY <1>1, <2>9, <2>10, <2>12, <2>13, OnePair, Zenon
<1> QED
  BY <1>4, <1>5, Zenon

\* A step of n's client for p that leaves logs and totals alone.
LEMMA RequestHolds ==
    ASSUME IInv, NEW n \in Servers, NEW p \in Servers, SyncRequest(n, p)
    PROVE  IInv'
<1>1. /\ sync[n][p] = Idle /\ sync' = [sync EXCEPT ![n][p].state = "request"]
      /\ UNCHANGED <<samples, pass, rings, stats, gone, restarts>>
  BY Zenon DEF SyncRequest, logVars
<1>2. PICK v \in Syncs : v = [state |-> "request", batch |-> <<>>]
  BY EmptySeq, Zenon DEF Syncs
<1>3. sync' = [sync EXCEPT ![n][p] = v]
  <2>1. [Idle EXCEPT !.state = "request"] = v
    BY <1>2 DEF Idle
  <2>2. sync' = [sync EXCEPT ![n][p] = [sync[n][p] EXCEPT !.state = "request"]]
    BY <1>1, Zenon DEF IInv, TypeOK
  <2> QED
    BY <1>1, <2>1, <2>2, Zenon
<1>4. /\ sync' \in [Servers -> [Servers -> Syncs]]
      /\ sync'[n][p] = v
      /\ \A a, b \in Servers : a # n \/ b # p => sync'[a][b] = sync[a][b]
  BY <1>3, Cell, SMTT(30) DEF IInv, TypeOK
<1>5. \A a, b \in Servers : sync'[a][b].batch = sync[a][b].batch
  BY <1>1, <1>2, <1>4, Zenon DEF Idle
<1>6. TypeOK'
  BY <1>1, <1>4, Zenon DEF IInv, TypeOK
<1>7. OnlyAnswers'
  BY <1>2, <1>4 DEF IInv, OnlyAnswers
<1>8. ASSUME restarts = 0 PROVE Agree(p, n)'
  <2>1. Agree(p, n)
    BY <1>8, TotalsByLog, Zenon DEF IInv
  <2> QED
    BY <1>1, <1>5, <2>1, Zenon DEF Agree, Count, LinesRead
<1>9. \A a, b \in Servers : a # p \/ b # n => Unaffected(a, b)
  BY <1>1, <1>5, Zenon DEF Unaffected
<1> QED
  BY <1>1, <1>6, <1>7, <1>8, <1>9, OnePair, Zenon

\* What an answer takes out of the log of p for n.
LEMMA ShiftedLog ==
    ASSUME IInv, NEW n \in Servers, NEW p \in Servers, NEW k \in 0 .. Count(rings[p][n]),
           rings' = [rings EXCEPT ![p][n] = oplog_record_shift(@, k)]
    PROVE  /\ rings' \in [Servers -> [Servers -> Rings]]
           /\ Count(rings'[p][n]) = Count(rings[p][n]) - k
           /\ \A a, b \in Servers : a # p \/ b # n => rings'[a][b] = rings[a][b]
           /\ FirstEntries(rings[p][n], k) \in Seq(Slotted)
           /\ Len(FirstEntries(rings[p][n], k)) = k
           /\ k \in Nat /\ Count(rings[p][n]) \in Nat
<1>1. PICK r \in Rings : r = rings[p][n]
  BY Zenon DEF IInv, TypeOK
<1>2. PICK q \in Rings : q = oplog_record_shift(r, k) /\ Count(q) = Count(r) - k
  BY <1>1, ShiftCount, Zenon
<1>3. rings' = [rings EXCEPT ![p][n] = q]
  BY <1>1, <1>2, Zenon DEF IInv, TypeOK
<1>4. /\ rings' \in [Servers -> [Servers -> Rings]]
      /\ rings'[p][n] = q
      /\ \A a, b \in Servers : a # p \/ b # n => rings'[a][b] = rings[a][b]
  BY <1>3, Cell, SMTT(30) DEF IInv, TypeOK
<1>5. FirstEntries(r, k) \in Seq(Slotted) /\ Len(FirstEntries(r, k)) = k
  BY <1>1, BatchFact, Zenon
<1>6. Count(r) \in Nat
  BY LogFact, Zenon
<1> QED
  BY <1>1, <1>2, <1>4, <1>5, <1>6

LEMMA AnswerHolds ==
    ASSUME IInv, NEW n \in Servers, NEW p \in Servers, cluster_shift_server_data(n, p)
    PROVE  IInv'
<1>1. PICK k \in 0 .. Count(rings[p][n]) :
          /\ rings' = [rings EXCEPT ![p][n] = oplog_record_shift(@, k)]
          /\ sync' = [sync EXCEPT ![n][p] =
                [state |-> "answer", batch |-> FirstEntries(rings[p][n], k)]]
  BY Zenon DEF cluster_shift_server_data
<1>2. /\ sync[n][p].state = "request"
      /\ UNCHANGED <<samples, pass, stats, gone, restarts>>
  BY Zenon DEF cluster_shift_server_data
<1>3. /\ rings' \in [Servers -> [Servers -> Rings]]
      /\ Count(rings'[p][n]) = Count(rings[p][n]) - k
      /\ \A a, b \in Servers : a # p \/ b # n => rings'[a][b] = rings[a][b]
      /\ FirstEntries(rings[p][n], k) \in Seq(Slotted)
      /\ Len(FirstEntries(rings[p][n], k)) = k
      /\ k \in Nat /\ Count(rings[p][n]) \in Nat
  BY <1>1, ShiftedLog, Zenon
<1>4. PICK v \in Syncs : v = [state |-> "answer", batch |-> FirstEntries(rings[p][n], k)]
  BY <1>3, Zenon DEF Syncs
<1>5. /\ sync' \in [Servers -> [Servers -> Syncs]]
      /\ sync'[n][p] = v
      /\ \A a, b \in Servers : a # n \/ b # p => sync'[a][b] = sync[a][b]
  BY <1>1, <1>4, Cell, SMTT(30) DEF IInv, TypeOK
<1>6. TypeOK'
  BY <1>2, <1>3, <1>5, Zenon DEF IInv, TypeOK
<1>7. OnlyAnswers'
  BY <1>4, <1>5 DEF IInv, OnlyAnswers
<1>8. ASSUME restarts = 0 PROVE Agree(p, n)'
  <2>1. Agree(p, n)
    BY <1>8, TotalsByLog, Zenon DEF IInv
  <2>2. Len(sync[n][p].batch) = 0 /\ Len(sync'[n][p].batch) = k
    BY <1>2, <1>3, <1>4, <1>5, EmptySeq DEF IInv, OnlyAnswers
  <2>3. LinesRead(stats[n][p]) \in Nat /\ Len(gone[p][n]) \in Nat
    <3>1. stats[n][p] \in Totals /\ gone[p][n] \in Seq(Slotted)
      BY Zenon DEF IInv, TypeOK
    <3> QED
      BY <3>1, LenFact, TotalsType, Zenon
  <2>4. /\ stats[p][n].enqueued = Count(rings[p][n]) + LinesRead(stats[n][p]) + Len(gone[p][n])
        /\ stats[p][n].overflow <= Len(gone[p][n])
    BY <1>3, <2>1, <2>2, <2>3 DEF Agree
  <2>5. /\ stats'[p][n].enqueued = Count(rings'[p][n]) + Len(sync'[n][p].batch)
                                      + LinesRead(stats'[n][p]) + Len(gone'[p][n])
        /\ stats'[p][n].overflow <= Len(gone'[p][n])
    BY <1>2, <1>3, <2>2, <2>3, <2>4
  <2> QED
    BY <2>5, Zenon DEF Agree, Count, LinesRead
<1>9. \A a, b \in Servers : a # p \/ b # n => Unaffected(a, b)
  BY <1>2, <1>3, <1>5 DEF Unaffected
<1> QED
  BY <1>2, <1>6, <1>7, <1>8, <1>9, OnePair, Zenon

\* Entries that are known to be gone.
LEMMA GoneGrows ==
    ASSUME NEW old \in Seq(Slotted), NEW more \in Seq(Slotted)
    PROVE  /\ old \o more \in Seq(Slotted)
           /\ Len(old \o more) = Len(old) + Len(more)
           /\ Len(old) \in Nat
  BY ConcatFact, LenFact, Zenon

\* The sums when entries leave the log for good, and when an answer is over.
LEMMA Moved ==
    \A e : \A o, c, b, a, g, k \in Nat :
        e = c + b + a + g /\ o <= g => e = (c - k) + b + a + (g + k) /\ o <= g + k
  OBVIOUS

LEMMA Settled ==
    \A e : \A o, c, b, a, g, x \in Nat :
        e = c + b + a + g /\ o <= g /\ x <= b =>
            e = c + 0 + (a + x) + (g + (b - x)) /\ o <= g + (b - x)
  OBVIOUS

LEMMA ShiftForNobodyHolds ==
    ASSUME IInv, NEW n \in Servers, NEW p \in Servers, ShiftForNobody(n, p)
    PROVE  IInv'
<1>1. PICK k \in 0 .. Count(rings[p][n]) :
          /\ rings' = [rings EXCEPT ![p][n] = oplog_record_shift(@, k)]
          /\ gone' = [gone EXCEPT ![p][n] = @ \o FirstEntries(rings[p][n], k)]
  BY Zenon DEF ShiftForNobody
<1>2. UNCHANGED <<samples, pass, stats, sync, restarts>>
  BY Zenon DEF ShiftForNobody
<1>3. /\ rings' \in [Servers -> [Servers -> Rings]]
      /\ Count(rings'[p][n]) = Count(rings[p][n]) - k
      /\ \A a, b \in Servers : a # p \/ b # n => rings'[a][b] = rings[a][b]
      /\ FirstEntries(rings[p][n], k) \in Seq(Slotted)
      /\ Len(FirstEntries(rings[p][n], k)) = k
      /\ k \in Nat /\ Count(rings[p][n]) \in Nat
  BY <1>1, ShiftedLog, Zenon
<1>4. PICK old \in Seq(Slotted), more \in Seq(Slotted), g \in Seq(Slotted) :
          /\ old = gone[p][n] /\ more = FirstEntries(rings[p][n], k) /\ g = old \o more
          /\ Len(g) = Len(old) + k /\ Len(old) \in Nat
  <2>1. PICK old \in Seq(Slotted) : old = gone[p][n]
    BY Zenon DEF IInv, TypeOK
  <2>2. PICK more \in Seq(Slotted) : more = FirstEntries(rings[p][n], k) /\ Len(more) = k
    BY <1>3, Zenon
  <2>3. /\ old \o more \in Seq(Slotted) /\ Len(old \o more) = Len(old) + Len(more)
        /\ Len(old) \in Nat
    BY GoneGrows, Zenon
  <2> QED
    BY <2>1, <2>2, <2>3, Zenon
<1>5. gone' = [gone EXCEPT ![p][n] = g]
  BY <1>1, <1>4, Zenon DEF IInv, TypeOK
<1>6. /\ gone' \in [Servers -> [Servers -> Seq(Slotted)]]
      /\ gone'[p][n] = g
      /\ \A a, b \in Servers : a # p \/ b # n => gone'[a][b] = gone[a][b]
  BY <1>5, Cell, SMTT(30) DEF IInv, TypeOK
<1>7. TypeOK'
  BY <1>2, <1>3, <1>6, Zenon DEF IInv, TypeOK
<1>8. OnlyAnswers'
  BY <1>2, Zenon DEF IInv, OnlyAnswers
<1>9. ASSUME restarts = 0 PROVE Agree(p, n)'
  <2>1. Agree(p, n)
    BY <1>9, TotalsByLog, Zenon DEF IInv
  <2>2. PICK c \in Nat, b \in Nat, a \in Nat, o \in Nat :
            /\ c = Count(rings[p][n]) /\ b = Len(sync[n][p].batch)
            /\ a = LinesRead(stats[n][p]) /\ o = stats[p][n].overflow
    <3>1. stats[n][p] \in Totals /\ stats[p][n] \in Totals /\ sync[n][p] \in Syncs
      BY Zenon DEF IInv, TypeOK
    <3>2. /\ LinesRead(stats[n][p]) \in Nat /\ Len(sync[n][p].batch) \in Nat
          /\ stats[p][n].overflow \in Nat
      BY <3>1, LenFact, TotalsType, Zenon DEF Syncs
    <3> QED
      BY <1>3, <3>2, Zenon
  <2>3. /\ stats[p][n].enqueued = c + b + a + Len(old)
        /\ o <= Len(old)
    BY <1>4, <2>1, <2>2, Zenon DEF Agree
  <2>4. /\ stats[p][n].enqueued = (c - k) + b + a + Len(g)
        /\ o <= Len(g)
    <3>1. k \in Nat /\ Len(old) \in Nat /\ Len(g) = Len(old) + k
      BY <1>3, <1>4, Zenon
    <3> QED
      BY <2>3, <3>1, Moved
  <2>5. /\ stats'[p][n].enqueued = Count(rings'[p][n]) + Len(sync'[n][p].batch)
                                      + LinesRead(stats'[n][p]) + Len(gone'[p][n])
        /\ stats'[p][n].overflow <= Len(gone'[p][n])
    BY <1>2, <1>3, <1>6, <2>2, <2>4, Zenon
  <2> QED
    BY <2>5, Zenon DEF Agree, Count, LinesRead
<1>10. \A a, b \in Servers : a # p \/ b # n => Unaffected(a, b)
  BY <1>2, <1>3, <1>6, Zenon DEF Unaffected
<1> QED
  BY <1>2, <1>7, <1>8, <1>9, <1>10, OnePair, Zenon

\* An answer is over: x of its entries are applied, the others known to be lost.
LEMMA AnswerOver ==
    ASSUME IInv, NEW n \in Servers, NEW p \in Servers, NEW x \in Nat,
           NEW u \in Totals, NEW g \in Seq(Slotted),
           x <= Len(sync[n][p].batch),
           Len(g) = Len(gone[p][n]) + (Len(sync[n][p].batch) - x),
           u.enqueued = stats[n][p].enqueued, u.overflow = stats[n][p].overflow,
           LinesRead(u) = LinesRead(stats[n][p]) + x,
           stats' = [stats EXCEPT ![n][p] = u],
           sync' = [sync EXCEPT ![n][p] = Idle],
           gone' = [gone EXCEPT ![p][n] = g],
           UNCHANGED <<samples, pass, rings, restarts>>
    PROVE  IInv'
<1>1. /\ stats' \in [Servers -> [Servers -> Totals]]
      /\ stats'[n][p] = u
      /\ \A a, b \in Servers : a # n \/ b # p => stats'[a][b] = stats[a][b]
  BY Cell, Zenon DEF IInv, TypeOK
<1>2. Idle \in Syncs /\ Idle.batch = <<>> /\ Len(<<>>) = 0
  BY EmptySeq, Zenon DEF Idle, Syncs
<1>3. /\ sync' \in [Servers -> [Servers -> Syncs]]
      /\ sync'[n][p] = Idle
      /\ \A a, b \in Servers : a # n \/ b # p => sync'[a][b] = sync[a][b]
  BY <1>2, Cell, Zenon DEF IInv, TypeOK
<1>4. /\ gone' \in [Servers -> [Servers -> Seq(Slotted)]]
      /\ gone'[p][n] = g
      /\ \A a, b \in Servers : a # p \/ b # n => gone'[a][b] = gone[a][b]
  BY Cell, Zenon DEF IInv, TypeOK
<1>5. TypeOK'
  BY <1>1, <1>3, <1>4, Zenon DEF IInv, TypeOK
<1>6. OnlyAnswers'
  BY <1>2, <1>3 DEF IInv, OnlyAnswers
<1>7. \A a, b \in Servers : /\ stats'[a][b].enqueued = stats[a][b].enqueued
                            /\ stats'[a][b].overflow = stats[a][b].overflow
  BY <1>1, Zenon
<1>8. ASSUME restarts = 0 PROVE Agree(p, n)'
  <2>1. Agree(p, n)
    BY <1>8, TotalsByLog, Zenon DEF IInv
  <2>2. PICK c \in Nat, b \in Nat, a \in Nat, d \in Nat, o \in Nat :
            /\ c = Count(rings[p][n]) /\ b = Len(sync[n][p].batch)
            /\ a = LinesRead(stats[n][p]) /\ d = Len(gone[p][n]) /\ o = stats[p][n].overflow
    <3>1. /\ rings[p][n] \in Rings /\ sync[n][p] \in Syncs /\ gone[p][n] \in Seq(Slotted)
          /\ stats[p][n] \in Totals /\ stats[n][p] \in Totals
      BY Zenon DEF IInv, TypeOK
    <3>2. /\ Count(rings[p][n]) \in Nat /\ Len(sync[n][p].batch) \in Nat
          /\ Len(gone[p][n]) \in Nat
      BY <3>1, LogFact, LenFact, Zenon DEF Syncs
    <3>3. stats[p][n].overflow \in Nat /\ LinesRead(stats[n][p]) \in Nat
      BY <3>1, TotalsType, Zenon
    <3> QED
      BY <3>2, <3>3, Zenon
  <2>3. stats[p][n].enqueued = c + b + a + d /\ o <= d
    BY <2>1, <2>2, Zenon DEF Agree
  <2>4. x <= b /\ Len(g) = d + (b - x) /\ LinesRead(u) = a + x
    BY <2>2, Zenon
  <2>5. stats[p][n].enqueued = c + 0 + (a + x) + Len(g) /\ o <= Len(g)
    BY <2>3, <2>4, Settled, SMTT(30)
  <2>6. /\ stats'[p][n].enqueued = Count(rings'[p][n]) + Len(sync'[n][p].batch)
                                      + LinesRead(stats'[n][p]) + Len(gone'[p][n])
        /\ stats'[p][n].overflow <= Len(gone'[p][n])
    BY <1>1, <1>2, <1>3, <1>4, <1>7, <2>2, <2>4, <2>5, ZenonT(30)
  <2> QED
    BY <2>6, Zenon DEF Agree, Count, LinesRead
<1>9. \A a, b \in Servers : a # p \/ b # n => Unaffected(a, b)
  BY <1>1, <1>3, <1>4, <1>7 DEF Unaffected
<1> QED
  BY <1>5, <1>6, <1>8, <1>9, OnePair, Zenon

\* Apply counts its lines, for the totals of p on n.
LEMMA ApplyCounts ==
    ASSUME IInv, NEW n \in Servers, NEW p \in Servers, NEW lines \in Seq(Slotted),
           Apply(n, p, lines)
    PROVE  \E u \in Totals :
               /\ u.enqueued = stats[n][p].enqueued /\ u.overflow = stats[n][p].overflow
               /\ LinesRead(u) = LinesRead(stats[n][p]) + Len(lines)
               /\ stats' = [stats EXCEPT ![n][p] = u]
<1>1. PICK t \in Totals : t = stats[n][p]
  BY Zenon DEF IInv, TypeOK
<1>2. PICK x \in Nat, y \in Nat : x = Applied(lines) /\ y = Skipped(lines) /\ x + y = Len(lines)
  BY AppliedOrSkipped, Zenon
<1>4. PICK u \in Totals :
         /\ u = Counted(t, x, y) /\ u.enqueued = t.enqueued /\ u.overflow = t.overflow
         /\ LinesRead(u) = LinesRead(t) + (x + y)
  BY AppliedTotal, Zenon
<1>5. stats' = [stats EXCEPT ![n][p].applied = @ + x, ![n][p].skipped = @ + y]
  BY <1>2, Zenon DEF Apply
<1>6. stats' = [stats EXCEPT ![n][p] = u]
  BY <1>1, <1>4, <1>5, Zenon DEF IInv, TypeOK, Counted
<1> QED
  BY <1>1, <1>2, <1>4, <1>6, Zenon

LEMMA HandlerHolds ==
    ASSUME IInv, NEW n \in Servers, NEW p \in Servers, cluster_sync_handler(n, p)
    PROVE  IInv'
<1>1. PICK batch \in Seq(Slotted), g \in Seq(Slotted), x \in Nat :
          batch = sync[n][p].batch /\ g = gone[p][n] /\ x = Len(batch) /\ Len(g) \in Nat
  <2>1. sync[n][p] \in Syncs /\ gone[p][n] \in Seq(Slotted)
    BY Zenon DEF IInv, TypeOK
  <2>2. sync[n][p].batch \in Seq(Slotted)
    BY <2>1, Zenon DEF Syncs
  <2> QED
    BY <2>1, <2>2, LenFact
<1>2. Apply(n, p, batch)
  BY <1>1, Zenon DEF cluster_sync_handler
<1>3. PICK u \in Totals :
          /\ u.enqueued = stats[n][p].enqueued /\ u.overflow = stats[n][p].overflow
          /\ LinesRead(u) = LinesRead(stats[n][p]) + Len(batch)
          /\ stats' = [stats EXCEPT ![n][p] = u]
  BY <1>2, ApplyCounts
<1>4. gone' = [gone EXCEPT ![p][n] = g]
  BY <1>1, Zenon DEF cluster_sync_handler, IInv, TypeOK
<1>5. /\ sync' = [sync EXCEPT ![n][p] = Idle]
      /\ UNCHANGED <<samples, pass, rings, restarts>>
  BY Zenon DEF cluster_sync_handler
<1>6. x <= Len(sync[n][p].batch) /\ Len(g) = Len(gone[p][n]) + (Len(sync[n][p].batch) - x)
  BY <1>1
<1>7. LinesRead(u) = LinesRead(stats[n][p]) + x
  BY <1>1, <1>3, Zenon
<1> QED
  BY <1>3, <1>4, <1>5, <1>6, <1>7, AnswerOver, Zenon

\* An answer of which the first k entries arrived.
LEMMA CutAnswer ==
    ASSUME NEW batch \in Seq(Slotted), NEW k \in 0 .. Len(batch)
    PROVE  /\ SubSeq(batch, 1, k) \in Seq(Slotted) /\ Len(SubSeq(batch, 1, k)) = k
           /\ SubSeq(batch, k + 1, Len(batch)) \in Seq(Slotted)
           /\ Len(SubSeq(batch, k + 1, Len(batch))) = Len(batch) - k
<1>1. Len(batch) \in Nat /\ k \in Nat /\ k <= Len(batch)
  BY LenFact
<1>2. \A i \in 1 .. Len(batch) : batch[i] \in Slotted
  BY LenFact, Zenon
<1>3. /\ SubSeq(batch, 1, k) \in Seq(Slotted)
      /\ Len(SubSeq(batch, 1, k)) = IF 1 <= k THEN k - 1 + 1 ELSE 0
  BY <1>1, <1>2, SubSeqFact
<1>4. /\ SubSeq(batch, k + 1, Len(batch)) \in Seq(Slotted)
      /\ Len(SubSeq(batch, k + 1, Len(batch))) =
             IF k + 1 <= Len(batch) THEN Len(batch) - (k + 1) + 1 ELSE 0
  BY <1>1, <1>2, SubSeqFact
<1> QED
  BY <1>1, <1>3, <1>4

LEMMA TimeoutHolds ==
    ASSUME IInv, NEW n \in Servers, NEW p \in Servers, SyncTimeout(n, p)
    PROVE  IInv'
<1>1. PICK batch \in Seq(Slotted), old \in Seq(Slotted) :
          batch = sync[n][p].batch /\ old = gone[p][n]
  <2>1. sync[n][p] \in Syncs /\ gone[p][n] \in Seq(Slotted)
    BY Zenon DEF IInv, TypeOK
  <2> QED
    BY <2>1, Zenon DEF Syncs
<1>2. PICK k \in 0 .. Len(batch) :
          /\ Apply(n, p, SubSeq(batch, 1, k))
          /\ gone' = [gone EXCEPT ![p][n] = @ \o SubSeq(batch, k + 1, Len(batch))]
  BY <1>1, Zenon DEF SyncTimeout
<1>3. PICK lines \in Seq(Slotted), lost \in Seq(Slotted) :
          /\ lines = SubSeq(batch, 1, k) /\ Len(lines) = k
          /\ lost = SubSeq(batch, k + 1, Len(batch)) /\ Len(lost) = Len(batch) - k
  BY CutAnswer, Zenon
<1>4. Len(batch) \in Nat /\ k \in Nat /\ k <= Len(batch)
  BY LenFact
<1>5. PICK g \in Seq(Slotted) : g = old \o lost /\ Len(g) = Len(old) + Len(lost)
  BY GoneGrows, Zenon
<1>6. PICK u \in Totals :
          /\ u.enqueued = stats[n][p].enqueued /\ u.overflow = stats[n][p].overflow
          /\ LinesRead(u) = LinesRead(stats[n][p]) + Len(lines)
          /\ stats' = [stats EXCEPT ![n][p] = u]
  <2>1. Apply(n, p, lines)
    BY <1>2, <1>3, Zenon
  <2> QED
    BY <2>1, ApplyCounts, SMTT(30)
<1>7. gone' = [gone EXCEPT ![p][n] = g]
  BY <1>1, <1>2, <1>3, <1>5, Zenon DEF IInv, TypeOK
<1>8. /\ sync' = [sync EXCEPT ![n][p] = Idle]
      /\ UNCHANGED <<samples, pass, rings, restarts>>
  BY Zenon DEF SyncTimeout
<1>9. k <= Len(sync[n][p].batch) /\ Len(g) = Len(gone[p][n]) + (Len(sync[n][p].batch) - k)
  BY <1>1, <1>3, <1>4, <1>5, Zenon
<1>10. LinesRead(u) = LinesRead(stats[n][p]) + k
  BY <1>3, <1>6, Zenon
<1> QED
  BY <1>4, <1>6, <1>7, <1>8, <1>9, <1>10, AnswerOver, Zenon

LEMMA RestartHolds ==
    ASSUME IInv, NEW n \in Servers, Restart(n)
    PROVE  IInv'
<1>1. <<>> \in Seq(Slotted) /\ Idle \in Syncs /\ ZeroStats \in Totals
  BY EmptySeq, Zenon DEF Idle, Syncs, ZeroStats, Totals
<1>2. /\ pass' \in [Servers -> Passes]
      /\ rings' \in [Servers -> [Servers -> Rings]]
      /\ stats' \in [Servers -> [Servers -> Totals]]
      /\ sync' \in [Servers -> [Servers -> Syncs]]
  BY <1>1, InitRing, Zenon DEF Restart, IInv, TypeOK, Passes
<1>3. restarts' \in Nat /\ restarts' # 0
  BY DEF Restart, IInv, TypeOK
<1>4. TypeOK'
  BY <1>2, <1>3, Zenon DEF Restart, IInv, TypeOK
<1>5. OnlyAnswers'
  <2>1. \A a, b \in Servers : sync'[a][b] = IF a = n THEN Idle ELSE sync[a][b]
    BY Zenon DEF Restart, IInv, TypeOK
  <2> QED
    BY <2>1 DEF IInv, OnlyAnswers, Idle
<1>6. TotalsAgree'
  BY <1>3, Zenon DEF TotalsAgree
<1> QED
  BY <1>4, <1>5, <1>6, Zenon DEF IInv
-----------------------------------------------------------------------------
LEMMA TotalsNext ==
    ASSUME IInv, [Next]_vars
    PROVE  IInv'
<1>1. ASSUME NEW n \in Servers, NEW s \in Series, Push(n, s) PROVE IInv'
  BY <1>1, PushHolds, Zenon
<1>2. ASSUME NEW n \in Servers, PassRound(n) PROVE IInv'
  BY <1>2, PassRoundHolds, Zenon
<1>3. ASSUME NEW n \in Servers, PassReturns(n) PROVE IInv'
  BY <1>3, PassReturnsHolds, Zenon
<1>4. ASSUME NEW n \in Servers, Restart(n) PROVE IInv'
  BY <1>4, RestartHolds, Zenon
<1>5. ASSUME NEW n \in Servers, NEW p \in Servers, SyncRequest(n, p) PROVE IInv'
  BY <1>5, RequestHolds, Zenon
<1>6. ASSUME NEW n \in Servers, NEW p \in Servers, cluster_shift_server_data(n, p) PROVE IInv'
  BY <1>6, AnswerHolds, Zenon
<1>7. ASSUME NEW n \in Servers, NEW p \in Servers, ShiftForNobody(n, p) PROVE IInv'
  BY <1>7, ShiftForNobodyHolds, Zenon
<1>8. ASSUME NEW n \in Servers, NEW p \in Servers, cluster_sync_handler(n, p) PROVE IInv'
  BY <1>8, HandlerHolds, Zenon
<1>9. ASSUME NEW n \in Servers, NEW p \in Servers, SyncTimeout(n, p) PROVE IInv'
  BY <1>9, TimeoutHolds, Zenon
<1>10. CASE UNCHANGED vars
  BY <1>10, SameLogs, Zenon DEF vars, IInv, TypeOK
<1> QED
  BY <1>1, <1>2, <1>3, <1>4, <1>5, <1>6, <1>7, <1>8, <1>9, <1>10, Zenon DEF Next

\* Every step of the cluster keeps the totals of every log in agreement, for any
\* number of servers, ring size and size of an answer: the pushes, the rounds of
\* cluster_pass with their evictions, the answers to POST /oplog, the ones nobody
\* waits for, cluster_sync_handler, and a timeout in the middle of an answer.
THEOREM TotalsInvariant == Spec => []IInv
<1>1. Init => IInv
  BY InitHolds, Zenon
<1>2. IInv /\ [Next]_vars => IInv'
  BY TotalsNext, Zenon
<1> QED
  BY <1>1, <1>2, PTL DEF Spec

\* While no server restarts, what n enqueued for p in cluster_pass is at every moment
\* in the ring, in an answer, counted by cluster_sync_handler on p as applied, read by it
\* and skipped (whichever lines those are), or known to be gone, and what the overflow total
\* counts is among the last.
THEOREM TotalsAlwaysAgree == Spec => []TotalsAgree
<1>1. IInv => TotalsAgree
  BY Zenon DEF IInv
<1> QED
  BY <1>1, TotalsInvariant, PTL
-----------------------------------------------------------------------------
\* What the operations of a log do.
RingFacts ==
    /\ oplog_record_init \in Rings /\ Count(oplog_record_init) = 0
    /\ \A r \in Rings : Count(r) \in Nat /\ InsertResult(r) \in {0, 1}
    /\ \A r \in Rings, d \in Records :
          /\ oplog_record_insert(r, d) \in Rings
          /\ Inserted(r, oplog_record_insert(r, d), d, InsertResult(r))
    /\ \A r \in Rings : \A k \in 0 .. Count(r) :
          /\ oplog_record_shift(r, k) \in Rings
          /\ Shifted(r, oplog_record_shift(r, k), k)
          /\ FirstEntries(r, k) \in Seq(Slotted)
          /\ Taken(FirstEntries(r, k), r, k)

LEMMA RingHolds == RingFacts
<1>1. \A r \in Rings, d \in Records :
         /\ oplog_record_insert(r, d) \in Rings
         /\ Inserted(r, oplog_record_insert(r, d), d, InsertResult(r))
  BY ReplicationAssumption, InsertFact, InsertIsInserted, Zenon
<1>2. \A r \in Rings : \A k \in 0 .. Count(r) :
         /\ oplog_record_shift(r, k) \in Rings
         /\ Shifted(r, oplog_record_shift(r, k), k)
         /\ FirstEntries(r, k) \in Seq(Slotted)
         /\ Taken(FirstEntries(r, k), r, k)
  BY ShiftFact, ShiftIsShifted, BatchFact, Zenon
<1> QED
  BY <1>1, <1>2, InitRing, LogFact, Zenon DEF RingFacts

\* The lines that go to namespace ns.
For(ns) == {r \in Slotted : TargetNs(r) = ns}

\* The i-th server that cluster_pass has for a series, and the namespace there.
HomeServer(s, i) == (Primary[s] + i) % N
HomeNs(s, i) == IF i > 0 THEN Primary[s] ELSE NsDefault
First(n, s) == IF Primary[s] = n THEN 1 ELSE 0

\* The line that the i-th server gets for sample id.
Copy(s, i, id) == [replica |-> i > 0, series |-> s, id |-> id]

LEMMA NoSuchNamespace == Nowhere \notin Namespaces
  BY ReplicationAssumption DEF Nowhere, Namespaces, NsDefault, Servers

LEMMA HomeFact ==
    ASSUME NEW s \in Series, NEW i \in Nat, i < ReplicaFactor
    PROVE  /\ HomeServer(s, i) \in Servers /\ HomeNs(s, i) \in Namespaces
           /\ <<HomeServer(s, i), HomeNs(s, i)>> \in Homes(s)
           /\ Primary[s] \in Servers /\ NsDefault \notin Servers
<1>1. N \in Nat \ {0} /\ ReplicaFactor \in Nat /\ Primary[s] \in 0 .. N - 1
  BY ReplicationAssumption, Zenon DEF Servers
<1>2. HomeServer(s, i) \in Servers /\ HomeNs(s, i) \in Namespaces /\ NsDefault \notin Servers
  BY <1>1 DEF HomeServer, HomeNs, Servers, Namespaces, NsDefault
<1>3. CASE i = 0
  <2>1. HomeServer(s, i) = Primary[s] /\ HomeNs(s, i) = NsDefault
    BY <1>1, <1>3 DEF HomeServer, HomeNs
  <2> QED
    BY <1>1, <1>2, <2>1, Zenon DEF Homes, Servers
<1>4. CASE i # 0
  <2>1. i \in 1 .. ReplicaFactor - 1 /\ HomeNs(s, i) = Primary[s]
    BY <1>1, <1>4 DEF HomeNs
  <2> QED
    BY <1>1, <1>2, <2>1, Zenon DEF Homes, HomeServer, Servers
<1> QED
  BY <1>3, <1>4, Zenon

\* The samples that arrived at n.
OwnOf(smp, n) == {k \in 1 .. Len(smp) : smp[k].origin = n}

\* The call of cluster_pass that runs on n is for a sample that arrived there.
PassOf(smp, ps, n) ==
    ps # NoPass =>
        /\ ps.id \in OwnOf(smp, n)
        /\ smp[ps.id].series = ps.series
        /\ ps.i >= First(n, ps.series)

PassOK == \A n \in Servers : PassOf(samples, pass[n], n)

\* That call's series, loop index and sample.
Call(n, s, i, id) ==
    /\ s \in Series /\ s = pass[n].series
    /\ i \in Nat /\ i = pass[n].i /\ i >= First(n, s)
    /\ id \in OwnOf(samples, n) /\ id = pass[n].id /\ samples[id].series = s

LEMMA CallFact ==
    ASSUME IInv, PassOK, NEW n \in Servers, pass[n] # NoPass
    PROVE  \E s, i, id : Call(n, s, i, id)
<1>1. pass[n] \in [id : 1 .. MaxSamples, series : Series, i : Nat]
  BY Zenon DEF IInv, TypeOK, Passes
<1>2. Call(n, pass[n].series, pass[n].i, pass[n].id)
  BY <1>1, Zenon DEF Call, PassOK, PassOf
<1> QED
  BY <1>2, Zenon

\* What Push does to the samples and the calls.
LEMMA PushFact ==
    ASSUME IInv, NEW n \in Servers, NEW s \in Series, Push(n, s)
    PROVE  /\ pass[n] = NoPass /\ Len(samples) \in Nat /\ Len(samples') = Len(samples) + 1
           /\ samples'[Len(samples) + 1] = [origin |-> n, series |-> s]
           /\ \A k \in 1 .. Len(samples) : samples'[k] = samples[k]
           /\ pass'[n] = [id |-> Len(samples) + 1, series |-> s, i |-> First(n, s)]
           /\ \A a \in Servers : a # n => pass'[a] = pass[a]
           /\ UNCHANGED <<rings, sync, store, gone, restarts>>
<1>1. PICK r \in [origin : Servers, series : Series] : r = [origin |-> n, series |-> s]
  BY Zenon
<1>2. PICK smp \in Seq([origin : Servers, series : Series]) : smp = samples
  BY Zenon DEF IInv, TypeOK
<1>3. /\ pass[n] = NoPass /\ samples' = Append(smp, r)
      /\ pass' = [pass EXCEPT ![n] =
            [id |-> Len(samples'), series |-> s, i |-> IF Primary[s] = n THEN 1 ELSE 0]]
      /\ UNCHANGED <<rings, sync, store, gone, restarts>>
  BY <1>1, <1>2, Zenon DEF Push, logVars, syncVars
<1>4. /\ Len(smp) \in Nat /\ Len(samples') = Len(smp) + 1 /\ samples'[Len(smp) + 1] = r
      /\ \A k \in 1 .. Len(smp) : samples'[k] = smp[k]
  BY <1>3, LenFact, AppendFact
<1>5. /\ pass'[n] = [id |-> Len(smp) + 1, series |-> s, i |-> First(n, s)]
      /\ \A a \in Servers : a # n => pass'[a] = pass[a]
  BY <1>3, <1>4, Zenon DEF IInv, TypeOK, First
<1> QED
  BY <1>1, <1>2, <1>3, <1>4, <1>5, Zenon

\* What a round of cluster_pass does to the call.
LEMMA RoundFact ==
    ASSUME IInv, PassOK, NEW n \in Servers, PassRound(n),
           NEW s, NEW i, NEW id, Call(n, s, i, id)
    PROVE  /\ pass[n] # NoPass /\ i < ReplicaFactor
           /\ pass'[n].id = id /\ pass'[n].series = s /\ pass'[n].i = i + 1
           /\ \A a \in Servers : a # n => pass'[a] = pass[a]
           /\ UNCHANGED <<samples, sync, restarts>>
           /\ RecordOf(n) \in Records
           /\ RecordOf(n) = Copy(s, i, id) /\ RecordOf(n).id = id
           /\ RecordOf(n) \notin Unfit => TargetNs(RecordOf(n)) = HomeNs(s, i)
           /\ \A ns \in Namespaces : TargetNs(RecordOf(n)) = ns => ns = HomeNs(s, i)
<1>1. /\ pass[n] \in [id : 1 .. MaxSamples, series : Series, i : Nat] /\ pass[n] # NoPass
      /\ pass[n].i < ReplicaFactor
      /\ pass' = [pass EXCEPT ![n].i = pass[n].i + 1]
      /\ UNCHANGED <<samples, sync, restarts>>
  BY Zenon DEF PassRound, IInv, TypeOK, Passes, syncVars
<1>2. /\ pass'[n].id = id /\ pass'[n].series = s /\ pass'[n].i = i + 1
      /\ \A a \in Servers : a # n => pass'[a] = pass[a]
  BY <1>1, Zenon DEF Call, IInv, TypeOK
<1>3. RecordOf(n) \in Records
  BY <1>1 DEF RecordOf, Records
<1>4. RecordOf(n) = Copy(s, i, id) /\ RecordOf(n).id = id
  BY Zenon DEF Call, RecordOf, Copy
<1>5. TargetNs(RecordOf(n)) = IF RecordOf(n) \in Unfit THEN Nowhere ELSE HomeNs(s, i)
  <2>1. Copy(s, i, id).replica = (i > 0) /\ Copy(s, i, id).series = s
    BY Zenon DEF Copy
  <2> QED
    BY <1>4, <2>1, Zenon DEF TargetNs, HomeNs
<1> QED
  BY <1>1, <1>2, <1>3, <1>4, <1>5, NoSuchNamespace, Zenon DEF Call

\* The copy is for n itself: it is a replica.
LEMMA RoundStores ==
    ASSUME IInv, NEW n \in Servers, PassRound(n), NEW s, NEW i, NEW id, Call(n, s, i, id),
           HomeServer(s, i) = n
    PROVE  /\ store' = [store EXCEPT ![n][HomeNs(s, i)] = Append(@, id)]
           /\ UNCHANGED <<rings, gone>>
<1>1. i # 0
  <2>1. N \in Nat \ {0} /\ Primary[s] \in 0 .. N - 1
    BY ReplicationAssumption, Zenon DEF Call, Servers
  <2>2. ASSUME i = 0 PROVE FALSE
    BY <2>1, <2>2 DEF Call, HomeServer, First
  <2> QED
    BY <2>2, Zenon
<1>2. HomeNs(s, i) = Primary[s]
  BY <1>1 DEF Call, HomeNs
<1> QED
  BY <1>2, Zenon DEF PassRound, Call, HomeServer, logVars

\* The copy is for another server.
LEMMA RoundInserts ==
    ASSUME IInv, PassOK, NEW n \in Servers, NEW peer \in Servers, PassRound(n),
           NEW s, NEW i, NEW id, Call(n, s, i, id), peer = HomeServer(s, i), peer # n
    PROVE  /\ \E e \in {0, 1} : \E ext :
                 /\ Inserted(rings[n][peer], rings'[n][peer], RecordOf(n), e)
                 /\ Extended(gone'[n][peer], gone[n][peer], ext)
                 /\ Len(ext) = e /\ (e = 1 => ext[1] = Entry(rings[n][peer], 0))
           /\ \A a, b \in Servers : a # n \/ b # peer =>
                 rings'[a][b] = rings[a][b] /\ gone'[a][b] = gone[a][b]
           /\ UNCHANGED store
<1>1. PICK r \in Rings, d \in Records, g \in Seq(Slotted) :
         r = rings[n][peer] /\ d = RecordOf(n) /\ g = gone[n][peer]
  BY RoundFact DEF IInv, TypeOK
<1>2. /\ rings' = [rings EXCEPT ![n][peer] = oplog_record_insert(r, d)]
      /\ gone' = [gone EXCEPT ![n][peer] =
             IF InsertResult(r) = 1 THEN Append(@, Entry(r, 0)) ELSE @]
      /\ UNCHANGED store
  BY <1>1, Zenon DEF PassRound, Call, HomeServer
<1>3. Inserted(r, oplog_record_insert(r, d), d, InsertResult(r)) /\ InsertResult(r) \in {0, 1}
  BY RingHolds, Zenon DEF RingFacts
<1>4. /\ rings'[n][peer] = oplog_record_insert(r, d)
      /\ \A a, b \in Servers : a # n \/ b # peer => rings'[a][b] = rings[a][b]
  BY <1>2, Zenon DEF IInv, TypeOK
<1>5. /\ gone'[n][peer] = IF InsertResult(r) = 1 THEN Append(g, Entry(r, 0)) ELSE g
      /\ \A a, b \in Servers : a # n \/ b # peer => gone'[a][b] = gone[a][b]
  BY <1>1, <1>2, Zenon DEF IInv, TypeOK
<1>6. \E ext : /\ Extended(gone'[n][peer], g, ext) /\ Len(ext) = InsertResult(r)
               /\ InsertResult(r) = 1 => ext[1] = Entry(r, 0)
  <2>1. 0 \in 0 .. Count(r) /\ Len(g) \in Nat
    BY LogFact, LenFact
  <2>2. Entry(r, 0) \in Slotted
    BY <2>1, EntryType, Zenon
  <2>3. CASE InsertResult(r) = 1
    <3>1. Extended(Append(g, Entry(r, 0)), g, <<Entry(r, 0)>>)
      BY <2>1, <2>2, AppendFact DEF Extended
    <3> QED
      BY <1>5, <2>3, <3>1
  <2>4. CASE InsertResult(r) = 0
    <3>1. Extended(g, g, <<>>) /\ Len(<<>>) = 0
      BY <2>1, EmptySeq DEF Extended
    <3> QED
      BY <1>5, <2>4, <3>1
  <2> QED
    BY <1>3, <2>3, <2>4, Zenon
<1> QED
  BY <1>1, <1>2, <1>3, <1>4, <1>5, <1>6, ZenonT(30)

LEMMA PassNext ==
    ASSUME IInv, PassOK, [Next]_vars
    PROVE  PassOK'
<1>1. ASSUME NEW n \in Servers, NEW s \in Series, Push(n, s) PROVE PassOK'
  <2>1. /\ Len(samples) \in Nat /\ Len(samples') = Len(samples) + 1
        /\ samples'[Len(samples) + 1] = [origin |-> n, series |-> s]
        /\ \A k \in 1 .. Len(samples) : samples'[k] = samples[k]
        /\ pass'[n] = [id |-> Len(samples) + 1, series |-> s, i |-> First(n, s)]
        /\ \A a \in Servers : a # n => pass'[a] = pass[a]
    BY <1>1, PushFact, Zenon
  <2>2. PassOf(samples', pass'[n], n)
    BY <2>1 DEF PassOf, OwnOf, First
  <2>3. ASSUME NEW a \in Servers, a # n PROVE PassOf(samples', pass'[a], a)
    <3>1. \A k \in OwnOf(samples, a) : k \in OwnOf(samples', a) /\ samples'[k] = samples[k]
      BY <2>1 DEF OwnOf
    <3> QED
      BY <2>1, <2>3, <3>1 DEF PassOf, PassOK
  <2> QED
    BY <2>2, <2>3, Zenon DEF PassOK
<1>2. ASSUME NEW n \in Servers, PassRound(n) PROVE PassOK'
  <2>1. PICK s, i, id : Call(n, s, i, id)
    BY <1>2, CallFact, Zenon DEF PassRound
  <2>2. /\ pass'[n].id = id /\ pass'[n].series = s /\ pass'[n].i = i + 1
        /\ \A a \in Servers : a # n => pass'[a] = pass[a]
        /\ UNCHANGED samples
    BY <1>2, <2>1, RoundFact, Zenon
  <2>3. PassOf(samples, pass'[n], n)
    BY <2>1, <2>2 DEF Call, PassOf, First
  <2> QED
    BY <2>2, <2>3, Zenon DEF PassOK
<1>3. ASSUME NEW n \in Servers, PassReturns(n) \/ Restart(n) PROVE PassOK'
  <2>1. /\ UNCHANGED samples
        /\ \A a \in Servers : pass'[a] = IF a = n THEN NoPass ELSE pass[a]
    BY <1>3, Zenon DEF PassReturns, Restart, IInv, TypeOK
  <2> QED
    BY <2>1, Zenon DEF PassOK, PassOf
<1>4. CASE UNCHANGED <<samples, pass>>
  BY <1>4, Zenon DEF PassOK
<1>5. ASSUME NEW n \in Servers, NEW p \in Servers,
             \/ SyncRequest(n, p) \/ cluster_shift_server_data(n, p) \/ ShiftForNobody(n, p)
             \/ cluster_sync_handler(n, p) \/ SyncTimeout(n, p)
      PROVE  UNCHANGED <<samples, pass>>
  BY <1>5, Zenon DEF SyncRequest, cluster_shift_server_data, ShiftForNobody,
                     cluster_sync_handler, SyncTimeout
<1> QED
  BY <1>1, <1>2, <1>3, <1>4, <1>5, Zenon DEF Next, vars

\* The first entries of p's log for n leave it: for an answer to n, or for nobody.
Shifts(n, p, k, ext) ==
    /\ Shifted(rings[p][n], rings'[p][n], k) /\ Taken(ext, rings[p][n], k)
    /\ \A a, b \in Servers : a # p \/ b # n => rings'[a][b] = rings[a][b]
    /\ \/ /\ sync[n][p].state = "request" /\ sync'[n][p].batch = ext
          /\ \A a, b \in Servers : a # n \/ b # p => sync'[a][b] = sync[a][b]
          /\ UNCHANGED gone
       \/ /\ Extended(gone'[p][n], gone[p][n], ext)
          /\ \A a, b \in Servers : a # p \/ b # n => gone'[a][b] = gone[a][b]
          /\ UNCHANGED sync
    /\ UNCHANGED <<samples, pass, store, restarts>>

LEMMA ShiftsFact ==
    ASSUME IInv, NEW n \in Servers, NEW p \in Servers,
           cluster_shift_server_data(n, p) \/ ShiftForNobody(n, p)
    PROVE  \E k \in Nat : \E ext : Shifts(n, p, k, ext)
<1>1. PICK k \in 0 .. Count(rings[p][n]) :
         /\ rings' = [rings EXCEPT ![p][n] = oplog_record_shift(@, k)]
         /\ \/ /\ sync[n][p].state = "request"
               /\ sync' = [sync EXCEPT ![n][p] =
                     [state |-> "answer", batch |-> FirstEntries(rings[p][n], k)]]
               /\ UNCHANGED gone
            \/ /\ gone' = [gone EXCEPT ![p][n] = @ \o FirstEntries(rings[p][n], k)]
               /\ UNCHANGED sync
  BY Zenon DEF cluster_shift_server_data, ShiftForNobody
<1>2. UNCHANGED <<samples, pass, store, restarts>>
  BY Zenon DEF cluster_shift_server_data, ShiftForNobody
<1>3. PICK r \in Rings, g \in Seq(Slotted) : r = rings[p][n] /\ g = gone[p][n]
  BY Zenon DEF IInv, TypeOK
<1>4. PICK ext \in Seq(Slotted) : ext = FirstEntries(r, k)
  BY <1>3, RingHolds, Zenon DEF RingFacts
<1>5. Shifted(r, oplog_record_shift(r, k), k) /\ Taken(ext, r, k) /\ k \in Nat
  BY <1>3, <1>4, RingHolds, SMTT(30) DEF RingFacts
<1>6. /\ rings'[p][n] = oplog_record_shift(r, k)
      /\ \A a, b \in Servers : a # p \/ b # n => rings'[a][b] = rings[a][b]
  BY <1>1, <1>3, Zenon DEF IInv, TypeOK
<1>7. CASE /\ sync[n][p].state = "request"
           /\ sync' = [sync EXCEPT ![n][p] =
                 [state |-> "answer", batch |-> FirstEntries(rings[p][n], k)]]
           /\ UNCHANGED gone
  <2>1. /\ sync'[n][p].batch = ext
        /\ \A a, b \in Servers : a # n \/ b # p => sync'[a][b] = sync[a][b]
    BY <1>3, <1>4, <1>7, Zenon DEF IInv, TypeOK
  <2>2. Shifts(n, p, k, ext)
    BY <1>2, <1>3, <1>5, <1>6, <1>7, <2>1, Zenon DEF Shifts
  <2> QED
    BY <1>5, <2>2, Zenon
<1>8. CASE /\ gone' = [gone EXCEPT ![p][n] = @ \o FirstEntries(rings[p][n], k)]
           /\ UNCHANGED sync
  <2>1. /\ gone'[p][n] = g \o ext
        /\ \A a, b \in Servers : a # p \/ b # n => gone'[a][b] = gone[a][b]
    BY <1>3, <1>4, <1>8, Zenon DEF IInv, TypeOK
  <2>2. Extended(g \o ext, g, ext)
    BY ConcatExtends, Zenon
  <2>3. Shifts(n, p, k, ext)
    BY <1>2, <1>3, <1>5, <1>6, <1>8, <2>1, <2>2, Zenon DEF Shifts
  <2> QED
    BY <1>5, <2>3, Zenon
<1> QED
  BY <1>1, <1>7, <1>8, Zenon

\* n applies the first lines of p's answer, all of them or the ones that have arrived; the
\* rest is gone.
AppliesPart(n, p, lines, rest) ==
    /\ sync[n][p] # Idle
    /\ Len(lines) \in 0 .. Len(sync[n][p].batch)
    /\ \A i \in 1 .. Len(lines) : lines[i] = sync[n][p].batch[i]
    /\ Len(rest) = Len(sync[n][p].batch) - Len(lines)
    /\ \A i \in 1 .. Len(rest) : rest[i] = sync[n][p].batch[Len(lines) + i]
    /\ store' = [store EXCEPT ![n] = [ns \in Namespaces |-> @[ns] \o Into(lines, ns)]]
    /\ sync' = [sync EXCEPT ![n][p] = Idle]
    /\ Extended(gone'[p][n], gone[p][n], rest)
    /\ \A a, b \in Servers : a # p \/ b # n => gone'[a][b] = gone[a][b]
    /\ UNCHANGED <<samples, pass, rings, restarts>>

LEMMA AppliesFact ==
    ASSUME IInv, NEW n \in Servers, NEW p \in Servers,
           cluster_sync_handler(n, p) \/ SyncTimeout(n, p)
    PROVE  \E lines, rest : AppliesPart(n, p, lines, rest)
<1>1. PICK batch \in Seq(Slotted), g \in Seq(Slotted) : batch = sync[n][p].batch /\ g = gone[p][n]
  BY Zenon DEF IInv, TypeOK, Syncs
<1>2. Len(batch) \in Nat /\ Len(g) \in Nat
  BY LenFact, Zenon
<1>3. CASE cluster_sync_handler(n, p)
  <2>1. sync[n][p] # Idle
    BY <1>3 DEF cluster_sync_handler, Idle
  <2>2. Len(batch) \in 0 .. Len(batch) /\ Len(<<>>) = Len(batch) - Len(batch)
    BY <1>2, EmptySeq
  <2>3. \A i \in 1 .. Len(<<>>) : FALSE
    BY EmptySeq
  <2>4. Extended(g, g, <<>>)
    BY <1>2, EmptySeq DEF Extended
  <2>5. AppliesPart(n, p, batch, <<>>)
    BY <1>1, <1>3, <2>1, <2>2, <2>3, <2>4, Zenon DEF cluster_sync_handler, Apply, AppliesPart
  <2> QED
    BY <2>5, Zenon
<1>4. CASE SyncTimeout(n, p)
  <2>1. PICK k \in 0 .. Len(batch) :
           /\ Apply(n, p, SubSeq(batch, 1, k))
           /\ gone' = [gone EXCEPT ![p][n] = @ \o SubSeq(batch, k + 1, Len(batch))]
    BY <1>1, <1>4, Zenon DEF SyncTimeout
  <2>2. PICK lines, rest : lines = SubSeq(batch, 1, k) /\ rest = SubSeq(batch, k + 1, Len(batch))
    BY Zenon
  <2>3. Len(lines) = k /\ Len(lines) \in 0 .. Len(batch)
        /\ \A i \in 1 .. Len(lines) : lines[i] = batch[i]
    BY <1>2, <2>2, SubSeqFact
  <2>4. /\ rest \in Seq(Slotted) /\ Len(rest) = Len(batch) - Len(lines)
        /\ \A i \in 1 .. Len(rest) : rest[i] = batch[Len(lines) + i]
    <3>1. k + 1 \in 1 .. Len(batch) + 1 /\ k + 1 <= Len(batch) + 1 /\ k \in Nat
      BY <1>2
    <3>2. /\ rest \in Seq(Slotted) /\ Len(rest) = Len(batch) - (k + 1) + 1
          /\ \A i \in 1 .. Len(batch) - (k + 1) + 1 : rest[i] = batch[(k + 1) + i - 1]
      BY <1>2, <2>2, <3>1, SubSeqFact
    <3>3. \A i \in Nat : (k + 1) + i - 1 = k + i
      BY <3>1
    <3> QED
      BY <1>2, <2>3, <3>1, <3>2, <3>3
  <2>5. /\ gone'[p][n] = g \o rest
        /\ \A a, b \in Servers : a # p \/ b # n => gone'[a][b] = gone[a][b]
    BY <1>1, <2>1, <2>2, Zenon DEF IInv, TypeOK
  <2>6. Extended(g \o rest, g, rest)
    BY <2>4, ConcatExtends, Zenon
  <2>7. AppliesPart(n, p, lines, rest)
    BY <1>1, <1>4, <2>1, <2>2, <2>3, <2>4, <2>5, <2>6, ZenonT(30) DEF SyncTimeout, Apply, AppliesPart
  <2> QED
    BY <2>7, Zenon
<1> QED
  BY <1>3, <1>4, Zenon

\* Into reads the lines one by one.
LEMMA IntoDef ==
    ASSUME SetInduction, NEW lines, NEW ns, Len(lines) \in Nat,
           \A p \in 1 .. Len(lines) : lines[p] \in Slotted
    PROVE  \E f : IsInto(f, Len(lines), lines, For(ns)) /\ Into(lines, ns) = f[Len(lines)]
<1> DEFINE Read(f) == f = [k \in 0 .. Len(lines) |->
                             IF k = 0 THEN <<>>
                             ELSE IF TargetNs(lines[k]) = ns THEN Append(f[k - 1], lines[k].id)
                             ELSE f[k - 1]]
<1>1. \A k \in 0 .. Len(lines) : k # 0 => (TargetNs(lines[k]) = ns <=> lines[k] \in For(ns))
  BY DEF For
<1>2. ASSUME NEW f PROVE Read(f) <=> IsInto(f, Len(lines), lines, For(ns))
  BY <1>1, Zenon DEF IsInto, Step
<1>3. PICK g : IsInto(g, Len(lines), lines, For(ns))
  BY IntoExists, Zenon
<1>4. Into(lines, ns) = (CHOOSE f : Read(f))[Len(lines)]
  BY Zenon DEF Into
<1>5. Read(CHOOSE f : Read(f))
  <2> HIDE DEF Read
  <2> QED
    BY <1>2, <1>3, Zenon
<1> HIDE DEF Read
<1> QED
  BY <1>2, <1>4, <1>5, Zenon

\* What the lines add to a namespace comes from the answer, in its order.
LEMMA LinesPicked ==
    ASSUME SetInduction, IInv, NEW n \in Servers, NEW p \in Servers, NEW ns \in Namespaces,
           NEW lines, NEW rest, AppliesPart(n, p, lines, rest), NEW Ids,
           \A i \in 1 .. Len(sync[n][p].batch) :
              sync[n][p].batch[i] \in For(ns) => sync[n][p].batch[i].id \in Ids
    PROVE  /\ Picked(Into(lines, ns), Len(lines), lines, For(ns), Ids)
           /\ Into(lines, ns) \in Seq(Ids)
<1>1. /\ Len(lines) \in Nat
      /\ \A i \in 1 .. Len(lines) :
            /\ lines[i] \in Slotted
            /\ lines[i] \in For(ns) => lines[i].id \in Ids
  <2>1. sync[n][p].batch \in Seq(Slotted)
    BY Zenon DEF IInv, TypeOK, Syncs
  <2> QED
    BY <2>1, LenFact DEF AppliesPart
<1>2. PICK f : IsInto(f, Len(lines), lines, For(ns)) /\ Into(lines, ns) = f[Len(lines)]
  BY <1>1, IntoDef, Zenon
<1>3. Picked(Into(lines, ns), Len(lines), lines, For(ns), Ids)
  BY <1>1, <1>2, IntoPicks, Zenon
<1> QED
  BY <1>3, Zenon DEF Picked
=============================================================================
