----------------------- MODULE ReplicationOrderProofs ------------------------
(* What arrives at one server reaches the namespaces of another in order and *)
(* once: the inductive invariant Order and what each step does to it.        *)
EXTENDS ReplicationProofs

\* The ones that may be in namespace ns of m, or on the way to it, when ps is the call
\* of cluster_pass that runs on n: that call's sample is not where it still has to go.
OkOf(smp, ps, n, m, ns) ==
    {k \in OwnOf(smp, n) :
        /\ <<m, ns>> \in Homes(smp[k].series)
        /\ ps # NoPass =>
              /\ k <= ps.id
              /\ k = ps.id => \E i \in First(n, ps.series) .. ps.i - 1 :
                                 m = HomeServer(ps.series, i) /\ ns = HomeNs(ps.series, i)}

StoreOK == store \in [Servers -> [Namespaces -> Seq(1 .. Len(samples))]]

\* No server has a log for itself.
Apart == \A n \in Servers : Count(rings[n][n]) = 0 /\ sync[n][n] = Idle

Lines == \A n, m \in Servers, ns \in Namespaces :
    Line(store[m][ns], sync[m][n].batch, rings[n][m],
         OwnOf(samples, n), OkOf(samples, pass[n], n, m, ns), For(ns))

Order == StoreOK /\ Apart /\ Lines
OInv == IInv /\ PassOK /\ Order

\* The loop of cluster_pass meets no home twice unless it goes round all servers.
LEMMA Distinct ==
    ASSUME ReplicaFactor <= N + 1, NEW s \in Series, NEW i \in Nat, NEW j \in Nat,
           j < i, i < ReplicaFactor
    PROVE  HomeServer(s, i) # HomeServer(s, j) \/ HomeNs(s, i) # HomeNs(s, j)
<1>1. N \in Nat \ {0} /\ ReplicaFactor \in Nat /\ Primary[s] \in 0 .. N - 1
  BY ReplicationAssumption, Zenon DEF Servers
<1>2. CASE j = 0
  BY <1>1, <1>2 DEF HomeNs, NsDefault
<1>3. CASE j # 0
  <2>1. PICK a \in 0 .. 2 * N - 1, b \in 0 .. 2 * N - 1 :
           a = Primary[s] + i /\ b = Primary[s] + j /\ b < a /\ a - b < N
    BY <1>1, <1>3
  <2>2. /\ a % N = IF a < N THEN a ELSE a - N
        /\ b % N = IF b < N THEN b ELSE b - N
    BY <1>1
  <2>3. a % N # b % N
    BY <1>1, <2>1, <2>2
  <2> QED
    BY <2>1, <2>3, Zenon DEF HomeServer
<1> QED
  BY <1>2, <1>3, Zenon

LEMMA OrderInit ==
    ASSUME Init
    PROVE  Order
<1>1. <<>> \in Seq(1 .. Len(samples)) /\ Len(<<>>) = 0
  BY EmptySeq, Zenon
<1>2. StoreOK
  BY <1>1, Zenon DEF Init, StoreOK
<1>4. Apart
  BY RingHolds, Zenon DEF Init, Apart, RingFacts
<1>5. ASSUME NEW n \in Servers, NEW m \in Servers, NEW ns \in Namespaces
      PROVE  Line(store[m][ns], sync[m][n].batch, rings[n][m],
                  OwnOf(samples, n), OkOf(samples, pass[n], n, m, ns), For(ns))
  <2>1. store[m][ns] = <<>> /\ sync[m][n].batch = <<>> /\ Count(rings[n][m]) = 0
    BY RingHolds, Zenon DEF Init, Idle, RingFacts
  <2> QED
    BY <1>1, <2>1 DEF Line, Sorted, Within
<1> QED
  BY <1>2, <1>4, <1>5, Zenon DEF Order, Lines

\* A step of the call on n takes nothing away from where samples may be.
LEMMA OkPush ==
    ASSUME NEW smp \in Seq([origin : Servers, series : Series]),
           NEW r \in [origin : Servers, series : Series], NEW smp2, smp2 = Append(smp, r),
           NEW ps, NEW ps2, ps2 = ps \/ (ps = NoPass /\ ps2.id = Len(smp) + 1),
           NEW a, NEW m, NEW ns
    PROVE  /\ \A k \in 1 .. Len(smp) : k \in OwnOf(smp2, a) <=> k \in OwnOf(smp, a)
           /\ OkOf(smp, ps, a, m, ns) \subseteq OkOf(smp2, ps2, a, m, ns)
<1>1. /\ Len(smp) \in Nat /\ Len(smp2) = Len(smp) + 1
      /\ \A k \in 1 .. Len(smp) : smp2[k] = smp[k]
  BY LenFact, AppendFact
<1>2. \A k \in 1 .. Len(smp) : k \in OwnOf(smp2, a) <=> k \in OwnOf(smp, a)
  BY <1>1 DEF OwnOf
<1>3. ASSUME NEW k \in OkOf(smp, ps, a, m, ns) PROVE k \in OkOf(smp2, ps2, a, m, ns)
  <2>1. k \in 1 .. Len(smp) /\ k \in OwnOf(smp, a) /\ <<m, ns>> \in Homes(smp[k].series)
    BY Zenon DEF OkOf, OwnOf
  <2>2. k \in OwnOf(smp2, a) /\ <<m, ns>> \in Homes(smp2[k].series)
    BY <1>1, <1>2, <2>1, Zenon
  <2>3. CASE ps2 = ps
    BY <2>2, <2>3, Zenon DEF OkOf
  <2>4. CASE ps = NoPass /\ ps2.id = Len(smp) + 1
    BY <1>1, <2>1, <2>2, <2>4 DEF OkOf
  <2> QED
    BY <2>3, <2>4, Zenon
<1> QED
  BY <1>2, <1>3, Zenon

LEMMA OkRound ==
    ASSUME NEW smp, NEW ps, NEW ps2, NEW a, NEW m, NEW ns, ps # NoPass,
           ps2.id = ps.id, ps2.series = ps.series, ps2.i = ps.i + 1, ps.i \in Nat
    PROVE  OkOf(smp, ps, a, m, ns) \subseteq OkOf(smp, ps2, a, m, ns)
<1>1. First(a, ps.series) \in {0, 1}
  BY Zenon DEF First
<1>2. \A i \in First(a, ps.series) .. ps.i - 1 : i \in First(a, ps2.series) .. ps2.i - 1
  BY <1>1
<1> QED
  BY <1>2, Zenon DEF OkOf

LEMMA OkDone ==
    ASSUME NEW smp, NEW ps, NEW a, NEW m, NEW ns
    PROVE  OkOf(smp, ps, a, m, ns) \subseteq OkOf(smp, NoPass, a, m, ns)
  BY Zenon DEF OkOf

\* Steps that write neither namespaces nor logs nor answers.
LEMMA OrderPush ==
    ASSUME OInv, NEW n \in Servers, NEW s \in Series, Push(n, s)
    PROVE  Order'
<1>1. PICK r \in [origin : Servers, series : Series] : r = [origin |-> n, series |-> s]
  BY Zenon
<1>2. PICK smp \in Seq([origin : Servers, series : Series]) : smp = samples
  BY Zenon DEF OInv, IInv, TypeOK
<1>3. samples' = Append(smp, r)
  BY <1>1, <1>2, Zenon DEF Push
<1>4. /\ pass[n] = NoPass /\ Len(smp) \in Nat /\ Len(samples') = Len(smp) + 1
      /\ pass'[n] = [id |-> Len(smp) + 1, series |-> s, i |-> First(n, s)]
      /\ \A a \in Servers : a # n => pass'[a] = pass[a]
      /\ UNCHANGED <<rings, sync, store>>
  BY <1>2, PushFact, Zenon DEF OInv
<1>7. ASSUME NEW a \in Servers, NEW m \in Servers, NEW ns \in Namespaces
      PROVE  /\ \A k \in 1 .. Len(smp) : k \in OwnOf(samples', a) <=> k \in OwnOf(smp, a)
             /\ OkOf(smp, pass[a], a, m, ns) \subseteq OkOf(samples', pass'[a], a, m, ns)
  <2>1. pass'[a] = pass[a] \/ (pass[a] = NoPass /\ pass'[a].id = Len(smp) + 1)
    BY <1>4
  <2> QED
    BY <1>3, <2>1, OkPush, Zenon
<1>8. StoreOK'
  <2>1. \A sq : sq \in Seq(1 .. Len(samples)) => sq \in Seq(1 .. Len(samples'))
    BY <1>2, <1>4, Widen
  <2> QED
    BY <1>4, <2>1 DEF OInv, Order, StoreOK
<1>10. Apart'
  BY <1>4, Zenon DEF OInv, Order, Apart, Count
<1>11. ASSUME NEW a \in Servers, NEW m \in Servers, NEW ns \in Namespaces
       PROVE  Line(store[m][ns], sync[m][a].batch, rings[a][m],
                   OwnOf(samples', a), OkOf(samples', pass'[a], a, m, ns), For(ns))
  <2>1. Line(store[m][ns], sync[m][a].batch, rings[a][m],
             OwnOf(smp, a), OkOf(smp, pass[a], a, m, ns), For(ns))
    BY <1>2, Zenon DEF OInv, Order, Lines
  <2>2. \A i \in 1 .. Len(store[m][ns]) : store[m][ns][i] \in 1 .. Len(smp)
    <3>1. store[m][ns] \in Seq(1 .. Len(smp))
      BY <1>2, Zenon DEF OInv, Order, StoreOK
    <3> QED
      BY <3>1, LenFact, Zenon
  <2>3. \A i \in 1 .. Len(store[m][ns]) :
           store[m][ns][i] \in OwnOf(samples', a) => store[m][ns][i] \in OwnOf(smp, a)
    BY <1>7, <2>2, Zenon
  <2> QED
    BY <1>7, <2>1, <2>3, LineGrows, Zenon
<1>12. Lines'
  BY <1>4, <1>11, Zenon DEF Lines
<1> QED
  BY <1>8, <1>10, <1>12, Zenon DEF OInv, Order

\* Every call may only have moved on.
PassesMoveOn ==
    \A a, m \in Servers, ns \in Namespaces :
        OkOf(samples, pass[a], a, m, ns) \subseteq OkOf(samples, pass'[a], a, m, ns)

\* n puts its own newest sample in one of its namespaces.
LEMMA StoredHere ==
    ASSUME OInv, NEW n \in Servers, NEW home \in Namespaces, NEW id,
           id \in OkOf(samples, pass'[n], n, n, home),
           \A k \in OkOf(samples, pass[n], n, n, home) : k < id,
           PassesMoveOn, store' = [store EXCEPT ![n][home] = Append(@, id)],
           UNCHANGED <<samples, rings, sync>>
    PROVE  StoreOK' /\ Apart' /\ Lines'
<1>1. id \in OwnOf(samples, n) /\ id \in 1 .. Len(samples)
  BY Zenon DEF OkOf, OwnOf
<1>2. PICK sq \in Seq(1 .. Len(samples)) : sq = store[n][home]
  BY Zenon DEF OInv, Order, StoreOK
<1>3. PICK sq2 \in Seq(1 .. Len(samples)) : sq2 = Append(sq, id)
  BY <1>1, AppendFact, Zenon
<1>4. /\ store'[n][home] = sq2
      /\ store' \in [Servers -> [Namespaces -> Seq(1 .. Len(samples))]]
      /\ \A m \in Servers, ns \in Namespaces : m # n \/ ns # home => store'[m][ns] = store[m][ns]
  BY <1>2, <1>3, Zenon DEF OInv, Order, StoreOK
<1>5. StoreOK'
  BY <1>4, Zenon DEF StoreOK
<1>6. Apart'
  BY Zenon DEF OInv, Order, Apart, Count
<1>7. ASSUME NEW a \in Servers, NEW m \in Servers, NEW ns \in Namespaces
      PROVE  Line(store'[m][ns], sync[m][a].batch, rings[a][m],
                  OwnOf(samples, a), OkOf(samples, pass'[a], a, m, ns), For(ns))
  <2>1. /\ Line(store[m][ns], sync[m][a].batch, rings[a][m],
                OwnOf(samples, a), OkOf(samples, pass[a], a, m, ns), For(ns))
        /\ OkOf(samples, pass[a], a, m, ns) \subseteq OkOf(samples, pass'[a], a, m, ns)
    BY Zenon DEF OInv, Order, Lines, PassesMoveOn
  <2>2. CASE m # n \/ ns # home
    BY <1>4, <2>1, <2>2, LineGrows
  <2>3. CASE m = n /\ ns = home
    <3> DEFINE ok == OkOf(samples, pass[a], a, n, home)
               ok2 == OkOf(samples, pass'[a], a, n, home)
               own == OwnOf(samples, a)
               bt == sync[n][a].batch
               rg == rings[a][n]
    <3>1. Line(sq, bt, rg, own, ok, For(home)) /\ ok \subseteq ok2
      BY <1>2, <2>1, <2>3, Zenon
    <3>2. Extended(sq2, sq, <<id>>)
      <4>1. Len(sq) \in Nat /\ Len(sq2) = Len(sq) + 1 /\ sq2[Len(sq) + 1] = id
            /\ \A i \in 1 .. Len(sq) : sq2[i] = sq[i]
        BY <1>1, <1>3, LenFact, AppendFact
      <4> QED
        BY <4>1 DEF Extended
    <3>3. Between(<<id>>, sq, bt, rg, own, ok2, For(home))
      <4>1. CASE a = n
        <5>1. bt = <<>> /\ Count(rg) = 0
          BY <4>1 DEF OInv, Order, Apart, Idle
        <5>2. \A i \in 1 .. Len(sq) : sq[i] \in own => sq[i] \in ok
          BY <3>1, Zenon DEF Line, Within
        <5>3. /\ id \in ok2
              /\ \A i \in 1 .. Len(sq) : sq[i] \in own => sq[i] < id
          BY <4>1, <5>2, Zenon
        <5> HIDE DEF ok, ok2, own, bt, rg
        <5> QED
          BY <5>1, <5>3, EmptySeq DEF Between
      <4>2. CASE a # n
        <5>1. id \notin own
          BY <1>1, <4>2, Zenon DEF OwnOf
        <5> HIDE DEF ok, ok2, own, bt, rg
        <5> QED
          BY <5>1 DEF Between
      <4> QED
        BY <4>1, <4>2, Zenon
    <3>4. Line(sq2, bt, rg, own, ok2, For(home))
      <4> HIDE DEF ok, ok2, own, bt, rg
      <4> QED
        BY <3>1, <3>2, <3>3, LineExtend, Zenon
    <3> QED
      BY <1>4, <2>3, <3>4, Zenon
  <2> QED
    BY <2>2, <2>3, Zenon
<1>8. Lines'
  BY <1>7, Zenon DEF Lines
<1> QED
  BY <1>5, <1>6, <1>8, Zenon

LEMMA OrderReturns ==
    ASSUME OInv, NEW n \in Servers, PassReturns(n)
    PROVE  Order'
<1>1. /\ pass[n] # NoPass /\ pass' = [pass EXCEPT ![n] = NoPass]
      /\ UNCHANGED <<samples, rings, sync>>
  BY Zenon DEF PassReturns, logVars, syncVars
<1>2. /\ pass'[n] = NoPass
      /\ \A a \in Servers : a # n => pass'[a] = pass[a]
  BY <1>1, Zenon DEF OInv, IInv, TypeOK
<1>3. PassesMoveOn
  BY <1>2, OkDone, Zenon DEF PassesMoveOn
<1>5. StoreOK' /\ Apart' /\ Lines'
  <2>1. CASE Primary[pass[n].series] = n
    <3>1. PICK s \in Series : s = pass[n].series
      BY <1>1, Zenon DEF OInv, IInv, TypeOK, Passes
    <3>2. PICK id \in OwnOf(samples, n) : id = pass[n].id /\ samples[id].series = s
      BY <1>1, <3>1, Zenon DEF OInv, PassOK, PassOf
    <3>3. store' = [store EXCEPT ![n][NsDefault] = Append(@, id)]
      BY <2>1, <3>2, Zenon DEF PassReturns
    <3>4. id \in OkOf(samples, pass'[n], n, n, NsDefault)
      BY <1>2, <2>1, <3>1, <3>2, Zenon DEF OkOf, Homes
    <3>5. Primary[s] # NsDefault /\ NsDefault \in Namespaces
      BY <3>1, ReplicationAssumption DEF Namespaces, NsDefault, Servers
    <3>6. ASSUME NEW k \in OkOf(samples, pass[n], n, n, NsDefault) PROVE k < id
      <4>1. k \in Nat /\ id \in Nat /\ k <= id
        BY <1>1, <3>2 DEF OkOf, OwnOf
      <4>2. ASSUME k = id PROVE FALSE
        <5>1. PICK i \in First(n, s) .. pass[n].i - 1 : NsDefault = HomeNs(s, i)
          BY <1>1, <3>1, <3>2, <4>2, Zenon DEF OkOf
        <5>2. i > 0
          BY <2>1, <3>1, <5>1 DEF First
        <5> QED
          BY <3>5, <5>1, <5>2, Zenon DEF HomeNs
      <4> QED
        BY <4>1, <4>2
    <3> QED
      BY <1>1, <1>3, <3>3, <3>4, <3>5, <3>6, StoredHere, Zenon
  <2>2. CASE Primary[pass[n].series] # n
    <3>1. UNCHANGED store
      BY <2>2, Zenon DEF PassReturns
    <3>2. StoreOK' /\ Apart'
      BY <1>1, <3>1, Zenon DEF OInv, Order, StoreOK, Apart, Count
    <3>3. Lines'
      BY <1>1, <1>3, <3>1, LineGrows, Zenon DEF OInv, Order, Lines, PassesMoveOn
    <3> QED
      BY <3>2, <3>3, Zenon
  <2> QED
    BY <2>1, <2>2, Zenon
<1> QED
  BY <1>5, Zenon DEF Order

\* Where the call's sample may be after a round, and what is on the way there before it.
LEMMA RoundMovesOn ==
    ASSUME ReplicaFactor <= N + 1, OInv, NEW n \in Servers, PassRound(n),
           NEW s, NEW i, NEW id, Call(n, s, i, id)
    PROVE  /\ PassesMoveOn
           /\ id \in OkOf(samples, pass'[n], n, HomeServer(s, i), HomeNs(s, i))
           /\ \A k \in OkOf(samples, pass[n], n, HomeServer(s, i), HomeNs(s, i)) : k < id
<1>1. /\ pass[n] # NoPass /\ i < ReplicaFactor
      /\ pass'[n].id = id /\ pass'[n].series = s /\ pass'[n].i = i + 1
      /\ \A a \in Servers : a # n => pass'[a] = pass[a]
  BY RoundFact, Zenon DEF OInv
<1>2. /\ id \in OwnOf(samples, n) /\ samples[id].series = s /\ s \in Series
      /\ i \in Nat /\ i >= First(n, s) /\ First(n, s) \in {0, 1}
      /\ pass[n].id = id /\ pass[n].series = s /\ pass[n].i = i
  BY Zenon DEF Call, First
<1>3. PassesMoveOn
  <2>1. ASSUME NEW a \in Servers, NEW m \in Servers, NEW ns \in Namespaces
        PROVE  OkOf(samples, pass[a], a, m, ns) \subseteq OkOf(samples, pass'[a], a, m, ns)
    <3>1. CASE a = n
      BY <1>1, <1>2, <3>1, OkRound, Zenon
    <3>2. CASE a # n
      BY <1>1, <3>2, Zenon
    <3> QED
      BY <3>1, <3>2, Zenon
  <2> QED
    BY <2>1, Zenon DEF PassesMoveOn
<1>4. id \in OkOf(samples, pass'[n], n, HomeServer(s, i), HomeNs(s, i))
  <2>1. i \in First(n, s) .. (i + 1) - 1 /\ id <= id
    BY <1>2 DEF OwnOf
  <2>2. <<HomeServer(s, i), HomeNs(s, i)>> \in Homes(s)
    BY <1>1, <1>2, HomeFact, Zenon
  <2> QED
    BY <1>1, <1>2, <2>1, <2>2, Zenon DEF OkOf
<1>5. ASSUME NEW k \in OkOf(samples, pass[n], n, HomeServer(s, i), HomeNs(s, i)) PROVE k < id
  <2>1. k \in Nat /\ id \in Nat /\ k <= id
    BY <1>1, <1>2 DEF OkOf, OwnOf
  <2>2. ASSUME k = id PROVE FALSE
    <3>1. PICK j \in First(n, s) .. i - 1 :
             HomeServer(s, i) = HomeServer(s, j) /\ HomeNs(s, i) = HomeNs(s, j)
      BY <1>1, <1>2, <2>2, Zenon DEF OkOf
    <3>2. j \in Nat /\ j < i
      BY <1>2
    <3> QED
      BY <1>1, <1>2, <3>1, <3>2, Distinct, Zenon
  <2> QED
    BY <2>1, <2>2
<1> QED
  BY <1>3, <1>4, <1>5, Zenon

LEMMA OrderRound ==
    ASSUME ReplicaFactor <= N + 1, OInv, NEW n \in Servers, PassRound(n)
    PROVE  Order'
<1>1. PICK s, i, id : Call(n, s, i, id)
  BY CallFact, Zenon DEF PassRound, OInv
<1>2. /\ i < ReplicaFactor /\ UNCHANGED <<samples, sync>> /\ RecordOf(n).id = id
      /\ \A ns \in Namespaces : TargetNs(RecordOf(n)) = ns => ns = HomeNs(s, i)
  BY <1>1, RoundFact DEF OInv
<1>3. PICK home \in Servers : home = HomeServer(s, i) /\ HomeNs(s, i) \in Namespaces
  BY <1>1, <1>2, HomeFact, Zenon DEF Call
<1>4. /\ PassesMoveOn
      /\ id \in OkOf(samples, pass'[n], n, home, HomeNs(s, i))
      /\ \A k \in OkOf(samples, pass[n], n, home, HomeNs(s, i)) : k < id
  BY <1>1, <1>3, RoundMovesOn, Zenon
<1>5. CASE home = n
  <2>1. /\ store' = [store EXCEPT ![n][HomeNs(s, i)] = Append(@, id)]
        /\ UNCHANGED <<samples, rings, sync>>
    <3>1. HomeServer(s, i) = n /\ IInv
      BY <1>3, <1>5, Zenon DEF OInv
    <3>2. /\ store' = [store EXCEPT ![n][HomeNs(s, i)] = Append(@, id)]
          /\ UNCHANGED <<rings, gone>>
      BY <1>1, <3>1, RoundStores
    <3> QED
      BY <1>2, <3>2, Zenon
  <2>2. /\ id \in OkOf(samples, pass'[n], n, n, HomeNs(s, i))
        /\ \A k \in OkOf(samples, pass[n], n, n, HomeNs(s, i)) : k < id
    BY <1>4, <1>5, Zenon
  <2>3. StoreOK' /\ Apart' /\ Lines'
    BY <1>3, <1>4, <2>1, <2>2, StoredHere, Zenon
  <2> QED
    BY <2>3, Zenon DEF Order
<1>6. CASE home # n
  <2>2. PICK e \in {0, 1} : Inserted(rings[n][home], rings'[n][home], RecordOf(n), e)
    BY <1>1, <1>3, <1>6, RoundInserts, SMTT(30) DEF OInv
  <2>3. /\ \A a, b \in Servers : a # n \/ b # home => rings'[a][b] = rings[a][b]
        /\ UNCHANGED store
    BY <1>1, <1>3, <1>6, RoundInserts DEF OInv
  <2>5. StoreOK'
    BY <1>2, <2>3, Zenon DEF OInv, Order, StoreOK
  <2>6. Apart'
    BY <1>2, <1>6, <2>3 DEF OInv, Order, Apart, Count
  <2>7. ASSUME NEW a \in Servers, NEW m \in Servers, NEW ns \in Namespaces
        PROVE  Line(store[m][ns], sync[m][a].batch, rings'[a][m],
                    OwnOf(samples, a), OkOf(samples, pass'[a], a, m, ns), For(ns))
    <3>1. /\ Line(store[m][ns], sync[m][a].batch, rings[a][m],
                  OwnOf(samples, a), OkOf(samples, pass[a], a, m, ns), For(ns))
          /\ OkOf(samples, pass[a], a, m, ns) \subseteq OkOf(samples, pass'[a], a, m, ns)
      BY <1>4, Zenon DEF OInv, Order, Lines, PassesMoveOn
    <3>2. CASE a # n \/ m # home
      BY <2>3, <3>1, <3>2, LineGrows, Zenon
    <3>3. CASE a = n /\ m = home
      <4>1. RecordOf(n) \in For(ns) =>
               /\ RecordOf(n).id \in OkOf(samples, pass'[a], a, m, ns)
               /\ \A k \in OkOf(samples, pass[a], a, m, ns) : k < RecordOf(n).id
        BY <1>2, <1>4, <3>3, Zenon DEF For
      <4>2. Inserted(rings[a][m], rings'[a][m], RecordOf(n), e)
        BY <2>2, <3>3, Zenon
      <4> DEFINE sq == store[m][ns]
                 bt == sync[m][a].batch
                 rg == rings[a][m]
                 rg2 == rings'[a][m]
                 own == OwnOf(samples, a)
                 ok == OkOf(samples, pass[a], a, m, ns)
                 ok2 == OkOf(samples, pass'[a], a, m, ns)
                 d == RecordOf(n)
      <4> HIDE DEF sq, bt, rg, rg2, own, ok, ok2, d
      <4>3. /\ Line(sq, bt, rg, own, ok, For(ns)) /\ ok \subseteq ok2 /\ Inserted(rg, rg2, d, e)
            /\ d \in For(ns) => d.id \in ok2 /\ \A k \in ok : k < d.id
        BY <3>1, <4>1, <4>2, Zenon DEF sq, bt, rg, rg2, own, ok, ok2, d
      <4>4. Line(sq, bt, rg2, own, ok2, For(ns))
        BY <4>3, LineInsert, Zenon
      <4> QED
        BY <4>4, Zenon DEF sq, bt, rg2, own, ok2
    <3> QED
      BY <3>2, <3>3, Zenon
  <2>8. Lines'
    BY <1>2, <2>3, <2>7, Zenon DEF Lines
  <2> QED
    BY <2>5, <2>6, <2>8, Zenon DEF Order
<1> QED
  BY <1>5, <1>6, Zenon

\* A client sends its request.
LEMMA OrderRequest ==
    ASSUME OInv, NEW n \in Servers, NEW p \in Servers, SyncRequest(n, p)
    PROVE  Order'
<1>1. /\ n # p /\ UNCHANGED <<samples, pass, rings, store>>
      /\ sync' = [sync EXCEPT ![n][p].state = "request"]
  BY Zenon DEF SyncRequest, logVars
<1>2. /\ \A a, b \in Servers : sync'[a][b].batch = sync[a][b].batch
      /\ \A a \in Servers : sync'[a][a] = sync[a][a]
  <2>1. /\ sync'[n][p] = [sync[n][p] EXCEPT !.state = "request"]
        /\ \A a, b \in Servers : a # n \/ b # p => sync'[a][b] = sync[a][b]
    BY <1>1, Zenon DEF OInv, IInv, TypeOK
  <2>2. sync[n][p] \in Syncs
    BY Zenon DEF OInv, IInv, TypeOK
  <2>3. sync'[n][p].batch = sync[n][p].batch
    BY <2>1, <2>2, Zenon DEF Syncs
  <2> QED
    BY <1>1, <2>1, <2>3
<1>3. StoreOK' /\ Apart'
  BY <1>1, <1>2, Zenon DEF OInv, Order, StoreOK, Apart, Count
<1>4. Lines'
  BY <1>1, <1>2, Zenon DEF OInv, Order, Lines
<1> QED
  BY <1>3, <1>4, Zenon DEF OInv, Order

\* The first entries of a log leave it.
LEMMA OrderShift ==
    ASSUME OInv, NEW n \in Servers, NEW p \in Servers,
           cluster_shift_server_data(n, p) \/ ShiftForNobody(n, p)
    PROVE  Order'
<1>1. PICK k \in Nat : \E ext : Shifts(n, p, k, ext)
  BY ShiftsFact, Zenon DEF OInv
<1>2. PICK ext : Shifts(n, p, k, ext)
  BY <1>1, Zenon
<1>3. /\ Shifted(rings[p][n], rings'[p][n], k) /\ Taken(ext, rings[p][n], k)
      /\ \A a, b \in Servers : a # p \/ b # n => rings'[a][b] = rings[a][b]
      /\ UNCHANGED <<samples, pass, store>>
  BY <1>2, Zenon DEF Shifts
<1>4. /\ sync'[n][p].batch = sync[n][p].batch \/ Taken(sync'[n][p].batch, rings[p][n], k)
      /\ \A a \in Servers : sync'[a][a] = sync[a][a]
      /\ \A a, b \in Servers : a # n \/ b # p => sync'[a][b] = sync[a][b]
  BY <1>2, <1>3, SMTT(30) DEF Shifts, OInv, Order, Apart, Idle
<1>5. StoreOK'
  BY <1>3, Zenon DEF OInv, Order, StoreOK
<1>6. Apart'
  <2>1. ASSUME NEW a \in Servers PROVE Count(rings'[a][a]) = 0
    <3>1. Count(rings[a][a]) = 0
      BY Zenon DEF OInv, Order, Apart
    <3>2. CASE a = n /\ a = p
      BY <1>3, <3>1, <3>2 DEF Shifted
    <3>3. CASE a # n \/ a # p
      BY <1>3, <3>1, <3>3, Zenon
    <3> QED
      BY <3>2, <3>3, Zenon
  <2>2. \A a \in Servers : sync'[a][a] = Idle
    BY <1>4, Zenon DEF OInv, Order, Apart
  <2> QED
    BY <2>1, <2>2, Zenon DEF Apart, Count
<1>7. ASSUME NEW a \in Servers, NEW m \in Servers, NEW ns \in Namespaces
      PROVE  Line(store[m][ns], sync'[m][a].batch, rings'[a][m],
                  OwnOf(samples, a), OkOf(samples, pass[a], a, m, ns), For(ns))
  <2>1. Line(store[m][ns], sync[m][a].batch, rings[a][m],
             OwnOf(samples, a), OkOf(samples, pass[a], a, m, ns), For(ns))
    BY Zenon DEF OInv, Order, Lines
  <2>2. CASE a # p \/ m # n
    BY <1>3, <1>4, <2>1, <2>2, Zenon
  <2>3. CASE a = p /\ m = n
    BY <1>3, <1>4, <2>1, <2>3, LineShift
  <2> QED
    BY <2>2, <2>3, Zenon
<1>8. Lines'
  BY <1>3, <1>7, Zenon DEF Lines
<1> QED
  BY <1>5, <1>6, <1>8, Zenon DEF OInv, Order

\* Server n starts again: its namespaces, logs and clients are empty.
LEMMA OrderRestart ==
    ASSUME OInv, NEW n \in Servers, Restart(n)
    PROVE  Order'
<1>1. /\ UNCHANGED samples
      /\ pass' = [pass EXCEPT ![n] = NoPass]
      /\ rings' = [rings EXCEPT ![n] = [p \in Servers |-> oplog_record_init]]
      /\ sync' = [sync EXCEPT ![n] = [p \in Servers |-> Idle]]
      /\ store' = [store EXCEPT ![n] = [ns \in Namespaces |-> <<>>]]
  BY Zenon DEF Restart
<1>2. \A a \in Servers : pass'[a] = IF a = n THEN NoPass ELSE pass[a]
  BY <1>1, Zenon DEF OInv, IInv, TypeOK
<1>3. /\ \A b \in Servers : rings'[n][b] = oplog_record_init
      /\ \A a, b \in Servers : a # n => rings'[a][b] = rings[a][b]
  BY <1>1, Zenon DEF OInv, IInv, TypeOK
<1>4. /\ \A b \in Servers : sync'[n][b] = Idle
      /\ \A a, b \in Servers : a # n => sync'[a][b] = sync[a][b]
  BY <1>1, Zenon DEF OInv, IInv, TypeOK
<1>5. <<>> \in Seq(1 .. Len(samples)) /\ Len(<<>>) = 0
  BY EmptySeq, Zenon
<1>6. /\ \A ns \in Namespaces : store'[n][ns] = <<>>
      /\ \A m \in Servers, ns \in Namespaces : m # n => store'[m][ns] = store[m][ns]
      /\ store' \in [Servers -> [Namespaces -> Seq(1 .. Len(samples))]]
  BY <1>1, <1>5, Zenon DEF OInv, Order, StoreOK
<1>7. StoreOK'
  BY <1>1, <1>6, Zenon DEF StoreOK
<1>8. Apart'
  <2>1. \A a \in Servers : Count(rings'[a][a]) = 0 /\ sync'[a][a] = Idle
    BY <1>3, <1>4, RingHolds, Zenon DEF OInv, Order, Apart, RingFacts
  <2> QED
    BY <2>1, Zenon DEF Apart, Count
<1>9. ASSUME NEW a \in Servers, NEW m \in Servers, NEW ns \in Namespaces
      PROVE  Line(store'[m][ns], sync'[m][a].batch, rings'[a][m],
                  OwnOf(samples, a), OkOf(samples, pass'[a], a, m, ns), For(ns))
  <2> DEFINE sq == store[m][ns]
             sq2 == store'[m][ns]
             bt == sync[m][a].batch
             bt2 == sync'[m][a].batch
             rg == rings[a][m]
             rg2 == rings'[a][m]
             own == OwnOf(samples, a)
             ok == OkOf(samples, pass[a], a, m, ns)
             ok2 == OkOf(samples, pass'[a], a, m, ns)
  <2>1. Line(sq, bt, rg, own, ok, For(ns))
    BY Zenon DEF OInv, Order, Lines
  <2>2. sq2 = sq \/ Len(sq2) = 0
    BY <1>5, <1>6, Zenon
  <2>3. bt2 = bt \/ Len(bt2) = 0
    BY <1>4, <1>5 DEF Idle
  <2>4. rg2 = rg \/ Count(rg2) = 0
    BY <1>3, RingHolds, Zenon DEF RingFacts
  <2>5. ok \subseteq ok2
    BY <1>2, OkDone, Zenon
  <2> HIDE DEF sq, sq2, bt, bt2, rg, rg2, own, ok, ok2
  <2>6. Line(sq2, bt2, rg2, own, ok, For(ns))
    BY <2>1, <2>2, <2>3, <2>4, LineEmptied, Zenon
  <2>7. Line(sq2, bt2, rg2, own, ok2, For(ns))
    BY <2>5, <2>6, LineGrows, Zenon
  <2> QED
    BY <2>7, Zenon DEF sq2, bt2, rg2, own, ok2
<1>10. Lines'
  BY <1>1, <1>9, Zenon DEF Lines
<1> QED
  BY <1>7, <1>8, <1>10, Zenon DEF OInv, Order

\* An answer is over.
LEMMA OrderApplied ==
    ASSUME SetInduction, OInv, NEW n \in Servers, NEW p \in Servers,
           cluster_sync_handler(n, p) \/ SyncTimeout(n, p)
    PROVE  Order'
<1>0. PICK lines, rest : AppliesPart(n, p, lines, rest)
  BY AppliesFact, Zenon DEF OInv
<1>1. /\ UNCHANGED <<samples, pass, rings>>
      /\ sync' = [sync EXCEPT ![n][p] = Idle]
      /\ store' = [store EXCEPT ![n] = [ns \in Namespaces |-> @[ns] \o Into(lines, ns)]]
  BY <1>0, Zenon DEF AppliesPart
<1>P. ASSUME NEW ns \in Namespaces
      PROVE  /\ Picked(Into(lines, ns), Len(lines), lines, For(ns),
                       OkOf(samples, pass[p], p, n, ns))
             /\ Into(lines, ns) \in Seq(1 .. Len(samples))
  <2>1. Line(store[n][ns], sync[n][p].batch, rings[p][n],
             OwnOf(samples, p), OkOf(samples, pass[p], p, n, ns), For(ns))
    BY Zenon DEF OInv, Order, Lines
  <2>2. \A i \in 1 .. Len(sync[n][p].batch) :
           sync[n][p].batch[i] \in For(ns)
              => sync[n][p].batch[i].id \in OkOf(samples, pass[p], p, n, ns)
    BY <2>1, Zenon DEF Line, Within
  <2>3. /\ Picked(Into(lines, ns), Len(lines), lines, For(ns), OkOf(samples, pass[p], p, n, ns))
        /\ Into(lines, ns) \in Seq(OkOf(samples, pass[p], p, n, ns))
    BY <1>0, <2>2, LinesPicked, Zenon DEF OInv
  <2>4. OkOf(samples, pass[p], p, n, ns) \subseteq 1 .. Len(samples)
    BY Zenon DEF OkOf, OwnOf
  <2> QED
    BY <2>3, <2>4, Widen, Zenon
<1>2. n # p
  BY <1>0, Zenon DEF AppliesPart, OInv, Order, Apart
<1>3. /\ sync'[n][p] = Idle
      /\ \A a, b \in Servers : a # n \/ b # p => sync'[a][b] = sync[a][b]
  BY <1>1, Zenon DEF OInv, IInv, TypeOK
<1>4. Idle.batch = <<>> /\ Len(<<>>) = 0
  BY EmptySeq, Zenon DEF Idle
<1>5. ASSUME NEW ns \in Namespaces
      PROVE  /\ store[n][ns] \in Seq(1 .. Len(samples))
             /\ store'[n][ns] = store[n][ns] \o Into(lines, ns)
             /\ store'[n][ns] \in Seq(1 .. Len(samples))
             /\ Extended(store'[n][ns], store[n][ns], Into(lines, ns))
  <2>1. PICK sq \in Seq(1 .. Len(samples)), ext \in Seq(1 .. Len(samples)) :
           sq = store[n][ns] /\ ext = Into(lines, ns)
    BY <1>P, Zenon DEF OInv, Order, StoreOK
  <2>2. store'[n][ns] = sq \o ext
    BY <1>1, <2>1, Zenon DEF OInv, Order, StoreOK
  <2>3. sq \o ext \in Seq(1 .. Len(samples)) /\ Extended(sq \o ext, sq, ext)
    BY ConcatFact, ConcatExtends, Zenon
  <2> QED
    BY <2>1, <2>2, <2>3, Zenon
<1>6. \A m \in Servers, ns \in Namespaces : m # n => store'[m][ns] = store[m][ns]
  BY <1>1, Zenon DEF OInv, Order, StoreOK
<1>7. StoreOK'
  <2>1. store' \in [Servers -> [Namespaces -> Seq(1 .. Len(samples))]]
    <3>1. [ns \in Namespaces |-> store[n][ns] \o Into(lines, ns)]
             \in [Namespaces -> Seq(1 .. Len(samples))]
      <4>1. \A ns \in Namespaces : store[n][ns] \o Into(lines, ns) \in Seq(1 .. Len(samples))
        BY <1>5, Zenon
      <4> QED
        BY <4>1, Zenon
    <3> QED
      BY <1>1, <3>1, Zenon DEF OInv, Order, StoreOK
  <2> QED
    BY <1>1, <2>1, Zenon DEF StoreOK
<1>9. Apart'
  <2>1. \A a \in Servers : Count(rings'[a][a]) = 0 /\ sync'[a][a] = Idle
    BY <1>1, <1>2, <1>3, Zenon DEF OInv, Order, Apart
  <2> QED
    BY <2>1, Zenon DEF Apart, Count
<1>10. ASSUME NEW a \in Servers, NEW m \in Servers, NEW ns \in Namespaces
       PROVE  Line(store'[m][ns], sync'[m][a].batch, rings[a][m],
                   OwnOf(samples, a), OkOf(samples, pass[a], a, m, ns), For(ns))
  <2>1. Line(store[m][ns], sync[m][a].batch, rings[a][m],
             OwnOf(samples, a), OkOf(samples, pass[a], a, m, ns), For(ns))
    BY Zenon DEF OInv, Order, Lines
  <2>2. CASE m # n
    BY <1>3, <1>6, <2>1, <2>2, Zenon
  <2>3. CASE m = n
    <3> DEFINE sq == store[n][ns]
               sq2 == store'[n][ns]
               bt == sync[n][a].batch
               bt2 == sync'[n][a].batch
               rg == rings[a][n]
               own == OwnOf(samples, a)
               ok == OkOf(samples, pass[a], a, n, ns)
               ext == Into(lines, ns)
    <3>1. Line(sq, bt, rg, own, ok, For(ns)) /\ Extended(sq2, sq, ext)
      BY <1>5, <2>1, <2>3, Zenon
    <3>2. bt2 = bt \/ Len(bt2) = 0
      BY <1>3, <1>4, Zenon
    <3>3. Between(ext, sq, bt2, rg, own, ok, For(ns))
      <4>1. CASE a = p
        <5>1. Picked(ext, Len(lines), lines, For(ns), ok)
          BY <1>P, <4>1, Zenon
        <5>2. Len(bt2) = 0
          BY <1>3, <1>4, <4>1, Zenon
        <5>3. /\ Len(lines) \in 0 .. Len(bt)
              /\ \A i \in 1 .. Len(lines) : lines[i] = bt[i]
          BY <1>0, <4>1, Zenon DEF AppliesPart
        <5> HIDE DEF sq, sq2, bt, bt2, rg, own, ok, ext
        <5> QED
          BY <3>1, <5>1, <5>2, <5>3, PickedBetween, Zenon
      <4>2. CASE a # p
        <5>1. Picked(ext, Len(lines), lines, For(ns), OkOf(samples, pass[p], p, n, ns))
          BY <1>P, Zenon
        <5>2. \A j \in 1 .. Len(ext) : ext[j] \in OkOf(samples, pass[p], p, n, ns)
          BY <5>1, LenFact, Zenon DEF Picked
        <5>3. \A j \in 1 .. Len(ext) : ext[j] \notin own
          BY <4>2, <5>2, Zenon DEF OkOf, OwnOf
        <5> HIDE DEF sq, sq2, bt, bt2, rg, own, ok, ext
        <5> QED
          BY <5>3, Zenon DEF Between
      <4> QED
        BY <4>1, <4>2, Zenon
    <3>4. Line(sq2, bt2, rg, own, ok, For(ns))
      <4> HIDE DEF sq, sq2, bt, bt2, rg, own, ok, ext
      <4> QED
        BY <3>1, <3>2, <3>3, LineExtend, Zenon
    <3> QED
      BY <2>3, <3>4, ZenonT(30)
  <2> QED
    BY <2>2, <2>3, Zenon
<1>11. Lines'
  BY <1>1, <1>10, Zenon DEF Lines
<1> QED
  BY <1>7, <1>9, <1>11, Zenon DEF Order

\* In every namespace a sample is at home, and the samples that arrived at one server are
\* there in the order of their arrival and once.
LEMMA OrderIsInOrder ==
    ASSUME OInv
    PROVE  InOrder
<1>1. ASSUME NEW m \in Servers, NEW ns \in Namespaces
      PROVE  LET ids == store[m][ns] IN
             /\ \A i \in DOMAIN ids : <<m, ns>> \in Homes(samples[ids[i]].series)
             /\ \A i, j \in DOMAIN ids :
                   i < j /\ samples[ids[i]].origin = samples[ids[j]].origin => ids[i] < ids[j]
  <2>1. PICK ids \in Seq(1 .. Len(samples)) : ids = store[m][ns]
    BY Zenon DEF OInv, Order, StoreOK
  <2>2. DOMAIN ids = 1 .. Len(ids) /\ \A i \in 1 .. Len(ids) : ids[i] \in 1 .. Len(samples)
    BY LenFact, Zenon
  <2>3. ASSUME NEW i \in 1 .. Len(ids)
        PROVE  /\ samples[ids[i]].origin \in Servers
               /\ ids[i] \in OwnOf(samples, samples[ids[i]].origin)
    <3>1. samples[ids[i]] \in [origin : Servers, series : Series]
      BY <2>2, LenFact, Zenon DEF OInv, IInv, TypeOK
    <3> QED
      BY <2>2, <3>1, Zenon DEF OwnOf
  <2>4. \A n \in Servers : Line(ids, sync[m][n].batch, rings[n][m], OwnOf(samples, n),
                                OkOf(samples, pass[n], n, m, ns), For(ns))
    BY <2>1, Zenon DEF OInv, Order, Lines
  <2>5. ASSUME NEW i \in 1 .. Len(ids) PROVE <<m, ns>> \in Homes(samples[ids[i]].series)
    <3>1. PICK n \in Servers : n = samples[ids[i]].origin
      BY <2>3, Zenon
    <3>2. ids[i] \in OkOf(samples, pass[n], n, m, ns)
      BY <2>3, <2>4, <3>1, Zenon DEF Line, Within
    <3> QED
      BY <3>2, Zenon DEF OkOf
  <2>6. ASSUME NEW i \in 1 .. Len(ids), NEW j \in 1 .. Len(ids), i < j,
               samples[ids[i]].origin = samples[ids[j]].origin
        PROVE  ids[i] < ids[j]
    BY <2>3, <2>4, <2>6, Zenon DEF Line, Sorted
  <2> QED
    BY <2>1, <2>2, <2>5, <2>6, Zenon
<1> QED
  BY <1>1, Zenon DEF InOrder

\* cluster_pass and the sync clients keep Order, through eviction, timeouts and restarts.
LEMMA OrderNext ==
    ASSUME ReplicaFactor <= N + 1, SetInduction, OInv, [Next]_vars
    PROVE  Order'
<1>1. ASSUME NEW n \in Servers, NEW s \in Series, Push(n, s) PROVE Order'
  BY <1>1, OrderPush, Zenon
<1>2. ASSUME NEW n \in Servers, PassRound(n) PROVE Order'
  BY <1>2, OrderRound, Zenon
<1>3. ASSUME NEW n \in Servers, PassReturns(n) PROVE Order'
  BY <1>3, OrderReturns, Zenon
<1>4. ASSUME NEW n \in Servers, Restart(n) PROVE Order'
  BY <1>4, OrderRestart, Zenon
<1>5. ASSUME NEW n \in Servers, NEW p \in Servers, SyncRequest(n, p) PROVE Order'
  BY <1>5, OrderRequest, Zenon
<1>6. ASSUME NEW n \in Servers, NEW p \in Servers,
             cluster_shift_server_data(n, p) \/ ShiftForNobody(n, p)
      PROVE  Order'
  BY <1>6, OrderShift, Zenon
<1>8. ASSUME NEW n \in Servers, NEW p \in Servers,
             cluster_sync_handler(n, p) \/ SyncTimeout(n, p)
      PROVE  Order'
  BY <1>8, OrderApplied, Zenon
<1>10. CASE UNCHANGED vars
  BY <1>10, Zenon DEF vars, OInv, Order, StoreOK, Apart, Lines, Count
<1> QED
  BY <1>1, <1>2, <1>3, <1>4, <1>5, <1>6, <1>8, <1>10, Zenon DEF Next
==============================================================================
