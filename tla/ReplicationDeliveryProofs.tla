---------------------- MODULE ReplicationDeliveryProofs ----------------------
(* What arrives at one server is not lost on the way to another unless it is *)
(* known to be, and reaches its namespaces in order and once, for any number *)
(* of servers, ring size, size of an answer, and number of samples, timeouts *)
(* and restarts.                                                             *)
EXTENDS ReplicationOrderProofs
-----------------------------------------------------------------------------
\* What a namespace may hold.
Ids == {r.id : r \in Slotted} \cup 1 .. MaxSamples
StoreTyped == store \in [Servers -> [Namespaces -> Seq(Ids)]]

\* A sample of o is in namespace ns of m, on the way to it, or gone.
At(k, o, m, ns) ==
    Present(k, For(ns), store[m][ns], sync[m][o].batch, rings[o][m], gone[o][m])

\* The call has yet to give sample k to the i-th server: the loop has not come to it, or
\* the server is n itself, where the parser stores the sample in the end.
Waits(ps, n, s, k, i) == ps.id = k /\ (i >= ps.i \/ i < First(n, s))

\* The line for the i-th server is one that no sync client can apply.
Unread(o, s, k, i) == HomeServer(s, i) # o /\ Copy(s, i, k) \in Unfit

\* Every sample waits for each of its homes, or is there, on the way to it, gone or skipped.
AtHome(k, i) ==
    \/ Unread(samples[k].origin, samples[k].series, k, i)
    \/ Waits(pass[samples[k].origin], samples[k].origin, samples[k].series, k, i)
    \/ At(k, samples[k].origin, HomeServer(samples[k].series, i), HomeNs(samples[k].series, i))

Accounted ==
    restarts = 0 => \A k \in 1 .. Len(samples) : \A i \in 0 .. ReplicaFactor - 1 : AtHome(k, i)

LInv == IInv /\ PassOK /\ StoreTyped /\ Accounted

\* What is somewhere stays there, or moves on along its way.
Kept == \A k \in Nat : \A o, m \in Servers, ns \in Namespaces : At(k, o, m, ns) => At(k, o, m, ns)'

LEMMA SampleFact ==
    ASSUME IInv, NEW k \in 1 .. Len(samples), NEW i \in 0 .. ReplicaFactor - 1
    PROVE  /\ k \in Nat /\ k # 0 /\ samples[k].origin \in Servers /\ samples[k].series \in Series
           /\ HomeServer(samples[k].series, i) \in Servers
           /\ HomeNs(samples[k].series, i) \in Namespaces
<1>1. samples[k] \in [origin : Servers, series : Series] /\ Len(samples) \in Nat
  BY LenFact, Zenon DEF IInv, TypeOK
<1>2. i \in Nat /\ i < ReplicaFactor
  BY ReplicationAssumption
<1>3. samples[k].origin \in Servers /\ samples[k].series \in Series /\ k \in Nat /\ k # 0
  BY <1>1
<1> QED
  BY <1>2, <1>3, HomeFact, Zenon

LEMMA KeptAccounted ==
    ASSUME LInv, Kept, UNCHANGED <<samples, pass, restarts>>
    PROVE  Accounted'
<1> SUFFICES ASSUME restarts = 0, NEW k \in 1 .. Len(samples), NEW i \in 0 .. ReplicaFactor - 1
             PROVE  AtHome(k, i)'
  BY Zenon DEF Accounted
<1>1. AtHome(k, i)
  BY Zenon DEF LInv, Accounted
<1> QED
  BY <1>1, SampleFact, Zenon DEF LInv, AtHome, Kept

\* Push: the new sample waits for all its homes.
LEMMA PushAccounted ==
    ASSUME LInv, NEW n \in Servers, NEW s \in Series, Push(n, s)
    PROVE  StoreTyped' /\ Accounted'
<1>1. /\ pass[n] = NoPass /\ Len(samples) \in Nat /\ Len(samples') = Len(samples) + 1
      /\ samples'[Len(samples) + 1] = [origin |-> n, series |-> s]
      /\ \A k \in 1 .. Len(samples) : samples'[k] = samples[k]
      /\ pass'[n] = [id |-> Len(samples) + 1, series |-> s, i |-> First(n, s)]
      /\ \A a \in Servers : a # n => pass'[a] = pass[a]
      /\ UNCHANGED <<rings, sync, store, gone, restarts>>
  BY PushFact, Zenon DEF LInv
<1>2. StoreTyped'
  BY <1>1, Zenon DEF LInv, StoreTyped
<1>3. ASSUME restarts = 0, NEW k \in 1 .. Len(samples'), NEW i \in 0 .. ReplicaFactor - 1
      PROVE  AtHome(k, i)'
  <2>1. CASE k = Len(samples) + 1
    BY <1>1, <2>1, ReplicationAssumption DEF AtHome, Waits, First
  <2>2. CASE k \in 1 .. Len(samples)
    <3>1. AtHome(k, i) /\ samples'[k] = samples[k] /\ samples[k].origin \in Servers /\ k # 0
      BY <1>1, <1>3, <2>2, SampleFact, Zenon DEF LInv, Accounted
    <3>2. CASE Waits(pass[samples[k].origin], samples[k].origin, samples[k].series, k, i)
      <4>1. samples[k].origin # n
        BY <1>1, <3>1, <3>2 DEF Waits, NoPass
      <4> QED
        BY <1>1, <3>1, <3>2, <4>1, Zenon DEF AtHome
    <3>3. CASE At(k, samples[k].origin, HomeServer(samples[k].series, i),
                  HomeNs(samples[k].series, i))
      BY <1>1, <3>1, <3>3, Zenon DEF AtHome, At
    <3>4. CASE Unread(samples[k].origin, samples[k].series, k, i)
      BY <1>1, <3>1, <3>4, Zenon DEF AtHome
    <3> QED
      BY <3>1, <3>2, <3>3, <3>4, Zenon DEF AtHome
  <2> QED
    BY <1>1, <2>1, <2>2
<1> QED
  BY <1>1, <1>2, <1>3, Zenon DEF Accounted

\* n puts sample id in one of its namespaces.
LEMMA StoresOne ==
    ASSUME LInv, NEW n \in Servers, NEW home \in Namespaces, NEW id \in OwnOf(samples, n),
           id \in Ids, store' = [store EXCEPT ![n][home] = Append(@, id)],
           UNCHANGED <<rings, sync, gone>>
    PROVE  StoreTyped' /\ Kept /\ At(id, n, n, home)'
<1>1. PICK sq \in Seq(Ids) : sq = store[n][home]
  BY Zenon DEF LInv, StoreTyped
<1>2. PICK sq2 \in Seq(Ids) : sq2 = Append(sq, id) /\ Extended(sq2, sq, <<id>>)
  <2>1. Append(sq, id) \in Seq(Ids) /\ Extended(Append(sq, id), sq, <<id>>)
    BY AppendFact, LenFact DEF Extended
  <2> QED
    BY <2>1, Zenon
<1>3. /\ store'[n][home] = sq2
      /\ \A m \in Servers, ns \in Namespaces : m # n \/ ns # home => store'[m][ns] = store[m][ns]
  BY <1>1, <1>2, Zenon DEF LInv, StoreTyped
<1>4. StoreTyped'
  BY <1>1, <1>2, Zenon DEF LInv, StoreTyped
<1>5. ASSUME NEW k, NEW o \in Servers,
             Present(k, For(home), sq, sync[n][o].batch, rings[o][n], gone[o][n]) \/ k = id
      PROVE  At(k, o, n, home)'
  <2>1. k = id => \E j \in 1 .. Len(<<id>>) : <<id>>[j] = k
    OBVIOUS
  <2>2. Present(k, For(home), sq2, sync[n][o].batch, rings[o][n], gone[o][n])
    BY <1>2, <1>5, <2>1, PresentStored, Zenon
  <2> QED
    BY <1>3, <2>2, Zenon DEF At
<1>6. Kept
  BY <1>1, <1>3, <1>5, ZenonT(30) DEF Kept, At
<1> QED
  BY <1>4, <1>5, <1>6, Zenon

\* A round: the sample no longer waits for this home, and is there or on the way to it, or
\* its line is one to skip.
LEMMA RoundAccounted ==
    ASSUME LInv, NEW n \in Servers, PassRound(n)
    PROVE  StoreTyped' /\ Accounted'
<1>1. PICK s, i, id : Call(n, s, i, id)
  BY CallFact, Zenon DEF PassRound, LInv
<1>2. /\ i < ReplicaFactor
      /\ pass'[n].id = id /\ pass'[n].series = s /\ pass'[n].i = i + 1
      /\ \A a \in Servers : a # n => pass'[a] = pass[a]
      /\ UNCHANGED <<samples, sync, restarts>>
      /\ RecordOf(n) \in Records /\ RecordOf(n) = Copy(s, i, id) /\ RecordOf(n).id = id
      /\ RecordOf(n) \notin Unfit => TargetNs(RecordOf(n)) = HomeNs(s, i)
  BY <1>1, RoundFact DEF LInv
<1>3. HomeServer(s, i) \in Servers /\ HomeNs(s, i) \in Namespaces
  BY <1>1, <1>2, HomeFact, Zenon DEF Call
<1>4. /\ StoreTyped' /\ Kept
      /\ Unread(n, s, id, i) \/ At(id, n, HomeServer(s, i), HomeNs(s, i))'
  <2>1. CASE HomeServer(s, i) = n
    <3>1. id \in OwnOf(samples, n) /\ id \in Ids
      BY <1>1, <1>2, Zenon DEF Call, Ids, Records
    <3>2. /\ store' = [store EXCEPT ![n][HomeNs(s, i)] = Append(@, id)]
          /\ UNCHANGED <<rings, gone>>
      BY <1>1, <2>1, RoundStores DEF LInv
    <3> QED
      BY <1>2, <1>3, <2>1, <3>1, <3>2, StoresOne, Zenon
  <2>2. CASE HomeServer(s, i) # n
    <3>1. PICK peer \in Servers : peer = HomeServer(s, i)
      BY <1>3, Zenon
    <3>2. PICK e \in {0, 1} : \E ext :
             /\ Inserted(rings[n][peer], rings'[n][peer], RecordOf(n), e)
             /\ Extended(gone'[n][peer], gone[n][peer], ext)
             /\ Len(ext) = e /\ (e = 1 => ext[1] = Entry(rings[n][peer], 0))
      BY <1>1, <2>2, <3>1, RoundInserts, Zenon DEF LInv
    <3>3. PICK ext :
             /\ Inserted(rings[n][peer], rings'[n][peer], RecordOf(n), e)
             /\ Extended(gone'[n][peer], gone[n][peer], ext)
             /\ Len(ext) = e /\ (e = 1 => ext[1] = Entry(rings[n][peer], 0))
      BY <3>2, Zenon
    <3>4. /\ \A a, b \in Servers : a # n \/ b # peer =>
                rings'[a][b] = rings[a][b] /\ gone'[a][b] = gone[a][b]
          /\ UNCHANGED store
      BY <1>1, <2>2, <3>1, RoundInserts, Zenon DEF LInv
    <3>5. RecordOf(n) \in Unfit \/ RecordOf(n) \in For(HomeNs(s, i))
      BY <1>2, ReplicationAssumption, Zenon DEF For, Slotted
    <3>6. ASSUME NEW k, NEW ns \in Namespaces,
                 At(k, n, peer, ns) \/ (RecordOf(n) \in For(ns) /\ RecordOf(n).id = k)
          PROVE  At(k, n, peer, ns)'
      <4>1. Present(k, For(ns), store[peer][ns], sync[peer][n].batch, rings'[n][peer],
                    gone'[n][peer])
        BY <3>3, <3>6, PresentInsert, Zenon DEF At
      <4> QED
        BY <1>2, <3>4, <4>1, Zenon DEF At
    <3>7. Kept
      <4>1. ASSUME NEW k \in Nat, NEW o \in Servers, NEW m \in Servers, NEW ns \in Namespaces,
                   At(k, o, m, ns)
            PROVE  At(k, o, m, ns)'
        BY <1>2, <3>4, <3>6, <4>1, Zenon DEF At
      <4> QED
        BY <4>1, Zenon DEF Kept
    <3>8. StoreTyped'
      BY <3>4, Zenon DEF LInv, StoreTyped
    <3> QED
      BY <1>2, <1>3, <2>2, <3>1, <3>5, <3>6, <3>7, <3>8, Zenon DEF Unread
  <2> QED
    BY <2>1, <2>2, Zenon
<1>5. ASSUME restarts = 0, NEW k \in 1 .. Len(samples), NEW j \in 0 .. ReplicaFactor - 1
      PROVE  AtHome(k, j)'
  <2> DEFINE o == samples[k].origin
             t == samples[k].series
  <2>1. /\ AtHome(k, j) /\ k \in Nat /\ o \in Servers
        /\ HomeServer(t, j) \in Servers /\ HomeNs(t, j) \in Namespaces
    BY <1>5, SampleFact, Zenon DEF LInv, Accounted
  <2>2. CASE At(k, o, HomeServer(t, j), HomeNs(t, j))
    BY <1>2, <1>4, <2>1, <2>2, Zenon DEF Kept, AtHome
  <2>3. CASE Waits(pass[o], o, t, k, j) /\ o # n
    BY <1>2, <2>1, <2>3, Zenon DEF AtHome
  <2>4. CASE Waits(pass[o], o, t, k, j) /\ o = n
    <3>1. k = id /\ t = s /\ (j >= i \/ j < First(n, s))
      BY <1>1, <2>4, Zenon DEF Waits, Call
    <3>2. CASE j = i
      BY <1>2, <1>4, <2>4, <3>1, <3>2, Zenon DEF AtHome
    <3>3. CASE j # i
      <4>1. j >= i + 1 \/ j < First(n, s)
        BY <1>1, <3>1, <3>3 DEF Call
      <4> QED
        BY <1>2, <2>4, <3>1, <4>1, Zenon DEF AtHome, Waits
    <3> QED
      BY <3>2, <3>3, Zenon
  <2>5. CASE Unread(o, t, k, j)
    BY <1>2, <2>5, Zenon DEF AtHome
  <2> QED
    BY <2>1, <2>2, <2>3, <2>4, <2>5, Zenon DEF AtHome
<1> QED
  BY <1>2, <1>4, <1>5, Zenon DEF Accounted

\* The call returns: what its sample still waits for is the namespace that the parser of
\* the primary writes.
LEMMA ReturnsAccounted ==
    ASSUME LInv, NEW n \in Servers, PassReturns(n)
    PROVE  StoreTyped' /\ Accounted'
<1>1. PICK s, i, id : Call(n, s, i, id)
  BY CallFact, Zenon DEF PassReturns, LInv
<1>2. /\ i >= ReplicaFactor
      /\ \A a \in Servers : a # n => pass'[a] = pass[a]
      /\ UNCHANGED <<samples, sync, rings, gone, restarts>>
  BY <1>1, Zenon DEF PassReturns, LInv, IInv, TypeOK, Call, logVars, syncVars
<1>3. /\ StoreTyped' /\ Kept
      /\ Primary[s] = n => At(id, n, n, NsDefault)'
  <2>1. CASE Primary[s] = n
    <3>1. NsDefault \in Namespaces /\ id \in OwnOf(samples, n)
      BY <1>1, Zenon DEF Namespaces, Call
    <3>2. id \in Ids
      <4>1. pass[n] \in [id : 1 .. MaxSamples, series : Series, i : Nat]
        BY Zenon DEF PassReturns, LInv, IInv, TypeOK, Passes
      <4> QED
        BY <1>1, <4>1, Zenon DEF Call, Ids
    <3>3. store' = [store EXCEPT ![n][NsDefault] = Append(@, id)]
      BY <1>1, <2>1, Zenon DEF PassReturns, Call
    <3> QED
      BY <1>2, <3>1, <3>2, <3>3, StoresOne, Zenon
  <2>2. CASE Primary[s] # n
    <3>1. UNCHANGED store
      BY <1>1, <2>2, Zenon DEF PassReturns, Call
    <3> QED
      BY <1>2, <2>2, <3>1, Zenon DEF Kept, At, LInv, StoreTyped
  <2> QED
    BY <2>1, <2>2, Zenon
<1>4. ASSUME restarts = 0, NEW k \in 1 .. Len(samples), NEW j \in 0 .. ReplicaFactor - 1
      PROVE  AtHome(k, j)'
  <2> DEFINE o == samples[k].origin
             t == samples[k].series
  <2>1. /\ AtHome(k, j) /\ k \in Nat /\ o \in Servers
        /\ HomeServer(t, j) \in Servers /\ HomeNs(t, j) \in Namespaces
    BY <1>4, SampleFact, Zenon DEF LInv, Accounted
  <2>2. CASE At(k, o, HomeServer(t, j), HomeNs(t, j))
    BY <1>2, <1>3, <2>1, <2>2, Zenon DEF Kept, AtHome
  <2>3. CASE Waits(pass[o], o, t, k, j) /\ o # n
    BY <1>2, <2>1, <2>3, Zenon DEF AtHome
  <2>4. CASE Waits(pass[o], o, t, k, j) /\ o = n
    <3>1. k = id /\ t = s /\ (j >= i \/ j < First(n, s))
      BY <1>1, <2>4, Zenon DEF Waits, Call
    <3>2. j = 0 /\ Primary[s] = n
      BY <1>1, <1>2, <3>1, ReplicationAssumption DEF First, Call
    <3>3. HomeServer(s, j) = n /\ HomeNs(s, j) = NsDefault
      <4>1. N \in Nat \ {0} /\ n \in 0 .. N - 1
        BY ReplicationAssumption, Zenon DEF Servers
      <4> QED
        BY <3>2, <4>1 DEF HomeServer, HomeNs
    <3> QED
      BY <1>2, <1>3, <2>4, <3>1, <3>2, <3>3, Zenon DEF AtHome
  <2>5. CASE Unread(o, t, k, j)
    BY <1>2, <2>5, Zenon DEF AtHome
  <2> QED
    BY <2>1, <2>2, <2>3, <2>4, <2>5, Zenon DEF AtHome
<1> QED
  BY <1>2, <1>3, <1>4, Zenon DEF Accounted

LEMMA RequestAccounted ==
    ASSUME LInv, NEW n \in Servers, NEW p \in Servers, SyncRequest(n, p)
    PROVE  StoreTyped' /\ Accounted'
<1>1. /\ UNCHANGED <<samples, pass, rings, gone, store, restarts>>
      /\ sync' = [sync EXCEPT ![n][p].state = "request"]
  BY Zenon DEF SyncRequest, logVars
<1>2. \A a, b \in Servers : sync'[a][b].batch = sync[a][b].batch
  <2>1. /\ sync'[n][p] = [sync[n][p] EXCEPT !.state = "request"]
        /\ \A a, b \in Servers : a # n \/ b # p => sync'[a][b] = sync[a][b]
    BY <1>1, Zenon DEF LInv, IInv, TypeOK
  <2>2. sync[n][p] \in Syncs
    BY Zenon DEF LInv, IInv, TypeOK
  <2>3. sync'[n][p].batch = sync[n][p].batch
    BY <2>1, <2>2, Zenon DEF Syncs
  <2> QED
    BY <2>1, <2>3, Zenon
<1>3. Kept
  BY <1>1, <1>2, Zenon DEF Kept, At
<1> QED
  BY <1>1, <1>3, KeptAccounted, Zenon DEF LInv, StoreTyped

\* The first entries of a log leave it.
LEMMA ShiftAccounted ==
    ASSUME LInv, NEW n \in Servers, NEW p \in Servers,
           cluster_shift_server_data(n, p) \/ ShiftForNobody(n, p)
    PROVE  StoreTyped' /\ Accounted'
<1>1. PICK c \in Nat : \E ext : Shifts(n, p, c, ext)
  BY ShiftsFact, Zenon DEF LInv
<1>2. PICK ext : Shifts(n, p, c, ext)
  BY <1>1, Zenon
<1>3. /\ Shifted(rings[p][n], rings'[p][n], c) /\ Taken(ext, rings[p][n], c)
      /\ \A a, b \in Servers : a # p \/ b # n => rings'[a][b] = rings[a][b]
      /\ \A a, b \in Servers : a # n \/ b # p => sync'[a][b] = sync[a][b]
      /\ \A a, b \in Servers : a # p \/ b # n => gone'[a][b] = gone[a][b]
      /\ UNCHANGED <<samples, pass, store, restarts>>
  BY <1>2, Zenon DEF Shifts
<1>4. \/ Len(sync[n][p].batch) = 0 /\ sync'[n][p].batch = ext /\ gone'[p][n] = gone[p][n]
      \/ sync'[n][p].batch = sync[n][p].batch /\ Extended(gone'[p][n], gone[p][n], ext)
  BY <1>2, EmptySeq, Zenon DEF Shifts, LInv, IInv, OnlyAnswers
<1>5. ASSUME NEW k, NEW ns \in Namespaces, At(k, p, n, ns)
      PROVE  At(k, p, n, ns)'
  <2> DEFINE T == For(ns)
             sq == store[n][ns]
             bt == sync[n][p].batch
             bt2 == sync'[n][p].batch
             rg == rings[p][n]
             rg2 == rings'[p][n]
             gn == gone[p][n]
             gn2 == gone'[p][n]
  <2>1. Present(k, T, sq, bt2, rg2, gn2)
    <3>1. /\ Shifted(rg, rg2, c) /\ Taken(ext, rg, c) /\ Present(k, T, sq, bt, rg, gn)
          /\ \/ Len(bt) = 0 /\ bt2 = ext /\ gn2 = gn
             \/ bt2 = bt /\ Extended(gn2, gn, ext)
      BY <1>3, <1>4, <1>5, Zenon DEF At
    <3> HIDE DEF T, sq, bt, bt2, rg, rg2, gn, gn2
    <3> QED
      BY <3>1, PresentShift, Zenon
  <2> QED
    BY <1>3, <2>1, Zenon DEF At
<1>6. Kept
  <2>1. ASSUME NEW k \in Nat, NEW o \in Servers, NEW m \in Servers, NEW ns \in Namespaces,
               At(k, o, m, ns)
        PROVE  At(k, o, m, ns)'
    <3>1. CASE o = p /\ m = n
      BY <1>5, <2>1, <3>1, Zenon
    <3>2. CASE o # p \/ m # n
      BY <1>3, <2>1, <3>2, Zenon DEF At
    <3> QED
      BY <3>1, <3>2, Zenon
  <2> QED
    BY <2>1, Zenon DEF Kept
<1> QED
  BY <1>3, <1>6, KeptAccounted, Zenon DEF LInv, StoreTyped

\* An answer is over: its lines are in the namespaces, or gone.
LEMMA AppliedAccounted ==
    ASSUME SetInduction, LInv, NEW n \in Servers, NEW p \in Servers,
           cluster_sync_handler(n, p) \/ SyncTimeout(n, p)
    PROVE  StoreTyped' /\ Accounted'
<1>1. PICK lines, rest : AppliesPart(n, p, lines, rest)
  BY AppliesFact, Zenon DEF LInv
<1>2. /\ UNCHANGED <<samples, pass, rings, restarts>>
      /\ sync' = [sync EXCEPT ![n][p] = Idle]
      /\ store' = [store EXCEPT ![n] = [ns \in Namespaces |-> @[ns] \o Into(lines, ns)]]
      /\ Extended(gone'[p][n], gone[p][n], rest)
      /\ \A a, b \in Servers : a # p \/ b # n => gone'[a][b] = gone[a][b]
  BY <1>1, Zenon DEF AppliesPart
<1>3. \A a, b \in Servers : a # n \/ b # p => sync'[a][b] = sync[a][b]
  BY <1>2, Zenon DEF LInv, IInv, TypeOK
<1>4. ASSUME NEW ns \in Namespaces
      PROVE  /\ Picked(Into(lines, ns), Len(lines), lines, For(ns), Ids)
             /\ Into(lines, ns) \in Seq(Ids)
  <2>1. \A i \in 1 .. Len(sync[n][p].batch) :
           sync[n][p].batch[i] \in For(ns) => sync[n][p].batch[i].id \in Ids
    BY Zenon DEF For, Ids
  <2> QED
    BY <1>1, <2>1, LinesPicked, Zenon DEF LInv
<1>5. ASSUME NEW ns \in Namespaces
      PROVE  /\ store'[n][ns] = store[n][ns] \o Into(lines, ns)
             /\ store'[n][ns] \in Seq(Ids)
             /\ Extended(store'[n][ns], store[n][ns], Into(lines, ns))
  <2>1. PICK sq \in Seq(Ids), ext \in Seq(Ids) : sq = store[n][ns] /\ ext = Into(lines, ns)
    BY <1>4, Zenon DEF LInv, StoreTyped
  <2>2. store'[n][ns] = sq \o ext
    BY <1>2, <2>1, Zenon DEF LInv, StoreTyped
  <2>3. sq \o ext \in Seq(Ids) /\ Extended(sq \o ext, sq, ext)
    BY ConcatFact, ConcatExtends, Zenon
  <2> QED
    BY <2>1, <2>2, <2>3, Zenon
<1>6. \A m \in Servers, ns \in Namespaces : m # n => store'[m][ns] = store[m][ns]
  BY <1>2, Zenon DEF LInv, StoreTyped
<1>7. StoreTyped'
  <2>1. \A ns \in Namespaces : store[n][ns] \o Into(lines, ns) \in Seq(Ids)
    BY <1>5, Zenon
  <2>2. [ns \in Namespaces |-> store[n][ns] \o Into(lines, ns)] \in [Namespaces -> Seq(Ids)]
    BY <2>1, Zenon
  <2> QED
    BY <1>2, <2>2, Zenon DEF LInv, StoreTyped
<1>8. ASSUME NEW k, NEW ns \in Namespaces, At(k, p, n, ns)
      PROVE  At(k, p, n, ns)'
  <2> DEFINE T == For(ns)
             sq == store[n][ns]
             sq2 == store'[n][ns]
             bt == sync[n][p].batch
             bt2 == sync'[n][p].batch
             rg == rings[p][n]
             gn == gone[p][n]
             gn2 == gone'[p][n]
             ext == Into(lines, ns)
  <2>1. /\ Len(lines) \in 0 .. Len(bt) /\ \A i \in 1 .. Len(lines) : lines[i] = bt[i]
        /\ Len(rest) = Len(bt) - Len(lines)
        /\ \A i \in 1 .. Len(rest) : rest[i] = bt[Len(lines) + i]
    BY <1>1, Zenon DEF AppliesPart
  <2>2. /\ Present(k, T, sq, bt, rg, gn) /\ Picked(ext, Len(lines), lines, T, Ids)
        /\ Extended(sq2, sq, ext) /\ Extended(gn2, gn, rest)
    BY <1>2, <1>4, <1>5, <1>8, Zenon DEF At
  <2>3. Present(k, T, sq2, bt2, rg, gn2)
    <3> HIDE DEF T, sq, sq2, bt, bt2, rg, gn, gn2, ext
    <3> QED
      BY <2>1, <2>2, PresentApplied, Zenon
  <2> QED
    BY <1>2, <2>3, Zenon DEF At
<1>9. ASSUME NEW k, NEW ns \in Namespaces, NEW o \in Servers, o # p, At(k, o, n, ns)
      PROVE  At(k, o, n, ns)'
  <2>1. Present(k, For(ns), store'[n][ns], sync[n][o].batch, rings[o][n], gone[o][n])
    BY <1>5, <1>9, PresentStored, Zenon DEF At
  <2> QED
    BY <1>2, <1>3, <1>9, <2>1, Zenon DEF At
<1>10. Kept
  <2>1. ASSUME NEW k \in Nat, NEW o \in Servers, NEW m \in Servers, NEW ns \in Namespaces,
               At(k, o, m, ns)
        PROVE  At(k, o, m, ns)'
    <3>1. CASE m = n
      BY <1>8, <1>9, <2>1, <3>1, Zenon
    <3>2. CASE m # n
      BY <1>2, <1>3, <1>6, <2>1, <3>2, Zenon DEF At
    <3> QED
      BY <3>1, <3>2, Zenon
  <2> QED
    BY <2>1, Zenon DEF Kept
<1> QED
  BY <1>2, <1>7, <1>10, KeptAccounted, Zenon

LEMMA AccountedInit ==
    ASSUME Init
    PROVE  PassOK /\ StoreTyped /\ Accounted
<1>1. <<>> \in Seq(Ids) /\ Len(<<>>) = 0
  BY EmptySeq, Zenon
<1>2. \A k \in 1 .. Len(samples) : FALSE
  BY <1>1 DEF Init
<1> QED
  BY <1>1, <1>2, Zenon DEF Init, PassOK, PassOf, StoreTyped, Accounted

LEMMA AccountedNext ==
    ASSUME SetInduction, LInv, [Next]_vars
    PROVE  StoreTyped' /\ Accounted'
<1>1. ASSUME NEW n \in Servers, NEW s \in Series, Push(n, s) PROVE StoreTyped' /\ Accounted'
  BY <1>1, PushAccounted, Zenon
<1>2. ASSUME NEW n \in Servers, PassRound(n) PROVE StoreTyped' /\ Accounted'
  BY <1>2, RoundAccounted, Zenon
<1>3. ASSUME NEW n \in Servers, PassReturns(n) PROVE StoreTyped' /\ Accounted'
  BY <1>3, ReturnsAccounted, Zenon
<1>4. ASSUME NEW n \in Servers, Restart(n) PROVE StoreTyped' /\ Accounted'
  <2>1. <<>> \in Seq(Ids) /\ restarts' # 0
    BY <1>4, EmptySeq DEF Restart, LInv, IInv, TypeOK
  <2> QED
    BY <1>4, <2>1, Zenon DEF Restart, LInv, StoreTyped, Accounted
<1>5. ASSUME NEW n \in Servers, NEW p \in Servers, SyncRequest(n, p)
      PROVE  StoreTyped' /\ Accounted'
  BY <1>5, RequestAccounted, Zenon
<1>6. ASSUME NEW n \in Servers, NEW p \in Servers,
             cluster_shift_server_data(n, p) \/ ShiftForNobody(n, p)
      PROVE  StoreTyped' /\ Accounted'
  BY <1>6, ShiftAccounted, Zenon
<1>7. ASSUME NEW n \in Servers, NEW p \in Servers,
             cluster_sync_handler(n, p) \/ SyncTimeout(n, p)
      PROVE  StoreTyped' /\ Accounted'
  BY <1>7, AppliedAccounted, Zenon
<1>8. CASE UNCHANGED vars
  <2>1. UNCHANGED <<samples, pass, rings, sync, gone, store, restarts>>
    BY <1>8, Zenon DEF vars
  <2>2. Kept
    BY <2>1, Zenon DEF Kept, At
  <2> QED
    BY <2>1, <2>2, KeptAccounted, Zenon DEF LInv, StoreTyped
<1> QED
  BY <1>1, <1>2, <1>3, <1>4, <1>5, <1>6, <1>7, <1>8, Zenon DEF Next

\* A sample that waits for no home of its is there, under way or gone.
LEMMA AccountedFor ==
    ASSUME ReplicaFactor >= 1, LInv
    PROVE  NothingUnaccounted
<1> SUFFICES ASSUME restarts = 0, NEW k \in DOMAIN samples, NEW home \in Homes(samples[k].series)
             PROVE  \/ pass[samples[k].origin].id = k \/ IsSkipped(k, home)
                    \/ Stored(k, home) \/ UnderWay(k, home) \/ IsGone(k, home)
  BY Zenon DEF NothingUnaccounted
<1>1. k \in 1 .. Len(samples) /\ samples[k] \in [origin : Servers, series : Series]
  BY LenFact, Zenon DEF LInv, IInv, TypeOK
<1>2. PICK o \in Servers, s \in Series : o = samples[k].origin /\ s = samples[k].series
  BY <1>1, Zenon
<1>3. PICK i \in 0 .. ReplicaFactor - 1 : home = <<HomeServer(s, i), HomeNs(s, i)>>
  <2>1. N \in Nat \ {0} /\ ReplicaFactor \in Nat /\ Primary[s] \in 0 .. N - 1
    BY ReplicationAssumption, Zenon DEF Servers
  <2>2. CASE home = <<Primary[s], NsDefault>>
    <3>1. 0 \in 0 .. ReplicaFactor - 1 /\ HomeServer(s, 0) = Primary[s] /\ HomeNs(s, 0) = NsDefault
      BY <2>1 DEF HomeServer, HomeNs
    <3> QED
      BY <2>2, <3>1, Zenon
  <2>3. ASSUME NEW j \in 1 .. ReplicaFactor - 1, home = <<(Primary[s] + j) % N, Primary[s]>>
        PROVE  j \in 0 .. ReplicaFactor - 1 /\ home = <<HomeServer(s, j), HomeNs(s, j)>>
    BY <2>1, <2>3 DEF HomeServer, HomeNs
  <2> QED
    BY <1>2, <2>2, <2>3, Zenon DEF Homes
<1>4. PICK m \in Servers, ns \in Namespaces :
         m = HomeServer(s, i) /\ ns = HomeNs(s, i) /\ home[1] = m /\ home[2] = ns
  BY <1>1, <1>2, <1>3, SampleFact, Zenon DEF LInv
<1>5. Waits(pass[o], o, s, k, i) \/ At(k, o, m, ns) \/ Unread(o, s, k, i)
  BY <1>1, <1>2, <1>4, Zenon DEF LInv, Accounted, AtHome
<1>6. CASE Waits(pass[o], o, s, k, i)
  BY <1>2, <1>6, Zenon DEF Waits
<1>7. CASE \E j \in 1 .. Len(store[m][ns]) : store[m][ns][j] = k
  <2>1. DOMAIN store[m][ns] = 1 .. Len(store[m][ns])
    <3>1. store[m][ns] \in Seq(Ids)
      BY Zenon DEF LInv, StoreTyped
    <3> QED
      BY <3>1, LenFact, Zenon
  <2> QED
    BY <1>4, <1>7, <2>1, Zenon DEF Stored, Occurs
<1>8. CASE \E j \in 1 .. Len(sync[m][o].batch) :
              sync[m][o].batch[j] \in For(ns) /\ sync[m][o].batch[j].id = k
  <2>1. sync[m][o].batch \in Seq(Slotted)
    BY DEF LInv, IInv, TypeOK, Syncs
  <2>2. DOMAIN sync[m][o].batch = 1 .. Len(sync[m][o].batch)
    BY <2>1, LenFact, Zenon
  <2>3. Carries(k, home, sync[m][o].batch)
    BY <1>4, <1>8, <2>2, Zenon DEF Carries, For
  <2> QED
    BY <1>4, <2>3, Zenon DEF UnderWay
<1>9. CASE \E j \in 0 .. Count(rings[o][m]) - 1 :
              Entry(rings[o][m], j) \in For(ns) /\ Entry(rings[o][m], j).id = k
  <2>1. PICK j \in 0 .. Count(rings[o][m]) - 1 :
           Entry(rings[o][m], j) \in For(ns) /\ Entry(rings[o][m], j).id = k
    BY <1>9, Zenon
  <2>2. PICK h \in 1 .. Count(rings[o][m]) : h - 1 = j
    <3>1. Count(rings[o][m]) \in Nat
      BY LogFact DEF LInv, IInv, TypeOK
    <3>2. j + 1 \in 1 .. Count(rings[o][m]) /\ (j + 1) - 1 = j
      BY <3>1
    <3> QED
      BY <3>2, Zenon
  <2>3. h \in DOMAIN Entries(rings[o][m]) /\ Entries(rings[o][m])[h] = Entry(rings[o][m], j)
    BY <2>2, Zenon DEF Entries
  <2>4. Carries(k, home, Entries(rings[o][m]))
    BY <1>4, <2>1, <2>3, Zenon DEF Carries, For
  <2> QED
    BY <1>4, <2>4, Zenon DEF UnderWay
<1>10. CASE \E j \in 1 .. Len(gone[o][m]) : gone[o][m][j] \in For(ns) /\ gone[o][m][j].id = k
  <2>1. DOMAIN gone[o][m] = 1 .. Len(gone[o][m])
    <3>1. gone[o][m] \in Seq(Slotted)
      BY Zenon DEF LInv, IInv, TypeOK
    <3> QED
      BY <3>1, LenFact, Zenon
  <2>2. Carries(k, home, gone[o][m])
    BY <1>4, <1>10, <2>1, Zenon DEF Carries, For
  <2> QED
    BY <1>4, <2>2, Zenon DEF IsGone
<1>11. CASE Unread(o, s, k, i)
  <2>1. (i > 0) = (ns # NsDefault)
    BY <1>4, ReplicationAssumption DEF HomeNs, NsDefault, Servers
  <2>2. Copy(s, i, k) = [replica |-> ns # NsDefault, series |-> s, id |-> k]
    BY <2>1, Zenon DEF Copy
  <2> QED
    BY <1>2, <1>4, <1>11, <2>2, Zenon DEF Unread, IsSkipped
<1> QED
  BY <1>5, <1>6, <1>7, <1>8, <1>9, <1>10, <1>11, Zenon DEF At, Present
-----------------------------------------------------------------------------
\* Induction over the natural numbers, from the library's theorem that < has no
\* infinite descent.
WF == INSTANCE WellFoundedInduction

LEMMA LeastOf ==
    ASSUME NEW T \in SUBSET Nat, T # {}
    PROVE  \E x \in T : \A y \in T : x <= y
<1> DEFINE R == WF!OpToRel(<, Nat)
<1>1. WF!IsWellFoundedOn(R, Nat)
  BY WF!NatLessThanWellFounded, Zenon
<1>2. \A x, y \in Nat : x < y => <<x, y>> \in R
  BY Zenon DEF WF!OpToRel
<1> HIDE DEF R
<1>3. PICK x \in T : \A y \in T : ~ (<<y, x>> \in R)
  BY <1>1, WF!WFMin, Zenon
<1>4. ASSUME NEW y \in T PROVE x <= y
  <2>1. ~ (y < x)
    BY <1>2, <1>3, Zenon
  <2> QED
    BY <2>1
<1> QED
  BY <1>4, Zenon

LEMMA Induct == SetInduction
<1> SUFFICES ASSUME NEW S, 0 \in S, \A k \in Nat : k \in S => k + 1 \in S
             PROVE  Nat \subseteq S
  BY Zenon DEF SetInduction
<1> SUFFICES ASSUME Nat \ S # {} PROVE FALSE
  BY Zenon
<1>1. PICK x \in Nat \ S : \A y \in Nat \ S : x <= y
  BY LeastOf, Zenon
<1>2. x # 0
  BY Zenon
<1>3. x - 1 \in Nat /\ x - 1 \notin Nat \ S
  BY <1>1, <1>2
<1> QED
  BY <1>1, <1>3

\* What one server receives is applied on every other one in the order of its arrival and
\* once, in the namespaces where replica_factor puts it and in no other, as long as
\* replica_factor is at most one more than the number of servers: cluster_pass takes the
\* servers round the ring, and beyond that bound it meets a replica a second time.
THEOREM StoredInOrder ==
    ASSUME ReplicaFactor <= N + 1
    PROVE  Spec => []InOrder
<1>1. Init => OInv
  BY InitHolds, AccountedInit, OrderInit, Zenon DEF OInv
<1>2. OInv /\ [Next]_vars => OInv'
  BY TotalsNext, PassNext, Induct, OrderNext, Zenon DEF OInv
<1>3. OInv => InOrder
  BY OrderIsInOrder, Zenon
<1> QED
  BY <1>1, <1>2, <1>3, PTL DEF Spec

\* While no server restarts, every sample whose cluster_pass has returned is, for each of
\* its homes, in the namespace, in the log or in an answer, was evicted from a full log or
\* lost with an answer, or makes a line that the sync client of that home skips (too long,
\* or without one of its parts), whichever lines those are.  This needs a replica_factor:
\* with 0, which is what a cluster without the key gets, the loop of cluster_pass has no
\* round and a server drops every sample it is not the primary of.
THEOREM NothingIsUnaccounted ==
    ASSUME ReplicaFactor >= 1
    PROVE  Spec => []NothingUnaccounted
<1>1. Init => LInv
  BY InitHolds, AccountedInit, Zenon DEF LInv
<1>2. LInv /\ [Next]_vars => LInv'
  BY TotalsNext, PassNext, Induct, AccountedNext, Zenon DEF LInv
<1>3. LInv => NothingUnaccounted
  BY AccountedFor, Zenon
<1> QED
  BY <1>1, <1>2, <1>3, PTL DEF Spec
==============================================================================
