-------------------------- MODULE OplogRingProofs ---------------------------
(***************************************************************************)
(* What the operations of the ring do to its cursors, its number of        *)
(* entries and the entries, for every ring size and set of entries.  The   *)
(* arithmetic of the wrapping cursors is confined to these lemmas.         *)
(***************************************************************************)
EXTENDS OplogRing, TLAPS

\* What the operators of Sequences return.
LEMMA EmptySeq == \A S : <<>> \in Seq(S) /\ Len(<<>>) = 0
  OBVIOUS

LEMMA LenFact ==
    ASSUME NEW S, NEW s \in Seq(S)
    PROVE  Len(s) \in Nat /\ DOMAIN s = 1 .. Len(s) /\ \A i \in 1 .. Len(s) : s[i] \in S
  OBVIOUS

LEMMA AppendFact ==
    ASSUME NEW S, NEW s \in Seq(S), NEW x \in S
    PROVE  /\ Append(s, x) \in Seq(S) /\ Len(Append(s, x)) = Len(s) + 1
           /\ \A i \in 1 .. Len(s) : Append(s, x)[i] = s[i]
           /\ Append(s, x)[Len(s) + 1] = x
  OBVIOUS

LEMMA ConcatFact ==
    ASSUME NEW S, NEW s \in Seq(S), NEW t \in Seq(S)
    PROVE  /\ s \o t \in Seq(S) /\ Len(s \o t) = Len(s) + Len(t)
           /\ \A i \in 1 .. Len(s) + Len(t) :
                 (s \o t)[i] = IF i <= Len(s) THEN s[i] ELSE t[i - Len(s)]
  OBVIOUS

LEMMA SubSeqFact ==
    ASSUME NEW S, NEW s \in Seq(S), NEW a \in 1 .. Len(s) + 1, NEW b \in 0 .. Len(s),
           a <= b + 1
    PROVE  /\ SubSeq(s, a, b) \in Seq(S) /\ Len(SubSeq(s, a, b)) = b - a + 1
           /\ \A i \in 1 .. b - a + 1 : SubSeq(s, a, b)[i] = s[a + i - 1]
  OBVIOUS

LEMMA TailFact ==
    ASSUME NEW S, NEW s \in Seq(S), s # <<>>
    PROVE  /\ Tail(s) \in Seq(S) /\ Len(Tail(s)) = Len(s) - 1
           /\ \A i \in 1 .. Len(Tail(s)) : Tail(s)[i] = s[i + 1]
  OBVIOUS

LEMMA SeqEqual ==
    ASSUME NEW S, NEW s \in Seq(S), NEW t \in Seq(S), Len(s) = Len(t),
           \A i \in 1 .. Len(s) : s[i] = t[i]
    PROVE  s = t
  OBVIOUS

LEMMA FunctionIsSeq ==
    ASSUME NEW S, NEW n \in Nat, NEW f \in [1 .. n -> S]
    PROVE  f \in Seq(S) /\ Len(f) = n
  OBVIOUS
-----------------------------------------------------------------------------
\* oplog_record_init never makes a ring that can hold nothing.
LEMMA RingSizeFact == RingSize \in Nat /\ RingSize >= 2
BY OplogAssumption DEF RingSize

\* An index at most one turn ahead wraps by one subtraction.
LEMMA Wrap ==
    ASSUME NEW k \in 0 .. 2 * RingSize - 1
    PROVE  k % RingSize = IF k < RingSize THEN k ELSE k - RingSize
BY RingSizeFact

LEMMA WrapSum ==
    ASSUME NEW s \in Slots, NEW i \in Slots
    PROVE  (s + i) % RingSize = IF s + i < RingSize THEN s + i ELSE s + i - RingSize
BY RingSizeFact DEF Slots

LEMMA SuccFact ==
    ASSUME NEW s \in Slots
    PROVE  /\ Succ(s) \in Slots
           /\ Succ(s) = IF s = RingSize - 1 THEN 0 ELSE s + 1
BY RingSizeFact, Wrap DEF Succ, Slots

-----------------------------------------------------------------------------
\* Between the cursors there are at most RingSize - 1 entries, and one step of
\* either cursor changes their number by one.
LEMMA CountFact ==
    ASSUME NEW r \in Rings
    PROVE  /\ Count(r) \in 0 .. RingSize - 1
           /\ Count(r) = IF r.begin <= r.end THEN r.end - r.begin
                                             ELSE r.end + RingSize - r.begin
           /\ InsertResult(r) = 1 <=> Count(r) = RingSize - 1
<1>1. /\ r.begin \in Slots
      /\ r.end \in Slots
  BY Zenon DEF Rings, Slotted
<1>2. r.end + RingSize - r.begin \in 0 .. 2 * RingSize - 1
  BY <1>1, RingSizeFact DEF Slots
<1>3. Count(r) = IF r.begin <= r.end THEN r.end - r.begin
                                     ELSE r.end + RingSize - r.begin
  BY <1>1, <1>2, Wrap, RingSizeFact DEF Count, Slots
<1>4. Succ(r.end) = IF r.end = RingSize - 1 THEN 0 ELSE r.end + 1
  BY <1>1, SuccFact, Zenon
<1> QED
  BY <1>1, <1>3, <1>4, RingSizeFact DEF InsertResult, Slots

\* The i-th entry lies in one slot, and it is never the slot at end.
LEMMA EntryFact ==
    ASSUME NEW r \in Rings, NEW i \in 0 .. Count(r)
    PROVE  /\ (r.begin + i) % RingSize \in Slots
           /\ (r.begin + i) % RingSize = IF r.begin + i < RingSize THEN r.begin + i
                                         ELSE r.begin + i - RingSize
           /\ (r.begin + i) % RingSize = r.end <=> i = Count(r)
<1>1. /\ r.begin \in Slots
      /\ r.end \in Slots
  BY Zenon DEF Rings, Slotted
<1>2. i \in Slots
  BY <1>1, CountFact, RingSizeFact DEF Slots
<1>3. (r.begin + i) % RingSize = IF r.begin + i < RingSize THEN r.begin + i
                                 ELSE r.begin + i - RingSize
  BY <1>1, <1>2, WrapSum, Zenon
<1>4. /\ Count(r) \in 0 .. RingSize - 1
      /\ Count(r) = IF r.begin <= r.end THEN r.end - r.begin
                                       ELSE r.end + RingSize - r.begin
  BY CountFact, Zenon
<1>5. /\ (r.begin + i) % RingSize \in Slots
      /\ (r.begin + i) % RingSize = r.end <=> i = Count(r)
  <2>1. CASE r.begin + i < RingSize
    BY <2>1, <1>1, <1>3, <1>4, RingSizeFact DEF Slots
  <2>2. CASE ~ (r.begin + i < RingSize)
    BY <2>2, <1>1, <1>3, <1>4, RingSizeFact DEF Slots
  <2> QED BY <2>1, <2>2, Zenon
<1> QED
  BY <1>3, <1>5, Zenon

LEMMA InsertFact ==
    ASSUME NEW r \in Rings, NEW d \in Data
    PROVE  /\ oplog_record_insert(r, d) \in Rings
           /\ Count(oplog_record_insert(r, d)) =
                  IF InsertResult(r) = 1 THEN Count(r) ELSE Count(r) + 1
<1> DEFINE q == oplog_record_insert(r, d)
<1>1. /\ r.begin \in Slots
      /\ r.end \in Slots
      /\ r.container \in [Slots -> Data \cup {NoData}]
  BY Zenon DEF Rings, Slotted
<1>2. /\ Succ(r.begin) \in Slots
      /\ Succ(r.end) \in Slots
      /\ Succ(r.begin) = IF r.begin = RingSize - 1 THEN 0 ELSE r.begin + 1
      /\ Succ(r.end) = IF r.end = RingSize - 1 THEN 0 ELSE r.end + 1
  BY <1>1, SuccFact, Zenon
<1>3. /\ q.container = [r.container EXCEPT ![r.end] = d]
      /\ q.begin = IF InsertResult(r) = 1 THEN Succ(r.begin) ELSE r.begin
      /\ q.end = Succ(r.end)
  BY Zenon DEF oplog_record_insert
<1>4. q \in Rings
  BY <1>1, <1>2, Zenon DEF oplog_record_insert, Rings, Slotted
<1>5. /\ Count(q) = IF q.begin <= q.end THEN q.end - q.begin
                                       ELSE q.end + RingSize - q.begin
      /\ Count(r) = IF r.begin <= r.end THEN r.end - r.begin
                                       ELSE r.end + RingSize - r.begin
      /\ InsertResult(r) = 1 <=> Count(r) = RingSize - 1
  BY <1>4, CountFact, Zenon
<1>6. Count(q) = IF InsertResult(r) = 1 THEN Count(r) ELSE Count(r) + 1
  <2> HIDE DEF q
  <2>1. CASE InsertResult(r) = 1
    <3>1. q.end = r.begin /\ q.begin = Succ(r.begin)
      BY <2>1, <1>3 DEF InsertResult
    <3>2. CASE r.begin = RingSize - 1
      BY <3>1, <3>2, <2>1, <1>1, <1>2, <1>5, RingSizeFact DEF Slots
    <3>3. CASE r.begin # RingSize - 1
      <4>1. q.begin = q.end + 1
        BY <3>1, <3>3, <1>2, Zenon
      <4> QED BY <4>1, <3>1, <2>1, <1>1, <1>5, RingSizeFact DEF Slots
    <3> QED BY <3>2, <3>3, Zenon
  <2>2. CASE ~ (InsertResult(r) = 1) /\ r.end = RingSize - 1
    BY <2>2, <1>1, <1>2, <1>3, <1>5, RingSizeFact DEF Slots
  <2>3. CASE ~ (InsertResult(r) = 1) /\ r.end # RingSize - 1
    <3>1. q.end = r.end + 1 /\ q.begin = r.begin
      BY <2>3, <1>2, <1>3, Zenon
    <3>2. CASE r.begin <= r.end
      BY <3>1, <3>2, <2>3, <1>1, <1>5, RingSizeFact DEF Slots
    <3>3. CASE r.begin > r.end
      <4>1. r.begin > r.end + 1
        BY <3>3, <2>3, <1>1, <1>2 DEF InsertResult, Slots
      <4> QED BY <3>1, <3>3, <4>1, <2>3, <1>1, <1>5, RingSizeFact, SMTT(20) DEF Slots
    <3> QED BY <3>2, <3>3, <1>1, RingSizeFact DEF Slots
  <2> QED BY <2>1, <2>2, <2>3, Zenon
<1> QED
  BY <1>4, <1>6, Zenon

\* An insert puts the new entry last; the others keep their order, moved up by
\* one place when the oldest was evicted.
LEMMA InsertedEntries ==
    ASSUME NEW r \in Rings, NEW d \in Data,
           NEW i \in 0 .. Count(oplog_record_insert(r, d)) - 1
    PROVE  Entry(oplog_record_insert(r, d), i) =
               IF i = Count(oplog_record_insert(r, d)) - 1 THEN d
               ELSE IF InsertResult(r) = 1 THEN Entry(r, i + 1) ELSE Entry(r, i)
<1> DEFINE q == oplog_record_insert(r, d)
           k == IF InsertResult(r) = 1 THEN i + 1 ELSE i
<1>1. /\ r.begin \in Slots
      /\ r.end \in Slots
      /\ r.container \in [Slots -> Data \cup {NoData}]
  BY Zenon DEF Rings, Slotted
<1>2. /\ q \in Rings
      /\ Count(q) = IF InsertResult(r) = 1 THEN Count(r) ELSE Count(r) + 1
      /\ Count(r) \in 0 .. RingSize - 1
      /\ Count(q) \in 0 .. RingSize - 1
  BY InsertFact, CountFact, Zenon
<1>3. /\ q.container = [r.container EXCEPT ![r.end] = d]
      /\ q.begin = IF InsertResult(r) = 1 THEN Succ(r.begin) ELSE r.begin
  BY Zenon DEF oplog_record_insert
<1>4. /\ k \in 0 .. Count(r)
      /\ k = Count(r) <=> i = Count(q) - 1
  BY <1>2, RingSizeFact
<1>5. /\ (r.begin + k) % RingSize \in Slots
      /\ (r.begin + k) % RingSize = IF r.begin + k < RingSize THEN r.begin + k
                                    ELSE r.begin + k - RingSize
      /\ (r.begin + k) % RingSize = r.end <=> k = Count(r)
  BY <1>4, EntryFact, Zenon
<1>6. i \in 0 .. Count(q)
  BY <1>2
<1>7. (q.begin + i) % RingSize = IF q.begin + i < RingSize THEN q.begin + i
                                 ELSE q.begin + i - RingSize
  BY <1>2, <1>6, EntryFact, Zenon
<1>8. Succ(r.begin) = IF r.begin = RingSize - 1 THEN 0 ELSE r.begin + 1
  BY <1>1, SuccFact, Zenon
<1>9. (q.begin + i) % RingSize = (r.begin + k) % RingSize
  <2>1. CASE InsertResult(r) = 1
    <3>1. q.begin = Succ(r.begin) /\ k = i + 1
      BY <2>1, <1>3, Zenon
    <3> HIDE DEF q, k
    <3>2. CASE r.begin = RingSize - 1
      BY <3>1, <3>2, <1>1, <1>2, <1>5, <1>6, <1>7, <1>8, RingSizeFact DEF Slots
    <3>3. CASE r.begin # RingSize - 1
      <4>1. q.begin + i = r.begin + k
        BY <3>1, <3>3, <1>1, <1>2, <1>6, <1>8, RingSizeFact DEF Slots
      <4> QED BY <4>1, Zenon
    <3> QED BY <3>2, <3>3, Zenon
  <2>2. CASE ~ (InsertResult(r) = 1)
    BY <2>2, <1>3, Zenon
  <2> QED BY <2>1, <2>2, Zenon
<1>10. Entry(q, i) = [r.container EXCEPT ![r.end] = d][(r.begin + k) % RingSize]
  BY <1>3, <1>9, Zenon DEF Entry
<1>11. CASE i = Count(q) - 1
  BY <1>11, <1>1, <1>4, <1>5, <1>10, Zenon
<1>12. CASE i # Count(q) - 1
  <2>1. Entry(q, i) = Entry(r, k)
    BY <1>12, <1>1, <1>4, <1>5, <1>10, Zenon DEF Entry
  <2> QED BY <1>12, <2>1, Zenon
<1> QED
  BY <1>11, <1>12, Zenon

\* A shift by n removes the n oldest entries and keeps the others in order.
LEMMA ShiftFact ==
    ASSUME NEW r \in Rings, NEW n \in 0 .. Count(r)
    PROVE  /\ oplog_record_shift(r, n) \in Rings
           /\ Count(oplog_record_shift(r, n)) = Count(r) - n
           /\ \A i \in 0 .. Count(r) - n - 1 :
                  Entry(oplog_record_shift(r, n), i) = Entry(r, n + i)
<1> DEFINE q == oplog_record_shift(r, n)
<1>1. /\ r.begin \in Slots
      /\ r.end \in Slots
  BY Zenon DEF Rings, Slotted
<1>2. /\ (r.begin + n) % RingSize \in Slots
      /\ (r.begin + n) % RingSize = IF r.begin + n < RingSize THEN r.begin + n
                                    ELSE r.begin + n - RingSize
  BY EntryFact, Zenon
<1>3. /\ q \in Rings
      /\ q.begin = (r.begin + n) % RingSize
      /\ q.end = r.end
      /\ q.container = r.container
  BY <1>2, Zenon DEF oplog_record_shift, Rings
<1>4. /\ Count(r) \in 0 .. RingSize - 1
      /\ Count(r) = IF r.begin <= r.end THEN r.end - r.begin
                                       ELSE r.end + RingSize - r.begin
      /\ Count(q) = IF q.begin <= q.end THEN q.end - q.begin
                                       ELSE q.end + RingSize - q.begin
  BY <1>3, CountFact, Zenon
<1>5. Count(q) = Count(r) - n
  <2> HIDE DEF q
  <2>1. CASE r.begin <= r.end
    BY <2>1, <1>1, <1>2, <1>3, <1>4, RingSizeFact DEF Slots
  <2>2. CASE r.begin > r.end /\ r.begin + n < RingSize
    <3>1. q.begin = r.begin + n /\ q.begin > q.end
      BY <2>2, <1>1, <1>2, <1>3, <1>4, RingSizeFact DEF Slots
    <3>2. /\ Count(q) = r.end + RingSize - (r.begin + n)
          /\ Count(r) = r.end + RingSize - r.begin
      BY <2>2, <3>1, <1>1, <1>3, <1>4, RingSizeFact DEF Slots
    <3> QED BY <3>2, <1>1, <1>4, RingSizeFact DEF Slots
  <2>3. CASE r.begin > r.end /\ ~ (r.begin + n < RingSize)
    <3>1. q.begin = r.begin + n - RingSize /\ q.begin <= q.end
      BY <2>3, <1>1, <1>2, <1>3, <1>4, RingSizeFact DEF Slots
    <3> QED BY <2>3, <3>1, <1>1, <1>3, <1>4, RingSizeFact DEF Slots
  <2> QED BY <2>1, <2>2, <2>3, <1>1, RingSizeFact DEF Slots
<1>6. ASSUME NEW i \in 0 .. Count(r) - n - 1
      PROVE  Entry(q, i) = Entry(r, n + i)
  <2>1. n + i \in 0 .. Count(r) /\ i \in 0 .. Count(q)
    BY <1>4, <1>5
  <2>2. (q.begin + i) % RingSize = IF q.begin + i < RingSize THEN q.begin + i
                                   ELSE q.begin + i - RingSize
    BY <1>3, <2>1, EntryFact, Zenon
  <2>3. (r.begin + (n + i)) % RingSize =
            IF r.begin + (n + i) < RingSize THEN r.begin + (n + i)
            ELSE r.begin + (n + i) - RingSize
    BY <2>1, EntryFact, Zenon
  <2>4. (q.begin + i) % RingSize = (r.begin + (n + i)) % RingSize
    <3> HIDE DEF q
    <3> QED BY <1>1, <1>2, <1>3, <1>4, <2>1, <2>2, <2>3, RingSizeFact DEF Slots
  <2> QED BY <1>3, <2>4, Zenon DEF Entry
<1> QED
  BY <1>3, <1>5, <1>6, Zenon

-----------------------------------------------------------------------------
\* What the callers of a ring need to know of it.
LEMMA InitRing == oplog_record_init \in Rings /\ Count(oplog_record_init) = 0
<1>1. oplog_record_init \in Rings
  BY RingSizeFact DEF oplog_record_init, Rings, Slotted, Slots
<1> QED
  BY <1>1, RingSizeFact DEF oplog_record_init, Count

LEMMA LogFact ==
    ASSUME NEW r \in Rings
    PROVE  Count(r) \in 0 .. RingSize - 1 /\ Count(r) \in Nat /\ InsertResult(r) \in {0, 1}
  BY CountFact, RingSizeFact DEF InsertResult

LEMMA EntryType ==
    ASSUME NEW r \in Rings, NEW i \in 0 .. Count(r)
    PROVE  Entry(r, i) \in Slotted
  BY EntryFact, Zenon DEF Entry, Rings, Slotted

\* q is r with d at its end; e entries at its front are evicted for it.
Inserted(r, q, d, e) ==
    /\ Count(r) \in Nat /\ e <= Count(r)
    /\ Count(q) = Count(r) + 1 - e
    /\ \A i \in 0 .. Count(q) - 1 :
          Entry(q, i) = IF i = Count(q) - 1 THEN d ELSE Entry(r, i + e)

LEMMA InsertIsInserted ==
    ASSUME NEW r \in Rings, NEW d \in Data
    PROVE  Inserted(r, oplog_record_insert(r, d), d, InsertResult(r))
<1>1. PICK q : q = oplog_record_insert(r, d)
  BY Zenon
<1>2. \A i \in 0 .. Count(q) - 1 :
         Entry(q, i) = IF i = Count(q) - 1 THEN d
                       ELSE IF InsertResult(r) = 1 THEN Entry(r, i + 1) ELSE Entry(r, i)
  BY <1>1, InsertedEntries, ZenonT(30)
<1>3. /\ Count(r) \in Nat /\ InsertResult(r) \in {0, 1} /\ InsertResult(r) <= Count(r)
      /\ Count(q) = IF InsertResult(r) = 1 THEN Count(r) ELSE Count(r) + 1
  BY <1>1, LogFact, InsertFact, CountFact, RingSizeFact
<1>4. Inserted(r, q, d, InsertResult(r))
  BY <1>2, <1>3 DEF Inserted
<1> QED
  BY <1>1, <1>4, Zenon

\* q is r without its first k entries, and bt holds these.
Shifted(r, q, k) ==
    /\ Count(r) \in Nat /\ k \in Nat /\ k <= Count(r)
    /\ Count(q) = Count(r) - k
    /\ \A i \in 0 .. Count(r) - k - 1 : Entry(q, i) = Entry(r, k + i)
Taken(bt, r, k) == Len(bt) = k /\ \A i \in 1 .. k : bt[i] = Entry(r, i - 1)

LEMMA ShiftIsShifted ==
    ASSUME NEW r \in Rings, NEW k \in 0 .. Count(r)
    PROVE  Shifted(r, oplog_record_shift(r, k), k)
  BY LogFact, ShiftFact DEF Shifted

LEMMA BatchFact ==
    ASSUME NEW r \in Rings, NEW k \in 0 .. Count(r)
    PROVE  /\ FirstEntries(r, k) \in Seq(Slotted) /\ Len(FirstEntries(r, k)) = k
           /\ Taken(FirstEntries(r, k), r, k)
<1>1. Count(r) \in Nat /\ k \in Nat
  BY LogFact
<1>2. \A i \in 1 .. Count(r) : Entry(r, i - 1) \in Slotted
  BY <1>1, EntryType
<1>3. Entries(r) \in [1 .. Count(r) -> Slotted]
  BY <1>2, Zenon DEF Entries
<1>4. Entries(r) \in Seq(Slotted) /\ Len(Entries(r)) = Count(r)
  BY <1>1, <1>3, FunctionIsSeq, Zenon
<1>5. /\ FirstEntries(r, k) \in Seq(Slotted) /\ Len(FirstEntries(r, k)) = k - 1 + 1
      /\ \A i \in 1 .. k - 1 + 1 : FirstEntries(r, k)[i] = Entries(r)[1 + i - 1]
  BY <1>1, <1>4, SubSeqFact DEF FirstEntries
<1>6. \A i \in 1 .. k : Entries(r)[1 + i - 1] = Entry(r, i - 1)
  BY <1>1 DEF Entries
<1> QED
  BY <1>1, <1>5, <1>6 DEF Taken
-----------------------------------------------------------------------------
LEMMA Widen ==
    ASSUME NEW S, NEW T, S \subseteq T, NEW s \in Seq(S)
    PROVE  s \in Seq(T)
  OBVIOUS

\* Induction over the natural numbers, for a property given as the set of the numbers
\* that have it.
SetInduction == \A S : 0 \in S /\ (\A k \in Nat : k \in S => k + 1 \in S) => Nat \subseteq S

\* The lines of an answer add the samples of the ones in T, line by line: f[k] is what
\* the first k of them add.
Step(f, k, lines, T) ==
    IF k = 0 THEN <<>>
    ELSE IF lines[k] \in T THEN Append(f[k - 1], lines[k].id)
    ELSE f[k - 1]
IsInto(f, n, lines, T) == f = [k \in 0 .. n |-> Step(f, k, lines, T)]

LEMMA IntoExists ==
    ASSUME SetInduction, NEW lines, NEW T
    PROVE  \A n \in Nat : \E f : IsInto(f, n, lines, T)
<1> DEFINE S == {n \in Nat : \E f : IsInto(f, n, lines, T)}
<1>1. 0 \in S
  <2>1. IsInto([k \in 0 .. 0 |-> <<>>], 0, lines, T)
    BY DEF IsInto, Step
  <2> QED
    BY <2>1, Zenon
<1>2. ASSUME NEW n \in Nat, n \in S PROVE n + 1 \in S
  <2>1. PICK f : IsInto(f, n, lines, T)
    BY <1>2, Zenon
  <2>2. PICK g : g = [k \in 0 .. n + 1 |-> IF k <= n THEN f[k] ELSE Step(f, k, lines, T)]
    BY Zenon
  <2>3. ASSUME NEW k \in 0 .. n + 1 PROVE g[k] = Step(g, k, lines, T)
    <3>1. k = 0 \/ (k # 0 /\ k - 1 \in 0 .. n /\ g[k - 1] = f[k - 1])
      BY <2>2
    <3>2. Step(g, k, lines, T) = Step(f, k, lines, T)
      BY <3>1, Zenon DEF Step
    <3>3. k <= n => f[k] = Step(f, k, lines, T)
      BY <2>1 DEF IsInto
    <3> QED
      BY <2>2, <3>2, <3>3, Zenon
  <2>4. g = [k \in 0 .. n + 1 |-> Step(g, k, lines, T)]
    BY <2>2, <2>3, Zenon
  <2> QED
    BY <2>4 DEF IsInto
<1> QED
  <2> HIDE DEF S
  <2>1. Nat \subseteq S
    BY <1>1, <1>2, Zenon DEF SetInduction
  <2> QED
    BY <2>1, Zenon DEF S

\* s holds the samples of the first n lines that are in T, in their order.
Picked(s, n, lines, T, Ids) ==
    /\ s \in Seq(Ids)
    /\ \A j \in 1 .. Len(s) : \E p \in 1 .. n : lines[p] \in T /\ lines[p].id = s[j]
    /\ \A p \in 1 .. n : lines[p] \in T => \E j \in 1 .. Len(s) : s[j] = lines[p].id
    /\ (\A p, q \in 1 .. n : p < q /\ lines[p] \in T /\ lines[q] \in T
            => lines[p].id < lines[q].id)
       => \A i, j \in 1 .. Len(s) : i < j => s[i] < s[j]

LEMMA PickedOther ==
    ASSUME NEW lines, NEW T, NEW Ids, NEW n \in Nat, NEW s, Picked(s, n, lines, T, Ids),
           lines[n + 1] \notin T
    PROVE  Picked(s, n + 1, lines, T, Ids)
<1>1. \A p \in 1 .. n + 1 : p = n + 1 \/ p \in 1 .. n
  OBVIOUS
<1>2. \A p \in 1 .. n : p \in 1 .. n + 1
  OBVIOUS
<1> QED
  BY <1>1, <1>2, Zenon DEF Picked

LEMMA PickedLine ==
    ASSUME NEW lines, NEW T, NEW Ids, NEW n \in Nat, NEW s, Picked(s, n, lines, T, Ids),
           lines[n + 1] \in T, lines[n + 1].id \in Ids
    PROVE  Picked(Append(s, lines[n + 1].id), n + 1, lines, T, Ids)
<1>1. PICK x \in Ids : x = lines[n + 1].id
  BY Zenon
<1>2. PICK t : t = Append(s, x)
  BY Zenon
<1>3. s \in Seq(Ids) /\ Len(s) \in Nat
  BY LenFact, Zenon DEF Picked
<1>4. /\ t \in Seq(Ids) /\ Len(t) = Len(s) + 1
      /\ \A j \in 1 .. Len(s) : t[j] = s[j]
      /\ t[Len(s) + 1] = x
  BY <1>2, <1>3, AppendFact
<1>5. \A p \in 1 .. n + 1 : p = n + 1 \/ p \in 1 .. n
  OBVIOUS
<1>6. \A p \in 1 .. n : p \in 1 .. n + 1 /\ p < n + 1
  OBVIOUS
<1>7. \A j \in 1 .. Len(t) : j = Len(s) + 1 \/ (j \in 1 .. Len(s) /\ t[j] = s[j])
  BY <1>3, <1>4
<1>8. \A j \in 1 .. Len(s) : j \in 1 .. Len(t)
  BY <1>3, <1>4
<1>9. ASSUME NEW j \in 1 .. Len(t)
      PROVE  \E p \in 1 .. n + 1 : lines[p] \in T /\ lines[p].id = t[j]
  <2>1. CASE j = Len(s) + 1
    BY <1>1, <1>4, <2>1
  <2>2. CASE j \in 1 .. Len(s) /\ t[j] = s[j]
    BY <1>6, <2>2, Zenon DEF Picked
  <2> QED
    BY <1>7, <2>1, <2>2, Zenon
<1>10. ASSUME NEW p \in 1 .. n + 1, lines[p] \in T
       PROVE  \E j \in 1 .. Len(t) : t[j] = lines[p].id
  <2>1. CASE p = n + 1
    BY <1>1, <1>3, <1>4, <2>1
  <2>2. CASE p \in 1 .. n
    <3>1. PICK j \in 1 .. Len(s) : s[j] = lines[p].id
      BY <1>10, <2>2, Zenon DEF Picked
    <3> QED
      BY <1>4, <1>8, <3>1, Zenon
  <2> QED
    BY <1>5, <2>1, <2>2, Zenon
<1>11. ASSUME \A p, q \in 1 .. n + 1 :
                 p < q /\ lines[p] \in T /\ lines[q] \in T
                    => lines[p].id < lines[q].id,
              NEW i \in 1 .. Len(t), NEW j \in 1 .. Len(t), i < j
       PROVE  t[i] < t[j]
  <2>1. i \in 1 .. Len(s) /\ t[i] = s[i]
    BY <1>3, <1>4, <1>11
  <2>2. CASE j = Len(s) + 1
    <3>1. PICK p \in 1 .. n : lines[p] \in T /\ lines[p].id = s[i]
      BY <2>1, Zenon DEF Picked
    <3>2. lines[p].id < lines[n + 1].id
      BY <1>6, <1>11, <3>1
    <3> QED
      BY <1>1, <1>4, <2>1, <2>2, <3>1, <3>2, Zenon
  <2>3. CASE j \in 1 .. Len(s) /\ t[j] = s[j]
    <3>1. \A p, q \in 1 .. n : p < q /\ lines[p] \in T /\ lines[q] \in T
             => lines[p].id < lines[q].id
      BY <1>6, <1>11, Zenon
    <3>2. s[i] < s[j]
      BY <1>11, <2>1, <2>3, <3>1, Zenon DEF Picked
    <3> QED
      BY <2>1, <2>3, <3>2, Zenon
  <2> QED
    BY <1>7, <2>2, <2>3, Zenon
<1>12. Picked(t, n + 1, lines, T, Ids)
  BY <1>4, <1>9, <1>10, <1>11, Zenon DEF Picked
<1> QED
  BY <1>1, <1>2, <1>12, Zenon

\* Reading the lines one by one keeps the ones in T, all of them and only these, in their
\* order.
LEMMA IntoPicks ==
    ASSUME SetInduction, NEW lines, NEW T, NEW Ids, Len(lines) \in Nat,
           \A p \in 1 .. Len(lines) : lines[p] \in T => lines[p].id \in Ids,
           NEW f, IsInto(f, Len(lines), lines, T)
    PROVE  Picked(f[Len(lines)], Len(lines), lines, T, Ids)
<1>2. \A k \in 0 .. Len(lines) : f[k] = Step(f, k, lines, T)
  BY Zenon DEF IsInto
<1> DEFINE S == {n \in Nat : n <= Len(lines) => Picked(f[n], n, lines, T, Ids)}
<1>3. 0 \in S
  <2>1. f[0] = <<>>
    BY <1>2 DEF Step
  <2>2. <<>> \in Seq(Ids) /\ Len(<<>>) = 0
    BY EmptySeq, Zenon
  <2>3. Picked(<<>>, 0, lines, T, Ids)
    BY <2>2 DEF Picked
  <2> QED
    BY <2>1, <2>3, Zenon
<1>4. ASSUME NEW n \in Nat, n \in S PROVE n + 1 \in S
  <2> SUFFICES ASSUME n + 1 <= Len(lines) PROVE Picked(f[n + 1], n + 1, lines, T, Ids)
    OBVIOUS
  <2>1. Picked(f[n], n, lines, T, Ids) /\ n + 1 \in 0 .. Len(lines) /\ n + 1 \in 1 .. Len(lines)
    BY <1>4
  <2>2. f[n + 1] = IF lines[n + 1] \in T THEN Append(f[n], lines[n + 1].id) ELSE f[n]
    <3>1. f[n + 1] = Step(f, n + 1, lines, T) /\ n + 1 # 0 /\ (n + 1) - 1 = n
      BY <1>2, <2>1
    <3> QED
      BY <3>1, Zenon DEF Step
  <2> HIDE DEF S
  <2>3. CASE lines[n + 1] \in T
    <3>1. lines[n + 1].id \in Ids
      BY <2>1, <2>3, Zenon
    <3> QED
      BY <2>1, <2>2, <2>3, <3>1, PickedLine, Zenon
  <2>4. CASE lines[n + 1] \notin T
    BY <2>1, <2>2, <2>4, PickedOther, Zenon
  <2> QED
    BY <2>3, <2>4, Zenon
<1>5. Nat \subseteq S
  <2> HIDE DEF S
  <2> QED
    BY <1>3, <1>4, Zenon DEF SetInduction
<1> QED
  BY <1>5
-----------------------------------------------------------------------------
\* Along one line - the samples of own in a sequence, then the entries of T in an answer,
\* then the ones in a log - the numbers of the samples grow.
Sorted(sq, bt, rg, own, T) ==
    /\ \A i, j \in 1 .. Len(sq) : i < j /\ sq[i] \in own /\ sq[j] \in own => sq[i] < sq[j]
    /\ \A i, j \in 1 .. Len(bt) :
          i < j /\ bt[i] \in T /\ bt[j] \in T => bt[i].id < bt[j].id
    /\ \A i, j \in 0 .. Count(rg) - 1 :
          i < j /\ Entry(rg, i) \in T /\ Entry(rg, j) \in T
             => Entry(rg, i).id < Entry(rg, j).id
    /\ \A i \in 1 .. Len(sq), j \in 1 .. Len(bt) :
          sq[i] \in own /\ bt[j] \in T => sq[i] < bt[j].id
    /\ \A i \in 1 .. Len(sq), j \in 0 .. Count(rg) - 1 :
          sq[i] \in own /\ Entry(rg, j) \in T => sq[i] < Entry(rg, j).id
    /\ \A i \in 1 .. Len(bt), j \in 0 .. Count(rg) - 1 :
          bt[i] \in T /\ Entry(rg, j) \in T => bt[i].id < Entry(rg, j).id

\* Everything on the line is a sample of ok.
Within(sq, bt, rg, own, ok, T) ==
    /\ \A i \in 1 .. Len(sq) : sq[i] \in own => sq[i] \in ok
    /\ \A i \in 1 .. Len(bt) : bt[i] \in T => bt[i].id \in ok
    /\ \A i \in 0 .. Count(rg) - 1 : Entry(rg, i) \in T => Entry(rg, i).id \in ok

Line(sq, bt, rg, own, ok, T) == Sorted(sq, bt, rg, own, T) /\ Within(sq, bt, rg, own, ok, T)

LEMMA LineGrows ==
    ASSUME NEW sq, NEW bt, NEW rg, NEW own, NEW ok, NEW T, NEW own2, NEW ok2,
           Line(sq, bt, rg, own, ok, T), ok \subseteq ok2,
           \A i \in 1 .. Len(sq) : sq[i] \in own2 => sq[i] \in own
    PROVE  Line(sq, bt, rg, own2, ok2, T)
<1>1. Sorted(sq, bt, rg, own2, T)
  BY Zenon DEF Line, Sorted
<1>2. Within(sq, bt, rg, own2, ok2, T)
  BY Zenon DEF Line, Within
<1> QED
  BY <1>1, <1>2, Zenon DEF Line

\* A part that is emptied.
LEMMA LineEmptied ==
    ASSUME NEW sq, NEW bt, NEW rg, NEW own, NEW ok, NEW T, NEW sq2, NEW bt2, NEW rg2,
           Line(sq, bt, rg, own, ok, T),
           sq2 = sq \/ Len(sq2) = 0, bt2 = bt \/ Len(bt2) = 0, rg2 = rg \/ Count(rg2) = 0
    PROVE  Line(sq2, bt2, rg2, own, ok, T)
<1>1. \A i \in 1 .. Len(sq2) : i \in 1 .. Len(sq) /\ sq2[i] = sq[i]
  OBVIOUS
<1>2. \A i \in 1 .. Len(bt2) : i \in 1 .. Len(bt) /\ bt2[i] = bt[i]
  OBVIOUS
<1>3. \A i \in 0 .. Count(rg2) - 1 : i \in 0 .. Count(rg) - 1 /\ Entry(rg2, i) = Entry(rg, i)
  OBVIOUS
<1>4. Sorted(sq2, bt2, rg2, own, T)
  BY <1>1, <1>2, <1>3, Zenon DEF Line, Sorted
<1>5. Within(sq2, bt2, rg2, own, ok, T)
  BY <1>1, <1>2, <1>3, Zenon DEF Line, Within
<1> QED
  BY <1>4, <1>5, Zenon DEF Line

\* sq2 is sq followed by ext.
Extended(sq2, sq, ext) ==
    /\ Len(sq) \in Nat /\ Len(ext) \in Nat
    /\ Len(sq2) = Len(sq) + Len(ext)
    /\ \A i \in 1 .. Len(sq2) : sq2[i] = IF i <= Len(sq) THEN sq[i] ELSE ext[i - Len(sq)]

\* The log takes a newer sample; e is 1 when its oldest entry is evicted.
LEMMA LineInsert ==
    ASSUME NEW sq, NEW bt, NEW rg, NEW own, NEW ok, NEW T, NEW rg2, NEW d, NEW e \in {0, 1},
           NEW ok2, ok \subseteq ok2,
           Line(sq, bt, rg, own, ok, T), Inserted(rg, rg2, d, e),
           d \in T => d.id \in ok2 /\ \A k \in ok : k < d.id
    PROVE  Line(sq, bt, rg2, own, ok2, T)
<1>1. PICK last \in Int : last = Count(rg2) - 1 /\ last = Count(rg) - e
  BY DEF Inserted
<1>2. \A i \in 0 .. Count(rg2) - 1 :
         \/ i = last /\ Entry(rg2, i) = d
         \/ i # last /\ i + e \in 0 .. Count(rg) - 1 /\ Entry(rg2, i) = Entry(rg, i + e)
  BY <1>1 DEF Inserted
<1>3. \A i, j \in 0 .. Count(rg2) - 1 : i < j => i # last /\ i + e < j + e
  BY <1>1 DEF Inserted
<1>4. /\ \A i \in 1 .. Len(sq) : sq[i] \in own /\ d \in T => sq[i] < d.id
      /\ \A i \in 1 .. Len(bt) : bt[i] \in T /\ d \in T => bt[i].id < d.id
      /\ \A i \in 0 .. Count(rg) - 1 :
            Entry(rg, i) \in T /\ d \in T => Entry(rg, i).id < d.id
  BY Zenon DEF Line, Within
<1>5. Sorted(sq, bt, rg, own, T)
  BY Zenon DEF Line
<1>6. ASSUME NEW i \in 0 .. Count(rg2) - 1, NEW j \in 0 .. Count(rg2) - 1, i < j,
             Entry(rg2, i) \in T, Entry(rg2, j) \in T
      PROVE  Entry(rg2, i).id < Entry(rg2, j).id
  <2>1. i # last /\ i + e < j + e
    BY <1>3, <1>6, Zenon
  <2>2. i + e \in 0 .. Count(rg) - 1 /\ Entry(rg2, i) = Entry(rg, i + e)
    BY <1>2, <2>1, Zenon
  <2>3. CASE j = last /\ Entry(rg2, j) = d
    BY <1>4, <1>6, <2>2, <2>3, Zenon
  <2>4. CASE j # last /\ j + e \in 0 .. Count(rg) - 1 /\ Entry(rg2, j) = Entry(rg, j + e)
    BY <1>5, <1>6, <2>1, <2>2, <2>4, Zenon DEF Sorted
  <2> QED
    BY <1>2, <2>3, <2>4, Zenon
<1>7. ASSUME NEW i \in 1 .. Len(sq), NEW j \in 0 .. Count(rg2) - 1,
             sq[i] \in own, Entry(rg2, j) \in T
      PROVE  sq[i] < Entry(rg2, j).id
  BY <1>2, <1>4, <1>5, <1>7, Zenon DEF Sorted
<1>8. ASSUME NEW i \in 1 .. Len(bt), NEW j \in 0 .. Count(rg2) - 1,
             bt[i] \in T, Entry(rg2, j) \in T
      PROVE  bt[i].id < Entry(rg2, j).id
  BY <1>2, <1>4, <1>5, <1>8, Zenon DEF Sorted
<1>9. Sorted(sq, bt, rg2, own, T)
  BY <1>5, <1>6, <1>7, <1>8, Zenon DEF Sorted
<1>10. Within(sq, bt, rg2, own, ok2, T)
  BY <1>2, Zenon DEF Line, Within
<1> QED
  BY <1>9, <1>10, Zenon DEF Line

\* The first k entries leave the log, for the answer bt2 or for nobody.
LEMMA LineShift ==
    ASSUME NEW sq, NEW bt, NEW rg, NEW own, NEW ok, NEW T, NEW rg2, NEW bt2, NEW k \in Nat,
           Line(sq, bt, rg, own, ok, T), Shifted(rg, rg2, k),
           bt2 = bt \/ Taken(bt2, rg, k)
    PROVE  Line(sq, bt2, rg2, own, ok, T)
<1>1. \A i \in 0 .. Count(rg2) - 1 :
         k + i \in 0 .. Count(rg) - 1 /\ Entry(rg2, i) = Entry(rg, k + i)
  BY DEF Shifted
<1>2. \A i, j \in 0 .. Count(rg2) - 1 : i < j => k + i < k + j
  BY DEF Shifted
<1>3. Sorted(sq, bt, rg, own, T)
  BY Zenon DEF Line
<1>4. Line(sq, bt, rg2, own, ok, T)
  <2>1. Sorted(sq, bt, rg2, own, T)
    BY <1>1, <1>2, <1>3, Zenon DEF Sorted
  <2>2. Within(sq, bt, rg2, own, ok, T)
    BY <1>1, Zenon DEF Line, Within
  <2> QED
    BY <2>1, <2>2, Zenon DEF Line
<1>5. CASE Taken(bt2, rg, k)
  <2>1. \A i \in 1 .. Len(bt2) : i - 1 \in 0 .. Count(rg) - 1 /\ bt2[i] = Entry(rg, i - 1)
    BY <1>5 DEF Taken, Shifted
  <2>2. \A i, j \in 1 .. Len(bt2) : i < j => i - 1 < j - 1
    BY <1>5 DEF Taken
  <2>3. \A i \in 1 .. Len(bt2), j \in 0 .. Count(rg2) - 1 : i - 1 < k + j
    BY <1>5 DEF Taken, Shifted
  <2>4. Sorted(sq, bt, rg2, own, T)
    BY <1>4, Zenon DEF Line
  <2>5. ASSUME NEW i \in 1 .. Len(bt2), NEW j \in 1 .. Len(bt2), i < j,
               bt2[i] \in T, bt2[j] \in T
        PROVE  bt2[i].id < bt2[j].id
    BY <1>3, <2>1, <2>2, <2>5, Zenon DEF Sorted
  <2>6. ASSUME NEW i \in 1 .. Len(sq), NEW j \in 1 .. Len(bt2),
               sq[i] \in own, bt2[j] \in T
        PROVE  sq[i] < bt2[j].id
    BY <1>3, <2>1, <2>6, Zenon DEF Sorted
  <2>7. ASSUME NEW i \in 1 .. Len(bt2), NEW j \in 0 .. Count(rg2) - 1,
               bt2[i] \in T, Entry(rg2, j) \in T
        PROVE  bt2[i].id < Entry(rg2, j).id
    BY <1>1, <1>3, <2>1, <2>3, <2>7, Zenon DEF Sorted
  <2>8. Sorted(sq, bt2, rg2, own, T)
    BY <2>4, <2>5, <2>6, <2>7, Zenon DEF Sorted
  <2>9. Within(sq, bt2, rg2, own, ok, T)
    BY <1>4, <2>1, Zenon DEF Line, Within
  <2> QED
    BY <2>8, <2>9, Zenon DEF Line
<1> QED
  BY <1>4, <1>5, Zenon

\* The samples of ext that are in own come after the ones of sq and before the rest of
\* the line, in their order.
Between(ext, sq, bt, rg, own, ok, T) ==
    /\ \A i, j \in 1 .. Len(ext) : i < j /\ ext[i] \in own /\ ext[j] \in own => ext[i] < ext[j]
    /\ \A j \in 1 .. Len(ext) : ext[j] \in own =>
          /\ ext[j] \in ok
          /\ \A i \in 1 .. Len(sq) : sq[i] \in own => sq[i] < ext[j]
          /\ \A i \in 1 .. Len(bt) : bt[i] \in T => ext[j] < bt[i].id
          /\ \A i \in 0 .. Count(rg) - 1 :
                Entry(rg, i) \in T => ext[j] < Entry(rg, i).id

\* The sequence takes the samples of ext.
LEMMA LineExtend ==
    ASSUME NEW sq, NEW bt, NEW rg, NEW own, NEW ok, NEW T, NEW ext, NEW bt2, NEW ok2, NEW sq2,
           Line(sq, bt, rg, own, ok, T), ok \subseteq ok2, bt2 = bt \/ Len(bt2) = 0,
           Extended(sq2, sq, ext), Between(ext, sq, bt2, rg, own, ok2, T)
    PROVE  Line(sq2, bt2, rg, own, ok2, T)
<1>1. Line(sq, bt2, rg, own, ok2, T)
  <2>1. Line(sq, bt, rg, own, ok2, T)
    BY LineGrows, Zenon
  <2> QED
    BY <2>1, LineEmptied, Zenon
<1>2. Sorted(sq, bt2, rg, own, T) /\ Within(sq, bt2, rg, own, ok2, T)
  BY <1>1, Zenon DEF Line
<1>3. \A i \in 1 .. Len(sq2) :
         \/ i \in 1 .. Len(sq) /\ sq2[i] = sq[i]
         \/ i > Len(sq) /\ i - Len(sq) \in 1 .. Len(ext) /\ sq2[i] = ext[i - Len(sq)]
  BY DEF Extended
<1>4. ASSUME NEW i \in 1 .. Len(sq2), NEW j \in 1 .. Len(sq2), i < j,
             sq2[i] \in own, sq2[j] \in own
      PROVE  sq2[i] < sq2[j]
  <2>1. CASE j \in 1 .. Len(sq) /\ sq2[j] = sq[j]
    <3>1. i \in 1 .. Len(sq) /\ sq2[i] = sq[i]
      BY <1>3, <1>4, <2>1 DEF Extended
    <3> QED
      BY <1>2, <1>4, <2>1, <3>1, Zenon DEF Sorted
  <2>2. CASE j > Len(sq) /\ j - Len(sq) \in 1 .. Len(ext) /\ sq2[j] = ext[j - Len(sq)]
    <3>1. CASE i \in 1 .. Len(sq) /\ sq2[i] = sq[i]
      BY <1>4, <2>2, <3>1, Zenon DEF Between
    <3>2. CASE i > Len(sq) /\ i - Len(sq) \in 1 .. Len(ext) /\ sq2[i] = ext[i - Len(sq)]
      <4>1. i - Len(sq) < j - Len(sq)
        BY <1>4 DEF Extended
      <4> QED
        BY <1>4, <2>2, <3>2, <4>1, Zenon DEF Between
    <3> QED
      BY <1>3, <3>1, <3>2, Zenon
  <2> QED
    BY <1>3, <2>1, <2>2, Zenon
<1>5. Sorted(sq2, bt2, rg, own, T)
  <2>1. \A i \in 1 .. Len(sq2), j \in 1 .. Len(bt2) :
           sq2[i] \in own /\ bt2[j] \in T => sq2[i] < bt2[j].id
    BY <1>2, <1>3, Zenon DEF Sorted, Between
  <2>2. \A i \in 1 .. Len(sq2), j \in 0 .. Count(rg) - 1 :
           sq2[i] \in own /\ Entry(rg, j) \in T => sq2[i] < Entry(rg, j).id
    BY <1>2, <1>3, Zenon DEF Sorted, Between
  <2> QED
    BY <1>2, <1>4, <2>1, <2>2, Zenon DEF Sorted
<1>6. Within(sq2, bt2, rg, own, ok2, T)
  BY <1>2, <1>3, Zenon DEF Within, Between
<1> QED
  BY <1>5, <1>6, Zenon DEF Line
\* What the lines at the front of an answer add comes after what is there.
LEMMA PickedBetween ==
    ASSUME NEW sq, NEW bt, NEW rg, NEW own, NEW ok, NEW T, NEW lines, NEW ext, NEW bt2,
           Line(sq, bt, rg, own, ok, T), Picked(ext, Len(lines), lines, T, ok),
           Len(bt2) = 0, Len(lines) \in 0 .. Len(bt),
           \A i \in 1 .. Len(lines) : lines[i] = bt[i]
    PROVE  Between(ext, sq, bt2, rg, own, ok, T)
<1>1. Sorted(sq, bt, rg, own, T)
  BY Zenon DEF Line
<1>2. \A i \in 1 .. Len(lines) : i \in 1 .. Len(bt) /\ lines[i] = bt[i]
  OBVIOUS
<1>3. \A i, j \in 1 .. Len(ext) : i < j => ext[i] < ext[j]
  <2>1. \A p, q \in 1 .. Len(lines) : p < q /\ lines[p] \in T /\ lines[q] \in T
           => lines[p].id < lines[q].id
    BY <1>1, <1>2, Zenon DEF Sorted
  <2> QED
    BY <2>1, Zenon DEF Picked
<1>4. ASSUME NEW j \in 1 .. Len(ext)
      PROVE  /\ ext[j] \in ok
             /\ \A i \in 1 .. Len(sq) : sq[i] \in own => sq[i] < ext[j]
             /\ \A i \in 0 .. Count(rg) - 1 : Entry(rg, i) \in T => ext[j] < Entry(rg, i).id
  <2>1. ext[j] \in ok
    BY LenFact, Zenon DEF Picked
  <2>2. PICK q \in 1 .. Len(lines) : lines[q] \in T /\ lines[q].id = ext[j]
    BY Zenon DEF Picked
  <2>3. q \in 1 .. Len(bt) /\ bt[q] \in T /\ bt[q].id = ext[j]
    BY <1>2, <2>2, Zenon
  <2> QED
    BY <1>1, <2>1, <2>3, Zenon DEF Sorted
<1>5. \A i \in 1 .. Len(bt2) : FALSE
  OBVIOUS
<1> QED
  BY <1>3, <1>4, <1>5, Zenon DEF Between

-----------------------------------------------------------------------------
\* Sample k is in a sequence, or in a line of T in an answer, in a log or among the lines
\* that are gone.
Present(k, T, sq, bt, rg, gn) ==
    \/ \E j \in 1 .. Len(sq) : sq[j] = k
    \/ \E j \in 1 .. Len(bt) : bt[j] \in T /\ bt[j].id = k
    \/ \E j \in 0 .. Count(rg) - 1 : Entry(rg, j) \in T /\ Entry(rg, j).id = k
    \/ \E j \in 1 .. Len(gn) : gn[j] \in T /\ gn[j].id = k

LEMMA ConcatExtends ==
    ASSUME NEW S, NEW s \in Seq(S), NEW t \in Seq(S)
    PROVE  Extended(s \o t, s, t)
  BY ConcatFact, LenFact, Zenon DEF Extended

\* What is added to a sequence is there, and what was there stays.
LEMMA ExtendedHas ==
    ASSUME NEW s2, NEW s, NEW ext, Extended(s2, s, ext)
    PROVE  /\ \A j \in 1 .. Len(s) : j \in 1 .. Len(s2) /\ s2[j] = s[j]
           /\ \A j \in 1 .. Len(ext) :
                 Len(s) + j \in 1 .. Len(s2) /\ s2[Len(s) + j] = ext[j]
  BY DEF Extended

LEMMA PresentStored ==
    ASSUME NEW k, NEW T, NEW sq, NEW bt, NEW rg, NEW gn, NEW sq2, NEW ext,
           Extended(sq2, sq, ext),
           Present(k, T, sq, bt, rg, gn) \/ \E j \in 1 .. Len(ext) : ext[j] = k
    PROVE  Present(k, T, sq2, bt, rg, gn)
<1>1. /\ \A j \in 1 .. Len(sq) : j \in 1 .. Len(sq2) /\ sq2[j] = sq[j]
      /\ \A j \in 1 .. Len(ext) : Len(sq) + j \in 1 .. Len(sq2) /\ sq2[Len(sq) + j] = ext[j]
  BY ExtendedHas, Zenon
<1> QED
  BY <1>1, Zenon DEF Present

\* The log takes line d; its oldest entry is then gone when it was full.
LEMMA PresentInsert ==
    ASSUME NEW k, NEW T, NEW sq, NEW bt, NEW rg, NEW gn, NEW rg2, NEW gn2, NEW d,
           NEW e \in {0, 1}, NEW ext, Inserted(rg, rg2, d, e), Extended(gn2, gn, ext),
           Len(ext) = e, e = 1 => ext[1] = Entry(rg, 0),
           Present(k, T, sq, bt, rg, gn) \/ (d \in T /\ d.id = k)
    PROVE  Present(k, T, sq, bt, rg2, gn2)
<1>0. /\ \A j \in 1 .. Len(gn) : j \in 1 .. Len(gn2) /\ gn2[j] = gn[j]
      /\ \A j \in 1 .. Len(ext) : Len(gn) + j \in 1 .. Len(gn2) /\ gn2[Len(gn) + j] = ext[j]
  BY ExtendedHas, Zenon
<1>1. CASE d \in T /\ d.id = k
  <2>1. Count(rg2) - 1 \in 0 .. Count(rg2) - 1 /\ Entry(rg2, Count(rg2) - 1) = d
    BY DEF Inserted
  <2> QED
    BY <1>1, <2>1, Zenon DEF Present
<1>2. CASE \E j \in 0 .. Count(rg) - 1 : Entry(rg, j) \in T /\ Entry(rg, j).id = k
  <2>1. PICK j \in 0 .. Count(rg) - 1 : Entry(rg, j) \in T /\ Entry(rg, j).id = k
    BY <1>2, Zenon
  <2>2. CASE j >= e
    <3>1. j - e \in 0 .. Count(rg2) - 1 /\ Entry(rg2, j - e) = Entry(rg, j)
      <4>1. /\ j - e \in 0 .. Count(rg2) - 1 /\ j - e # Count(rg2) - 1
            /\ (j - e) + e = j
        BY <2>2 DEF Inserted
      <4> QED
        BY <4>1, Zenon DEF Inserted
    <3> QED
      BY <2>1, <3>1, Zenon DEF Present
  <2>3. CASE ~ (j >= e)
    <3>1. j = 0 /\ e = 1
      BY <2>3 DEF Inserted
    <3>2. Len(gn) + 1 \in 1 .. Len(gn2) /\ gn2[Len(gn) + 1] = Entry(rg, 0)
      <4>1. 1 \in 1 .. Len(ext)
        BY <3>1
      <4> QED
        BY <1>0, <3>1, <4>1, Zenon
    <3> QED
      BY <2>1, <3>1, <3>2, Zenon DEF Present
  <2> QED
    BY <2>2, <2>3, Zenon
<1> QED
  BY <1>0, <1>1, <1>2, Zenon DEF Present

\* The first c entries leave the log for the empty answer, or are gone.
LEMMA PresentShift ==
    ASSUME NEW k, NEW T, NEW sq, NEW bt, NEW rg, NEW gn, NEW rg2, NEW bt2, NEW gn2,
           NEW c \in Nat, NEW ext, Shifted(rg, rg2, c), Taken(ext, rg, c),
           \/ Len(bt) = 0 /\ bt2 = ext /\ gn2 = gn
           \/ bt2 = bt /\ Extended(gn2, gn, ext),
           Present(k, T, sq, bt, rg, gn)
    PROVE  Present(k, T, sq, bt2, rg2, gn2)
<1>0. \/ Len(bt) = 0 /\ bt2 = ext /\ gn2 = gn
      \/ /\ bt2 = bt
         /\ \A j \in 1 .. Len(gn) : j \in 1 .. Len(gn2) /\ gn2[j] = gn[j]
         /\ \A j \in 1 .. Len(ext) :
               Len(gn) + j \in 1 .. Len(gn2) /\ gn2[Len(gn) + j] = ext[j]
  BY ExtendedHas, Zenon
<1>1. CASE \E j \in 0 .. Count(rg) - 1 : Entry(rg, j) \in T /\ Entry(rg, j).id = k
  <2>1. PICK j \in 0 .. Count(rg) - 1 : Entry(rg, j) \in T /\ Entry(rg, j).id = k
    BY <1>1, Zenon
  <2>2. CASE j >= c
    <3>1. j - c \in 0 .. Count(rg2) - 1 /\ Entry(rg2, j - c) = Entry(rg, j)
      BY <2>2 DEF Shifted
    <3> QED
      BY <2>1, <3>1, Zenon DEF Present
  <2>3. CASE ~ (j >= c)
    <3>1. j + 1 \in 1 .. Len(ext) /\ ext[j + 1] = Entry(rg, j)
      BY <2>3 DEF Shifted, Taken
    <3> QED
      BY <1>0, <2>1, <3>1, ZenonT(30) DEF Present
  <2> QED
    BY <2>2, <2>3, Zenon
<1> QED
  BY <1>0, <1>1 DEF Present

\* The first lines of an answer are applied, the others are gone.
LEMMA PresentApplied ==
    ASSUME NEW k, NEW T, NEW sq, NEW bt, NEW rg, NEW gn, NEW sq2, NEW bt2, NEW gn2,
           NEW lines, NEW rest, NEW ext, NEW Ids,
           Len(lines) \in 0 .. Len(bt), \A i \in 1 .. Len(lines) : lines[i] = bt[i],
           Len(rest) = Len(bt) - Len(lines),
           \A i \in 1 .. Len(rest) : rest[i] = bt[Len(lines) + i],
           Picked(ext, Len(lines), lines, T, Ids),
           Extended(sq2, sq, ext), Extended(gn2, gn, rest),
           Present(k, T, sq, bt, rg, gn)
    PROVE  Present(k, T, sq2, bt2, rg, gn2)
<1>0. /\ \A j \in 1 .. Len(sq) : j \in 1 .. Len(sq2) /\ sq2[j] = sq[j]
      /\ \A j \in 1 .. Len(ext) : Len(sq) + j \in 1 .. Len(sq2) /\ sq2[Len(sq) + j] = ext[j]
  <2>1. Extended(sq2, sq, ext)
    OBVIOUS
  <2>2. \A j \in 1 .. Len(sq) : j \in 1 .. Len(sq2) /\ sq2[j] = sq[j]
    BY <2>1, ExtendedHas, ZenonT(30)
  <2>3. \A j \in 1 .. Len(ext) : Len(sq) + j \in 1 .. Len(sq2) /\ sq2[Len(sq) + j] = ext[j]
    BY <2>1, ExtendedHas, ZenonT(30)
  <2> QED
    BY <2>2, <2>3, Zenon
<1>9. /\ \A j \in 1 .. Len(gn) : j \in 1 .. Len(gn2) /\ gn2[j] = gn[j]
      /\ \A j \in 1 .. Len(rest) : Len(gn) + j \in 1 .. Len(gn2) /\ gn2[Len(gn) + j] = rest[j]
  BY SMTT(30) DEF Extended
<1>1. CASE \E j \in 1 .. Len(bt) : bt[j] \in T /\ bt[j].id = k
  <2>1. PICK j \in 1 .. Len(bt) : bt[j] \in T /\ bt[j].id = k
    BY <1>1, Zenon
  <2>2. CASE j <= Len(lines)
    <3>1. j \in 1 .. Len(lines) /\ lines[j] = bt[j]
      BY <2>2
    <3>2. PICK h \in 1 .. Len(ext) : ext[h] = k
      BY <2>1, <3>1, Zenon DEF Picked
    <3> QED
      BY <1>0, <3>2, Zenon DEF Present
  <2>3. CASE ~ (j <= Len(lines))
    <3>1. PICK h \in 1 .. Len(rest) : rest[h] = bt[j]
      <4>1. j - Len(lines) \in 1 .. Len(rest) /\ Len(lines) + (j - Len(lines)) = j
        BY <2>3
      <4> QED
        BY <4>1, Zenon
    <3> QED
      BY <1>9, <2>1, <3>1, SMTT(30) DEF Present
  <2> QED
    BY <2>2, <2>3, Zenon
<1> QED
  BY <1>0, <1>9, <1>1, ZenonT(30) DEF Present
=============================================================================
