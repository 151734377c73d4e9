----------------------------- MODULE OplogRing -----------------------------
(***************************************************************************)
(* The operation log of one cluster peer (src/cluster/type.c): a ring of   *)
(* string slots with two cursors.  begin = end means empty, so a ring of   *)
(* RingSize slots holds at most RingSize - 1 entries.  Every operation     *)
(* holds the ring's rwlock from start to end and is therefore one          *)
(* function from rings to rings.  An entry is an opaque value of Data; of  *)
(* its text only the length matters.                                       *)
(***************************************************************************)
EXTENDS Integers, Sequences

CONSTANTS
    Data,          \* oplog entries
    NoData,        \* the content of a slot that was never written
    Size,          \* the configured size, before oplog_record_init clamps it
    ByteLen,       \* entry |-> length of its string
    SyncMaxBytes   \* OPLOG_SYNC_MAX_BYTES

ASSUME OplogAssumption ==
    /\ Size \in Nat
    /\ SyncMaxBytes \in Nat
    /\ ByteLen \in [Data -> Nat]
    /\ NoData \notin Data

\* oplog_record_init: a size below 2 could hold nothing
RingSize == IF Size < 2 THEN 2 ELSE Size
Slots == 0 .. RingSize - 1

\* What a slot may hold.
Slotted == Data \cup {NoData}

Rings == [container : [Slots -> Slotted], begin : Slots, end : Slots]

oplog_record_init ==
    [container |-> [s \in Slots |-> NoData], begin |-> 0, end |-> 0]

Succ(s) == (s + 1) % RingSize

\* Number of entries between the cursors, and the i-th of them (from 0).
Count(r) == (r.end + RingSize - r.begin) % RingSize
Entry(r, i) == r.container[(r.begin + i) % RingSize]

\* The entries of a ring, oldest first.
Entries(r) == [i \in 1 .. Count(r) |-> Entry(r, i - 1)]

\* What oplog_record_insert returns: 1 when the oldest entry was given up.
InsertResult(r) == IF Succ(r.end) = r.begin THEN 1 ELSE 0

\* Mutant: the oldest entry is given up one insert too soon.
insert_evicting_early(r, data) ==
    [container |-> [r.container EXCEPT ![r.end] = data],
     begin     |-> IF Succ(Succ(r.end)) = r.begin THEN Succ(r.begin) ELSE r.begin,
     end       |-> Succ(r.end)]

\* Write at end, advance end, give up the oldest entry when end meets begin.
oplog_record_insert(r, data) ==
    [container |-> [r.container EXCEPT ![r.end] = data],
     begin     |-> IF InsertResult(r) = 1 THEN Succ(r.begin) ELSE r.begin,
     end       |-> Succ(r.end)]

\* Length of the text of a batch: string_new starts from nothing, string_cat adds the
\* entries one by one.
Text(batch) ==
    LET text[i \in 0 .. Len(batch)] ==
          IF i = 0 THEN 0 ELSE text[i - 1] + ByteLen[batch[i]]
    IN  text[Len(batch)]

FirstEntries(r, n) == SubSeq(Entries(r), 1, n)
Bytes(r, n) == Text(FirstEntries(r, n))

\* The loop of oplog_record_get_string leaves after n entries: at the end of
\* the log, or before the entry that exceeds the budget.
GetStopsAfter(r, n) ==
    /\ Bytes(r, n) <= SyncMaxBytes
    /\ n < Count(r) => Bytes(r, n + 1) > SyncMaxBytes

\* Mutant: an entry over the budget stays.
shift_keeps_oversized(r, n) == GetStopsAfter(r, n)

\* The loop of oplog_record_shift_string leaves after n entries: as above when
\* some text was collected, else after the one entry that exceeds the budget.
ShiftStopsAfter(r, n) ==
    \/ GetStopsAfter(r, n) /\ (n < Count(r) => Bytes(r, n) > 0)
    \/ n > 0 /\ Bytes(r, n - 1) = 0 /\ Bytes(r, n) > SyncMaxBytes

oplog_record_shift(r, n) == [r EXCEPT !.begin = (r.begin + n) % RingSize]
=============================================================================
