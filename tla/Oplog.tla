------------------------------- MODULE Oplog -------------------------------
(***************************************************************************)
(* One operation log as its callers see it: cluster_pass inserts, POST     *)
(* /oplog shifts, GET /oplog looks.  The three run on different threads in *)
(* any order; the rwlock makes each of them one step.                      *)
(***************************************************************************)
EXTENDS OplogRing

VARIABLES
    ring,
    reply    \* what the last call gave its caller

oplogVars == <<ring, reply>>

Reply(op, overflow, batch) == [op |-> op, overflow |-> overflow, batch |-> batch]

OplogInit ==
    /\ ring = oplog_record_init
    /\ reply = Reply("init", 0, <<>>)

Insert(data) ==
    /\ ring' = oplog_record_insert(ring, data)
    /\ reply' = Reply("insert", InsertResult(ring), <<>>)

\* string_new failed: -1, and the ring is as it was
InsertFails ==
    /\ ring.container[ring.end] = NoData
    /\ reply' = Reply("insert", -1, <<>>)
    /\ UNCHANGED ring

Shift ==
    \E n \in 0 .. Count(ring) :
        /\ ShiftStopsAfter(ring, n)
        /\ ring' = oplog_record_shift(ring, n)
        /\ reply' = Reply("shift", 0, FirstEntries(ring, n))

Get ==
    \E n \in 0 .. Count(ring) :
        /\ GetStopsAfter(ring, n)
        /\ reply' = Reply("get", 0, FirstEntries(ring, n))
        /\ UNCHANGED ring

OplogNext == (\E d \in Data : Insert(d)) \/ InsertFails \/ Shift \/ Get

OplogSpec == OplogInit /\ [][OplogNext]_oplogVars

\* The sync client of the peer is periodic, so shifts keep coming.
OplogFairSpec == OplogSpec /\ WF_oplogVars(Shift)
-----------------------------------------------------------------------------
OplogTypeOK ==
    /\ ring \in Rings
    /\ reply \in [op : {"init", "insert", "shift", "get"}, overflow : -1 .. 1,
                  batch : Seq(Data)]

\* Every slot between the cursors holds an entry that was inserted: no reader
\* of oplog_record_get_string or oplog_record_shift_string meets a slot that
\* was never written, whatever the cursors wrapped over.
LiveSlotsWritten == \A i \in 0 .. Count(ring) - 1 : Entry(ring, i) \in Data

Abstract == INSTANCE BoundedLog WITH
    log <- Entries(ring), Capacity <- RingSize - 1, MaxBytes <- SyncMaxBytes

\* The ring with its wrapping cursors is a bounded queue that evicts exactly
\* one entry, the oldest, per insert into a full ring ("ring full: drop exactly
\* one oldest entry"), reports it, and is drained in order, each batch within
\* the byte budget.
ImplementsBoundedLog == Abstract!Spec

\* "the ring cannot stall forever on one poison record": once inserts stop,
\* periodic shifts empty the log, even from behind entries over the budget.
Drains == <>[][~ \E d \in Data : Insert(d)]_oplogVars => <>[](Count(ring) = 0)
=============================================================================
