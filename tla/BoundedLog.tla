----------------------------- MODULE BoundedLog -----------------------------
(***************************************************************************)
(* What an operation log promises its callers: a bounded queue that evicts *)
(* one entry, the oldest, for each insert that finds it full, and that is  *)
(* read in order in batches of bounded size.  Nothing here knows of slots  *)
(* and cursors.                                                            *)
(***************************************************************************)
EXTENDS Integers, Sequences

CONSTANTS
    Data,
    Capacity,    \* how many entries it holds
    Text(_),     \* length of the text of a batch of entries
    MaxBytes     \* budget of a batch

VARIABLES
    log,    \* the entries held, oldest first
    reply   \* what the last call gave back: [op, overflow, batch]

vars == <<log, reply>>

Reply(op, overflow, batch) == [op |-> op, overflow |-> overflow, batch |-> batch]

Init ==
    /\ log = <<>>
    /\ reply = Reply("init", 0, <<>>)

Insert(d) ==
    IF Len(log) = Capacity
    THEN /\ log' = Append(Tail(log), d)
         /\ reply' = Reply("insert", 1, <<>>)
    ELSE /\ log' = Append(log, d)
         /\ reply' = Reply("insert", 0, <<>>)

\* An insert may fail for lack of memory, and then changes nothing.
InsertFails ==
    /\ reply' = Reply("insert", -1, <<>>)
    /\ UNCHANGED log

\* Removes a prefix.  It is within the budget or ends in the one entry that
\* alone exceeds it, and a non-empty log always gives up something.
Shift ==
    \E n \in 0 .. Len(log) :
        LET batch == SubSeq(log, 1, n) IN
        /\ log # <<>> => n > 0
        /\ Text(batch) <= MaxBytes \/ Text(SubSeq(log, 1, n - 1)) = 0
        /\ log' = SubSeq(log, n + 1, Len(log))
        /\ reply' = Reply("shift", 0, batch)

\* Copies a prefix that is within the budget, and removes nothing.
Get ==
    \E n \in 0 .. Len(log) :
        /\ Text(SubSeq(log, 1, n)) <= MaxBytes
        /\ reply' = Reply("get", 0, SubSeq(log, 1, n))
        /\ UNCHANGED log

Next == (\E d \in Data : Insert(d)) \/ InsertFails \/ Shift \/ Get

Spec == Init /\ [][Next]_vars
=============================================================================
