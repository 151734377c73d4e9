----------------------------- MODULE Deadlines ------------------------------
(***************************************************************************)
(* What the expiry of a namespace promises: each series has a deadline,    *)
(* and a purge at a given second takes away the series whose deadline has  *)
(* come, all of them and no others.  Nothing here knows of a wheel.        *)
(***************************************************************************)
EXTENDS Integers

CONSTANT Series

VARIABLES
    deadline,   \* second at which each series ends, 0 for one that is not there
    purging     \* second of the purge under way, 0 when there is none

vars == <<deadline, purging>>

Init ==
    /\ deadline = [s \in Series |-> 0]
    /\ purging = 0

Write(s) ==
    /\ purging = 0
    /\ deadline'[s] \in Nat
    /\ deadline' = [deadline EXCEPT ![s] = deadline'[s]]
    /\ UNCHANGED purging

Delete(s) ==
    /\ purging = 0
    /\ deadline' = [deadline EXCEPT ![s] = 0]
    /\ UNCHANGED purging

Wipe ==
    /\ purging = 0
    /\ deadline' = [s \in Series |-> 0]
    /\ UNCHANGED purging

PurgeStart ==
    /\ purging = 0
    /\ purging' \in Nat \ {0}
    /\ UNCHANGED deadline

PurgeEnd ==
    /\ purging # 0
    /\ deadline' = [s \in Series |-> IF deadline[s] <= purging THEN 0 ELSE deadline[s]]
    /\ purging' = 0

Next ==
    \/ \E s \in Series : Write(s) \/ Delete(s)
    \/ Wipe
    \/ PurgeStart
    \/ PurgeEnd

Spec == Init /\ [][Next]_vars
=============================================================================
