------------------------------ MODULE MCStores ------------------------------
(* The timing wheel, the operation log, the Maglev table and the timer       *)
(* cache, structures that do not interact: a behaviour uses one of them.     *)
(* The names of ExpireTree and of Oplog are in scope as they are; the others *)
(* are instances.                                                            *)
EXTENDS ExpireTree, Oplog

CONSTANTS s1, s2, short1, short2, long, Names, Hashes, PerServer, HashMin, HashMax,
          Clients, Periodic, Schedulers, MaxTimers

VARIABLES
    used,           \* which of them
    hashes, cn,     \* Maglev
    timer, cache, carg, sn, stop    \* TimerCache

M == INSTANCE Maglev
C == INSTANCE TimerCache
\* One client with a period whose setup may fail, and a timer more: enough for it to lose
\* a period timer.
P == INSTANCE TimerCache WITH Clients <- Periodic, MaxTimers <- MaxTimers + 1

\* Spans of 2, 4, 8 and 16 seconds, and a clock that goes past the last of them.
MCSeries == {s1, s2}
MCClock == {1, 3, 4, 6, 8, 11, 16, 20}
MCTtls == {1, 3, 7, 17, Never}

\* A log of four slots, with a budget that the short entries reach in pairs and the
\* long entry exceeds alone.
MCData == {short1, short2, long}
MCByteLen == [d \in MCData |-> CASE d = short1 -> 1 [] d = short2 -> 2 [] d = long -> 5]

\* Hashes of names that agree in one part, in both or in none, also modulo the sizes
\* of 5, 11 and 13 slots that one, two and three servers get.
MCHashes == {0, 1, 4} \X {0, 2, 5}

tableVars == <<hashes, cn>>
cacheVars == <<timer, cache, carg, sn, stop>>
allVars == <<used, vars, oplogVars, tableVars, cacheVars>>

StoresInit ==
    /\ used \in {"wheel", "log", "table", "timers", "period"}
    /\ Init /\ OplogInit
    /\ IF used = "timers" THEN C!Init /\ \A c \in Periodic : ~ carg[c].fallible
       ELSE IF used = "period" THEN P!Init /\ \A c \in Periodic : carg[c].fallible
       ELSE timer = <<>> /\ cache = <<>> /\ carg = <<>> /\ sn = <<>> /\ stop = "no"
    /\ IF used = "table" THEN M!Init ELSE hashes = <<>> /\ cn = M!NoCluster

StoresNext ==
    /\ \/ used = "wheel" /\ Next /\ UNCHANGED <<oplogVars, tableVars, cacheVars>>
       \/ used = "log" /\ OplogNext /\ UNCHANGED <<vars, tableVars, cacheVars>>
       \/ used = "table" /\ M!Next /\ UNCHANGED <<vars, oplogVars, cacheVars>>
       \/ used = "timers" /\ C!Next /\ UNCHANGED <<vars, oplogVars, tableVars>>
       \/ used = "period" /\ P!Next /\ UNCHANGED <<vars, oplogVars, tableVars>>
    /\ UNCHANGED used

StoresSpec ==
    /\ StoresInit /\ [][StoresNext]_allVars
    /\ WF_oplogVars(used = "log" /\ Shift)
-----------------------------------------------------------------------------
\* Maglev: every node gets the same table.
SamePrimary == M!SamePrimary

\* Maglev: the fill of the table stays within the rows of its servers.
WithinRow == M!WithinRow

\* TimerCache: a timer is with one owner, closes, or is in the cache once.
OneOwner ==
    /\ used = "timers" => C!OneOwner
    /\ used = "period" => P!OneOwner
=============================================================================
