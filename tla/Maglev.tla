------------------------------- MODULE Maglev -------------------------------
(***************************************************************************)
(* The table that gives every series its primary: cluster_push_json sorts  *)
(* the servers of a cluster, and they take the slots of the table in turn, *)
(* each the first free one in an order of its own.  Every node builds the  *)
(* table for itself, from the servers in the order of its own              *)
(* configuration; Replication relies on all of them having the same one.   *)
(*                                                                         *)
(* A name is a number, by the order of strcmp.  The two hashes of a name   *)
(* are arbitrary members of Hashes.                                        *)
(***************************************************************************)
EXTENDS Integers, Sequences, FiniteSets
LOCAL INSTANCE SequencesExt

CONSTANTS
    Names,      \* names of servers
    Hashes,     \* <<DJBHash, murmur2>> of a name
    PerServer,  \* slots per server, at least: 100
    HashMin,    \* MAGLEV_HASH_SIZE_MIN
    HashMax     \* MAGLEV_HASH_SIZE_MAX

VARIABLES
    hashes,   \* the hashes of the names
    cn        \* the cluster node, with its array of servers and its table

vars == <<hashes, cn>>

NoServer == -1
NoCluster ==
    [step |-> "none", servers |-> <<>>, size |-> 0, permutation |-> <<>>,
     next |-> <<>>, entry |-> <<>>, i |-> 1, n |-> 0]

Init ==
    /\ hashes \in [Names -> Hashes]
    /\ cn = NoCluster
-----------------------------------------------------------------------------
\* Mutant: the last divisor is not tried.
prime_but_squares(n) ==
    /\ n \in HashMin .. HashMax
    /\ n % 2 # 0
    /\ \A i \in 3 .. n : i % 2 = 1 /\ i * i < n => n % i # 0

is_maglev_prime(n) ==
    /\ n \in HashMin .. HashMax
    /\ n % 2 # 0
    /\ \A i \in 3 .. n : i % 2 = 1 /\ i * i <= n + 1 => n % i # 0

\* The search starts above PerServer slots for each server.
HashSizes(servers) == {n \in PerServer * servers + 1 .. HashMax : is_maglev_prime(n)}

\* Mutant: the servers stay in the order of the configuration.
as_configured(servers) == servers

\* qsort with cluster_sort_compare.
Sorted(servers) == SortSeq(servers, <)

\* A cluster is configured.  Without a size of the table the search does not end.
cluster_push_json(servers) ==
    /\ cn.step = "none"
    /\ HashSizes(Len(servers)) # {}
    /\ cn' = [NoCluster EXCEPT
          !.step = "add",
          !.servers = Sorted(servers),
          !.size = CHOOSE n \in HashSizes(Len(servers)) :
                       \A m \in HashSizes(Len(servers)) : n <= m]
    /\ UNCHANGED hashes

\* The slots in the order in which a server would take them.
Preference(name, M) ==
    LET offset == hashes[name][1] % M
        skip == (hashes[name][2] % (M - 1)) + 1
    IN [j \in 0 .. M - 1 |-> (offset + j * skip) % M]

\* The next server of the array.
maglev_add_node ==
    /\ cn.step = "add"
    /\ Len(cn.permutation) < Len(cn.servers)
    /\ cn' = [cn EXCEPT !.permutation =
          Append(@, Preference(cn.servers[Len(@) + 1], cn.size))]
    /\ UNCHANGED hashes

\* maglev_create_ht, before its loop.
CreateStarts ==
    /\ cn.step = "add"
    /\ Len(cn.permutation) = Len(cn.servers)
    /\ cn' = [cn EXCEPT !.step = "fill",
                        !.next = [i \in DOMAIN cn.servers |-> 0],
                        !.entry = [c \in 0 .. cn.size - 1 |-> NoServer]]
    /\ UNCHANGED hashes

Candidate == cn.permutation[cn.i][cn.next[cn.i]]

\* The inner loop: the slot is taken.
TriesNext ==
    /\ cn.step = "fill"
    /\ cn.n < cn.size
    /\ cn.entry[Candidate] # NoServer
    /\ cn' = [cn EXCEPT !.next[cn.i] = @ + 1]
    /\ UNCHANGED hashes

\* The server takes a slot, and it is the turn of the next one.
TakesSlot ==
    /\ cn.step = "fill"
    /\ cn.n < cn.size
    /\ cn.entry[Candidate] = NoServer
    /\ cn' = [cn EXCEPT !.entry[Candidate] = cn.i,
                        !.next[cn.i] = @ + 1,
                        !.n = @ + 1,
                        !.i = (@ % Len(cn.servers)) + 1]
    /\ UNCHANGED hashes

\* The table is put to use, and the cluster can be found by its name.
maglev_swap_entry ==
    /\ cn.step = "fill"
    /\ cn.n = cn.size
    /\ cn' = [cn EXCEPT !.step = "used"]
    /\ UNCHANGED hashes

cluster_object_del ==
    /\ cn.step = "used"
    /\ cn' = NoCluster
    /\ UNCHANGED hashes

Next ==
    \/ \E servers \in SetToAllKPermutations(Names) \ {<<>>} : cluster_push_json(servers)
    \/ maglev_add_node
    \/ CreateStarts
    \/ TriesNext
    \/ TakesSlot
    \/ maglev_swap_entry
    \/ cluster_object_del

Spec == Init /\ [][Next]_vars
-----------------------------------------------------------------------------
\* The server that maglev_lookup_node gives for a key with this hash.
maglev_lookup_node(key) == cn.servers[cn.entry[key % cn.size]]

\* Reference: who has which slots after a number of turns, for a set of servers.
Turns(servers, M) ==
    LET order == SetToSortSeq(servers, <)
        taken[t \in 0 .. M] ==
            IF t = 0 THEN [s \in servers |-> {}]
            ELSE LET before == taken[t - 1]
                     name == order[((t - 1) % Len(order)) + 1]
                     free(j) == \A s \in servers : Preference(name, M)[j] \notin before[s]
                     first == CHOOSE j \in 0 .. M - 1 : free(j) /\ \A k \in 0 .. j - 1 : ~ free(k)
                 IN [before EXCEPT ![name] = @ \cup {Preference(name, M)[first]}]
    IN taken[M]

\* "Sort first, otherwise qsort moves the structs and lookup returns a different
\* server": whatever the order in its configuration, the table that a node uses
\* depends on the set of the servers only, so that every node finds the same primary
\* for a series; and it is the table of the reference, in which no server has two
\* slots more than another.
SamePrimary ==
    cn.step = "used" =>
        LET table == Turns(ToSet(cn.servers), cn.size)
            shares == {Cardinality(table[s]) : s \in DOMAIN table}
        IN /\ \A key \in 0 .. 2 * cn.size : key % cn.size \in table[maglev_lookup_node(key)]
           /\ \A a, b \in shares : a - b <= 1

\* However the preferences of the servers collide, a server finds a free slot in its
\* own row of the permutations: the loop, which does not look at the end of the row,
\* never reads past it.  It rests on the size being a prime.
WithinRow == cn.step = "fill" /\ cn.n < cn.size => cn.next[cn.i] < cn.size
=============================================================================
