---------------------------- MODULE ThreadedLoop ----------------------------
(* A pool of worker threads with a loop each (events/threads.c): the main    *)
(* thread hands work to a worker through a list and an async handle, the     *)
(* callbacks of a worker hand work to their own list, and deleting the pool  *)
(* puts a stop behind the work and joins the threads.                        *)
(*                                                                           *)
(* Work is numbered in the order in which it is accepted; 0 is the stop.     *)
EXTENDS Naturals, Sequences

CONSTANTS
    Slots,      \* the workers of the pool
    MaxWork,    \* bound on the work accepted
    MaxPools    \* bound on the pools created

ASSUME ThreadedLoopAssumption == MaxWork \in Nat

VARIABLES
    slot,      \* threaded_loop_slot and the thread that runs it
    main,      \* what the main thread is at
    accepted,  \* work that was taken, and from whom: main thread or worker
    ran,       \* work that was run, in its order
    dropped,   \* work taken off a list without being run
    pools      \* pools created so far

threadVars == <<slot, main, accepted, ran, dropped, pools>>

Stop == 0

Worker(thread) ==
    [thread |-> thread, ready |-> FALSE, list |-> <<>>, signal |-> FALSE, stopping |-> FALSE]

ThreadsInit ==
    /\ slot = [s \in Slots |-> Worker("none")]
    /\ main = "idle"
    /\ accepted = [s \in Slots |-> <<>>]
    /\ ran = [s \in Slots |-> <<>>]
    /\ dropped = {}
    /\ pools = 0

Listed(s) == {slot[s].list[k] : k \in DOMAIN slot[s].list}
Work == UNION {{accepted[s][k].id : k \in DOMAIN accepted[s]} : s \in Slots}
-----------------------------------------------------------------------------
create_threaded_loop ==
    /\ main = "idle" /\ pools < MaxPools
    /\ \A s \in Slots : slot[s].thread = "none"
    /\ slot' = [s \in Slots |-> Worker("starting")]
    /\ main' = "creating"
    /\ pools' = pools + 1
    /\ UNCHANGED <<accepted, ran, dropped>>

\* A thread makes its loop, mutex and async handle and runs, or fails and ends.
threaded_loop_run ==
    \E s \in Slots :
        /\ slot[s].thread = "starting"
        /\ \/ slot' = [slot EXCEPT ![s].thread = "loop", ![s].ready = TRUE]
           \/ slot' = [slot EXCEPT ![s].thread = "ended"]
        /\ UNCHANGED <<main, accepted, ran, dropped, pools>>

\* create_threaded_loop waits for the workers; it gives up on one that failed.
CreateReturns ==
    /\ main = "creating"
    /\ \A s \in Slots : slot[s].thread # "starting"
    /\ main' = "idle"
    /\ UNCHANGED <<slot, accepted, ran, dropped, pools>>

\* Mutant: the worker is not woken.
enqueue_quietly(w, work) == [w EXCEPT !.list = Append(@, work)]

threaded_loop_slot_enqueue(w, work) ==
    [w EXCEPT !.list = Append(@, work), !.signal = TRUE]

Accept(s, from) ==
    \E work \in 1..MaxWork :
        /\ Work = 1..(work - 1)
        /\ slot' = [slot EXCEPT ![s] = threaded_loop_slot_enqueue(@, work)]
        /\ accepted' = [accepted EXCEPT ![s] = Append(@, [id |-> work, from |-> from])]
        /\ UNCHANGED <<main, ran, dropped, pools>>

threaded_loop_queue_work ==
    \E s \in Slots :
        /\ main = "idle" /\ slot[s].ready
        /\ Accept(s, "main")

\* A callback of the worker's own loop, or work that it runs; also in the turn
\* of the loop that is its last.
WorkerQueues ==
    \E s \in Slots :
        /\ slot[s].thread \in {"loop", "drain"}
        /\ Accept(s, "worker")

threaded_loop_async_cb ==
    \E s \in Slots :
        /\ slot[s].thread = "loop" /\ slot[s].signal /\ ~ slot[s].stopping
        /\ slot' = [slot EXCEPT ![s].thread = "drain", ![s].signal = FALSE]
        /\ UNCHANGED <<main, accepted, ran, dropped, pools>>

\* Mutant: one piece of work for one wake-up.
take_one(w) == [w EXCEPT !.list = Tail(@), !.thread = "loop"]

Take(w) == [w EXCEPT !.list = Tail(@)]

\* One turn of the callback's for (;;): the head of the list is run, also behind
\* a stop, and an empty list ends it.
Drain ==
    \E s \in Slots :
        LET head == Head(slot[s].list)
            taken == Take(slot[s])
        IN  /\ slot[s].thread = "drain"
            /\ \/ /\ slot[s].list = <<>>
                  /\ slot' = [slot EXCEPT ![s].thread = "loop"]
                  /\ UNCHANGED ran
               \/ /\ slot[s].list # <<>> /\ head = Stop
                  /\ slot' = [slot EXCEPT ![s] = [taken EXCEPT !.stopping = TRUE]]
                  /\ UNCHANGED ran
               \/ /\ slot[s].list # <<>> /\ head # Stop
                  /\ slot' = [slot EXCEPT ![s] = taken]
                  /\ ran' = [ran EXCEPT ![s] = Append(@, head)]
            /\ UNCHANGED <<main, accepted, dropped, pools>>

LoopEnds ==
    \E s \in Slots :
        /\ slot[s].thread = "loop" /\ slot[s].stopping
        /\ slot' = [slot EXCEPT ![s].thread = "ended"]
        /\ UNCHANGED <<main, accepted, ran, dropped, pools>>

\* thread_loop_set with another size, or the end of the program.
del_threaded_loop ==
    /\ main = "idle"
    /\ \A s \in Slots : slot[s].thread # "none"
    /\ slot' = [s \in Slots |-> IF slot[s].ready
                                THEN threaded_loop_slot_enqueue(slot[s], Stop) ELSE slot[s]]
    /\ main' = "joining"
    /\ UNCHANGED <<accepted, ran, dropped, pools>>

\* Mutant: the threads are not joined.
not_joined == TRUE

Joined == \A s \in Slots : slot[s].thread = "ended"

Join ==
    /\ main = "joining" /\ Joined
    /\ dropped' = dropped \cup UNION {Listed(s) : s \in Slots}
    /\ slot' = [s \in Slots |-> Worker("none")]
    /\ main' = "idle"
    /\ UNCHANGED <<accepted, ran, pools>>

ThreadsNext ==
    \/ create_threaded_loop
    \/ threaded_loop_run
    \/ CreateReturns
    \/ threaded_loop_queue_work
    \/ WorkerQueues
    \/ threaded_loop_async_cb
    \/ Drain
    \/ LoopEnds
    \/ del_threaded_loop
    \/ Join

ThreadsSpec == ThreadsInit /\ [][ThreadsNext]_threadVars

\* A thread that can go on does, and an async handle that was sent calls.
ThreadsFairness ==
    /\ WF_threadVars(threaded_loop_run)
    /\ WF_threadVars(CreateReturns)
    /\ WF_threadVars(threaded_loop_async_cb)
    /\ WF_threadVars(Drain)
    /\ WF_threadVars(LoopEnds)
    /\ WF_threadVars(Join)
-----------------------------------------------------------------------------
\* Work is run in the order in which it was accepted and none twice, however the
\* wake-ups of the async handle fall together; and what del_threaded_loop throws
\* away was handed in by the worker's own last callbacks: whatever the main thread
\* handed in before it deleted the pool has been run.
MainWorkIsRun ==
    \A s \in Slots :
        /\ \A k, j \in DOMAIN ran[s] : k < j => ran[s][k] < ran[s][j]
        /\ \A k \in DOMAIN accepted[s] :
              accepted[s][k].from = "main" => accepted[s][k].id \notin dropped

\* No wake-up is lost: work does not stay on a list.
WorkLeavesList ==
    \A s \in Slots : \A i \in 1..MaxWork : i \in Listed(s) ~> i \notin Listed(s)

\* Deleting a pool comes to an end: every worker sees its stop.
JoinReturns == main = "joining" ~> main = "idle"
=============================================================================
