------------------------------- MODULE Await --------------------------------
(***************************************************************************)
(* aggregator_oneshot_await: a call that starts a oneshot client and runs  *)
(* the loop inside itself until the client's handler has been called or    *)
(* the time is up.  The callbacks that the inner loop calls may themselves *)
(* await, so that calls nest, and a call returns only when it is the       *)
(* innermost one.                                                          *)
(*                                                                         *)
(* The calls are numbered in the order in which they are made.  The client *)
(* of a call is seen from here only: it calls the handler, at most once    *)
(* (TcpClient), or is deleted without a call.                              *)
(***************************************************************************)
EXTENDS Naturals, Sequences, FiniteSets

CONSTANTS
    MaxCalls,   \* bound: calls of aggregator_oneshot_await
    MaxDepth    \* uva_max_depth

Calls == 1..MaxCalls

VARIABLES
    stack,   \* the C stack: awaits, and handlers inside the user's handler
    wait,    \* the aggregator_await_wait of each call
    shot,    \* its client
    holds,   \* the client's oneshot_await points to the wait
    timer    \* the timer of its uva_await_timeout

awaitVars == <<stack, wait, shot, holds, timer>>

\* mem: whether the wait is allocated; out: w->out points to the caller's result.
Unused == [mem |-> "none", out |-> FALSE, completed |-> FALSE, abandoned |-> FALSE,
           done |-> FALSE]

Frame(kind, i) == [kind |-> kind, call |-> i]

AwaitInit ==
    /\ stack = <<>>
    /\ wait = [i \in Calls |-> Unused]
    /\ shot = [i \in Calls |-> "none"]
    /\ holds = [i \in Calls |-> FALSE]
    /\ timer = [i \in Calls |-> "none"]

Frames == {stack[k] : k \in DOMAIN stack}
Innermost(frame) == stack # <<>> /\ stack[Len(stack)] = frame
Return == SubSeq(stack, 1, Len(stack) - 1)

Starting(i) == timer[i] = "none"
Awaiting(i) == timer[i] \in {"armed", "fired"}

\* uva_depth
Depth == Cardinality({i \in Calls : Frame("await", i) \in Frames /\ Awaiting(i)})

\* The loop runs: the outer one, or that of the innermost call.
LoopRuns ==
    \/ stack = <<>>
    \/ \E i \in Calls : Innermost(Frame("await", i)) /\ ~ Starting(i)
-----------------------------------------------------------------------------
\* A callback of the loop, or the handler of a user, awaits.  smart_aggregator may
\* refuse the client.
aggregator_oneshot_await ==
    \E i \in Calls :
        /\ wait[i].mem = "none" /\ \A j \in 1..(i - 1) : wait[j].mem # "none"
        /\ LoopRuns \/ \E j \in Calls : Innermost(Frame("handler", j))
        /\ \/ /\ stack' = Append(stack, Frame("await", i))
              /\ wait' = [wait EXCEPT ![i] = [Unused EXCEPT !.mem = "live", !.out = TRUE]]
              /\ shot' = [shot EXCEPT ![i] = "running"]
              /\ holds' = [holds EXCEPT ![i] = TRUE]
           \/ /\ wait' = [wait EXCEPT ![i].mem = "freed"]
              /\ UNCHANGED <<stack, shot, holds>>
        /\ UNCHANGED timer

TooDeep == Depth >= MaxDepth

\* The client is started: the call waits, unless too many wait already.
uva_await_timeout ==
    \E i \in Calls :
        /\ Innermost(Frame("await", i)) /\ Starting(i)
        /\ holds' = [holds EXCEPT ![i] = @ \/ (shot[i] = "running" /\ ~ wait[i].completed)]
        /\ timer' = [timer EXCEPT ![i] = IF TooDeep THEN "closing" ELSE "armed"]
        /\ UNCHANGED <<stack, wait, shot>>

\* Mutant: the handler leaves the pointer of the client.
handler_keeps_pointer(i) ==
    /\ shot' = [shot EXCEPT ![i] = "ended"]
    /\ holds' = holds
    /\ IF ~ holds[i] THEN UNCHANGED <<stack, wait>>
       ELSE IF wait[i].abandoned
       THEN wait' = [wait EXCEPT ![i].mem = "freed"] /\ UNCHANGED stack
       ELSE stack' = Append(stack, Frame("handler", i)) /\ UNCHANGED wait

HandlerCalled(i) ==
    /\ shot' = [shot EXCEPT ![i] = "ended"]
    /\ holds' = [holds EXCEPT ![i] = FALSE]
    /\ IF ~ holds[i] THEN UNCHANGED <<stack, wait>>
       ELSE IF wait[i].abandoned
       THEN wait' = [wait EXCEPT ![i].mem = "freed"] /\ UNCHANGED stack
       ELSE stack' = Append(stack, Frame("handler", i)) /\ UNCHANGED wait

\* The client calls the handler, from the loop or while it is started.
aggregator_oneshot_await_handler ==
    \E i \in Calls :
        /\ shot[i] = "running"
        /\ LoopRuns \/ (Innermost(Frame("await", i)) /\ Starting(i))
        /\ HandlerCalled(i)
        /\ UNCHANGED timer

\* The handler of the user has returned: uva_future_complete.
HandlerReturns ==
    \E i \in Calls :
        /\ Innermost(Frame("handler", i))
        /\ stack' = Return
        /\ wait' = [wait EXCEPT ![i].completed = TRUE, ![i].done = TRUE]
        /\ UNCHANGED <<shot, holds, timer>>

\* The client is deleted without a call: its key is taken over, its name is not
\* found, or the process stops.
ClientDeleted ==
    \E i \in Calls :
        /\ shot[i] = "running" /\ LoopRuns
        /\ shot' = [shot EXCEPT ![i] = "ended"]
        /\ holds' = [holds EXCEPT ![i] = FALSE]
        /\ UNCHANGED <<stack, wait, timer>>

\* Mutant: the timeout marks the future as cancelled and not as done.
cancel_only(i) == wait

uva_future_cancel(i) == [wait EXCEPT ![i].done = TRUE]

on_await_timeout ==
    \E i \in Calls :
        /\ timer[i] = "armed" /\ LoopRuns
        /\ timer' = [timer EXCEPT ![i] = "fired"]
        /\ wait' = uva_future_cancel(i)
        /\ UNCHANGED <<stack, shot, holds>>

\* uva_await is at its end; the timer is closed, which takes a turn of the loop.
uva_await ==
    \E i \in Calls :
        /\ Innermost(Frame("await", i)) /\ Awaiting(i) /\ wait[i].done
        /\ timer' = [timer EXCEPT ![i] = "closing"]
        /\ UNCHANGED <<stack, wait, shot, holds>>

on_timer_closed ==
    \E i \in Calls :
        /\ timer[i] = "closing" /\ LoopRuns
        /\ timer' = [timer EXCEPT ![i] = "closed"]
        /\ UNCHANGED <<stack, wait, shot, holds>>

Leave(w) ==
    IF w.completed THEN [w EXCEPT !.mem = "freed"]
    ELSE [w EXCEPT !.abandoned = TRUE, !.out = FALSE]

AwaitReturns ==
    \E i \in Calls :
        /\ Innermost(Frame("await", i)) /\ timer[i] = "closed"
        /\ stack' = Return
        /\ wait' = [wait EXCEPT ![i] = Leave(@)]
        /\ UNCHANGED <<shot, holds, timer>>

AwaitNext ==
    \/ aggregator_oneshot_await
    \/ uva_await_timeout
    \/ aggregator_oneshot_await_handler
    \/ HandlerReturns
    \/ ClientDeleted
    \/ on_await_timeout
    \/ uva_await
    \/ on_timer_closed
    \/ AwaitReturns

AwaitSpec == AwaitInit /\ [][AwaitNext]_awaitVars

\* Code that has the processor goes on, timers fire and are closed.
AwaitFairness ==
    /\ WF_awaitVars(uva_await_timeout)
    /\ WF_awaitVars(HandlerReturns)
    /\ WF_awaitVars(on_await_timeout)
    /\ WF_awaitVars(uva_await)
    /\ WF_awaitVars(on_timer_closed)
    /\ WF_awaitVars(AwaitReturns)

AwaitFairSpec == AwaitSpec /\ AwaitFairness
-----------------------------------------------------------------------------
\* "The handler ... still owns w and will free it": however calls nest, time out and
\* are answered late, neither a client nor a handler that waits for its user has a
\* pointer to a wait that is freed; and a wait points to the result of its caller, a
\* variable of the caller's frame, only while that call is on the stack.
NoDanglingWait ==
    \A i \in Calls :
        /\ holds[i] \/ Frame("handler", i) \in Frames => wait[i].mem = "live"
        /\ wait[i].mem = "live" /\ wait[i].out => Frame("await", i) \in Frames

\* Every call returns, also when its client never answers and when the calls that
\* it interrupted have long been answered.
EveryAwaitReturns ==
    \A i \in Calls : Frame("await", i) \in Frames ~> Frame("await", i) \notin Frames
=============================================================================
