------------------------------- MODULE LogTcp -------------------------------
(* The TCP destination of a log channel (common/log_tcp.c): any thread hands *)
(* in a line, the loop of the main thread connects, writes one line at a     *)
(* time and connects again after a loss, and closing the channel closes the  *)
(* three handles one after the other before the sink is freed.               *)
(*                                                                           *)
(* log_channel_open_dest closes the sink of a channel before it opens one,   *)
(* so a sink is opened once and closed at most once.                         *)
EXTENDS Naturals

CONSTANT Writers    \* threads that log

VARIABLES
    sink,    \* log_tcp_sink, its handles and requests
    writer   \* where a thread is in log_tcp_sink_write

sinkVars == <<sink, writer>>

\* mem: the life of the sink; pending: pending_data is set; in_flight:
\* write_in_flight; writes: uv_write requests without a callback yet; lookup: a
\* uv_getaddrinfo without a callback yet; clash: it was closed while its tcp
\* handle was closing, a lookup was under way or a thread was inside it.
NoSink == [mem |-> "none", state |-> "idle", pending |-> FALSE, in_flight |-> FALSE,
           tcp |-> "init", writes |-> 0, lookup |-> FALSE, timer |-> "off",
           async |-> "idle", clash |-> FALSE]

SinkInit == sink = NoSink /\ writer = [w \in Writers |-> "out"]

HandleIsClosing(handle) == handle \in {"closing", "closed"}
Open(s) == s.mem = "open"
-----------------------------------------------------------------------------
log_tcp_schedule_reconnect(s) == IF Open(s) THEN [s EXCEPT !.timer = "armed"] ELSE s

\* Mutant: no wake-up for the loop.
drain_later(s) == s

log_tcp_schedule_drain(s) ==
    IF Open(s) /\ s.state = "connected" THEN [s EXCEPT !.async = "sent"] ELSE s

Reset(s) == [s EXCEPT !.state = "idle", !.in_flight = FALSE, !.pending = FALSE]

log_tcp_mark_disconnected(s) ==
    IF ~ Open(s) THEN s
    ELSE IF HandleIsClosing(s.tcp) THEN log_tcp_schedule_reconnect(Reset(s))
    ELSE [Reset(s) EXCEPT !.tcp = "closing"]

\* uv_write may refuse, and does when the handle is closing.
log_tcp_try_write(s) ==
    IF ~ (Open(s) /\ s.state = "connected" /\ s.pending /\ ~ s.in_flight) THEN {s}
    ELSE {[s EXCEPT !.pending = FALSE, !.in_flight = TRUE, !.writes = @ + 1],
          log_tcp_mark_disconnected(s)}

\* A sink that does not connect: the name is looked up at once or by a request,
\* which may be refused.
log_tcp_start_connect(s) ==
    IF ~ Open(s) \/ s.state # "idle" THEN {s}
    ELSE LET begun == [s EXCEPT !.timer = "off", !.pending = FALSE, !.state = "connecting",
                                !.tcp = "init"]
         IN  {[begun EXCEPT !.tcp = "connecting"],
              [begun EXCEPT !.lookup = TRUE],
              log_tcp_schedule_reconnect([begun EXCEPT !.state = "idle"])}
-----------------------------------------------------------------------------
log_tcp_sink_open ==
    /\ sink.mem = "none"
    /\ sink' \in log_tcp_start_connect([sink EXCEPT !.mem = "open"])
    /\ UNCHANGED writer

log_tcp_getaddrinfo_cb ==
    /\ sink.lookup /\ sink.mem # "freed"
    /\ LET done == [sink EXCEPT !.lookup = FALSE]
       IN  IF ~ Open(sink) THEN sink' = done
           ELSE sink' \in {log_tcp_schedule_reconnect([done EXCEPT !.state = "idle"]),
                           [done EXCEPT !.tcp = "connecting"]}
    /\ UNCHANGED writer

\* A request on a handle that is closing is cancelled when the handle is closed.
log_tcp_connected_cb ==
    /\ sink.tcp = "connecting"
    /\ \/ sink' = [sink EXCEPT !.state = "idle", !.tcp = "closing"]
       \/ sink' \in log_tcp_try_write(log_tcp_schedule_drain(
                        [sink EXCEPT !.state = "connected", !.tcp = "open"]))
    /\ UNCHANGED writer

log_tcp_read_cb ==
    /\ sink.tcp = "open"
    /\ sink' = log_tcp_mark_disconnected(sink)
    /\ UNCHANGED writer

log_tcp_written_cb ==
    /\ sink.tcp = "open" /\ sink.writes > 0
    /\ LET done == [sink EXCEPT !.writes = @ - 1, !.in_flight = FALSE]
       IN  sink' \in {log_tcp_mark_disconnected(done)} \cup log_tcp_try_write(done)
    /\ UNCHANGED writer

log_tcp_async_cb ==
    /\ sink.async = "sent" /\ sink.mem # "freed"
    /\ sink' \in log_tcp_try_write([sink EXCEPT !.async = "idle"])
    /\ UNCHANGED writer

log_tcp_reconnect_cb ==
    /\ sink.timer = "armed"
    /\ sink' \in log_tcp_start_connect([sink EXCEPT !.timer = "off"])
    /\ UNCHANGED writer

\* Mutant: both handles are closed at once and the sink is freed.
shutdown_at_once(s) == [s EXCEPT !.timer = "closing", !.async = "closing", !.mem = "freed"]

log_tcp_shutdown_next(s) ==
    IF ~ HandleIsClosing(s.timer) THEN [s EXCEPT !.timer = "closing"]
    ELSE IF ~ HandleIsClosing(s.async) THEN [s EXCEPT !.async = "closing"]
    ELSE [s EXCEPT !.mem = "freed", !.pending = FALSE]

log_tcp_closed_cb(s) ==
    IF Open(s) THEN log_tcp_schedule_reconnect(Reset(s))
    ELSE log_tcp_shutdown_next(Reset(s))

\* The tcp handle is closed: a write that is under way is cancelled first, and
\* its callback may find the sink open and disconnected.
TcpClosed ==
    /\ sink.tcp = "closing" /\ sink.mem # "freed"
    /\ LET cancelled == IF sink.writes = 0 THEN sink
                        ELSE log_tcp_mark_disconnected([sink EXCEPT !.writes = 0])
       IN  sink' = log_tcp_closed_cb([cancelled EXCEPT !.tcp = "closed"])
    /\ UNCHANGED writer

log_tcp_aux_closed_cb ==
    /\ sink.mem # "freed"
    /\ \/ /\ sink.timer = "closing"
          /\ sink' = log_tcp_shutdown_next([sink EXCEPT !.timer = "closed"])
       \/ /\ sink.async = "closing"
          /\ sink' = log_tcp_shutdown_next([sink EXCEPT !.async = "closed"])
    /\ UNCHANGED writer

CloseFirst(s) ==
    IF s.state # "idle" /\ ~ HandleIsClosing(s.tcp) THEN [s EXCEPT !.tcp = "closing"]
    ELSE log_tcp_shutdown_next(s)

log_tcp_sink_close ==
    /\ Open(sink)
    /\ sink' = CloseFirst([sink EXCEPT !.mem = "closing", !.timer = "off", !.pending = FALSE,
                                !.clash = \/ sink.tcp = "closing" \/ sink.lookup
                                          \/ \E w \in Writers : writer[w] # "out"])
    /\ UNCHANGED writer
-----------------------------------------------------------------------------
\* log_tcp_sink_write: a connected sink is found, ...
SeesConnected ==
    \E w \in Writers :
        /\ writer[w] = "out" /\ Open(sink) /\ sink.state = "connected"
        /\ writer' = [writer EXCEPT ![w] = "checked"]
        /\ UNCHANGED sink

\* ... the line is left under the lock, or dropped because one is there, ...
LeavesLine ==
    \E w \in Writers :
        /\ writer[w] = "checked" /\ sink.mem # "freed"
        /\ IF sink.in_flight \/ sink.pending
           THEN writer' = [writer EXCEPT ![w] = "out"] /\ UNCHANGED sink
           ELSE /\ writer' = [writer EXCEPT ![w] = "left"]
                /\ sink' = [sink EXCEPT !.pending = TRUE]

\* ... and the loop is woken.
WakesLoop ==
    \E w \in Writers :
        /\ writer[w] = "left" /\ sink.mem # "freed"
        /\ sink' = log_tcp_schedule_drain(sink)
        /\ writer' = [writer EXCEPT ![w] = "out"]

SinkNext ==
    \/ log_tcp_sink_open
    \/ log_tcp_getaddrinfo_cb
    \/ log_tcp_connected_cb
    \/ log_tcp_read_cb
    \/ log_tcp_written_cb
    \/ log_tcp_async_cb
    \/ log_tcp_reconnect_cb
    \/ TcpClosed
    \/ log_tcp_aux_closed_cb
    \/ log_tcp_sink_close
    \/ SeesConnected
    \/ LeavesLine
    \/ WakesLoop

SinkSpec == SinkInit /\ [][SinkNext]_sinkVars

\* The loop calls the callbacks that are due, requests end, timers fire, and a
\* thread that is inside log_tcp_sink_write leaves it.  A peer need not read.
SinkFairness ==
    /\ WF_sinkVars(log_tcp_getaddrinfo_cb)
    /\ WF_sinkVars(log_tcp_connected_cb)
    /\ WF_sinkVars(log_tcp_async_cb)
    /\ WF_sinkVars(log_tcp_reconnect_cb)
    /\ WF_sinkVars(TcpClosed)
    /\ WF_sinkVars(log_tcp_aux_closed_cb)
    /\ WF_sinkVars(LeavesLine)
    /\ WF_sinkVars(WakesLoop)
-----------------------------------------------------------------------------
\* A sink is freed after the last callback of its handles and requests, if it was
\* not closed in the middle of a disconnect, a lookup or a write.
FreedLast ==
    sink.mem = "freed" /\ ~ sink.clash =>
        /\ sink.timer = "closed" /\ sink.async = "closed"
        /\ sink.tcp # "closing" /\ sink.writes = 0 /\ ~ sink.lookup

\* A line that is left is soon written or dropped, so that the next one finds
\* room, also when the connection comes or goes between the steps of a writer; and
\* "reconnection is retried in the background": a sink does not stay idle.
PendingMoves ==
    /\ sink.pending ~> ~ sink.pending
    /\ Open(sink) /\ sink.state = "idle" ~> ~ (Open(sink) /\ sink.state = "idle")
=============================================================================
