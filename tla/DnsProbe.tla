------------------------------ MODULE DnsProbe ------------------------------
(* A DNS probe of the resolver (resolver/resolver.c, udp.c, tcp.c): the      *)
(* ephemeral one that aggregator_get_addr makes for a name that is not in    *)
(* the cache, which asks once and is freed, or the permanent one of a dns    *)
(* aggregate, which asks in every period.  It asks over a UDP socket of its  *)
(* own, over one that probes of one port share, or over TCP.                 *)
(*                                                                           *)
(* The probe embeds the handles and requests that it gives to libuv: the     *)
(* loop calls back for each of them, and for a closed handle only after the  *)
(* requests on it.  Handlers call each other deeply, hence the state is one  *)
(* record and a function of the code a function of that record.              *)
EXTENDS Naturals

CONSTANT Clients    \* oneshot clients of the name

VARIABLE probe

Handles == {"none", "open", "closing"}

\* The fields.  Ephemeral probes are in the table as long as they are allocated.
Probes ==
    [ephemeral : BOOLEAN, transport : {"udp", "shared", "tcp"},
     allocated : BOOLEAN,
     timer : {"none", "armed", "idle", "closing"},  \* resolver_timer
     socket : Handles,                              \* udp_client or client
     bind : Handles, bindData : {"bind", "probe"},  \* the shared UDP socket
     sending : BOOLEAN,                             \* libuv has udp_send
     request : {"none", "connect", "length", "query"},  \* libuv has connect, write_req
     timeout : BOOLEAN,                             \* tt_timer
     lock : BOOLEAN,
     sendActive : BOOLEAN, shared : BOOLEAN, pending : BOOLEAN,  \* resolver_udp_*
     freeing : BOOLEAN, closes : 0..4, waitSend : BOOLEAN,  \* resolver_ephemeral_*
     cached : BOOLEAN,                              \* the name is in the cache
     waiting : SUBSET Clients,                      \* dns_awaiting
     stop : BOOLEAN]                                \* alligator_stop_requested

\* A permanent probe is there from the start, an ephemeral one when it is needed.
ProbeInit ==
    \E e \in BOOLEAN, t \in {"udp", "shared", "tcp"} :
        probe = [ephemeral |-> e, transport |-> t, allocated |-> ~ e,
                 timer |-> IF e THEN "none" ELSE "armed", socket |-> "none",
                 bind |-> "none", bindData |-> "bind", sending |-> FALSE,
                 request |-> "none", timeout |-> FALSE, lock |-> FALSE,
                 sendActive |-> FALSE, shared |-> FALSE, pending |-> FALSE,
                 freeing |-> FALSE, closes |-> 0, waitSend |-> FALSE,
                 cached |-> FALSE, waiting |-> {}, stop |-> FALSE]
-----------------------------------------------------------------------------
\* carg_free: what libuv has of the probe is not taken back.
resolver_ephemeral_free_carg(p) ==
    [p EXCEPT !.allocated = FALSE, !.timeout = FALSE, !.lock = FALSE,
              !.sendActive = FALSE, !.shared = FALSE]

\* The last callback that release has counted frees the probe.
resolver_ephemeral_note_closed(p) ==
    IF ~ p.freeing \/ p.closes = 0 THEN p
    ELSE IF p.closes > 1 THEN [p EXCEPT !.closes = @ - 1]
    ELSE resolver_ephemeral_free_carg(
             [p EXCEPT !.closes = 0, !.freeing = FALSE, !.waitSend = FALSE])

\* Mutant: the query is no longer one of the shared socket.
query_release_clears_shared(p) ==
    [p EXCEPT !.timeout = FALSE, !.pending = FALSE, !.lock = FALSE, !.shared = FALSE]

\* The mark of the shared socket stays until the send is done.
resolver_udp_query_release(p) ==
    [p EXCEPT !.timeout = FALSE, !.pending = FALSE, !.lock = FALSE,
              !.shared = @ /\ p.sendActive]

\* handle is "socket", or "bind" when a callback has taken one for the other.
resolver_udp_abort(p, handle) ==
    IF p[handle] = "none" THEN [p EXCEPT !.timeout = FALSE, !.lock = FALSE]
    ELSE [p EXCEPT !.timeout = FALSE, ![handle] = "closing",
                   !.bindData = IF handle = "bind" THEN "probe" ELSE @]

\* resolver_tcp_halt: the lock stays until the close callback.
resolver_tcp_halt(p) ==
    IF p.socket = "none" THEN [p EXCEPT !.timeout = FALSE, !.lock = FALSE]
    ELSE [p EXCEPT !.timeout = FALSE, !.socket = "closing"]

\* resolver_udp_halt or resolver_tcp_halt, by the transport.
Halt(p) ==
    IF p.transport = "tcp" THEN resolver_tcp_halt(p)
    ELSE IF p.shared THEN resolver_udp_query_release(p)
    ELSE resolver_udp_abort(p, "socket")

\* What they return: a close callback will come.
HaltCloses(p) == ~ p.shared /\ p.socket # "none"

One(condition) == IF condition THEN 1 ELSE 0

\* Mutant: a send on the shared socket is not waited for.
release_without_send(p) ==
    IF ~ p.ephemeral \/ p.freeing THEN p
    ELSE resolver_ephemeral_note_closed(
             [Halt(p) EXCEPT
                 !.freeing = TRUE,
                 !.closes = 1 + One(HaltCloses(p)) + One(p.timer # "none"),
                 !.timer = IF @ = "none" THEN @ ELSE "closing"])

\* Closes what is open and counts the callbacks that are due.
resolver_ephemeral_release(p) ==
    LET send == p.shared /\ p.sendActive IN
    IF ~ p.ephemeral \/ p.freeing THEN p
    ELSE resolver_ephemeral_note_closed(
             [Halt(p) EXCEPT
                 !.freeing = TRUE,
                 !.waitSend = send,
                 !.closes = 1 + One(send) + One(HaltCloses(p)) + One(p.timer # "none"),
                 !.timer = IF @ = "none" THEN @ ELSE "closing"])

\* aggregator_oneshot_abandon_host drops the clients that wait for the name.
resolver_ephemeral_fail(p) ==
    resolver_ephemeral_release([p EXCEPT !.waiting = IF p.ephemeral THEN {} ELSE @])

\* Mutant: "bare halt", which leaves an ephemeral probe in the table.
tcp_fail_with_halt(p) == resolver_tcp_halt(p)

\* A permanent probe only closes the socket and asks again in the next period.
resolver_tcp_fail(p) == IF p.ephemeral THEN resolver_ephemeral_fail(p) ELSE resolver_tcp_halt(p)

\* The end of an attempt over UDP that was not answered.
resolver_udp_done(p, handle, shared) ==
    IF p.ephemeral THEN resolver_ephemeral_fail(p)
    ELSE IF shared THEN resolver_udp_query_release(p)
    ELSE resolver_udp_abort(p, handle)
-----------------------------------------------------------------------------
Becomes(p) == probe' = p

\* aggregator_get_addr for a client that has not found the name in the cache: one
\* probe per name is under way.
aggregator_get_addr(c) ==
    /\ probe.ephemeral /\ ~ probe.cached /\ ~ probe.stop
    /\ c \notin probe.waiting
    /\ Becomes(IF probe.allocated THEN [probe EXCEPT !.waiting = @ \cup {c}]
               ELSE [probe EXCEPT !.allocated = TRUE, !.timer = "armed",
                                  !.waiting = @ \cup {c}])

\* The record of the name is over.
CacheExpires ==
    /\ probe.cached
    /\ Becomes([probe EXCEPT !.cached = FALSE])

\* A query on the socket that the port shares; there is none yet for the first.
ConnectShared(p) ==
    LET asked == [p EXCEPT !.bind = "open", !.pending = TRUE, !.shared = TRUE]
        failed(q) == IF q.ephemeral THEN resolver_ephemeral_fail(q)
                     ELSE resolver_udp_query_release(q)
    IN  {[asked EXCEPT !.sending = TRUE, !.sendActive = TRUE], failed(asked)}
        \cup (IF p.bind = "none" THEN {failed(p)} ELSE {})

\* A query on a socket of the probe's own.
ConnectOwn(p) ==
    LET opened == [p EXCEPT !.socket = "open"]
    IN  {[opened EXCEPT !.sending = TRUE, !.sendActive = TRUE],
         resolver_udp_done(opened, "socket", FALSE)}

\* What an attempt over UDP comes to.  Without an address of the name server it
\* is over before it has begun.
resolver_connect_udp(p) ==
    IF p.sendActive THEN {resolver_ephemeral_fail(p)}
    ELSE IF p.lock /\ p.timeout THEN {p}
    ELSE IF p.lock /\ p.socket # "none"
    THEN {IF p.ephemeral THEN resolver_ephemeral_fail(p)
          ELSE IF p.socket = "open" THEN Halt(p) ELSE p}
    ELSE LET started == [p EXCEPT !.lock = TRUE, !.shared = FALSE, !.timeout = TRUE]
             unknown == [p EXCEPT !.lock = FALSE, !.shared = FALSE]
         IN  {resolver_ephemeral_fail(unknown)}
             \cup (IF p.transport = "shared" THEN ConnectShared(started)
                   ELSE ConnectOwn(started))

resolver_connect_tcp(p) ==
    IF p.lock /\ p.timeout THEN {p}
    ELSE IF p.socket # "none"
    THEN {IF p.ephemeral THEN resolver_ephemeral_fail(p)
          ELSE IF p.socket = "open" THEN resolver_tcp_halt(p) ELSE p}
    ELSE LET started == [p EXCEPT !.lock = TRUE, !.timeout = TRUE, !.socket = "open"]
         IN  {[started EXCEPT !.request = "connect"], resolver_tcp_fail(started)}

\* The timer of the probe: an attempt, the only one of an ephemeral probe.
resolver_start ==
    LET fired == [probe EXCEPT !.timer = IF probe.ephemeral THEN "idle" ELSE "armed"] IN
    /\ probe.allocated /\ probe.timer = "armed"
    /\ \E p \in CASE probe.stop -> {resolver_ephemeral_release(fired)}
               [] ~ probe.stop /\ probe.transport = "tcp" -> resolver_connect_tcp(fired)
               [] ~ probe.stop /\ probe.transport # "tcp" -> resolver_connect_udp(fired) :
          Becomes(p)
-----------------------------------------------------------------------------
\* resolver_timeout_udp, resolver_timeout_tcp
AttemptTimesOut ==
    LET p == [probe EXCEPT !.timeout = FALSE] IN
    /\ probe.timeout
    /\ Becomes(IF p.transport = "tcp" THEN resolver_tcp_fail(p)
               ELSE resolver_udp_done(p, "socket", p.shared))

\* dns_handler and what its callers do next.  An answer restarts the clients that
\* wait: they connect, unless the record they look for has a ttl of 0.
Answered(p, answer) ==
    LET told == IF answer = "fresh" THEN [p EXCEPT !.waiting = {}, !.cached = TRUE] ELSE p IN
    IF p.ephemeral
    THEN IF answer = "unusable" THEN resolver_ephemeral_fail(told)
         ELSE resolver_ephemeral_release(told)
    ELSE IF p.transport = "udp" /\ ~ p.lock THEN told
    ELSE IF p.transport = "shared" THEN resolver_udp_query_release(told)
    ELSE Halt(told)

\* resolver_read_udp, resolver_read_tcp: an answer to the probe.  One on the shared
\* socket is matched with a query that is pending.
ReadAnswer ==
    /\ CASE probe.transport = "udp" -> probe.socket = "open"
         [] probe.transport = "shared" -> probe.bind = "open" /\ probe.pending
         [] probe.transport = "tcp" -> probe.socket = "open" /\ probe.request # "connect"
    /\ \E answer \in {"fresh", "expired", "unusable"} : Becomes(Answered(probe, answer))

\* The same with an error, or the end of a TCP stream.
ReadFails ==
    /\ probe.socket = "open" /\ probe.request # "connect"
    /\ Becomes(IF probe.transport = "tcp" THEN resolver_tcp_fail(probe)
               ELSE resolver_udp_done(probe, "socket", FALSE))

\* The handle that the query was sent on.
Handle == IF probe.transport = "shared" THEN "bind" ELSE "socket"

\* resolver_send_udp for a send that succeeded: a socket of the probe's own then
\* starts to read, with the probe as its data.
Sent(p) ==
    IF ~ p.shared
    THEN {[p EXCEPT !.bindData = IF Handle = "bind" THEN "probe" ELSE @],
          resolver_udp_done(p, Handle, FALSE)}
    ELSE {[p EXCEPT !.shared = p.lock]}

\* libuv is done with udp_send.  On a handle that is closing it was cancelled.
resolver_send_udp ==
    LET p == [probe EXCEPT !.sending = FALSE, !.sendActive = FALSE] IN
    /\ probe.sending /\ probe.allocated
    /\ IF p.waitSend
       THEN Becomes(resolver_ephemeral_note_closed(
                        [p EXCEPT !.waitSend = FALSE, !.shared = @ /\ p.lock]))
       ELSE IF p.freeing THEN Becomes(p)
       ELSE \/ Becomes(resolver_udp_done(p, Handle, p.shared))
            \/ /\ p[Handle] = "open"
               /\ \E q \in Sent(p) : Becomes(q)

\* resolver_connected_tcp, resolver_writed_tcp: on a handle that is closing nothing
\* follows; else the length is written, and after it the query.
RequestDone ==
    LET p == [probe EXCEPT !.request = "none"]
        following == IF probe.request = "connect" THEN "length" ELSE "query"
    IN
    /\ probe.request \in {"connect", "length"} /\ probe.allocated
    /\ IF p.freeing \/ p.socket = "closing" THEN Becomes(p)
       ELSE \/ Becomes([p EXCEPT !.request = following])
            \/ Becomes(resolver_tcp_fail(p))

\* The query is written with no callback.
QueryWritten ==
    /\ probe.request = "query"
    /\ Becomes([probe EXCEPT !.request = "none"])

\* resolver_udp_closed, resolver_closed_tcp
SocketClosed ==
    /\ probe.socket = "closing" /\ ~ probe.sending /\ probe.request = "none"
    /\ Becomes(resolver_ephemeral_note_closed(
                   [probe EXCEPT !.socket = "none", !.lock = FALSE, !.timeout = FALSE,
                                 !.sendActive = FALSE]))

resolver_timer_handle_closed ==
    /\ probe.timer = "closing"
    /\ Becomes(resolver_ephemeral_note_closed([probe EXCEPT !.timer = "none"]))
-----------------------------------------------------------------------------
\* resolver_probe_halt of a permanent probe: its timer has no probe any more.
resolver_probe_halt(p) ==
    [Halt([p EXCEPT !.timer = "idle"]) EXCEPT !.lock = FALSE]

\* alligator_stop
resolver_probes_halt ==
    LET p == [probe EXCEPT !.stop = TRUE] IN
    /\ ~ probe.stop
    /\ Becomes(IF ~ p.allocated THEN p
               ELSE IF p.ephemeral THEN resolver_ephemeral_release(p)
               ELSE resolver_probe_halt(p))

\* After the loop has stopped.
resolver_udp_binds_halt ==
    /\ probe.stop /\ probe.bind = "open"
    /\ Becomes([probe EXCEPT !.bind = "closing"])

resolver_udp_bind_closed ==
    /\ probe.bind = "closing" /\ ~ probe.sending
    /\ Becomes([probe EXCEPT !.bind = "none", !.pending = FALSE])

Callbacks ==
    \/ resolver_start \/ AttemptTimesOut
    \/ resolver_send_udp \/ RequestDone \/ QueryWritten
    \/ SocketClosed \/ resolver_timer_handle_closed \/ resolver_udp_bind_closed

ProbeNext ==
    \/ \E c \in Clients : aggregator_get_addr(c)
    \/ CacheExpires
    \/ Callbacks \/ ReadAnswer \/ ReadFails
    \/ resolver_probes_halt \/ resolver_udp_binds_halt

\* The loop goes on calling back while something is due.  Nobody need answer, and
\* no client need ask.
ProbeFairness == WF_probe(Callbacks)

ProbeSpec == ProbeInit /\ [][ProbeNext]_probe /\ ProbeFairness
-----------------------------------------------------------------------------
ProbeTypeOK == probe \in Probes

\* "Spurious callbacks must not free early or double-free": when an ephemeral probe
\* is freed, libuv has none of the handles and requests inside it, and the shared
\* socket no query of it.
ProbeFreedLast ==
    ~ probe.allocated =>
        /\ probe.timer = "none" /\ probe.socket = "none"
        /\ ~ probe.sending /\ ~ probe.pending /\ probe.request = "none"

\* "Never recv_start / abort the shared bind as if it were carg->udp_client": the
\* socket that probes share stays open, and stays theirs, until the daemon stops.
SharedBindIsKept ==
    /\ probe.bindData = "bind"
    /\ probe.bind = "closing" => probe.stop

\* An ephemeral probe does not stay in the table, where it would keep the name from
\* being asked for again, and an attempt of a permanent probe does not stay locked.
ProbeEnds ==
    LET busy == IF probe.ephemeral THEN probe.allocated ELSE probe.lock IN
    busy ~> ~ busy

\* "Oneshot clients waiting on this hostname would otherwise stay with
\* dns_awaiting=1 forever": a client that waits is restarted or dropped, unless the daemon stops.
WaitersServed ==
    \A c \in Clients : c \in probe.waiting ~> c \notin probe.waiting \/ probe.stop
=============================================================================
