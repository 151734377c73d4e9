----------------------------- MODULE HttpServer -----------------------------
(***************************************************************************)
(* One connection that a TCP entrypoint has accepted: the pieces of its    *)
(* requests in full_body, the response that libuv writes, keep-alive with  *)
(* its idle timer, the half-close, the close and the deferred release.     *)
(* After a release the entrypoint accepts the next connection.             *)
(*                                                                         *)
(* The operators below carry the names of the functions of server.c and    *)
(* http_entrypoint.c and map the connection before the call to the         *)
(* connection after it.  A request is Pieces pieces long; requests are     *)
(* numbered in the order in which the peer sends them.  Two things are     *)
(* left out: TLS, whose handshake and records only change when a piece     *)
(* arrives, and a reply that does not begin with "HTTP", which only a      *)
(* script of a lang parser can give and whose write ends in nothing but    *)
(* its buffer being freed.                                                 *)
(***************************************************************************)
EXTENDS Naturals, Sequences

CONSTANTS
    Pieces,        \* pieces of a request, as reads deliver them
    MaxRequests    \* bound: requests that a peer sends on a connection

ASSUME HttpServerAssumption == Pieces \in Nat \ {0}

VARIABLES
    entry,   \* the entrypoint: its http_keepalive, and whether its parser replies
    peer,    \* the other end: what it speaks, what it asks for and has sent
    carg     \* the connection

serverVars == <<entry, peer, carg>>

Requests == 1..MaxRequests

\* handle: carg->client; shutdown: carg->shutdown_req; body: pieces in full_body,
\* of which the first belongs to request head; size: http_request_size; read:
\* body_read; buffer: the request whose response response_buffer holds, 0 for NULL;
\* outgoing: the request whose response libuv is writing, 0 for none; broken: a
\* read has failed, and libuv has given the stream up.
\* History: the requests handed to the parser, the answers written out.
Connection(handle) ==
    [handle |-> handle, shutdown |-> "none", broken |-> FALSE, body |-> 0, head |-> 1,
     size |-> 0, read |-> FALSE, pending |-> FALSE, closeAfter |-> TRUE, buffer |-> 0,
     outgoing |-> 0, idle |-> FALSE, handled |-> <<>>, answers |-> <<>>]

\* asks: the requests after which the peer wants the connection closed; pipelines:
\* it sends a request before it has the previous answer.
Peers == {p \in [speaks : {"http", "plain"}, asks : SUBSET Requests, pipelines : BOOLEAN,
                 sent : {0}, got : {0}, ended : {"no"}] :
            p.speaks = "plain" => p.asks = {} /\ ~ p.pipelines}

ServerInit ==
    /\ entry \in [keepalive : BOOLEAN, replies : BOOLEAN]
    /\ peer = CHOOSE p \in Peers : TRUE
    /\ carg = Connection("none")
-----------------------------------------------------------------------------
uv_is_closing(c) == c.handle # "open"
uv_is_writable(c) == c.handle = "open" /\ c.shutdown = "none" /\ ~ c.broken

http_entrypoint_negotiate(c) ==
    [c EXCEPT !.closeAfter = ~ entry.keepalive \/ c.head \in peer.asks]

http_entrypoint_reset_request_state(c) == [c EXCEPT !.read = FALSE, !.size = 0]

http_entrypoint_consume_request(c) ==
    IF c.size = 0 THEN c
    ELSE [c EXCEPT !.body = IF @ > c.size THEN @ - c.size ELSE 0,
                   !.head = @ + 1, !.size = 0]

http_entrypoint_should_shutdown(c, ok) == ~ ok \/ c.closeAfter

\* Mutant: the connection is released without waiting for libuv to close it.
release_at_once(c) == IF uv_is_closing(c) THEN c ELSE [c EXCEPT !.handle = "freed"]

tcp_server_close_client(c) ==
    IF uv_is_closing(c) THEN c ELSE [c EXCEPT !.handle = "closing"]

\* uv_shutdown refuses a stream that is not writable.
tcp_server_begin_shutdown(c) ==
    IF uv_is_closing(c) \/ c.shutdown # "none" THEN c
    ELSE IF uv_is_writable(c) THEN [c EXCEPT !.shutdown = "waiting"]
    ELSE tcp_server_close_client([c EXCEPT !.shutdown = "failed"])

\* Mutant: a keep-alive connection gets no idle timer.
idle_never(c) == c

tcp_server_http_idle_arm(c) ==
    IF entry.keepalive /\ ~ c.closeAfter THEN [c EXCEPT !.idle = TRUE] ELSE c

\* uv_write of a stream that is writable does not fail.
tcp_server_send_response(c) ==
    IF uv_is_writable(c)
    THEN [c EXCEPT !.pending = TRUE, !.idle = FALSE, !.buffer = c.head,
                   !.outgoing = c.head]
    ELSE [c EXCEPT !.pending = FALSE]

\* A handler that replies nothing leaves its request in full_body.
tcp_server_try_dispatch(c) ==
    IF c.pending \/ uv_is_closing(c) \/ c.body < Pieces \/ peer.speaks # "http"
    THEN c
    ELSE LET called == http_entrypoint_negotiate(
                           [c EXCEPT !.read = TRUE, !.size = Pieces,
                                     !.handled = Append(@, c.head)])
             answered == tcp_server_send_response(called)
         IN
         IF ~ entry.replies THEN http_entrypoint_reset_request_state(called)
         ELSE IF answered.closeAfter
         THEN http_entrypoint_reset_request_state(
                  http_entrypoint_consume_request(answered))
         ELSE answered

\* Mutant: an answered request stays in full_body.
complete_and_keep(c, ok) ==
    LET done == [c EXCEPT !.pending = FALSE] IN
    IF done.buffer = 0 THEN done
    ELSE IF http_entrypoint_should_shutdown(done, ok)
    THEN tcp_server_begin_shutdown(done)
    ELSE tcp_server_try_dispatch(
             tcp_server_http_idle_arm(http_entrypoint_reset_request_state(done)))

tcp_server_write_complete(c, ok) ==
    LET done == [c EXCEPT !.pending = FALSE] IN
    IF done.buffer = 0 THEN done
    ELSE IF http_entrypoint_should_shutdown(done, ok)
    THEN tcp_server_begin_shutdown(done)
    ELSE tcp_server_try_dispatch(
             tcp_server_http_idle_arm(
                 http_entrypoint_reset_request_state(
                     http_entrypoint_consume_request(done))))

\* The write callback: what response_buffer holds at its end is freed.
Written(c, ok) ==
    [tcp_server_write_complete([c EXCEPT !.outgoing = 0], ok) EXCEPT !.buffer = 0]
-----------------------------------------------------------------------------
\* The setup of the stream may fail, and the access list may refuse the peer.
tcp_server_connected ==
    /\ carg.handle \in {"none", "freed"}
    /\ peer' \in Peers
    /\ \E handle \in {"open", "closing"} : carg' = Connection(handle)
    /\ UNCHANGED entry

tcp_server_read_data ==
    /\ ~ uv_is_closing(carg) /\ ~ carg.broken
    /\ \E n \in 1..(peer.sent - peer.got) :
          /\ peer' = [peer EXCEPT !.got = @ + n]
          /\ carg' = tcp_server_try_dispatch([carg EXCEPT !.body = @ + n])
    /\ UNCHANGED entry

\* The end of the stream, a reset, or an error that read_data returns on.
ReadEnds ==
    /\ ~ uv_is_closing(carg)
    /\ peer.ended \in {"fin", "reset", "error"}
    /\ peer.ended = "fin" => peer.got = peer.sent
    /\ peer' = [peer EXCEPT !.ended = "seen"]
    /\ carg' = CASE peer.ended = "fin" -> tcp_server_begin_shutdown(carg)
                 [] peer.ended = "reset" -> tcp_server_close_client(carg)
                 [] OTHER -> [carg EXCEPT !.broken = TRUE]
    /\ UNCHANGED entry

tcp_server_written ==
    /\ carg.handle = "open" /\ carg.outgoing # 0
    /\ \E ok \in BOOLEAN :
          /\ ok => ~ carg.broken /\ peer.ended \in {"no", "fin", "seen"}
          /\ carg' = [Written(carg, ok) EXCEPT
                        !.answers = IF ok THEN Append(@, carg.outgoing) ELSE @]
    /\ UNCHANGED <<entry, peer>>

\* libuv shuts down when what was written before has gone.
tcp_server_shutdown_client ==
    /\ carg.handle = "open" /\ carg.shutdown = "waiting" /\ carg.outgoing = 0
    /\ carg' = tcp_server_close_client([carg EXCEPT !.shutdown = "done"])
    /\ UNCHANGED <<entry, peer>>

tcp_server_http_idle_cb ==
    /\ carg.idle
    /\ carg' = tcp_server_close_client([carg EXCEPT !.idle = FALSE])
    /\ UNCHANGED <<entry, peer>>

\* libuv calls back the requests that the close cancels, then the close itself.
tcp_server_closed_client ==
    /\ carg.handle = "closing"
    /\ LET c == IF carg.outgoing = 0 THEN carg ELSE Written(carg, FALSE)
       IN carg' = [c EXCEPT !.handle = "closed", !.idle = FALSE,
                            !.shutdown = IF @ = "waiting" THEN "done" ELSE @]
    /\ UNCHANGED <<entry, peer>>

\* What is left in full_body is parsed, as a whole and with nobody to reply to: all that a
\* peer sent which does not speak HTTP, and of another one the request that is not complete.
tcp_server_release_client(c) ==
    [c EXCEPT !.handle = "freed", !.idle = FALSE,
              !.handled = IF ~ c.read /\ c.body > 0 THEN Append(@, c.head) ELSE @]

tcp_server_deferred_release ==
    /\ carg.handle = "closed"
    /\ carg' = tcp_server_release_client(carg)
    /\ UNCHANGED <<entry, peer>>

\* A peer sends the next piece; one that does not pipeline waits for the answer
\* before it begins a request, and none follows a request that asks to close.
PeerSends ==
    LET done == peer.sent \div Pieces IN
    /\ carg.handle = "open" /\ peer.ended = "no"
    /\ peer.sent < MaxRequests * Pieces
    /\ (peer.speaks = "http" /\ peer.sent % Pieces = 0) =>
          /\ peer.pipelines \/ Len(carg.answers) >= done
          /\ peer.asks \cap 1..done = {}
    /\ peer' = [peer EXCEPT !.sent = @ + 1]
    /\ UNCHANGED <<entry, carg>>

PeerEnds ==
    /\ carg.handle = "open" /\ peer.ended = "no"
    /\ \E how \in {"fin", "reset", "error"} : peer' = [peer EXCEPT !.ended = how]
    /\ UNCHANGED <<entry, carg>>

ServerNext ==
    \/ tcp_server_connected
    \/ tcp_server_read_data
    \/ ReadEnds
    \/ tcp_server_written
    \/ tcp_server_shutdown_client
    \/ tcp_server_http_idle_cb
    \/ tcp_server_closed_client
    \/ tcp_server_deferred_release
    \/ PeerSends
    \/ PeerEnds

ServerSpec == ServerInit /\ [][ServerNext]_serverVars

\* The loop calls back what is due.  A write ends: the peer takes what it is sent,
\* or the stream breaks.
ServerFairness ==
    /\ WF_serverVars(tcp_server_read_data)
    /\ WF_serverVars(ReadEnds)
    /\ WF_serverVars(tcp_server_written)
    /\ WF_serverVars(tcp_server_shutdown_client)
    /\ WF_serverVars(tcp_server_http_idle_cb)
    /\ WF_serverVars(tcp_server_closed_client)
    /\ WF_serverVars(tcp_server_deferred_release)

ServerFairSpec == ServerSpec /\ ServerFairness
-----------------------------------------------------------------------------
\* "Plaintext stays in response_buffer until the write callback": the text that
\* libuv is writing is the one that response_buffer holds, and libuv holds no request
\* and no timer of a connection that is freed.  The first is not so for a peer that
\* pipelines: tcp_server_written frees the response that its own call of
\* tcp_server_write_complete has just begun to send.
KeptWhileHeld ==
    /\ carg.outgoing # 0 /\ ~ peer.pipelines => carg.buffer = carg.outgoing
    /\ carg.handle = "freed" => carg.outgoing = 0 /\ carg.shutdown # "waiting" /\ ~ carg.idle

\* However its pieces arrive and whenever the write or the connection ends, a request is
\* handed to the parser at most once, and requests in their order: a push handled twice
\* counts twice.  This is of parsers that reply, since tcp_server_try_dispatch leaves the
\* request of another in full_body, for the next piece and the release to handle it again.
\* A peer that pipelines is left out too: the response that was freed early keeps its
\* request in full_body.
HandledOnce ==
    entry.replies /\ ~ peer.pipelines =>
        \A i, j \in DOMAIN carg.handled : i < j => carg.handled[i] < carg.handled[j]

\* A connection that was answered gets its next answer or is closed and released:
\* after "Connection: close", and by the idle timeout of keep-alive.  With a peer
\* that pipelines, the write of a response that was freed early ends in neither.
AnsweredEnds ==
    \A k \in Requests :
        (carg.handle = "open" /\ Len(carg.answers) = k /\ ~ peer.pipelines)
            ~> (carg.handle = "freed" \/ Len(carg.answers) > k)
=============================================================================
