----------------------------- MODULE TcpClient ------------------------------
(***************************************************************************)
(* One TCP, TLS or unix-socket client of the event loop, from its place in *)
(* the aggregators to the end of its sessions: the lock, the libuv handle, *)
(* the timeout of a session, the period timer, the wait for a name, and    *)
(* the calls of the parser.                                                *)
(*                                                                         *)
(* Callbacks of a loop do not interrupt each other: each is one step.  The *)
(* TLS and proxy handshakes are part of the state "open".                  *)
(***************************************************************************)
EXTENDS Naturals

CONSTANT
    Clients       \* the clients to look at, one of them per behaviour

Kinds == {"plain", "periodic", "oneshot", "sync"}

\* named: the address is a name that the resolver has to find, not an IPv4
\* literal; clustered: a lease may keep the client off; proxied: the name to find
\* is that of a proxy; fallible: its TLS context or its bind may fail; trailing: its
\* peer may send more after a body that tcp_check_full takes for complete, as the line
\* that ends a chunked one in a read of its own.
ASSUME ClientAssumption ==
    Clients \subseteq [kind : Kinds, named : BOOLEAN, clustered : BOOLEAN,
                       proxied : BOOLEAN, fallible : BOOLEAN, trailing : BOOLEAN]

VARIABLES
    client,    \* the member of Clients
    started,   \* whether aggregator_oneshot_start has run, of a oneshot
    ttl,       \* carg->context_ttl is set
    period,    \* carg->period is set
    deleted,   \* carg->remove_from_hash, set by a delete
    freed,     \* carg_free has run
    lock,      \* carg->lock
    handle,    \* carg->client
    tt,        \* carg->tt_timer is armed
    timer,     \* carg->period_timer
    closes,    \* carg->close_counter > 0
    body,      \* carg->full_body is not empty
    parsed,    \* carg->parsed
    cached,    \* the resolver's cache has the address
    probing,   \* a probe for it is in the table of the resolver
    ended,     \* that probe has ended, and is there until its handles are closed
    awaiting,  \* carg->dns_awaiting
    calls,     \* history: calls of the parser in the session, up to two
    emptied    \* history: a parser that is not a oneshot's was called with nothing

vars == <<client, started, ttl, period, deleted, freed, lock, handle, tt, timer,
          closes, body, parsed, cached, probing, ended, awaiting, calls, emptied>>
life == <<client, started, ttl, period, deleted, freed>>
dns == <<cached, probing, ended, awaiting>>
session == <<lock, handle, tt, timer, closes, body, parsed, calls, emptied>>

\* handle is "none", "bare" (initialised and never connected), "connecting", "open",
\* "shutdown", "cancelled" (closing with a connect request that is still to be called
\* back) or "closing".
Closing == {"none", "cancelled", "closing"}

Init ==
    /\ client \in Clients
    /\ started = (client.kind \in {"plain", "periodic"})
    /\ ttl = (client.kind \in {"oneshot", "sync"})
    /\ period = (client.kind = "periodic")
    /\ deleted = FALSE /\ freed = FALSE
    /\ lock = FALSE /\ handle = "none" /\ tt = FALSE /\ timer = "none"
    /\ closes = FALSE /\ body = FALSE /\ parsed = FALSE
    /\ cached \in IF client.named THEN BOOLEAN ELSE {TRUE}
    \* tcp_client looks the address of a permanent client up in advance
    /\ probing = (~ cached /\ started)
    /\ ended = FALSE /\ awaiting = FALSE
    /\ calls = 0 /\ emptied = FALSE
-----------------------------------------------------------------------------
\* The fields that tcp_client_connect reads, as its caller leaves them.
Carg == [period |-> period, timer |-> timer, cached |-> cached, awaiting |-> awaiting]

\* tcp_client_connect of an unlocked client that has its address.  A client comes
\* here while the loop has its handle only after a failed setup: the timeout of
\* that session is taken to come first.
StartSession(carg) ==
    /\ handle = "none"
    /\ timer' = IF carg.period /\ ~ closes THEN "armed" ELSE carg.timer
    /\ parsed' = FALSE /\ calls' = 0 /\ body' = FALSE
    /\ tt' = TRUE
    /\ \/ lock' = TRUE /\ handle' = "connecting"
       \/ client.fallible /\ lock' = FALSE /\ handle' = "bare"
    /\ UNCHANGED <<closes, emptied>>

\* A client without an address makes a probe, or waits for the one in the table.
tcp_client_connect(carg) ==
    LET returns ==
          /\ timer' = carg.timer
          /\ UNCHANGED <<lock, handle, tt, closes, body, parsed, calls, emptied>>
        passes ==
          \/ lock
          \/ client.clustered               \* cluster_come_later may say so
          \/ ttl /\ carg.awaiting
    IN
    /\ cached' = carg.cached
    /\ \/ /\ passes
          /\ returns
          /\ awaiting' = carg.awaiting
          /\ UNCHANGED probing
       \/ /\ ~ lock /\ ~ (ttl /\ carg.awaiting)
          /\ ~ carg.cached
          /\ returns
          /\ awaiting' = (ttl \/ carg.awaiting)
          /\ probing' = TRUE
       \/ /\ ~ lock /\ ~ (ttl /\ carg.awaiting)
          /\ carg.cached
          /\ StartSession(carg)
          /\ awaiting' = FALSE
          /\ UNCHANGED probing

\* aggregator_oneshot starts the client it has made; cluster_recurse makes a
\* permanent one of it afterwards, with a period.
aggregator_oneshot ==
    /\ ~ started
    /\ started' = TRUE
    /\ tcp_client_connect(Carg)
    /\ ttl' = (client.kind = "oneshot")
    /\ period' = (client.kind = "sync")
    /\ UNCHANGED <<client, deleted, freed, ended>>

\* The crawl of all clients, every aggregator_repeat.
for_tcp_client_connect ==
    /\ started /\ ~ freed /\ ~ deleted
    /\ IF ttl THEN ~ lock /\ ~ closes ELSE ~ (period /\ closes)
    /\ tcp_client_connect(Carg)
    /\ UNCHANGED <<life, ended>>

tcp_client_repeat_period ==
    /\ timer = "armed"
    /\ tcp_client_connect([Carg EXCEPT !.timer = "stopped"])
    /\ UNCHANGED <<life, ended>>
-----------------------------------------------------------------------------
\* Mutant: the lock is given up where the handle begins to close.
close_unlocks ==
    /\ handle' = IF handle \in Closing THEN handle
                 ELSE IF handle = "connecting" THEN "cancelled" ELSE "closing"
    /\ tt' = FALSE
    /\ lock' = FALSE

\* tcp_client_close: the timeout is recycled, the handle closed unless it is.
tcp_client_close ==
    /\ handle' = IF handle \in Closing THEN handle
                 ELSE IF handle = "connecting" THEN "cancelled" ELSE "closing"
    /\ tt' = FALSE
    /\ UNCHANGED lock

CountedCall == calls' = IF calls < 2 THEN calls + 1 ELSE calls

\* tcp_client_notify_handler_empty, of a client whose context_ttl is t.
NotifyEmpty(t) ==
    IF t /\ ~ parsed
    THEN /\ parsed' = TRUE
         /\ CountedCall
         /\ emptied' = (emptied \/ client.kind # "oneshot")
    ELSE UNCHANGED <<parsed, calls, emptied>>

\* alligator_multiparser hands the body to the parser.
Multiparser ==
    /\ parsed' = TRUE
    /\ CountedCall
    /\ UNCHANGED emptied

\* uv_shutdown succeeds once; it fails on a stream that shuts down, or at will,
\* and then the handle is closed.
BeginShutdown ==
    \/ handle = "open" /\ handle' = "shutdown" /\ UNCHANGED <<tt, lock>>
    \/ tcp_client_close

tcp_connected ==
    /\ handle = "connecting"
    /\ handle' = "open"
    /\ UNCHANGED <<life, dns, lock, tt, timer, closes, body, parsed, calls, emptied>>

tcp_connect_failed ==
    /\ handle = "connecting"
    /\ NotifyEmpty(ttl)
    /\ handle' = "closing" /\ tt' = FALSE
    /\ UNCHANGED <<life, dns, lock, timer, closes, body>>

\* The peer sends: nothing keeps the client from reading after a complete body.
Readable ==
    /\ handle \in {"open", "shutdown"}
    /\ parsed => client.trailing

\* A part of the answer that does not complete it.
ReadPart ==
    /\ Readable
    /\ body' = TRUE
    /\ UNCHANGED <<life, dns, lock, handle, tt, timer, closes, parsed, calls, emptied>>

\* tcp_check_full finds the body complete, which it also does when it was before.
ReadFull ==
    /\ Readable
    /\ body' = TRUE
    /\ Multiparser
    /\ BeginShutdown
    /\ UNCHANGED <<life, dns, timer, closes>>

\* Mutant: the end of the stream has what was read parsed, again if need be.
eof_parses_again ==
    /\ handle \in {"open", "shutdown"}
    /\ IF body THEN Multiparser ELSE UNCHANGED <<parsed, calls, emptied>>
    /\ BeginShutdown
    /\ UNCHANGED <<life, dns, timer, closes, body>>

ReadEof ==
    /\ handle \in {"open", "shutdown"}
    /\ IF body /\ ~ parsed THEN Multiparser ELSE UNCHANGED <<parsed, calls, emptied>>
    /\ BeginShutdown
    /\ UNCHANGED <<life, dns, timer, closes, body>>

\* ECONNRESET, ECONNABORTED or ENOBUFS.
ReadError ==
    /\ handle \in {"open", "shutdown"}
    /\ tcp_client_close
    /\ UNCHANGED <<life, dns, timer, closes, body, parsed, calls, emptied>>

\* The TLS handshake fails, or the peer closes the TLS session.
TlsEnds ==
    /\ handle = "open"
    /\ BeginShutdown
    /\ UNCHANGED <<life, dns, timer, closes, body, parsed, calls, emptied>>

\* The proxy or the TLS context of the tunnel fails: tcp_client_fail_session.
tcp_client_fail_session ==
    /\ handle = "open"
    /\ NotifyEmpty(ttl)
    /\ tcp_client_close
    /\ UNCHANGED <<life, dns, timer, closes, body>>

tcp_client_shutdown ==
    /\ handle = "shutdown"
    /\ tcp_client_close
    /\ UNCHANGED <<life, dns, timer, closes, body, parsed, calls, emptied>>

\* What has been read is parsed, complete or not.
tcp_timeout_timer ==
    /\ tt
    /\ IF parsed THEN UNCHANGED <<parsed, calls, emptied>>
       ELSE IF body THEN Multiparser ELSE NotifyEmpty(ttl)
    /\ tcp_client_close
    /\ UNCHANGED <<life, dns, timer, closes, body>>
-----------------------------------------------------------------------------
\* carg_free: the timers are detached.
Free == freed' = TRUE /\ tt' = FALSE /\ timer' = "none"

\* Mutant: it returns before the lock is given up and what follows.
closed_returns_early ==
    /\ handle \in {"closing", "cancelled"}
    /\ handle' = "none"
    /\ closes' = TRUE
    /\ UNCHANGED <<life, dns, lock, tt, timer, body, parsed, calls, emptied>>

\* libuv calls a pending connect request back with ECANCELED before the handle.
\* A client with a context_ttl is over, as that is never in the future.
tcp_client_closed ==
    /\ handle \in {"closing", "cancelled"}
    /\ IF handle = "cancelled" THEN NotifyEmpty(ttl) ELSE UNCHANGED <<parsed, calls, emptied>>
    /\ handle' = "none"
    /\ lock' = ttl
    /\ closes' = TRUE
    /\ body' = FALSE
    /\ IF ttl
       THEN Free
       ELSE /\ timer' = IF period /\ timer # "none" THEN "armed" ELSE timer
            /\ UNCHANGED <<freed, tt>>
    /\ UNCHANGED <<client, started, ttl, period, deleted, dns>>

\* Mutant: the client is freed at once, whatever its handle is doing.
del_frees_at_once ==
    /\ started /\ ~ freed /\ ~ deleted
    /\ deleted' = TRUE
    /\ Free /\ lock' = TRUE
    /\ UNCHANGED <<client, started, ttl, period, dns, handle, closes, body, parsed, calls,
                   emptied>>

\* smart_aggregator_del_key: a locked client is closed first, and freed by
\* tcp_client_closed.
tcp_client_del ==
    /\ started /\ ~ freed /\ ~ deleted
    /\ deleted' = TRUE
    /\ IF lock
       THEN ttl' = TRUE /\ tcp_client_close /\ UNCHANGED <<freed, timer>>
       ELSE Free /\ lock' = TRUE /\ UNCHANGED <<ttl, handle>>
    /\ UNCHANGED <<client, started, period, dns, closes, body, parsed, calls, emptied>>
-----------------------------------------------------------------------------
DnsExpires ==
    /\ client.named /\ cached
    /\ cached' = FALSE
    /\ UNCHANGED <<life, session, probing, ended, awaiting>>

\* retry_collect looks for the name among the hosts of unlocked clients, and does
\* not see a proxy's.
Waits == started /\ ~ freed /\ ~ deleted /\ ~ lock /\ ~ client.proxied

\* The name is found: aggregator_oneshot_retry_host connects who waits for it.
DnsFound ==
    /\ probing /\ ~ ended
    /\ ended' = TRUE
    /\ IF Waits
       THEN tcp_client_connect([Carg EXCEPT !.cached = TRUE, !.awaiting = FALSE])
       ELSE cached' = TRUE /\ UNCHANGED <<session, probing, awaiting>>
    /\ UNCHANGED life

\* It is not: aggregator_oneshot_abandon_host drops the oneshots among them.
DnsFails ==
    /\ probing /\ ~ ended
    /\ ended' = TRUE
    /\ IF Waits /\ ttl
       THEN Free /\ lock' = TRUE /\ awaiting' = FALSE /\ deleted' = TRUE
       ELSE UNCHANGED <<freed, tt, timer, lock, awaiting, deleted>>
    /\ UNCHANGED <<client, started, ttl, period, cached, probing, handle, closes, body,
                   parsed, calls, emptied>>

\* The handles of the probe are closed: resolver_ephemeral_free_carg takes it out of the
\* table, and a client that came to wait for it since it ended is told nothing.
ProbeGone ==
    /\ ended
    /\ probing' = FALSE /\ ended' = FALSE
    /\ UNCHANGED <<life, session, cached, awaiting>>

Next ==
    \/ aggregator_oneshot
    \/ for_tcp_client_connect
    \/ tcp_client_repeat_period
    \/ tcp_connected
    \/ tcp_connect_failed
    \/ ReadPart
    \/ ReadFull
    \/ ReadEof
    \/ ReadError
    \/ TlsEnds
    \/ tcp_client_fail_session
    \/ tcp_client_shutdown
    \/ tcp_timeout_timer
    \/ tcp_client_closed
    \/ tcp_client_del
    \/ DnsExpires
    \/ DnsFound
    \/ DnsFails
    \/ ProbeGone

Spec == Init /\ [][Next]_vars

\* The crawl repeats, timers fire, libuv closes what is to be closed, a probe ends and
\* leaves the table, whoever waits for it then, and a name that is looked for again and
\* again is found again and again.
FairSpec ==
    /\ Spec
    /\ WF_vars(aggregator_oneshot)
    /\ WF_vars(for_tcp_client_connect)
    /\ WF_vars(tcp_client_repeat_period)
    /\ WF_vars(tcp_timeout_timer)
    /\ WF_vars(tcp_client_closed)
    /\ WF_vars(DnsFound \/ DnsFails)
    /\ WF_vars(ProbeGone)
    /\ SF_vars(DnsFound)
-----------------------------------------------------------------------------
\* The lock of a client is held exactly while the loop has its handle: no connect
\* of the crawl, the period timer or the resolver initialises a handle that is in
\* use, and none is kept off for ever.  A setup that fails leaves the handle to
\* the timeout without the lock, so fallible clients are left out here and below.
LockedWhileOpen == ~ freed /\ ~ client.fallible => (lock <=> handle # "none")

\* "carg_free [is] deferred to the ... path ... invoked from tcp_client_closed once
\* the handle is closed": a client that is freed has no handle and no timer that
\* the loop could call back.
FreedWhenClosed ==
    freed /\ ~ client.fallible => handle = "none" /\ ~ tt /\ timer # "armed"

\* However the ends of a session come together (complete body, end of stream,
\* timeout, failed connect, deletion), the parser is called at most once for it:
\* counters would be added twice.  A peer that sends more after a complete body has it
\* parsed again, as tcp_client_read_data does not look at `parsed`: trailing clients are
\* left out.  "Permanent scrapes must not take this path": that
\* of a permanent client is not called with an empty body in place of an answer,
\* except when the client is deleted while it connects, as tcp_client_del has set its
\* context_ttl then.
ParsedOnce ==
    /\ ~ client.trailing => calls <= 1
    /\ emptied => deleted

\* A permanent client that is not deleted connects again and again, also after a
\* setup that failed.
KeepsCrawling ==
    client.kind # "oneshot" => []<>(handle \in {"connecting", "bare"} \/ deleted)

\* A oneshot, or a client that is deleted, is freed at last, and its key with it.
OneshotEnds == (ttl /\ started) ~> freed
=============================================================================
