-------------------------- MODULE ConnectionProofs --------------------------
(* The lives of connections, each for every value of its constants: those of *)
(* the HTTP server and those of the TCP clients of the aggregator.  What     *)
(* libuv holds is not freed under it, a session is closed before the next    *)
(* one starts, and what was received is handled once.                        *)
EXTENDS HttpServer, TcpClient, Integers, TLAPS

-----------------------------------------------------------------------------
(* The server of HTTP (HttpServer). *)
Connections ==
    [handle : {"none", "open", "closing", "closed", "freed"},
     shutdown : {"none", "waiting", "failed", "done"}, broken : BOOLEAN,
     body : Nat, head : Nat \ {0}, size : {0, Pieces}, read : BOOLEAN, pending : BOOLEAN,
     closeAfter : BOOLEAN, buffer : Nat, outgoing : Nat, idle : BOOLEAN,
     handled : Seq(Nat), answers : Seq(Nat)]

PeerStates ==
    [speaks : {"http", "plain"}, asks : SUBSET Requests, pipelines : BOOLEAN,
     sent : Nat, got : Nat, ended : {"no", "fin", "reset", "error", "seen"}]

ServerTypeOK ==
    /\ entry \in [keepalive : BOOLEAN, replies : BOOLEAN]
    /\ peer \in PeerStates
    /\ carg \in Connections

\* What libuv holds of a connection, and what is in full_body of the pieces read.
Held(c) ==
    /\ c.handle \in {"none", "closed", "freed"} =>
          c.outgoing = 0 /\ c.shutdown # "waiting" /\ ~ c.idle
    /\ c.outgoing # 0 => c.pending

PiecesOf(n) == Pieces * n

Kept(p, c) ==
    /\ c.size # 0 => c.body >= Pieces
    /\ p.got <= p.sent
    /\ p.got = c.body + PiecesOf(c.head - 1)

\* A peer that waits for its answers: the request that is not answered is the last.
Answering(p, c) ==
    IF p.speaks = "http"
    THEN /\ p.sent <= PiecesOf(Len(c.answers) + 1)
         /\ Len(c.answers) <= c.head - 1
         /\ c.outgoing # 0 =>
               /\ c.buffer = c.outgoing
               /\ c.outgoing = Len(c.answers) + 1
               /\ \/ c.outgoing = c.head /\ c.size = Pieces /\ ~ c.closeAfter
                  \/ c.outgoing + 1 = c.head /\ c.closeAfter
    ELSE c.outgoing = 0 /\ (c.handle # "freed" => c.handled = <<>>)

\* Its requests are handled in order, and the one in full_body is marked if it was: the
\* release, after which there is nothing more to handle, goes by that mark.
Increasing(c) == \A i, j \in DOMAIN c.handled : i < j => c.handled[i] < c.handled[j]

Handling(c) ==
    /\ Increasing(c)
    /\ c.handle # "freed" =>
          \A i \in DOMAIN c.handled :
             /\ c.handled[i] <= c.head
             /\ c.handled[i] = c.head =>
                   Len(c.answers) = c.head - 1 /\ c.body >= Pieces /\ c.read

Good(p, c) ==
    /\ Held(c)
    /\ Kept(p, c)
    /\ ~ p.pipelines => Answering(p, c)
    /\ ~ p.pipelines /\ entry.replies => Handling(c)

ServerInv == ServerTypeOK /\ Good(peer, carg)

LEMMA Times ==
    /\ \A x, y \in Int : y = x + 1 => PiecesOf(y) = PiecesOf(x) + Pieces
    /\ \A x, y \in Int : PiecesOf(x) <= PiecesOf(y) => x <= y
    /\ \A x, y \in Int : x <= y => PiecesOf(x) <= PiecesOf(y)
    /\ \A x \in Int : PiecesOf(x) \in Int
<1>1. ASSUME NEW x \in Int, NEW y \in Int, y = x + 1 PROVE Pieces * y = Pieces * x + Pieces
  BY <1>1, HttpServerAssumption
<1>2. ASSUME NEW x \in Int, NEW y \in Int, x > y PROVE Pieces * x > Pieces * y
  <2>1. PICK d \in Nat : x = y + 1 + d
    BY <1>2
  <2>2. Pieces * x = Pieces * y + Pieces + Pieces * d
    BY <2>1, HttpServerAssumption
  <2>3. Pieces * d >= 0
    BY HttpServerAssumption
  <2> QED
    BY <2>2, <2>3, HttpServerAssumption
<1> QED
  BY <1>1, <1>2, HttpServerAssumption DEF PiecesOf

\* What a call of tcp_server_try_dispatch does to a connection.
LEMMA Dispatches ==
    ASSUME entry \in [keepalive : BOOLEAN, replies : BOOLEAN], NEW c \in Connections,
           NEW q, q = tcp_server_try_dispatch(c), q # c
    PROVE  /\ q \in Connections
           /\ ~ c.pending /\ c.handle = "open" /\ c.body >= Pieces /\ peer.speaks = "http"
           /\ q.handle = "open" /\ q.shutdown = c.shutdown /\ q.answers = c.answers
           /\ q.handled = Append(c.handled, c.head)
           /\ \/ /\ ~ entry.replies
                 /\ q.outgoing = c.outgoing /\ q.body = c.body /\ q.head = c.head /\ q.size = 0
              \/ /\ entry.replies
                 /\ \/ q.outgoing = c.outgoing
                    \/ q.outgoing = c.head /\ q.buffer = c.head /\ q.pending
                 /\ \/ /\ ~ q.closeAfter /\ q.read
                       /\ q.body = c.body /\ q.head = c.head /\ q.size = Pieces
                    \/ /\ q.closeAfter
                       /\ q.body = c.body - Pieces /\ q.head = c.head + 1 /\ q.size = 0
<1> USE HttpServerAssumption
<1>1. ~ c.pending /\ c.handle = "open" /\ c.body >= Pieces /\ peer.speaks = "http"
  BY DEF tcp_server_try_dispatch, uv_is_closing, Connections
<1> DEFINE close == ~ entry.keepalive \/ c.head \in peer.asks
           called == [c EXCEPT !.read = TRUE, !.size = Pieces,
                               !.handled = Append(c.handled, c.head), !.closeAfter = close]
           answered == tcp_server_send_response(called)
<1>2. close \in BOOLEAN
  BY Zenon
<1>3. http_entrypoint_negotiate([c EXCEPT !.read = TRUE, !.size = Pieces,
                                          !.handled = Append(@, c.head)]) = called
  BY Zenon DEF http_entrypoint_negotiate, Connections
<1>4. q = IF ~ entry.replies THEN http_entrypoint_reset_request_state(called)
          ELSE IF answered.closeAfter
          THEN http_entrypoint_reset_request_state(http_entrypoint_consume_request(answered))
          ELSE answered
  BY <1>1, <1>3, Zenon DEF tcp_server_try_dispatch, uv_is_closing
<1> HIDE DEF close
<1>5. Append(c.handled, c.head) \in Seq(Nat) /\ c.body - Pieces \in Nat /\ c.head + 1 \in Nat \ {0}
  BY <1>1 DEF Connections
<1>6. /\ called \in Connections /\ called.handle = "open" /\ called.shutdown = c.shutdown
      /\ called.answers = c.answers /\ called.handled = Append(c.handled, c.head)
      /\ called.outgoing = c.outgoing /\ called.body = c.body /\ called.head = c.head
      /\ called.size = Pieces /\ called.closeAfter = close /\ called.read
  BY <1>1, <1>2, <1>5, Zenon DEF Connections
<1> HIDE DEF called
<1>7. CASE ~ entry.replies
  <2>1. q = [called EXCEPT !.read = FALSE, !.size = 0]
    BY <1>4, <1>7, Zenon DEF http_entrypoint_reset_request_state
  <2>2. /\ q \in Connections /\ q.handle = called.handle /\ q.shutdown = called.shutdown
        /\ q.answers = called.answers /\ q.handled = called.handled
        /\ q.outgoing = called.outgoing /\ q.body = called.body /\ q.head = called.head
        /\ q.size = 0
    BY <1>6, <2>1, ZenonT(30) DEF Connections
  <2> QED
    BY <1>1, <1>6, <1>7, <2>2, Zenon
<1>8. CASE entry.replies
  <2>1. \/ answered = [called EXCEPT !.pending = TRUE, !.idle = FALSE, !.buffer = called.head,
                                     !.outgoing = called.head]
        \/ answered = [called EXCEPT !.pending = FALSE]
    BY Zenon DEF tcp_server_send_response
  <2> HIDE DEF answered
  <2>2. /\ answered \in Connections /\ answered.handle = "open"
        /\ answered.shutdown = c.shutdown /\ answered.answers = c.answers
        /\ answered.handled = Append(c.handled, c.head)
        /\ answered.body = c.body /\ answered.head = c.head
        /\ answered.size = Pieces /\ answered.closeAfter = close /\ answered.read
        /\ \/ answered.outgoing = c.outgoing
           \/ answered.outgoing = c.head /\ answered.buffer = c.head /\ answered.pending
    <3>1. CASE answered = [called EXCEPT !.pending = FALSE]
      <4>1. answered.pending = FALSE /\ answered.outgoing = c.outgoing
        BY <1>6, <3>1, Zenon DEF Connections
      <4> QED
        BY <1>6, <3>1, <4>1, ZenonT(30) DEF Connections
    <3>2. CASE answered = [called EXCEPT !.pending = TRUE, !.idle = FALSE,
                                         !.buffer = called.head, !.outgoing = called.head]
      <4>1. called.head = c.head /\ c.head \in Nat
        BY <1>6, Zenon DEF Connections
      <4> QED
        BY <1>6, <3>2, <4>1, ZenonT(30) DEF Connections
    <3> QED
      BY <2>1, <3>1, <3>2, Zenon
  <2>3. CASE ~ close
    BY <1>1, <1>4, <1>8, <2>2, <2>3, Zenon
  <2>4. CASE close
    <3> DEFINE used == [answered EXCEPT !.body = c.body - Pieces, !.head = c.head + 1, !.size = 0]
    <3>1. http_entrypoint_consume_request(answered) = used
      <4>1. Pieces # 0 /\ (IF c.body > Pieces THEN c.body - Pieces ELSE 0) = c.body - Pieces
        BY <1>1 DEF Connections
      <4> QED
        BY <2>2, <4>1, Zenon DEF http_entrypoint_consume_request
    <3>2. q = [used EXCEPT !.read = FALSE, !.size = 0]
      BY <1>4, <1>8, <2>2, <2>4, <3>1, Zenon DEF http_entrypoint_reset_request_state
    <3>3. /\ used \in Connections /\ used.handle = "open"
          /\ used.shutdown = c.shutdown /\ used.answers = c.answers
          /\ used.handled = Append(c.handled, c.head)
          /\ used.body = c.body - Pieces /\ used.head = c.head + 1
          /\ used.closeAfter = close
          /\ used.outgoing = answered.outgoing /\ used.buffer = answered.buffer
          /\ used.pending = answered.pending
      BY <1>5, <2>2, ZenonT(30) DEF Connections
    <3> HIDE DEF used
    <3>4. /\ q \in Connections /\ q.handle = "open"
          /\ q.shutdown = c.shutdown /\ q.answers = c.answers
          /\ q.handled = Append(c.handled, c.head)
          /\ q.body = c.body - Pieces /\ q.head = c.head + 1 /\ q.size = 0
          /\ q.closeAfter = close
          /\ q.outgoing = answered.outgoing /\ q.buffer = answered.buffer
          /\ q.pending = answered.pending
      BY <3>2, <3>3, ZenonT(30) DEF Connections
    <3> QED
      BY <1>1, <1>8, <2>2, <2>4, <3>4, Zenon
  <2> QED
    BY <2>3, <2>4, Zenon
<1> QED
  BY <1>7, <1>8, Zenon

LEMMA Appended ==
    ASSUME NEW s \in Seq(Nat), NEW x \in Nat
    PROVE  /\ Append(s, x) \in Seq(Nat) /\ Len(Append(s, x)) = Len(s) + 1
           /\ DOMAIN s = 1..Len(s) /\ DOMAIN Append(s, x) = 1..(Len(s) + 1)
           /\ \A i \in 1..Len(s) : Append(s, x)[i] = s[i]
           /\ Append(s, x)[Len(s) + 1] = x
           /\ Len(s) \in Nat
  OBVIOUS

\* A call of tcp_server_try_dispatch keeps a connection good, if it is not the second for
\* the request that it finds.
LEMMA DispatchKeeps ==
    ASSUME entry \in [keepalive : BOOLEAN, replies : BOOLEAN], NEW c \in Connections,
           NEW p \in PeerStates, p.speaks = peer.speaks, Good(p, c),
           NEW q, q = tcp_server_try_dispatch(c),
           ~ p.pipelines /\ entry.replies /\ c.body >= Pieces =>
               \A i \in DOMAIN c.handled : c.handled[i] < c.head
    PROVE  q \in Connections /\ Good(p, q)
<1>1. CASE q = c
  BY <1>1, Zenon
<1>2. CASE q # c
  <2>1. /\ q \in Connections
        /\ ~ c.pending /\ c.handle = "open" /\ c.body >= Pieces /\ peer.speaks = "http"
        /\ q.handle = "open" /\ q.shutdown = c.shutdown /\ q.answers = c.answers
        /\ q.handled = Append(c.handled, c.head)
        /\ \/ /\ ~ entry.replies
              /\ q.outgoing = c.outgoing /\ q.body = c.body /\ q.head = c.head /\ q.size = 0
           \/ /\ entry.replies
              /\ \/ q.outgoing = c.outgoing
                 \/ q.outgoing = c.head /\ q.buffer = c.head /\ q.pending
              /\ \/ /\ ~ q.closeAfter /\ q.read
                    /\ q.body = c.body /\ q.head = c.head /\ q.size = Pieces
                 \/ /\ q.closeAfter
                    /\ q.body = c.body - Pieces /\ q.head = c.head + 1 /\ q.size = 0
    BY <1>2, Dispatches
  <2>2. c.outgoing = 0
    BY <2>1, Zenon DEF Good, Held
  <2>3. Held(q)
    BY <2>1, <2>2, Zenon DEF Held
  <2>4. /\ c.body \in Nat /\ c.head \in Nat /\ c.head >= 1 /\ Len(c.answers) \in Nat
        /\ p.got \in Nat /\ p.sent \in Nat /\ Pieces \in Nat /\ Pieces >= 1
    BY HttpServerAssumption DEF Connections, PeerStates
  <2>5. /\ PiecesOf(c.head) = PiecesOf(c.head - 1) + Pieces
        /\ PiecesOf(c.head - 1) \in Int /\ PiecesOf(Len(c.answers) + 1) \in Int
        /\ PiecesOf(c.head) <= PiecesOf(Len(c.answers) + 1) => c.head <= Len(c.answers) + 1
    <3>1. /\ c.head \in Int /\ c.head - 1 \in Int /\ c.head = (c.head - 1) + 1
          /\ Len(c.answers) + 1 \in Int
      BY <2>4
    <3> QED
      BY <3>1, Times, Zenon
  <2>6. Kept(p, q)
    <3>1. /\ p.got <= p.sent
          /\ p.got = c.body + PiecesOf(c.head - 1)
      BY Zenon DEF Good, Kept
    <3>2. CASE q.body = c.body /\ q.head = c.head
      BY <2>1, <3>1, <3>2, Zenon DEF Kept
    <3>3. CASE q.body = c.body - Pieces /\ q.head = c.head + 1 /\ q.size = 0
      <4>1. q.head - 1 = c.head
        BY <2>4, <3>3
      <4>2. PiecesOf(q.head - 1) = PiecesOf(c.head)
        BY <4>1, Zenon
      <4> QED
        BY <2>4, <2>5, <3>1, <3>3, <4>2 DEF Kept
    <3> QED
      BY <2>1, <3>2, <3>3, Zenon
  <2>7. ASSUME ~ p.pipelines PROVE Len(c.answers) = c.head - 1
    <3>1. /\ p.sent <= PiecesOf(Len(c.answers) + 1) /\ Len(c.answers) <= c.head - 1
          /\ p.got <= p.sent /\ p.got = c.body + PiecesOf(c.head - 1)
      BY <2>1, <2>7, Zenon DEF Good, Answering, Kept
    <3>3. PiecesOf(c.head) <= PiecesOf(Len(c.answers) + 1)
      BY <2>1, <2>4, <2>5, <3>1, SMTT(30)
    <3>4. c.head <= Len(c.answers) + 1
      BY <2>5, <3>3, Zenon
    <3> QED
      BY <2>4, <3>1, <3>4
  <2>8. ASSUME ~ p.pipelines PROVE Answering(p, q)
    <3>1. p.sent <= PiecesOf(Len(c.answers) + 1)
      BY <2>1, <2>8, Zenon DEF Good, Answering
    <3>2. Len(c.answers) = c.head - 1
      BY <2>7, <2>8, Zenon
    <3> QED
      BY <2>1, <2>2, <2>4, <3>1, <3>2 DEF Answering
  <2>9. ASSUME ~ p.pipelines, entry.replies PROVE Handling(q)
    <3> DEFINE n == Len(c.handled)
    <3>1. /\ DOMAIN c.handled = 1..n /\ DOMAIN q.handled = 1..(n + 1) /\ n \in Nat
          /\ \A i \in 1..n : q.handled[i] = c.handled[i]
          /\ q.handled[n + 1] = c.head
      BY <2>1, Appended DEF Connections
    <3>2. /\ \A i \in 1..n : c.handled[i] < c.head /\ c.handled[i] \in Nat
          /\ \A i, j \in 1..n : i < j => c.handled[i] < c.handled[j]
      <4>1. \A i \in 1..n : c.handled[i] < c.head
        BY <2>1, <2>9, <3>1, Zenon
      <4>2. c.handled \in Seq(Nat)
        BY Zenon DEF Connections
      <4>3. \A i \in 1..n : c.handled[i] \in Nat
        BY <4>2
      <4>4. Handling(c)
        BY <2>9, Zenon DEF Good
      <4> QED
        BY <3>1, <4>1, <4>3, <4>4, Zenon DEF Handling, Increasing
    <3> HIDE DEF n
    <3>3. Increasing(q)
      BY <2>4, <3>1, <3>2 DEF Increasing
    <3>4. Len(q.answers) = c.head - 1
      BY <2>1, <2>7, <2>9, Zenon
    <3>5. \A i \in 1..(n + 1) : q.handled[i] <= c.head
      BY <2>4, <3>1, <3>2, SMTT(30)
    <3>6. \A i \in 1..(n + 1) : q.handled[i] \in Nat
      BY <2>4, <3>1, <3>2
    <3>7. CASE q.head = c.head /\ q.body = c.body /\ q.read
      BY <2>1, <3>1, <3>3, <3>4, <3>5, <3>7, Zenon DEF Handling
    <3>8. CASE q.head = c.head + 1
      BY <2>4, <3>1, <3>3, <3>5, <3>6, <3>8, SMTT(30) DEF Handling
    <3> QED
      BY <2>1, <2>9, <3>7, <3>8, Zenon
  <2> QED
    BY <2>1, <2>3, <2>6, <2>8, <2>9, Zenon DEF Good
<1> QED
  BY <1>1, <1>2, Zenon

\* A connection that has just been accepted.
LEMMA Accepted ==
    ASSUME NEW h \in {"none", "open", "closing"}, NEW p \in Peers
    PROVE  Connection(h) \in Connections /\ p \in PeerStates /\ Good(p, Connection(h))
<1>1. <<>> \in Seq(Nat) /\ Len(<<>>) = 0 /\ DOMAIN <<>> = {}
  OBVIOUS
<1>2. Connection(h) \in Connections
  BY <1>1 DEF Connection, Connections
<1>3. p \in PeerStates /\ p.sent = 0 /\ p.got = 0
  BY DEF Peers, PeerStates
<1>4. PiecesOf(1 - 1) = 0 /\ PiecesOf(0 + 1) >= 0
  BY HttpServerAssumption DEF PiecesOf
<1>5. Held(Connection(h)) /\ Handling(Connection(h))
  BY <1>1, Zenon DEF Connection, Held, Handling, Increasing
<1>6. Kept(p, Connection(h)) /\ Answering(p, Connection(h))
  BY <1>1, <1>3, <1>4 DEF Connection, Kept, Answering
<1> QED
  BY <1>2, <1>3, <1>5, <1>6, Zenon DEF Good

LEMMA ServerStarts == ServerInit => ServerInv
<1> SUFFICES ASSUME ServerInit PROVE ServerInv
  BY Zenon
<1> DEFINE p == [speaks |-> "plain", asks |-> {}, pipelines |-> FALSE,
                 sent |-> 0, got |-> 0, ended |-> "no"]
<1>1. p \in Peers
  BY Zenon DEF Peers
<1>2. peer \in Peers
  BY <1>1, Zenon DEF ServerInit
<1> QED
  BY <1>2, Accepted, Zenon DEF ServerInit, ServerInv, ServerTypeOK

LEMMA ConnectedKeeps == ServerInv /\ tcp_server_connected => ServerInv'
<1> SUFFICES ASSUME ServerInv, tcp_server_connected PROVE ServerInv'
  BY Zenon
<1>1. /\ peer' \in Peers /\ entry' = entry
      /\ carg' = Connection("open") \/ carg' = Connection("closing")
  BY Zenon DEF tcp_server_connected
<1>2. Good(peer', carg') /\ carg' \in Connections /\ peer' \in PeerStates
  BY <1>1, Accepted, Zenon
<1> QED
  BY <1>1, <1>2, Zenon DEF ServerInv, ServerTypeOK, Good

\* What does not touch the requests.
LEMMA SameRequests ==
    ASSUME NEW p, NEW c, NEW q, Good(p, c), Held(q),
           q.body = c.body, q.head = c.head, q.size = c.size, q.handled = c.handled,
           q.answers = c.answers, q.read = c.read, c.handle # "freed",
           \/ q.outgoing = 0
           \/ q.outgoing = c.outgoing /\ q.buffer = c.buffer /\ q.closeAfter = c.closeAfter
    PROVE  Good(p, q)
<1>1. Kept(p, q)
  BY Zenon DEF Good, Kept
<1>2. Answering(p, c) => Answering(p, q)
  BY Zenon DEF Answering
<1>3. Handling(c) => Handling(q)
  BY Zenon DEF Handling, Increasing
<1> QED
  BY <1>1, <1>2, <1>3, Zenon DEF Good

LEMMA CloseKeeps ==
    ASSUME NEW p, NEW c \in Connections, Good(p, c)
    PROVE  /\ tcp_server_close_client(c) \in Connections /\ Good(p, tcp_server_close_client(c))
           /\ tcp_server_close_client(c).outgoing = c.outgoing
           /\ c.handle # "open" => tcp_server_close_client(c) = c
<1>1. CASE c.handle # "open"
  BY <1>1, Zenon DEF tcp_server_close_client, uv_is_closing
<1>2. CASE c.handle = "open"
  <2> DEFINE q == [c EXCEPT !.handle = "closing"]
  <2>1. tcp_server_close_client(c) = q
    BY <1>2, Zenon DEF tcp_server_close_client, uv_is_closing
  <2>2. /\ q \in Connections /\ q.handle = "closing" /\ q.pending = c.pending
        /\ q.body = c.body /\ q.head = c.head /\ q.size = c.size /\ q.handled = c.handled
        /\ q.answers = c.answers /\ q.outgoing = c.outgoing /\ q.buffer = c.buffer
        /\ q.closeAfter = c.closeAfter /\ q.read = c.read
    BY Zenon DEF Connections
  <2> HIDE DEF q
  <2>3. Held(q)
    BY <2>2, Zenon DEF Good, Held
  <2> QED
    BY <1>2, <2>1, <2>2, <2>3, SameRequests, Zenon
<1> QED
  BY <1>1, <1>2, Zenon

LEMMA ShutdownKeeps ==
    ASSUME NEW p, NEW c \in Connections, Good(p, c), NEW q, q = tcp_server_begin_shutdown(c)
    PROVE  /\ q \in Connections /\ Good(p, q) /\ q.outgoing = c.outgoing
           /\ c.handle # "open" => q = c
           /\ q.body = c.body /\ q.head = c.head /\ q.size = c.size /\ q.handled = c.handled
           /\ q.answers = c.answers /\ (c.handle = "open" => q.handle # "freed")
<1>1. CASE q = c
  BY <1>1, Zenon
<1>2. CASE q # c
  <2>1. c.handle = "open"
    BY <1>2, Zenon DEF tcp_server_begin_shutdown, uv_is_closing
  <2>2. \/ q = [c EXCEPT !.shutdown = "waiting"]
        \/ q = [c EXCEPT !.shutdown = "failed", !.handle = "closing"]
    <3>1. [c EXCEPT !.shutdown = "failed"].handle = "open"
      BY <2>1, Zenon DEF Connections
    <3> QED
      BY <1>2, <3>1, Zenon
      DEF tcp_server_begin_shutdown, uv_is_closing, tcp_server_close_client
  <2>3. /\ q \in Connections /\ q.handle \in {"open", "closing"} /\ q.pending = c.pending
        /\ q.body = c.body /\ q.head = c.head /\ q.size = c.size /\ q.handled = c.handled
        /\ q.answers = c.answers /\ q.outgoing = c.outgoing /\ q.buffer = c.buffer
        /\ q.closeAfter = c.closeAfter /\ q.read = c.read
    <3>1. CASE q = [c EXCEPT !.shutdown = "waiting"]
      BY <2>1, <3>1, ZenonT(30) DEF Connections
    <3>2. CASE q = [c EXCEPT !.shutdown = "failed", !.handle = "closing"]
      BY <2>1, <3>2, ZenonT(30) DEF Connections
    <3> QED
      BY <2>2, <3>1, <3>2, Zenon
  <2>4. Held(q)
    BY <2>3, Zenon DEF Good, Held
  <2> QED
    BY <2>1, <2>3, <2>4, SameRequests, Zenon
<1> QED
  BY <1>1, <1>2, Zenon

LEMMA DataKeeps == ServerInv /\ tcp_server_read_data => ServerInv'
<1> SUFFICES ASSUME ServerInv, tcp_server_read_data PROVE ServerInv'
  BY Zenon
<1>1. PICK n \in 1..(peer.sent - peer.got) :
          /\ peer' = [peer EXCEPT !.got = @ + n]
          /\ carg' = tcp_server_try_dispatch([carg EXCEPT !.body = @ + n])
  BY Zenon DEF tcp_server_read_data
<1>2. /\ entry \in [keepalive : BOOLEAN, replies : BOOLEAN] /\ entry' = entry
      /\ peer \in PeerStates /\ carg \in Connections /\ Good(peer, carg)
  BY Zenon DEF ServerInv, ServerTypeOK, tcp_server_read_data
<1>a. carg.handle = "open" /\ carg.handle # "freed"
  BY DEF tcp_server_read_data, uv_is_closing
<1>3. /\ peer.sent \in Nat /\ peer.got \in Nat /\ carg.body \in Nat /\ n \in Nat /\ n >= 1
      /\ peer.got + n <= peer.sent /\ carg.head \in Nat /\ carg.head >= 1
      /\ Len(carg.answers) \in Nat
  BY <1>2 DEF PeerStates, Connections
<1>4. peer.got + n \in Nat /\ carg.body + n \in Nat
  BY <1>3
<1> DEFINE p == [peer EXCEPT !.got = peer.got + n]
           c == [carg EXCEPT !.body = carg.body + n]
<1>5. /\ p \in PeerStates /\ p.speaks = peer.speaks /\ p.pipelines = peer.pipelines
      /\ p.sent = peer.sent /\ p.got = peer.got + n
  BY <1>2, <1>4, Zenon DEF PeerStates
<1>6. /\ c \in Connections /\ c.handle = carg.handle /\ c.outgoing = carg.outgoing
      /\ c.shutdown = carg.shutdown /\ c.idle = carg.idle /\ c.pending = carg.pending
      /\ c.size = carg.size /\ c.body = carg.body + n /\ c.head = carg.head
      /\ c.answers = carg.answers /\ c.buffer = carg.buffer
      /\ c.closeAfter = carg.closeAfter /\ c.handled = carg.handled
  BY <1>2, <1>4, Zenon DEF Connections
<1>7. peer' = p /\ carg' = tcp_server_try_dispatch(c)
  BY <1>1, Zenon
<1> HIDE DEF p, c
<1>8. Held(c)
  BY <1>2, <1>6, Zenon DEF Good, Held
<1>9. PiecesOf(carg.head - 1) \in Int /\ PiecesOf(Len(carg.answers) + 1) \in Int
  <2>1. carg.head - 1 \in Int /\ Len(carg.answers) + 1 \in Int
    BY <1>3
  <2> QED
    BY <2>1, Times, Zenon
<1>10. Kept(p, c)
  <2>1. /\ carg.size # 0 => carg.body >= Pieces
        /\ peer.got = carg.body + PiecesOf(carg.head - 1)
    BY <1>2, Zenon DEF Good, Kept
  <2>2. /\ carg.size # 0 => carg.body + n >= Pieces
        /\ peer.got + n = carg.body + n + PiecesOf(carg.head - 1)
    BY <1>3, <1>9, <2>1, HttpServerAssumption
  <2> QED
    BY <1>3, <1>5, <1>6, <2>2, Zenon DEF Kept
<1>11. ~ p.pipelines => Answering(p, c)
  BY <1>2, <1>5, <1>6, Zenon DEF Good, Answering
<1>12. ASSUME ~ p.pipelines, entry.replies, NEW i \in DOMAIN c.handled
       PROVE  c.handled[i] <= c.head /\ c.handled[i] # c.head
  <2>1. /\ carg.handled[i] <= carg.head
        /\ carg.handled[i] = carg.head =>
              Len(carg.answers) = carg.head - 1 /\ carg.body >= Pieces
    BY <1>2, <1>a, <1>5, <1>6, <1>12, Zenon DEF Good, Handling
  <2>2. CASE carg.handled[i] = carg.head
    <3>1. peer.speaks = "http"
      <4>1. carg.handled # <<>>
        BY <1>6, <1>12
      <4> QED
        BY <1>2, <1>a, <1>5, <1>12, <4>1, Zenon DEF Good, Answering
    <3>2. peer.sent <= PiecesOf(Len(carg.answers) + 1)
      BY <1>2, <1>5, <1>12, <3>1, Zenon DEF Good, Answering
    <3>3. PiecesOf(Len(carg.answers) + 1) = PiecesOf(carg.head - 1) + Pieces
      <4>1. /\ Len(carg.answers) + 1 \in Int /\ carg.head - 1 \in Int
            /\ Len(carg.answers) + 1 = (carg.head - 1) + 1
        BY <1>3, <2>1, <2>2
      <4> QED
        BY <4>1, Times, Zenon
    <3>4. peer.got = carg.body + PiecesOf(carg.head - 1)
      BY <1>2, Zenon DEF Good, Kept
    <3> QED
      BY <1>3, <1>9, <2>1, <2>2, <3>2, <3>3, <3>4, HttpServerAssumption, SMTT(30)
  <2> QED
    BY <1>6, <2>1, <2>2, Zenon
<1>13. /\ \A i \in DOMAIN c.handled : c.handled[i] \in Nat
       /\ c.head \in Nat
  BY <1>6 DEF Connections
<1>14. ~ p.pipelines /\ entry.replies => Handling(c)
  <2>1. ~ p.pipelines /\ entry.replies => Increasing(c)
    BY <1>2, <1>5, <1>6, Zenon DEF Good, Handling, Increasing
  <2> QED
    BY <1>12, <2>1, Zenon DEF Handling
<1>15. Good(p, c)
  BY <1>8, <1>10, <1>11, <1>14, Zenon DEF Good
<1>16. ~ p.pipelines /\ entry.replies => \A i \in DOMAIN c.handled : c.handled[i] < c.head
  BY <1>12, <1>13
<1>17. carg' \in Connections /\ Good(p, carg')
  BY <1>2, <1>5, <1>6, <1>7, <1>15, <1>16, DispatchKeeps, Zenon
<1> QED
  BY <1>2, <1>5, <1>7, <1>17, Zenon DEF ServerInv, ServerTypeOK, Good

LEMMA EndsKeeps == ServerInv /\ (ReadEnds \/ PeerEnds) => ServerInv'
<1> SUFFICES ASSUME ServerInv, ReadEnds \/ PeerEnds PROVE ServerInv'
  BY Zenon
<1>1. /\ entry \in [keepalive : BOOLEAN, replies : BOOLEAN] /\ entry' = entry
      /\ peer \in PeerStates /\ carg \in Connections /\ Good(peer, carg)
  BY Zenon DEF ServerInv, ServerTypeOK, ReadEnds, PeerEnds
<1>2. PICK how \in {"fin", "reset", "error", "seen"} : peer' = [peer EXCEPT !.ended = how]
  BY Zenon DEF ReadEnds, PeerEnds
<1>3. /\ peer' \in PeerStates /\ peer'.speaks = peer.speaks
      /\ peer'.pipelines = peer.pipelines /\ peer'.sent = peer.sent /\ peer'.got = peer.got
  BY <1>1, <1>2, Zenon DEF PeerStates
<1>4. Good(peer', carg)
  BY <1>1, <1>3, Zenon DEF Good, Kept, Answering
<1>5. \/ carg' = carg
      \/ carg' = tcp_server_begin_shutdown(carg)
      \/ carg' = tcp_server_close_client(carg)
      \/ carg' = [carg EXCEPT !.broken = TRUE]
  BY Zenon DEF ReadEnds, PeerEnds
<1>6. CASE carg' = [carg EXCEPT !.broken = TRUE]
  <2>1. /\ carg' \in Connections /\ carg'.handle = carg.handle /\ carg'.pending = carg.pending
        /\ carg'.shutdown = carg.shutdown /\ carg'.idle = carg.idle
        /\ carg'.body = carg.body /\ carg'.head = carg.head /\ carg'.size = carg.size
        /\ carg'.handled = carg.handled /\ carg'.answers = carg.answers
        /\ carg'.outgoing = carg.outgoing /\ carg'.buffer = carg.buffer
        /\ carg'.closeAfter = carg.closeAfter /\ carg'.read = carg.read
    BY <1>1, <1>6, Zenon DEF Connections
  <2>2. Held(carg')
    BY <1>1, <2>1, Zenon DEF Good, Held
  <2>3. carg.handle # "freed"
    BY DEF ReadEnds, PeerEnds, uv_is_closing
  <2>4. Good(peer', carg')
    BY <1>4, <2>1, <2>2, <2>3, SameRequests, Zenon
  <2> QED
    BY <1>1, <1>3, <2>1, <2>4, Zenon DEF ServerInv, ServerTypeOK, Good
<1>7. CASE carg' # [carg EXCEPT !.broken = TRUE]
  <2>1. carg' \in Connections /\ Good(peer', carg')
    BY <1>1, <1>4, <1>5, <1>7, CloseKeeps, ShutdownKeeps
  <2> QED
    BY <1>1, <1>3, <2>1, Zenon DEF ServerInv, ServerTypeOK, Good
<1> QED
  BY <1>6, <1>7, Zenon

\* The release of a connection hands on what is left in full_body if it is not marked as
\* handled.
LEMMA ReleaseKeeps ==
    ASSUME NEW p, NEW c \in Connections, Good(p, c), c.handle = "closed"
    PROVE  /\ tcp_server_release_client(c) \in Connections
           /\ Good(p, tcp_server_release_client(c))
<1> DEFINE more == ~ c.read /\ c.body > 0
<1>1. PICK h \in Seq(Nat) : h = IF more THEN Append(c.handled, c.head) ELSE c.handled
  <2>1. c.handled \in Seq(Nat) /\ c.head \in Nat
    BY DEF Connections
  <2>2. Append(c.handled, c.head) \in Seq(Nat)
    BY <2>1
  <2> QED
    BY <2>1, <2>2, Zenon
<1>2. PICK q : q = [c EXCEPT !.handle = "freed", !.idle = FALSE, !.handled = h]
  BY Zenon
<1>3. tcp_server_release_client(c) = q
  BY <1>1, <1>2, Zenon DEF tcp_server_release_client
<1>4. /\ q \in Connections /\ q.handle = "freed" /\ ~ q.idle /\ q.shutdown = c.shutdown
      /\ q.outgoing = c.outgoing /\ q.handled = h
      /\ q.body = c.body /\ q.head = c.head /\ q.size = c.size /\ q.answers = c.answers
  BY <1>2, ZenonT(30) DEF Connections
<1>5. Held(q) /\ Kept(p, q) /\ q.outgoing = 0
  <2>1. c.outgoing = 0 /\ c.shutdown # "waiting"
    BY Zenon DEF Good, Held
  <2> QED
    BY <1>4, <2>1, Zenon DEF Good, Held, Kept
<1>6. ~ p.pipelines => Answering(p, q)
  BY <1>4, <1>5, Zenon DEF Good, Answering
<1>7. ASSUME ~ p.pipelines, entry.replies PROVE Increasing(q)
  <2>1. /\ Increasing(c) /\ c.handle # "freed"
        /\ \A i \in DOMAIN c.handled :
              c.handled[i] <= c.head /\ (c.handled[i] = c.head => c.read)
    <3>1. c.handle # "freed"
      OBVIOUS
    <3> QED
      BY <1>7, <3>1, Zenon DEF Good, Handling
  <2>2. CASE more
    <3>1. c.handled \in Seq(Nat) /\ c.head \in Nat
      BY DEF Connections
    <3>2. PICK n \in Nat : /\ DOMAIN c.handled = 1..n /\ DOMAIN h = 1..(n + 1)
                           /\ \A i \in 1..n : h[i] = c.handled[i]
                           /\ h[n + 1] = c.head
      <4>1. h = Append(c.handled, c.head)
        BY <1>1, <2>2, Zenon
      <4>2. /\ Len(c.handled) \in Nat /\ DOMAIN c.handled = 1..Len(c.handled)
            /\ DOMAIN h = 1..(Len(c.handled) + 1)
            /\ \A i \in 1..Len(c.handled) : h[i] = c.handled[i]
            /\ h[Len(c.handled) + 1] = c.head
        BY <3>1, <4>1, Appended
      <4> QED
        BY <4>2, Zenon
    <3>3. ASSUME NEW i \in 1..n PROVE h[i] < c.head
      <4>1. PICK x \in Nat : x = c.handled[i] /\ x = h[i]
        BY <3>1, <3>2
      <4>2. x <= c.head /\ x # c.head
        BY <2>1, <2>2, <3>2, <4>1, Zenon
      <4> QED
        BY <3>1, <4>1, <4>2
    <3>4. \A i, j \in 1..n : i < j => h[i] < h[j]
      BY <2>1, <3>2, Zenon DEF Increasing
    <3>5. \A i, j \in 1..(n + 1) : i < j => h[i] < h[j]
      BY <3>2, <3>3, <3>4
    <3> QED
      BY <1>4, <3>2, <3>5, Zenon DEF Increasing
  <2>3. CASE ~ more
    BY <1>1, <1>4, <2>1, <2>3, Zenon DEF Increasing
  <2> QED
    BY <2>2, <2>3, Zenon
<1> QED
  BY <1>3, <1>4, <1>5, <1>6, <1>7, Zenon DEF Good, Handling

\* What libuv calls back without an answer: the end of a half-close, of the idle timer
\* and of the handle, and the deferred release.
LEMMA CallbacksKeep ==
    ASSUME ServerInv,
           \/ tcp_server_shutdown_client \/ tcp_server_http_idle_cb
           \/ tcp_server_closed_client \/ tcp_server_deferred_release
    PROVE  ServerInv'
<1>1. /\ entry \in [keepalive : BOOLEAN, replies : BOOLEAN] /\ entry' = entry /\ peer' = peer
      /\ peer \in PeerStates /\ carg \in Connections /\ Good(peer, carg)
  BY Zenon DEF ServerInv, ServerTypeOK, tcp_server_shutdown_client, tcp_server_http_idle_cb,
         tcp_server_closed_client, tcp_server_deferred_release
<1>2. SUFFICES carg' \in Connections /\ Good(peer, carg')
  BY <1>1, Zenon DEF ServerInv, ServerTypeOK, Good
<1>3. ASSUME NEW c \in Connections, Held(c), c.body = carg.body, c.head = carg.head,
             c.size = carg.size, c.handled = carg.handled, c.answers = carg.answers,
             c.read = carg.read, carg.handle # "freed",
             \/ c.outgoing = 0
             \/ /\ c.outgoing = carg.outgoing /\ c.buffer = carg.buffer
                /\ c.closeAfter = carg.closeAfter
      PROVE  Good(peer, c)
  BY <1>1, <1>3, SameRequests, Zenon
<1>4. CASE tcp_server_shutdown_client
  <2> DEFINE c == [carg EXCEPT !.shutdown = "done"]
  <2>1. carg' = tcp_server_close_client(c) /\ carg.handle = "open" /\ "open" # "freed"
    BY <1>4, Zenon DEF tcp_server_shutdown_client
  <2>2. /\ c \in Connections /\ c.handle = "open" /\ c.pending = carg.pending
        /\ c.body = carg.body /\ c.head = carg.head /\ c.size = carg.size
        /\ c.handled = carg.handled /\ c.answers = carg.answers
        /\ c.outgoing = carg.outgoing /\ c.buffer = carg.buffer
        /\ c.closeAfter = carg.closeAfter /\ c.read = carg.read
    BY <1>1, <2>1, Zenon DEF Connections
  <2> HIDE DEF c
  <2>3. Held(c)
    BY <1>1, <2>2, Zenon DEF Good, Held
  <2> QED
    BY <1>3, <2>1, <2>2, <2>3, CloseKeeps, Zenon
<1>5. CASE tcp_server_http_idle_cb
  <2> DEFINE c == [carg EXCEPT !.idle = FALSE]
  <2>1. carg' = tcp_server_close_client(c) /\ carg.handle # "freed"
    BY <1>1, <1>5, Zenon DEF tcp_server_http_idle_cb, Good, Held
  <2>2. /\ c \in Connections /\ c.handle = carg.handle /\ c.pending = carg.pending
        /\ c.shutdown = carg.shutdown /\ ~ c.idle
        /\ c.body = carg.body /\ c.head = carg.head /\ c.size = carg.size
        /\ c.handled = carg.handled /\ c.answers = carg.answers
        /\ c.outgoing = carg.outgoing /\ c.buffer = carg.buffer
        /\ c.closeAfter = carg.closeAfter /\ c.read = carg.read
    BY <1>1, Zenon DEF Connections
  <2> HIDE DEF c
  <2>3. Held(c)
    BY <1>1, <2>2, Zenon DEF Good, Held
  <2> QED
    BY <1>3, <2>1, <2>2, <2>3, CloseKeeps, Zenon
<1>6. CASE tcp_server_closed_client
  <2> DEFINE done == [carg EXCEPT !.outgoing = 0, !.pending = FALSE]
             c == IF carg.outgoing = 0 THEN carg ELSE Written(carg, FALSE)
  <2>1. carg.handle = "closing"
    BY <1>6, Zenon DEF tcp_server_closed_client
  <2>2. done \in Connections /\ done.handle = "closing"
    BY <1>1, <2>1, Zenon DEF Connections
  <2>3. [[carg EXCEPT !.outgoing = 0] EXCEPT !.pending = FALSE] = done
    BY <1>1, Zenon DEF Connections
  <2> HIDE DEF done
  <2>4. tcp_server_write_complete([carg EXCEPT !.outgoing = 0], FALSE) = done
    BY <2>2, <2>3, Zenon DEF tcp_server_write_complete, http_entrypoint_should_shutdown,
                      tcp_server_begin_shutdown, uv_is_closing
  <2>5. c = carg \/ c = [done EXCEPT !.buffer = 0]
    BY <2>4, Zenon DEF Written
  <2>6. /\ c \in Connections /\ c.outgoing = 0 /\ c.read = carg.read
        /\ c.body = carg.body /\ c.head = carg.head /\ c.size = carg.size
        /\ c.handled = carg.handled /\ c.answers = carg.answers
    <3>1. CASE carg.outgoing = 0
      BY <1>1, <3>1, Zenon
    <3>2. CASE carg.outgoing # 0
      <4>1. c = [done EXCEPT !.buffer = 0]
        BY <2>4, <3>2, Zenon DEF Written
      <4>2. /\ done.body = carg.body /\ done.head = carg.head /\ done.size = carg.size
            /\ done.handled = carg.handled /\ done.answers = carg.answers
            /\ done.outgoing = 0 /\ done.read = carg.read
        BY <1>1, Zenon DEF Connections, done
      <4> QED
        BY <2>2, <4>1, <4>2, ZenonT(30) DEF Connections
    <3> QED
      BY <3>1, <3>2, Zenon
  <2>7. carg' = [c EXCEPT !.handle = "closed", !.idle = FALSE,
                          !.shutdown = IF @ = "waiting" THEN "done" ELSE @]
    BY <1>6, Zenon DEF tcp_server_closed_client
  <2> HIDE DEF c
  <2>8. /\ carg' \in Connections /\ carg'.outgoing = 0 /\ carg'.shutdown # "waiting"
        /\ ~ carg'.idle /\ carg'.read = c.read
        /\ carg'.body = c.body /\ carg'.head = c.head /\ carg'.size = c.size
        /\ carg'.handled = c.handled /\ carg'.answers = c.answers
    BY <2>6, <2>7, ZenonT(30) DEF Connections
  <2>9. Held(carg')
    BY <2>8, Zenon DEF Held
  <2> QED
    BY <1>3, <2>1, <2>6, <2>8, <2>9, Zenon
<1>7. CASE tcp_server_deferred_release
  BY <1>1, <1>7, ReleaseKeeps, Zenon DEF tcp_server_deferred_release
<1> QED
  BY <1>4, <1>5, <1>6, <1>7, Zenon

\* Where a request of whole pieces ends.
LEMMA Whole ==
    ASSUME NEW n \in Nat
    PROVE  /\ n = PiecesOf(n \div Pieces) + (n % Pieces)
           /\ n \div Pieces \in Nat /\ n % Pieces \in 0..(Pieces - 1)
           /\ \A k \in Int : n = PiecesOf(k) => n % Pieces = 0
<1>1. /\ n = Pieces * (n \div Pieces) + (n % Pieces)
      /\ n \div Pieces \in Int /\ n % Pieces \in 0..(Pieces - 1)
  BY HttpServerAssumption
<1>2. n \div Pieces >= 0
  BY <1>1, HttpServerAssumption
<1> DEFINE q == n \div Pieces
           r == n % Pieces
<1>3. n = PiecesOf(q) + r /\ q \in Int /\ r \in Nat /\ r < Pieces
  BY <1>1, HttpServerAssumption DEF PiecesOf
<1> HIDE DEF q, r
<1>4. ASSUME NEW k \in Int, n = PiecesOf(k) PROVE r = 0
  <2>1. PiecesOf(q + 1) = PiecesOf(q) + Pieces /\ PiecesOf(q) \in Int
    <3>1. q + 1 \in Int
      BY <1>3
    <3> QED
      BY <1>3, <3>1, Times, Zenon
  <2>2. /\ q + 1 <= k => PiecesOf(q + 1) <= PiecesOf(k)
        /\ k <= q => PiecesOf(k) <= PiecesOf(q)
    <3>1. q + 1 \in Int
      BY <1>3
    <3> QED
      BY <1>3, <1>4, <3>1, Times, Zenon
  <2> QED
    BY <1>3, <1>4, <2>1, <2>2, HttpServerAssumption
<1> QED
  BY <1>1, <1>2, <1>3, <1>4 DEF q, r

\* A peer that waits begins a request only when the one before is answered.
LEMMA SendsKeeps == ServerInv /\ PeerSends => ServerInv'
<1> SUFFICES ASSUME ServerInv, PeerSends PROVE ServerInv'
  BY Zenon
<1>1. /\ entry \in [keepalive : BOOLEAN, replies : BOOLEAN] /\ entry' = entry /\ carg' = carg
      /\ peer \in PeerStates /\ carg \in Connections /\ Good(peer, carg)
      /\ peer' = [peer EXCEPT !.sent = peer.sent + 1]
  BY Zenon DEF ServerInv, ServerTypeOK, PeerSends
<1>2. /\ peer.sent \in Nat /\ peer.got \in Nat /\ Len(carg.answers) \in Nat
      /\ peer.sent + 1 \in Nat
  BY <1>1 DEF PeerStates, Connections
<1>3. /\ peer' \in PeerStates /\ peer'.speaks = peer.speaks /\ peer'.got = peer.got
      /\ peer'.pipelines = peer.pipelines /\ peer'.sent = peer.sent + 1
  BY <1>1, <1>2, Zenon DEF PeerStates
<1>4. ASSUME ~ peer.pipelines, peer.speaks = "http"
      PROVE  peer.sent + 1 <= PiecesOf(Len(carg.answers) + 1)
  <2> DEFINE a == Len(carg.answers)
             done == peer.sent \div Pieces
             r == peer.sent % Pieces
  <2>1. /\ peer.sent = PiecesOf(done) + r /\ done \in Nat /\ r \in 0..(Pieces - 1)
        /\ \A k \in Int : peer.sent = PiecesOf(k) => r = 0
    BY <1>2, Whole, Zenon
  <2>2. r = 0 => a >= done
    BY <1>4, Zenon DEF PeerSends
  <2>3. peer.sent <= PiecesOf(a + 1)
    BY <1>1, <1>4, Zenon DEF Good, Answering
  <2>4. a \in Nat
    BY <1>2, Zenon
  <2> HIDE DEF a, done, r
  <2>5. /\ PiecesOf(a + 1) = PiecesOf(a) + Pieces /\ PiecesOf(a) \in Int /\ PiecesOf(done) \in Int
        /\ done <= a => PiecesOf(done) <= PiecesOf(a)
        /\ peer.sent = PiecesOf(a + 1) => r = 0
    <3>1. a \in Int /\ a + 1 \in Int /\ done \in Int
      BY <2>1, <2>4
    <3> QED
      BY <2>1, <3>1, Times, Zenon
  <2>6. peer.sent + 1 <= PiecesOf(a + 1)
    <3>1. CASE r = 0
      BY <2>1, <2>2, <2>4, <2>5, <3>1, HttpServerAssumption
    <3>2. CASE r # 0
      BY <1>2, <2>3, <2>5, <3>2, HttpServerAssumption
    <3> QED
      BY <3>1, <3>2, Zenon
  <2> QED
    BY <2>6, Zenon DEF a
<1>5. Kept(peer', carg)
  BY <1>1, <1>2, <1>3 DEF Good, Kept
<1>6. ~ peer'.pipelines => Answering(peer', carg)
  BY <1>1, <1>3, <1>4, Zenon DEF Good, Answering
<1> QED
  BY <1>1, <1>3, <1>5, <1>6, Zenon DEF ServerInv, ServerTypeOK, Good

\* The end of a write: what is answered is taken out of full_body, and what a peer has sent
\* meanwhile is dispatched.
LEMMA WriteKeeps ==
    ASSUME entry \in [keepalive : BOOLEAN, replies : BOOLEAN], NEW c \in Connections,
           peer \in PeerStates, Good(peer, c), c.outgoing # 0, c.handle = "open",
           NEW ok \in BOOLEAN
    PROVE  LET q == [Written(c, ok) EXCEPT !.answers = IF ok THEN Append(@, c.outgoing) ELSE @]
           IN  q \in Connections /\ Good(peer, q)
<1> DEFINE q == [Written(c, ok) EXCEPT !.answers = IF ok THEN Append(@, c.outgoing) ELSE @]
<1>0. SUFFICES q \in Connections /\ Good(peer, q)
  BY Zenon
<1> DEFINE done == [c EXCEPT !.outgoing = 0, !.pending = FALSE]
           w == tcp_server_write_complete([c EXCEPT !.outgoing = 0], ok)
<1>1. [[c EXCEPT !.outgoing = 0] EXCEPT !.pending = FALSE] = done
  BY Zenon DEF Connections
<1>2. w = IF done.buffer = 0 THEN done
          ELSE IF ~ ok \/ done.closeAfter
          THEN tcp_server_begin_shutdown(done)
          ELSE tcp_server_try_dispatch(
                   tcp_server_http_idle_arm(
                       http_entrypoint_reset_request_state(
                           http_entrypoint_consume_request(done))))
  BY <1>1, Zenon DEF tcp_server_write_complete, http_entrypoint_should_shutdown
<1>3. /\ done \in Connections /\ done.handle = "open" /\ done.outgoing = 0 /\ ~ done.pending
      /\ done.body = c.body /\ done.head = c.head /\ done.size = c.size
      /\ done.handled = c.handled /\ done.answers = c.answers /\ done.buffer = c.buffer
      /\ done.closeAfter = c.closeAfter /\ done.read = c.read
  BY Zenon DEF Connections
<1>4. q = [w EXCEPT !.buffer = 0, !.answers = IF ok THEN Append(w.answers, c.outgoing)
                                              ELSE w.answers]
  BY Zenon DEF Written
<1> HIDE DEF done, w, q
<1>5. Held(done) /\ Good(peer, done)
  <2>1. Held(done)
    BY <1>3, Zenon DEF Held
  <2> QED
    BY <1>3, <2>1, SameRequests, Zenon
<1>6. /\ c.head \in Nat /\ c.head >= 1 /\ c.body \in Nat /\ c.outgoing \in Nat
      /\ c.answers \in Seq(Nat) /\ Len(c.answers) \in Nat /\ c.size \in {0, Pieces}
      /\ c.handled \in Seq(Nat) /\ peer.sent \in Nat /\ peer.got \in Nat
  BY DEF Connections, PeerStates
<1> DEFINE a == Len(c.answers)
<1>7. PiecesOf(a + 1) \in Int /\ PiecesOf(a + 2) = PiecesOf(a + 1) + Pieces
  <2>1. a + 1 \in Int /\ a + 2 \in Int /\ a + 2 = (a + 1) + 1
    BY <1>6
  <2> QED
    BY <2>1, Times, Zenon
\* What is left to show of the connection on which the write ended.
<1>8. ASSUME w \in Connections, Held(w), Kept(peer, w), w.answers = c.answers,
             w.handle # "freed",
             ~ peer.pipelines => /\ w.outgoing = 0
                                 /\ ok => /\ a + 1 <= w.head - 1
                                          /\ entry.replies =>
                                                /\ Increasing(w)
                                                /\ \A i \in DOMAIN w.handled :
                                                      w.handled[i] < w.head
                                 /\ ~ ok => Good(peer, w)
      PROVE  q \in Connections /\ Good(peer, q)
  <2>1. /\ Append(c.answers, c.outgoing) \in Seq(Nat)
        /\ Len(Append(c.answers, c.outgoing)) = a + 1
    BY <1>6
  <2>2. /\ q \in Connections /\ q.handle = w.handle /\ q.shutdown = w.shutdown /\ q.idle = w.idle
        /\ q.outgoing = w.outgoing /\ q.pending = w.pending /\ q.size = w.size
        /\ q.body = w.body /\ q.head = w.head /\ q.closeAfter = w.closeAfter
        /\ q.handled = w.handled /\ q.read = w.read
        /\ ok => q.answers = Append(c.answers, c.outgoing)
        /\ ~ ok => q.answers = w.answers
    <3>1. w \in Connections /\ w.answers = c.answers
      BY <1>8, Zenon
    <3>2. CASE ok
      <4>1. q = [w EXCEPT !.buffer = 0, !.answers = Append(c.answers, c.outgoing)]
        BY <1>4, <3>1, <3>2, Zenon
      <4> QED
        BY <2>1, <3>1, <3>2, <4>1, Zenon DEF Connections
    <3>3. CASE ~ ok
      <4>1. q = [w EXCEPT !.buffer = 0, !.answers = c.answers]
        BY <1>4, <3>1, <3>3, Zenon
      <4> QED
        BY <1>6, <3>1, <3>3, <4>1, Zenon DEF Connections
    <3> QED
      BY <3>2, <3>3, Zenon
  <2>3. Held(q)
    BY <1>8, <2>2, Zenon DEF Held
  <2>4. Kept(peer, q)
    BY <1>8, <2>2, Zenon DEF Kept
  <2>5. CASE peer.pipelines
    BY <2>2, <2>3, <2>4, <2>5, Zenon DEF Good
  <2>6. CASE ~ peer.pipelines /\ ~ ok
    BY <1>8, <2>2, <2>3, <2>6, SameRequests, Zenon
  <2>7. CASE ~ peer.pipelines /\ ok
    <3>1. peer.speaks = "http" /\ peer.sent <= PiecesOf(a + 1)
      BY <2>7, Zenon DEF Good, Answering
    <3>2. peer.sent <= PiecesOf((a + 1) + 1)
      <4>1. (a + 1) + 1 = a + 2
        BY <1>6
      <4>2. peer.sent <= PiecesOf(a + 2)
        BY <1>6, <1>7, <3>1, HttpServerAssumption
      <4> QED
        BY <4>1, <4>2, Zenon
    <3>3. Answering(peer, q)
      BY <1>8, <2>1, <2>2, <2>7, <3>1, <3>2, Zenon DEF Answering
    <3>4. entry.replies => Handling(q)
      <4>1. ASSUME entry.replies, NEW i \in DOMAIN q.handled
            PROVE  q.handled[i] < q.head /\ q.handled[i] \in Nat /\ q.head \in Nat
        <5>1. q.handled \in Seq(Nat) /\ q.head \in Nat
          BY <2>2, Zenon DEF Connections
        <5>2. q.handled[i] < q.head
          BY <1>8, <2>2, <2>7, <4>1, Zenon
        <5> QED
          BY <4>1, <5>1, <5>2
      <4>2. entry.replies => Increasing(q)
        BY <1>8, <2>2, <2>7, Zenon DEF Increasing
      <4>3. ASSUME entry.replies, NEW i \in DOMAIN q.handled
            PROVE  q.handled[i] <= q.head /\ q.handled[i] # q.head
        BY <4>1, <4>3
      <4> QED
        BY <4>2, <4>3, Zenon DEF Handling
    <3> QED
      BY <2>2, <2>3, <2>4, <3>3, <3>4, Zenon DEF Good
  <2> QED
    BY <2>5, <2>6, <2>7, Zenon
<1>9. ~ peer.pipelines =>
          /\ peer.speaks = "http" /\ c.buffer # 0 /\ c.outgoing = a + 1
          /\ peer.sent <= PiecesOf(a + 1)
          /\ \/ c.outgoing = c.head /\ c.size = Pieces /\ ~ c.closeAfter
             \/ c.outgoing + 1 = c.head /\ c.closeAfter
  BY Zenon DEF Good, Answering
<1>10. ~ peer.pipelines /\ entry.replies =>
          /\ Increasing(c)
          /\ \A i \in DOMAIN c.handled :
                /\ c.handled[i] \in Nat /\ c.handled[i] <= c.head
                /\ c.handled[i] = c.head => a = c.head - 1
  <2>1. c.handle # "freed"
    OBVIOUS
  <2> QED
    BY <1>6, <2>1 DEF Good, Handling
<1>11. CASE c.buffer = 0
  <2>1. w = done /\ peer.pipelines
    BY <1>2, <1>3, <1>9, <1>11, Zenon
  <2> QED
    BY <1>3, <1>5, <1>8, <2>1, Zenon DEF Good
<1>12. CASE c.buffer # 0 /\ (~ ok \/ c.closeAfter)
  <2>1. w = tcp_server_begin_shutdown(done)
    BY <1>2, <1>3, <1>12, Zenon
  <2>2. /\ w \in Connections /\ Good(peer, w) /\ w.outgoing = 0 /\ w.head = c.head
        /\ w.handled = c.handled /\ w.answers = c.answers /\ w.handle # "freed"
    BY <1>3, <1>5, <2>1, ShutdownKeeps
  <2>3. ~ peer.pipelines /\ ok => a + 1 <= c.head - 1
    BY <1>6, <1>9, <1>12
  <2>4. ASSUME ~ peer.pipelines, ok, entry.replies, NEW i \in DOMAIN c.handled
        PROVE  c.handled[i] < c.head
    BY <1>6, <1>10, <2>3, <2>4
  <2>5. ~ peer.pipelines /\ entry.replies => Increasing(w)
    BY <1>10, <2>2, Zenon DEF Increasing
  <2> QED
    BY <1>8, <2>2, <2>3, <2>4, <2>5, Zenon DEF Good
<1>13. CASE c.buffer # 0 /\ ok /\ ~ c.closeAfter
  <2> DEFINE used == http_entrypoint_consume_request(done)
             reset == http_entrypoint_reset_request_state(used)
             armed == tcp_server_http_idle_arm(reset)
  <2>1. w = tcp_server_try_dispatch(armed)
    BY <1>2, <1>3, <1>13, Zenon
  <2>2. /\ c.size # 0 => c.body >= Pieces
        /\ peer.got <= peer.sent /\ peer.got = c.body + PiecesOf(c.head - 1)
    BY Zenon DEF Good, Kept
  <2>3. /\ used \in Connections /\ used.handle = "open" /\ used.outgoing = 0
        /\ used.handled = c.handled /\ used.answers = c.answers
        /\ \/ c.size = 0 /\ used.body = c.body /\ used.head = c.head
           \/ c.size = Pieces /\ used.body = c.body - Pieces /\ used.head = c.head + 1
    <3>1. CASE c.size = 0
      BY <1>3, <3>1, Zenon DEF http_entrypoint_consume_request
    <3>2. CASE c.size # 0
      <4>1. /\ c.size = Pieces /\ c.body - Pieces \in Nat /\ c.head + 1 \in Nat \ {0}
            /\ (IF done.body > done.size THEN done.body - done.size ELSE 0) = c.body - Pieces
        BY <1>3, <1>6, <2>2, <3>2, HttpServerAssumption, SMTT(30)
      <4>2. used = [done EXCEPT !.body = c.body - Pieces, !.head = c.head + 1, !.size = 0]
        BY <1>3, <3>2, <4>1, Zenon DEF http_entrypoint_consume_request
      <4> DEFINE b == c.body - Pieces
                 h == c.head + 1
      <4>3. b \in Nat /\ h \in Nat \ {0} /\ used = [done EXCEPT !.body = b, !.head = h, !.size = 0]
        BY <4>1, <4>2, Zenon
      <4> HIDE DEF b, h, used
      <4>4. /\ used \in Connections /\ used.handle = done.handle /\ used.outgoing = done.outgoing
            /\ used.handled = done.handled /\ used.answers = done.answers
            /\ used.body = b /\ used.head = h
        BY <1>3, <4>3, ZenonT(30) DEF Connections
      <4> QED
        BY <1>3, <4>1, <4>4, Zenon DEF b, h
    <3> QED
      BY <3>1, <3>2, Zenon
  <2> HIDE DEF used
  <2>4. /\ reset \in Connections /\ reset.handle = "open" /\ reset.outgoing = 0
        /\ reset.handled = c.handled /\ reset.answers = c.answers
        /\ reset.body = used.body /\ reset.head = used.head /\ reset.size = 0
    BY <2>3, ZenonT(30) DEF http_entrypoint_reset_request_state, Connections
  <2> HIDE DEF reset
  <2>5. /\ armed \in Connections /\ armed.handle = "open" /\ armed.outgoing = 0
        /\ armed.handled = c.handled /\ armed.answers = c.answers
        /\ armed.body = used.body /\ armed.head = used.head /\ armed.size = 0
    BY <2>4, ZenonT(30) DEF tcp_server_http_idle_arm, Connections
  <2> HIDE DEF armed
  <2>6. Held(armed)
    BY <2>5, Zenon DEF Held
  <2>7. PiecesOf(c.head) = PiecesOf(c.head - 1) + Pieces /\ PiecesOf(c.head - 1) \in Int
    <3>1. c.head \in Int /\ c.head - 1 \in Int /\ c.head = (c.head - 1) + 1
      BY <1>6
    <3> QED
      BY <3>1, Times, Zenon
  <2>8. Kept(peer, armed)
    <3>1. CASE used.head = c.head /\ used.body = c.body
      BY <2>2, <2>5, <3>1, Zenon DEF Kept
    <3>2. CASE used.head = c.head + 1 /\ used.body = c.body - Pieces
      <4>1. (c.head + 1) - 1 = c.head
        BY <1>6
      <4>2. peer.got = (c.body - Pieces) + PiecesOf(c.head)
        BY <1>6, <2>2, <2>7, HttpServerAssumption
      <4> QED
        BY <2>2, <2>5, <3>2, <4>1, <4>2 DEF Kept
    <3> QED
      BY <2>3, <3>1, <3>2, Zenon
  <2>9. ASSUME ~ peer.pipelines
        PROVE  c.head = a + 1 /\ armed.head = a + 2 /\ armed.body = 0 /\ w = armed
    <3>1. c.head = a + 1 /\ c.size = Pieces
      BY <1>9, <1>13, <2>9, Zenon
    <3>2. armed.head = a + 2 /\ armed.body = c.body - Pieces
      BY <1>6, <2>3, <2>5, <3>1, HttpServerAssumption
    <3>3. armed.body = 0
      BY <1>6, <1>9, <2>2, <2>7, <2>9, <3>1, <3>2, HttpServerAssumption
    <3> QED
      BY <2>1, <3>1, <3>2, <3>3, HttpServerAssumption DEF tcp_server_try_dispatch
  <2>10. ASSUME ~ peer.pipelines, entry.replies, NEW i \in DOMAIN armed.handled
         PROVE  armed.handled[i] < armed.head
    BY <1>6, <1>10, <2>5, <2>9, <2>10
  <2>11. ~ peer.pipelines /\ entry.replies => Increasing(armed)
    BY <1>10, <2>5, Zenon DEF Increasing
  <2>12. CASE peer.pipelines
    <3>1. Good(peer, armed)
      BY <2>6, <2>8, <2>12, Zenon DEF Good
    <3>2. w \in Connections /\ Good(peer, w)
      BY <2>1, <2>5, <2>12, <3>1, DispatchKeeps, Zenon
    <3>3. w.answers = c.answers /\ w.handle # "freed"
      BY <2>1, <2>5, Dispatches
    <3> QED
      BY <1>8, <2>12, <3>2, <3>3, Zenon DEF Good
  <2>13. CASE ~ peer.pipelines
    <3>1. a + 1 <= armed.head - 1
      BY <1>6, <2>9, <2>13
    <3> QED
      BY <1>8, <1>13, <2>5, <2>6, <2>8, <2>9, <2>10, <2>11, <2>13, <3>1, Zenon
  <2> QED
    BY <2>12, <2>13, Zenon
<1> QED
  BY <1>11, <1>12, <1>13, Zenon

LEMMA WrittenKeeps == ServerInv /\ tcp_server_written => ServerInv'
<1> SUFFICES ASSUME ServerInv, tcp_server_written PROVE ServerInv'
  BY Zenon
<1>1. PICK ok \in BOOLEAN :
          carg' = [Written(carg, ok) EXCEPT
                     !.answers = IF ok THEN Append(@, carg.outgoing) ELSE @]
  BY Zenon DEF tcp_server_written
<1>2. /\ carg.handle = "open" /\ carg.outgoing # 0 /\ entry' = entry /\ peer' = peer
  BY Zenon DEF tcp_server_written
<1>3. carg' \in Connections /\ Good(peer, carg')
  BY <1>1, <1>2, WriteKeeps, Zenon DEF ServerInv, ServerTypeOK
<1> QED
  BY <1>2, <1>3, Zenon DEF ServerInv, ServerTypeOK, Good

\* Between any two callbacks of the server libuv holds nothing of a connection that is
\* closed, and with a peer that does not pipeline, full_body holds the pieces that were
\* read of the requests not yet answered, however many pieces a request comes in.
THEOREM ServerInvariant == ServerSpec => []ServerInv
<1>1. ServerInv /\ [ServerNext]_serverVars => ServerInv'
  <2>1. ServerInv /\ ServerNext => ServerInv'
    BY ConnectedKeeps, DataKeeps, EndsKeeps, WrittenKeeps, CallbacksKeep, SendsKeeps, Zenon
    DEF ServerNext
  <2>2. ServerInv /\ UNCHANGED serverVars => ServerInv'
    BY Zenon DEF ServerInv, ServerTypeOK, Good, serverVars
  <2> QED
    BY <2>1, <2>2, Zenon
<1> QED
  BY <1>1, ServerStarts, PTL DEF ServerSpec

\* A connection is freed when libuv holds no write, shutdown or timer of it, and the
\* response of a peer that does not pipeline is kept until tcp_server_written, for
\* requests of any number of pieces.
THEOREM ResponseIsKept == ServerSpec => []KeptWhileHeld
<1>1. ServerInv => KeptWhileHeld
  BY Zenon DEF ServerInv, Good, Held, Answering, KeptWhileHeld
<1> QED
  BY <1>1, ServerInvariant, PTL

\* tcp_server_try_dispatch handles the requests of a peer that does not pipeline, at an
\* entrypoint that replies, in the order in which they were sent and each once, for requests
\* of any number of pieces, whenever the write of a response ends.
THEOREM RequestsHandledOnce == ServerSpec => []HandledOnce
<1>1. ServerInv => HandledOnce
  BY Zenon DEF ServerInv, Good, Handling, Increasing, HandledOnce
<1> QED
  BY <1>1, ServerInvariant, PTL

-----------------------------------------------------------------------------
(* The client of an aggregator entry (TcpClient). *)
ClientTypeOK ==
    /\ client \in [kind : Kinds, named : BOOLEAN, clustered : BOOLEAN, proxied : BOOLEAN,
                   fallible : BOOLEAN, trailing : BOOLEAN]
    /\ started \in BOOLEAN /\ ttl \in BOOLEAN /\ period \in BOOLEAN
    /\ deleted \in BOOLEAN /\ freed \in BOOLEAN
    /\ lock \in BOOLEAN /\ tt \in BOOLEAN /\ closes \in BOOLEAN /\ body \in BOOLEAN
    /\ parsed \in BOOLEAN /\ emptied \in BOOLEAN
    /\ cached \in BOOLEAN /\ probing \in BOOLEAN /\ ended \in BOOLEAN
    /\ awaiting \in BOOLEAN
    /\ handle \in {"none", "bare", "connecting", "open", "shutdown", "cancelled", "closing"}
    /\ timer \in {"none", "armed", "stopped"}
    /\ calls \in Nat

\* A client that was not started has nothing; the timeout is armed while a session goes
\* on; a freed client has no timer, and the lock that keeps every connect off.
Life ==
    /\ ~ started => handle = "none" /\ ~ tt /\ timer = "none" /\ ~ freed
    /\ tt => handle \notin Closing
    /\ freed => ~ tt /\ timer = "none"
    /\ ~ client.fallible =>
          /\ freed => lock /\ handle = "none"
          /\ ~ freed => (lock <=> handle # "none")

\* What was parsed was parsed by one call, unless the peer sent more.  Only a oneshot and
\* a client that is deleted end with their first session.
Parsing ==
    /\ client.trailing \/ (parsed /\ calls = 1) \/ (~ parsed /\ calls = 0)
    /\ emptied => deleted
    /\ started /\ ttl => client.kind = "oneshot" \/ deleted

ClientInv == ClientTypeOK /\ Life /\ Parsing

LEMMA ClientStarts == Init => ClientInv
<1> SUFFICES ASSUME Init PROVE ClientInv
  BY Zenon
<1>1. client \in [kind : Kinds, named : BOOLEAN, clustered : BOOLEAN, proxied : BOOLEAN,
                  fallible : BOOLEAN, trailing : BOOLEAN]
  BY ClientAssumption, Zenon DEF Init
<1>2. cached \in BOOLEAN
  BY <1>1, Zenon DEF Init
<1>3. ClientTypeOK
  <2>1. started \in BOOLEAN /\ ttl \in BOOLEAN /\ period \in BOOLEAN /\ probing \in BOOLEAN
    BY DEF Init
  <2>2. handle = "none" /\ timer = "none" /\ calls = 0
    BY Zenon DEF Init
  <2>3. /\ deleted = FALSE /\ freed = FALSE /\ lock = FALSE /\ tt = FALSE /\ closes = FALSE
        /\ body = FALSE /\ parsed = FALSE /\ emptied = FALSE /\ awaiting = FALSE /\ ended = FALSE
    BY Zenon DEF Init
  <2> QED
    BY <1>1, <1>2, <2>1, <2>2, <2>3, Zenon DEF ClientTypeOK
<1>4. Life
  <2>1. handle = "none" /\ ~ tt /\ timer = "none" /\ ~ freed /\ ~ lock
    BY Zenon DEF Init
  <2> QED
    BY <2>1, Zenon DEF Life
<1>5. Parsing
  BY <1>1, Zenon DEF Init, Parsing, Kinds
<1> QED
  BY <1>3, <1>4, <1>5, Zenon DEF ClientInv

LEMMA ConnectKeeps ==
    ASSUME ClientInv, NEW c, tcp_client_connect(c), c.timer \in {"none", "armed", "stopped"},
           c.cached \in BOOLEAN, c.awaiting \in BOOLEAN, ~ freed, ended' \in BOOLEAN,
           UNCHANGED <<client, deleted, freed>>,
           started' \in BOOLEAN, ttl' \in BOOLEAN, period' \in BOOLEAN, started',
           ttl' => client.kind = "oneshot" \/ deleted
    PROVE  ClientInv'
<1>1. \/ /\ UNCHANGED <<lock, handle, tt, closes, body, parsed, calls, emptied>>
         /\ timer' = c.timer
      \/ /\ ~ lock /\ handle = "none" /\ tt' /\ ~ parsed' /\ calls' = 0 /\ ~ body'
         /\ timer' \in {"armed", c.timer}
         /\ parsed' \in BOOLEAN /\ tt' \in BOOLEAN /\ body' \in BOOLEAN /\ lock' \in BOOLEAN
         /\ \/ lock' /\ handle' = "connecting"
            \/ client.fallible /\ handle' = "bare"
         /\ UNCHANGED <<closes, emptied>>
  BY Zenon DEF tcp_client_connect, StartSession
<1>2. cached' \in BOOLEAN /\ probing' \in BOOLEAN /\ awaiting' \in BOOLEAN
  BY Zenon DEF tcp_client_connect, ClientInv, ClientTypeOK
<1>3. ClientTypeOK'
  BY <1>1, <1>2 DEF ClientInv, ClientTypeOK
<1>4. Life'
  BY <1>1 DEF ClientInv, Life, Closing
<1>5. Parsing'
  BY <1>1 DEF ClientInv, Parsing
<1> QED
  BY <1>3, <1>4, <1>5, Zenon DEF ClientInv

\* What the ends of a session do: the parser is called at most once, but for what a peer
\* sends after a complete body, and with nothing only for a client that ends with it; the
\* handle begins to close, or to shut down.
Calls ==
    \/ UNCHANGED <<parsed, calls, emptied>>
    \/ /\ parsed => client.trailing
       /\ parsed' /\ parsed' \in BOOLEAN
       /\ calls' = IF calls < 2 THEN calls + 1 ELSE calls
       /\ \/ UNCHANGED emptied
          \/ ttl /\ emptied' = (emptied \/ client.kind # "oneshot")

LEMMA EmptyCalls == NotifyEmpty(ttl) => Calls
  BY Zenon DEF NotifyEmpty, CountedCall, Calls

LEMMA BodyCalls == (parsed => client.trailing) /\ Multiparser => Calls
  BY Zenon DEF Multiparser, CountedCall, Calls

Ending ==
    /\ handle # "none" /\ handle' # "none" /\ UNCHANGED lock
    /\ handle' \in {"shutdown", "cancelled", "closing"}
    /\ \/ tt' = FALSE
       \/ UNCHANGED tt /\ handle' \notin Closing

LEMMA SessionCloses ==
    ASSUME ClientInv, handle # "none", tcp_client_close
    PROVE  Ending
  BY Zenon DEF ClientInv, ClientTypeOK, tcp_client_close, Ending, Closing

LEMMA Shuts ==
    ASSUME ClientInv, handle # "none", BeginShutdown
    PROVE  Ending
  BY SessionCloses, Zenon DEF BeginShutdown, Ending, Closing

LEMMA EndingKeeps ==
    ASSUME ClientInv, Calls, Ending, ~ freed \/ client.fallible,
           body' \in BOOLEAN, UNCHANGED <<life, dns, timer, closes>>
    PROVE  ClientInv'
<1>1. calls' \in Nat /\ parsed' \in BOOLEAN /\ tt' \in BOOLEAN /\ emptied' \in BOOLEAN
  <2>1. calls' \in Nat /\ parsed' \in BOOLEAN
    BY DEF ClientInv, ClientTypeOK, Calls
  <2>2. emptied' \in BOOLEAN
    BY Zenon DEF ClientInv, ClientTypeOK, Calls
  <2>3. tt' \in BOOLEAN
    BY Zenon DEF ClientInv, ClientTypeOK, Ending
  <2> QED
    BY <2>1, <2>2, <2>3, Zenon
<1>2. ClientTypeOK'
  BY <1>1 DEF ClientInv, ClientTypeOK, Ending, life, dns
<1>3. Life'
  BY DEF ClientInv, Life, Ending, life, dns
<1>4. Parsing'
  <2>1. started
    BY Zenon DEF ClientInv, Life, Ending
  <2>2. emptied' => deleted
    BY <2>1, Zenon DEF ClientInv, Parsing, Calls
  <2>3. client.trailing \/ (parsed' /\ calls' = 1) \/ (~ parsed' /\ calls' = 0)
    BY DEF ClientInv, ClientTypeOK, Parsing, Calls
  <2> QED
    BY <2>2, <2>3, Zenon DEF ClientInv, Parsing, life
<1> QED
  BY <1>2, <1>3, <1>4, Zenon DEF ClientInv

LEMMA CargType ==
    ASSUME ClientInv
    PROVE  /\ Carg.timer = timer /\ Carg.cached = cached /\ Carg.awaiting = awaiting
           /\ LET c == [Carg EXCEPT !.timer = "stopped"] IN
                 c.timer = "stopped" /\ c.cached = cached /\ c.awaiting = awaiting
           /\ LET c == [Carg EXCEPT !.cached = TRUE, !.awaiting = FALSE] IN
                 c.timer = timer /\ c.cached = TRUE /\ c.awaiting = FALSE
  BY Zenon DEF Carg

\* The connects: a start, the crawl, the period timer.
LEMMA OneshotKeeps == ClientInv /\ aggregator_oneshot => ClientInv'
<1> SUFFICES ASSUME ClientInv, aggregator_oneshot PROVE ClientInv'
  BY Zenon
<1>1. /\ tcp_client_connect(Carg) /\ ~ freed /\ UNCHANGED <<client, deleted, freed>>
      /\ started' = TRUE /\ ttl' = (client.kind = "oneshot") /\ period' = (client.kind = "sync")
      /\ ended' = ended
  BY Zenon DEF aggregator_oneshot, ClientInv, Life
<1>2. started' \in BOOLEAN /\ ttl' \in BOOLEAN /\ period' \in BOOLEAN /\ ended' \in BOOLEAN
  BY <1>1, Zenon DEF ClientInv, ClientTypeOK
<1>3. /\ Carg.timer \in {"none", "armed", "stopped"} /\ Carg.cached \in BOOLEAN
      /\ Carg.awaiting \in BOOLEAN
  BY CargType, Zenon DEF ClientInv, ClientTypeOK
<1>4. PICK c : c = Carg
  BY Zenon
<1> QED
  BY <1>1, <1>2, <1>3, <1>4, ConnectKeeps, Zenon

LEMMA CrawlKeeps == ClientInv /\ for_tcp_client_connect => ClientInv'
<1> SUFFICES ASSUME ClientInv, for_tcp_client_connect PROVE ClientInv'
  BY Zenon
<1>1. tcp_client_connect(Carg) /\ ~ freed /\ started /\ UNCHANGED <<life, ended>>
  BY Zenon DEF for_tcp_client_connect
<1>2. /\ Carg.timer \in {"none", "armed", "stopped"} /\ Carg.cached \in BOOLEAN
      /\ Carg.awaiting \in BOOLEAN
  BY CargType, Zenon DEF ClientInv, ClientTypeOK
<1>3. /\ started' \in BOOLEAN /\ ttl' \in BOOLEAN /\ period' \in BOOLEAN /\ started'
      /\ (ttl' => client.kind = "oneshot" \/ deleted) /\ UNCHANGED <<client, deleted, freed>>
      /\ ended' \in BOOLEAN
  BY <1>1, Zenon DEF ClientInv, ClientTypeOK, Parsing, life
<1>4. PICK c : c = Carg
  BY Zenon
<1> QED
  BY <1>1, <1>2, <1>3, <1>4, ConnectKeeps, Zenon

LEMMA PeriodKeeps == ClientInv /\ tcp_client_repeat_period => ClientInv'
<1> SUFFICES ASSUME ClientInv, tcp_client_repeat_period PROVE ClientInv'
  BY Zenon
<1>1. PICK c : c = [Carg EXCEPT !.timer = "stopped"]
  BY Zenon
<1>2. tcp_client_connect(c) /\ ~ freed /\ started /\ UNCHANGED <<life, ended>>
  BY <1>1, Zenon DEF tcp_client_repeat_period, ClientInv, Life, Closing
<1>3. /\ c.timer \in {"none", "armed", "stopped"} /\ c.cached \in BOOLEAN
      /\ c.awaiting \in BOOLEAN
  BY <1>1, CargType, Zenon DEF ClientInv, ClientTypeOK
<1>4. /\ started' \in BOOLEAN /\ ttl' \in BOOLEAN /\ period' \in BOOLEAN /\ started'
      /\ (ttl' => client.kind = "oneshot" \/ deleted) /\ UNCHANGED <<client, deleted, freed>>
      /\ ended' \in BOOLEAN
  BY <1>2, Zenon DEF ClientInv, ClientTypeOK, Parsing, life
<1> QED
  BY <1>2, <1>3, <1>4, ConnectKeeps, Zenon

\* The callbacks of a session that goes on, and those that end it.
LEMMA SessionKeeps == ClientInv /\ (tcp_connected \/ ReadPart) => ClientInv'
<1> SUFFICES ASSUME ClientInv, tcp_connected \/ ReadPart PROVE ClientInv'
  BY Zenon
<1>1. /\ UNCHANGED <<life, dns, lock, tt, timer, closes, parsed, calls, emptied>>
      /\ handle # "none" /\ handle' # "none" /\ body' \in BOOLEAN
      /\ handle' \in {"open", "shutdown"}
  BY Zenon DEF tcp_connected, ReadPart, Readable, ClientInv, ClientTypeOK
<1>2. ClientTypeOK'
  BY <1>1 DEF ClientInv, ClientTypeOK, life, dns
<1>3. Life'
  BY <1>1, Zenon DEF ClientInv, Life, Closing, life
<1>4. Parsing'
  BY <1>1, Zenon DEF ClientInv, Parsing, life
<1> QED
  BY <1>2, <1>3, <1>4, Zenon DEF ClientInv

LEMMA SessionEndKeeps ==
    ClientInv /\ (\/ tcp_connect_failed \/ ReadFull \/ ReadEof \/ ReadError \/ TlsEnds
                  \/ tcp_client_fail_session \/ tcp_client_shutdown \/ tcp_timeout_timer)
        => ClientInv'
<1> SUFFICES ASSUME ClientInv,
                    \/ tcp_connect_failed \/ ReadFull \/ ReadEof \/ ReadError \/ TlsEnds
                    \/ tcp_client_fail_session \/ tcp_client_shutdown \/ tcp_timeout_timer
             PROVE  ClientInv'
  BY Zenon
<1>1. handle # "none" /\ UNCHANGED <<life, dns, timer, closes>>
  BY Zenon DEF tcp_connect_failed, Readable, ReadFull, ReadEof, ReadError, TlsEnds,
         tcp_client_fail_session, tcp_client_shutdown, tcp_timeout_timer, ClientInv, Life, Closing
<1>2. body' \in BOOLEAN
  BY Zenon DEF tcp_connect_failed, ReadFull, ReadEof, ReadError, TlsEnds, tcp_client_fail_session,
         tcp_client_shutdown, tcp_timeout_timer, ClientInv, ClientTypeOK
<1>3. Calls
  <2>1. UNCHANGED <<parsed, calls, emptied>> => Calls
    BY Zenon DEF Calls
  <2> QED
    BY <2>1, EmptyCalls, BodyCalls, Zenon
    DEF tcp_connect_failed, Readable, ReadFull, ReadEof, ReadError, TlsEnds,
        tcp_client_fail_session, tcp_client_shutdown, tcp_timeout_timer
<1>4. Ending
  <2>1. CASE tcp_connect_failed
    BY <2>1, Zenon DEF tcp_connect_failed, Ending
  <2> QED
    BY <1>1, <2>1, SessionCloses, Shuts, Zenon
    DEF ReadFull, ReadEof, ReadError, TlsEnds, tcp_client_fail_session, tcp_client_shutdown,
        tcp_timeout_timer
<1>5. ~ freed \/ client.fallible
  BY <1>1, Zenon DEF ClientInv, Life, Closing
<1> QED
  BY <1>1, <1>2, <1>3, <1>4, <1>5, EndingKeeps, Zenon

LEMMA ClosedKeeps == ClientInv /\ tcp_client_closed => ClientInv'
<1> SUFFICES ASSUME ClientInv, tcp_client_closed PROVE ClientInv'
  BY Zenon
<1>1. /\ handle \in {"closing", "cancelled"} /\ handle' = "none" /\ lock' = ttl
      /\ closes' = TRUE /\ body' = FALSE
      /\ UNCHANGED <<client, started, ttl, period, deleted, dns>>
      /\ \/ ttl /\ freed' = TRUE /\ tt' = FALSE /\ timer' = "none"
         \/ /\ ~ ttl /\ UNCHANGED <<freed, tt>> 
            /\ timer' = (IF period /\ timer # "none" THEN "armed" ELSE timer)
  BY Zenon DEF tcp_client_closed, Free
<1>2. Calls
  <2>1. UNCHANGED <<parsed, calls, emptied>> => Calls
    BY Zenon DEF Calls
  <2> QED
    BY <2>1, EmptyCalls, Zenon DEF tcp_client_closed
<1>3. started /\ ~ tt
  BY <1>1, Zenon DEF ClientInv, Life, Closing
<1>4. Life'
  BY <1>1, <1>3 DEF ClientInv, ClientTypeOK, Life, Closing
<1>5. /\ calls' \in Nat /\ parsed' \in BOOLEAN /\ emptied' \in BOOLEAN
      /\ emptied' => deleted
      /\ client.trailing \/ (parsed' /\ calls' = 1) \/ (~ parsed' /\ calls' = 0)
  <2>1. calls' \in Nat /\ parsed' \in BOOLEAN
    BY <1>2 DEF ClientInv, ClientTypeOK, Calls
  <2>2. emptied' \in BOOLEAN
    BY <1>2, Zenon DEF ClientInv, ClientTypeOK, Calls
  <2>3. emptied' => deleted
    BY <1>2, <1>3, Zenon DEF ClientInv, Parsing, Calls
  <2>4. client.trailing \/ (parsed' /\ calls' = 1) \/ (~ parsed' /\ calls' = 0)
    BY <1>2 DEF ClientInv, ClientTypeOK, Parsing, Calls
  <2> QED
    BY <2>1, <2>2, <2>3, <2>4, Zenon
<1>6. ClientTypeOK'
  <2>1. timer' \in {"none", "armed", "stopped"} /\ tt' \in BOOLEAN /\ freed' \in BOOLEAN
    BY <1>1, Zenon DEF ClientInv, ClientTypeOK
  <2>2. /\ UNCHANGED <<client, started, ttl, period, deleted, cached, probing, ended, awaiting>>
        /\ handle' = "none"
    BY <1>1, Zenon DEF dns
  <2>3. lock' \in BOOLEAN /\ closes' \in BOOLEAN /\ body' \in BOOLEAN
    BY <1>1, Zenon DEF ClientInv, ClientTypeOK
  <2>4. calls' \in Nat /\ parsed' \in BOOLEAN /\ emptied' \in BOOLEAN
    BY <1>5, Zenon
  <2>5. ClientTypeOK
    BY Zenon DEF ClientInv
  <2> QED
    BY <2>1, <2>2, <2>3, <2>4, <2>5 DEF ClientTypeOK
<1>7. Parsing'
  BY <1>1, <1>5, Zenon DEF ClientInv, Parsing
<1> QED
  BY <1>4, <1>6, <1>7, Zenon DEF ClientInv

LEMMA DeleteKeeps == ClientInv /\ tcp_client_del => ClientInv'
<1> SUFFICES ASSUME ClientInv, tcp_client_del PROVE ClientInv'
  BY Zenon
<1>1. /\ started /\ ~ freed /\ deleted' = TRUE
      /\ UNCHANGED <<client, started, period, dns, closes, body, parsed, calls, emptied>>
  BY Zenon DEF tcp_client_del
<1>2. CASE lock
  <2>1. /\ ttl' = TRUE /\ tt' = FALSE /\ UNCHANGED <<freed, timer, lock>>
        /\ handle = "none" <=> handle' = "none"
        /\ handle' \in {handle, "cancelled", "closing"}
    BY <1>2, Zenon DEF tcp_client_del, tcp_client_close, Closing
  <2>2. ClientTypeOK'
    <3>1. deleted' \in BOOLEAN /\ ttl' \in BOOLEAN /\ tt' \in BOOLEAN
      BY <1>1, <2>1, Zenon DEF ClientInv, ClientTypeOK
    <3> QED
      BY <1>1, <2>1, <3>1 DEF ClientInv, ClientTypeOK, dns
  <2>3. Life'
    BY <1>1, <2>1, Zenon DEF ClientInv, Life, Closing
  <2>4. Parsing'
    BY <1>1, <2>1, Zenon DEF ClientInv, Parsing
  <2> QED
    BY <2>2, <2>3, <2>4, Zenon DEF ClientInv
<1>3. CASE ~ lock
  <2>1. /\ freed' = TRUE /\ tt' = FALSE /\ timer' = "none" /\ lock' = TRUE
        /\ UNCHANGED <<ttl, handle>>
    BY <1>3, Zenon DEF tcp_client_del, Free
  <2>2. ClientTypeOK'
    <3>1. deleted' \in BOOLEAN /\ freed' \in BOOLEAN /\ tt' \in BOOLEAN /\ lock' \in BOOLEAN
      BY <1>1, <2>1, Zenon DEF ClientInv, ClientTypeOK
    <3> QED
      BY <1>1, <2>1, <3>1 DEF ClientInv, ClientTypeOK, dns
  <2>3. Life'
    BY <1>1, <1>3, <2>1, Zenon DEF ClientInv, Life, Closing
  <2>4. Parsing'
    BY <1>1, <1>3, <2>1, Zenon DEF ClientInv, Parsing
  <2> QED
    BY <2>2, <2>3, <2>4, Zenon DEF ClientInv
<1> QED
  BY <1>2, <1>3, Zenon

LEMMA ExpiryKeeps == ClientInv /\ DnsExpires => ClientInv'
<1> SUFFICES ASSUME ClientInv, DnsExpires PROVE ClientInv'
  BY Zenon
<1>1. ClientTypeOK'
  <2>1. cached' \in BOOLEAN
    BY Zenon DEF DnsExpires
  <2> QED
    BY <2>1 DEF DnsExpires, ClientInv, ClientTypeOK, life, session
<1>2. Life'
  BY Zenon DEF DnsExpires, ClientInv, Life, Closing, life, session
<1>3. Parsing'
  BY Zenon DEF DnsExpires, ClientInv, Parsing, life, session
<1> QED
  BY <1>1, <1>2, <1>3, Zenon DEF ClientInv

LEMMA FoundKeeps == ClientInv /\ DnsFound => ClientInv'
<1> SUFFICES ASSUME ClientInv, DnsFound PROVE ClientInv'
  BY Zenon
<1>1. CASE Waits
  <2>1. PICK c : c = [Carg EXCEPT !.cached = TRUE, !.awaiting = FALSE]
    BY Zenon
  <2>2. tcp_client_connect(c) /\ ~ freed /\ started /\ UNCHANGED life /\ ended' = TRUE
    BY <1>1, <2>1, Zenon DEF DnsFound, Waits
  <2>3. /\ c.timer \in {"none", "armed", "stopped"} /\ c.cached \in BOOLEAN
        /\ c.awaiting \in BOOLEAN
    BY <2>1, CargType, Zenon DEF ClientInv, ClientTypeOK
  <2>4. /\ started' \in BOOLEAN /\ ttl' \in BOOLEAN /\ period' \in BOOLEAN /\ started'
        /\ (ttl' => client.kind = "oneshot" \/ deleted) /\ UNCHANGED <<client, deleted, freed>>
        /\ ended' \in BOOLEAN
    BY <2>2, Zenon DEF ClientInv, ClientTypeOK, Parsing, life
  <2> QED
    BY <2>2, <2>3, <2>4, ConnectKeeps, Zenon
<1>2. CASE ~ Waits
  <2>1. cached' = TRUE /\ ended' = TRUE /\ UNCHANGED <<life, session, probing, awaiting>>
    BY <1>2, Zenon DEF DnsFound
  <2>2. ClientTypeOK'
    <3>1. cached' \in BOOLEAN /\ ended' \in BOOLEAN
      BY <2>1, Zenon DEF ClientInv, ClientTypeOK
    <3> QED
      BY <2>1, <3>1 DEF ClientInv, ClientTypeOK, life, session
  <2>3. Life'
    BY <2>1, Zenon DEF ClientInv, Life, Closing, life, session
  <2>4. Parsing'
    BY <2>1, Zenon DEF ClientInv, Parsing, life, session
  <2> QED
    BY <2>2, <2>3, <2>4, Zenon DEF ClientInv
<1> QED
  BY <1>1, <1>2, Zenon

LEMMA NotFoundKeeps == ClientInv /\ DnsFails => ClientInv'
<1> SUFFICES ASSUME ClientInv, DnsFails PROVE ClientInv'
  BY Zenon
<1>1. ended' = TRUE
      /\ UNCHANGED <<client, started, ttl, period, cached, probing, handle, closes, body, parsed,
                     calls, emptied>>
  BY Zenon DEF DnsFails
<1>2. \/ /\ freed' = TRUE /\ tt' = FALSE /\ timer' = "none" /\ lock' = TRUE
         /\ awaiting' = FALSE /\ deleted' = TRUE /\ ~ lock /\ ~ freed /\ started
      \/ UNCHANGED <<freed, tt, timer, lock, awaiting, deleted>>
  BY Zenon DEF DnsFails, Free, Waits
<1>3. ClientTypeOK'
  <2>1. /\ ended' \in BOOLEAN /\ freed' \in BOOLEAN /\ tt' \in BOOLEAN /\ lock' \in BOOLEAN
        /\ awaiting' \in BOOLEAN /\ deleted' \in BOOLEAN
    BY <1>1, <1>2, Zenon DEF ClientInv, ClientTypeOK
  <2> QED
    BY <1>1, <1>2, <2>1 DEF ClientInv, ClientTypeOK
<1>4. Life'
  BY <1>1, <1>2 DEF ClientInv, Life, Closing
<1>5. Parsing'
  BY <1>1, <1>2, Zenon DEF ClientInv, Parsing
<1> QED
  BY <1>3, <1>4, <1>5, Zenon DEF ClientInv

LEMMA GoneKeeps == ClientInv /\ ProbeGone => ClientInv'
<1> SUFFICES ASSUME ClientInv, ProbeGone PROVE ClientInv'
  BY Zenon
<1>1. ClientTypeOK'
  <2>1. probing' \in BOOLEAN /\ ended' \in BOOLEAN
    BY Zenon DEF ProbeGone
  <2> QED
    BY <2>1 DEF ProbeGone, ClientInv, ClientTypeOK, life, session
<1>2. Life'
  BY Zenon DEF ProbeGone, ClientInv, Life, Closing, life, session
<1>3. Parsing'
  BY Zenon DEF ProbeGone, ClientInv, Parsing, life, session
<1> QED
  BY <1>1, <1>2, <1>3, Zenon DEF ClientInv

\* The invariant of a client, for every set of clients: who has the lock, the handle and
\* the timers, and how often its parser was called.
THEOREM ClientInvariant == Spec => []ClientInv
<1>1. ClientInv /\ [Next]_vars => ClientInv'
  <2>1. ClientInv /\ Next => ClientInv'
    BY OneshotKeeps, CrawlKeeps, PeriodKeeps, SessionKeeps, SessionEndKeeps, ClosedKeeps, DeleteKeeps,
       ExpiryKeeps, FoundKeeps, NotFoundKeeps, GoneKeeps, Zenon
    DEF Next
  <2>2. ClientInv /\ UNCHANGED vars => ClientInv'
    BY DEF ClientInv, ClientTypeOK, Life, Parsing, vars
  <2> QED
    BY <2>1, <2>2, Zenon
<1> QED
  BY <1>1, ClientStarts, PTL DEF Spec

\* The lock of a client whose setup does not fail is set exactly while libuv has its handle,
\* for every set of clients: tcp_client_closed is the one that opens it, so no session
\* starts on a handle that is still closing and none is kept off for ever.
THEOREM LockFollowsHandle == Spec => []LockedWhileOpen
<1>1. ClientInv => LockedWhileOpen
  BY Zenon DEF ClientInv, Life, LockedWhileOpen
<1> QED
  BY <1>1, ClientInvariant, PTL

\* A client whose setup does not fail is freed by tcp_client_closed, never while its handle
\* or one of its timers is with libuv, in any order of answers, timeouts, lookups and the
\* deletion of its entry.
THEOREM FreedAfterClose == Spec => []FreedWhenClosed
<1>1. ClientInv => FreedWhenClosed
  BY Zenon DEF ClientInv, Life, FreedWhenClosed
<1> QED
  BY <1>1, ClientInvariant, PTL

\* However a session ends, its parser is called at most once, provided that the peer sends
\* nothing after a complete body (tcp_client_read_data would have it parsed again), and that
\* of a permanent client is called with an empty body only when it is being deleted.
THEOREM AnswerIsParsedOnce == Spec => []ParsedOnce
<1>1. ClientInv => ParsedOnce
  BY DEF ClientInv, Parsing, ParsedOnce
<1> QED
  BY <1>1, ClientInvariant, PTL
=============================================================================
