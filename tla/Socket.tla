------------------------------- MODULE Socket -------------------------------
(***************************************************************************)
(* One HTTP dispatch call on its TCP socket: resolution by nginx or by a   *)
(* Lua thread, connection, TLS handshake, sending, and the reader of the   *)
(* response (common/ngx_wasm_socket_tcp.c, ngx_wasm_socket_tcp_readers.c,  *)
(* lua/ngx_wasm_lua_resolver.c), driven by the resume handler of the call  *)
(* (http/proxy_wasm/ngx_http_proxy_wasm_dispatch.c).                       *)
(*                                                                         *)
(* ProxyWasm sees a call as posted, in progress and ended; this module is  *)
(* what happens in between.  A worker is single-threaded: an event starts  *)
(* a handler, pc tells which function of it runs, and the next event comes *)
(* in when it is back to "loop".  Kernel and peer move at any time.        *)
(* Memory does not run out, and the request outlives the call.             *)
(***************************************************************************)
EXTENDS Integers, Sequences, FiniteSets, FiniteSetsExt

CONSTANTS
    Responses,      \* what a peer may send: units, clen, chunked
    Resolvers,      \* how the host is found: "literal", "nginx", "lua"
    Tls,            \* values of enable_ssl
    RequestLen,     \* units of the request
    BufferSize,     \* units of wasm_socket_buffer_size
    LargeSize,      \* units of a buffer of wasm_socket_large_buffers
    LargeNum        \* number of wasm_socket_large_buffers

ASSUME SizesAssumption ==
    {RequestLen, BufferSize, LargeSize} \subseteq Nat \ {0} /\ LargeNum \in Nat
ASSUME ResolversAssumption == Resolvers \subseteq {"literal", "nginx", "lua"}

VARIABLES
    pc,         \* the function that runs
    call,       \* the dispatch call
    sock,       \* its socket and nginx connection
    buf,        \* sock->buffer, in positions of the response
    reader,     \* call->http_reader
    net,        \* the connection as the kernel and the peer have it
    conf,       \* resolver and TLS of this call, and the response to come
    trapped     \* instance->trapped of the filter

vars == <<pc, call, sock, buf, reader, net, conf, trapped>>

Errors == {"none", "timeout", "broken", "tls", "resolver", "reader"}
ChunkSize == [k0 |-> 0, k1 |-> 1, k2 |-> 2]

NoBuf == [start |-> 0, pos |-> 0, last |-> 0, size |-> 0]

Init ==
    /\ conf \in [resolver : Resolvers, tls : Tls, resp : Responses]
    /\ pc = "loop"
    /\ trapped = FALSE
    /\ net = [link |-> "none", arrived |-> 0, end |-> "open",
              room |-> FALSE, revent |-> FALSE, wevent |-> FALSE]
    /\ call = [state |-> "start", posted |-> TRUE, answers |-> <<>>,
               freed |-> FALSE, cancelled |-> FALSE]
    /\ sock = [err |-> "none", resolving |-> FALSE, conn |-> FALSE,
               connected |-> FALSE, closed |-> FALSE, ssl |-> "none",
               wh |-> "nop", rh |-> "nop", wtimer |-> FALSE, rtimer |-> FALSE,
               unsent |-> RequestLen, eof |-> FALSE, lbusy |-> 0, stuck |-> FALSE]
    /\ buf = NoBuf
    /\ reader = [status |-> FALSE, line |-> 0, headers |-> 0, header_done |-> FALSE,
                 chunk |-> 0, rest |-> 0, body_len |-> 0, chunks |-> <<>>, body |-> <<>>]

Units == conf.resp.units
tcp_err(s, status) == IF s.err = "none" THEN [s EXCEPT !.err = status] ELSE s

----------------------------------------------------------------------------
\* Closing and the end of the call.

\* Fault: closing leaves the read timer.
FaultFinalizeRead(s) == s

finalize_read(s) == [s EXCEPT !.rtimer = FALSE]
finalize_write(s) == [s EXCEPT !.wtimer = FALSE]

tcp_close(s) ==
    IF s.closed THEN s
    ELSE [finalize_read(finalize_write(s)) EXCEPT !.conn = FALSE, !.connected = FALSE,
                                                  !.closed = TRUE]

\* A Lua thread that resolves is cancelled, and its error handler sets the
\* socket's error; nginx's resolver is not told.
tcp_destroy(s) ==
    LET d == [tcp_close(s) EXCEPT !.lbusy = 0]
    IN  IF d.resolving /\ conf.resolver = "lua"
        THEN [tcp_err(d, "resolver") EXCEPT !.resolving = FALSE] ELSE d

dispatch_destroy(c) ==
    /\ call' = [c EXCEPT !.posted = FALSE, !.freed = TRUE]
    /\ sock' = tcp_destroy(sock)
    /\ buf' = NoBuf
    /\ pc' = "loop"

\* on_http_call_response(), and what it may learn of the response.
invoke_on_http_dispatch_response(c) ==
    [c EXCEPT !.answers = Append(@, [err |-> sock.err, headers |-> reader.headers,
                                     body_len |-> reader.body_len, body |-> reader.body])]

\* Fault: an error of the connection only destroys the call.
FaultDispatchErr ==
    /\ pc = "failed"
    /\ dispatch_destroy(call)
    /\ UNCHANGED <<reader, net, conf, trapped>>

\* Label error of the resume handler.
dispatch_err ==
    /\ pc = "failed"
    /\ dispatch_destroy(invoke_on_http_dispatch_response(call))
    /\ UNCHANGED <<reader, net, conf, trapped>>

\* State RECEIVED: the socket is closed and the filter told.
Received ==
    /\ pc = "received"
    /\ \/ /\ trapped
          /\ sock' = tcp_close(sock)
          /\ buf' = NoBuf
          /\ pc' = "failed"
          /\ UNCHANGED call
       \/ ~trapped /\ dispatch_destroy(invoke_on_http_dispatch_response(call))
    /\ UNCHANGED <<reader, net, conf, trapped>>

----------------------------------------------------------------------------
\* The resume handler of the call, up to the state it resumes in.
dispatch_resume_handler ==
    /\ pc = "resume"
    /\ \/ sock.err # "none" /\ pc' = "failed" /\ UNCHANGED call
       \/ /\ sock.err = "none" /\ call.state \in {"start", "connecting"}
          /\ call' = [call EXCEPT !.state = "connecting"]
          /\ pc' = "connect"
       \/ sock.err = "none" /\ call.state = "sending" /\ pc' = "send" /\ UNCHANGED call
       \/ sock.err = "none" /\ call.state = "receiving" /\ pc' = "read" /\ UNCHANGED call
    /\ UNCHANGED <<sock, buf, reader, net, conf, trapped>>

\* Connected: the handshake or the request comes next.
Onward ==
    IF conf.tls THEN pc' = "handshake" /\ UNCHANGED call
    ELSE pc' = "send" /\ call' = [call EXCEPT !.state = "sending"]

tcp_connect ==
    /\ pc = "connect"
    /\ \/ sock.connected /\ Onward
       \/ /\ ~sock.connected
          /\ pc' = IF conf.resolver = "literal" THEN "peer" ELSE "resolve"
          /\ UNCHANGED call
    /\ UNCHANGED <<sock, buf, reader, net, conf, trapped>>

\* A query is sent; or the answer is cached; or no query can be made.
Resolve(resolver) ==
    /\ pc = "resolve" /\ conf.resolver = resolver
    /\ \/ pc' = "loop" /\ sock' = [sock EXCEPT !.resolving = TRUE]
       \/ pc' \in {"resolved", "failed"} /\ UNCHANGED sock
    /\ UNCHANGED <<call, buf, reader, net, conf, trapped>>

resolve_name == Resolve("nginx")

\* The same with a Lua thread, which has yielded, ended or failed when its
\* first run returns.
lua_resolver_resolve == Resolve("lua")

\* What connect_peer() returns is for tcp_connect(); the resolver's handler
\* ignores it.
Returned(rc) ==
    IF pc = "resolved" THEN pc' = "loop" /\ UNCHANGED call
    ELSE CASE rc = "error" -> pc' = "failed" /\ UNCHANGED call
           [] rc = "again" -> pc' = "loop" /\ UNCHANGED call
           [] rc = "ok" -> Onward

\* Fault: the timer of the connection is not set.
FaultConnectPeer ==
    /\ pc \in {"peer", "resolved"}
    /\ Returned("again")
    /\ sock' = [sock EXCEPT !.conn = TRUE, !.rh = "connect", !.wh = "connect"]
    /\ net' = [net EXCEPT !.link = "connecting"]
    /\ UNCHANGED <<buf, reader, conf, trapped>>

\* An immediate connection is handled as by connect_handler().
connect_peer ==
    /\ pc \in {"peer", "resolved"}
    /\ \/ /\ Returned("error")
          /\ \E s \in {sock, tcp_err(sock, "broken")} :
                 sock' = [s EXCEPT !.stuck = pc = "resolved"]
          /\ UNCHANGED net
       \/ /\ Returned("ok")
          /\ sock' = [sock EXCEPT !.conn = TRUE, !.connected = TRUE]
          /\ net' = [net EXCEPT !.link = "up", !.wevent = TRUE]
       \/ /\ Returned("again")
          /\ sock' = [sock EXCEPT !.conn = TRUE, !.wtimer = TRUE,
                                  !.rh = "connect", !.wh = "connect"]
          /\ net' = [net EXCEPT !.link = "connecting"]
    /\ UNCHANGED <<buf, reader, conf, trapped>>

\* The handshake is over: certificate and host are verified as configured.
ssl_handshake_done(s) == {[s EXCEPT !.ssl = "ready"], tcp_err(s, "tls")}

ssl_handshake ==
    /\ pc = "handshake"
    /\ \/ sock.ssl = "ready" /\ UNCHANGED sock
       \/ sock.ssl # "ready" /\ sock' \in ssl_handshake_done(sock)
       \/ sock.ssl # "ready" /\ sock' = [sock EXCEPT !.ssl = "failed"]
       \/ sock.ssl # "ready" /\ sock' = [sock EXCEPT !.ssl = "handshake", !.wtimer = TRUE]
    /\ CASE sock'.ssl = "ready" -> pc' = "send" /\ call' = [call EXCEPT !.state = "sending"]
         [] sock'.ssl = "handshake" -> pc' = "loop" /\ UNCHANGED call
         [] OTHER -> pc' = "failed" /\ UNCHANGED call
    /\ UNCHANGED <<buf, reader, net, conf, trapped>>

tcp_send ==
    /\ pc = "send"
    /\ \/ /\ sock' = [sock EXCEPT !.unsent = 0, !.wtimer = FALSE, !.wh = "nop"]
          /\ call' = [call EXCEPT !.state = "receiving"]
          /\ pc' = "read"
       \/ /\ \E rest \in 1 .. IF net.room THEN sock.unsent - 1 ELSE sock.unsent :
                 sock' = [sock EXCEPT !.unsent = rest, !.wtimer = TRUE, !.wh = "send"]
          /\ pc' = "loop"
          /\ UNCHANGED call
       \/ sock' = tcp_err(sock, "broken") /\ pc' = "failed" /\ UNCHANGED call
    /\ net' = [net EXCEPT !.room = FALSE]
    /\ UNCHANGED <<buf, reader, conf, trapped>>

----------------------------------------------------------------------------
\* Receiving and reading the response.

tcp_read ==
    /\ pc = "read"
    /\ buf' = IF buf = NoBuf THEN [NoBuf EXCEPT !.size = BufferSize] ELSE buf
    /\ sock' = [sock EXCEPT !.rh = "receive"]
    /\ pc' = "reading"
    /\ UNCHANGED <<call, reader, net, conf, trapped>>

Unread == buf.pos < buf.last
Full(b) == b.last - b.start = b.size

NewBuffer == [start |-> buf.last, pos |-> buf.last, last |-> buf.last, size |-> BufferSize]

\* The loop of tcp_read(), when there is nothing to read in the buffer: the
\* loop waits also for what has arrived with its event still to come.
Wait ==
    /\ pc = "reading" /\ ~Unread /\ ~sock.eof
    /\ net.revent \/ (net.arrived = buf.last /\ net.end = "open")
    /\ sock' = [sock EXCEPT !.rtimer = TRUE]
    /\ pc' = "loop"
    /\ UNCHANGED <<call, buf, reader, net, conf, trapped>>

Receive ==
    /\ pc = "reading" /\ ~Unread /\ ~sock.eof
    /\ LET b == IF Full(buf) THEN NewBuffer ELSE buf
           n == Min({net.arrived - b.last, b.size - (b.last - b.start)})
       IN  \/ n > 0 /\ buf' = [b EXCEPT !.last = @ + n] /\ UNCHANGED <<sock, pc>>
           \/ /\ n = 0 /\ net.end = "reset"
              /\ sock' = tcp_err(sock, "broken") /\ pc' = "failed" /\ buf' = b
           \/ /\ n = 0 /\ net.end = "closed"
              /\ sock' = [sock EXCEPT !.eof = TRUE] /\ buf' = b /\ UNCHANGED pc
    /\ UNCHANGED <<call, reader, net, conf, trapped>>

\* The reader is done: it has no more to wait for or to complain of.
ReaderOK(r) ==
    /\ reader' = r
    /\ sock' = [sock EXCEPT !.rh = "nop"]
    /\ call' = [call EXCEPT !.state = "received"]
    /\ pc' = "received"

ReaderError ==
    /\ sock' = tcp_err(sock, "reader")
    /\ pc' = "failed"
    /\ UNCHANGED <<call, reader, buf>>

\* The end of the stream, with nothing left to read.
ReadEnd ==
    /\ pc = "reading" /\ ~Unread /\ sock.eof
    /\ ReaderOK(reader)
    /\ UNCHANGED <<buf, net, conf, trapped>>

\* alloc_large_buffer() for a line that began after position `line`.
LargeBuffer(line) == [start |-> line, pos |-> buf.last, last |-> buf.last, size |-> LargeSize]
NoLargeBuffer(line) == buf.last - line >= LargeSize \/ sock.lbusy >= LargeNum

\* A line is not complete: what there is of it is kept, in a larger buffer
\* if need be.
AwaitLine(r, line) ==
    IF Full(buf) /\ NoLargeBuffer(line) THEN ReaderError
    ELSE /\ reader' = [r EXCEPT !.line = line]
         /\ buf' = IF Full(buf) THEN LargeBuffer(line) ELSE [buf EXCEPT !.pos = buf.last]
         /\ sock' = [sock EXCEPT !.lbusy = IF Full(buf) THEN @ + 1 ELSE @]
         /\ UNCHANGED <<call, pc>>

Seen(kinds) == {i \in buf.pos + 1 .. buf.last : Units[i] \in kinds}

\* The part of read_http_response() for the status line.
read_status_line ==
    /\ pc = "reading" /\ Unread /\ ~reader.status
    /\ LET stops == Seen({"eol", "blank", "bad"})
       IN  IF stops = {} THEN AwaitLine(reader, reader.line)
           ELSE IF Units[Min(stops)] # "eol" THEN ReaderError
           ELSE /\ reader' = [reader EXCEPT !.status = TRUE, !.line = Min(stops)]
                /\ buf' = [buf EXCEPT !.pos = Min(stops)]
                /\ UNCHANGED <<call, sock, pc>>
    /\ UNCHANGED <<net, conf, trapped>>

\* The part for the header lines that have been received.
read_headers ==
    /\ pc = "reading" /\ Unread /\ reader.status /\ ~reader.header_done
    /\ LET stops == Seen({"blank", "bad"})
           stop == IF stops = {} THEN buf.last ELSE Min(stops)
           lines == {i \in Seen({"eol"}) : i <= stop}
           r == [reader EXCEPT !.headers = @ + Cardinality(lines)]
           done == [r EXCEPT !.header_done = TRUE, !.line = stop]
           more == stop - buf.start < buf.last - buf.pos
       IN  IF stops = {} THEN AwaitLine(r, IF lines = {} THEN reader.line ELSE Max(lines))
           ELSE IF Units[stop] = "bad" THEN ReaderError
           ELSE /\ buf' = [buf EXCEPT !.pos = stop]
                /\ \/ more /\ reader' = done /\ pc' = "body" /\ UNCHANGED <<call, sock>>
                   \/ ~more /\ conf.resp.clen = 0 /\ ReaderOK(done)
                   \/ ~more /\ conf.resp.clen # 0 /\ reader' = done /\ UNCHANGED <<call, sock, pc>>
    /\ UNCHANGED <<net, conf, trapped>>

ReadBody ==
    /\ pc = "reading" /\ Unread /\ reader.header_done
    /\ pc' = "body"
    /\ UNCHANGED <<call, sock, buf, reader, net, conf, trapped>>

\* The body is copied out of the socket's buffers.
BodyRead(r) == ReaderOK([r EXCEPT !.body = IF r.body_len > 0 THEN r.chunks ELSE <<>>])

\* ngx_http_parse_chunked(): a size is told once data of the chunk is there.
parse_chunked ==
    /\ pc = "body" /\ conf.resp.chunked /\ reader.rest = 0
    /\ LET seen == reader.chunk > 0
           unit == IF Unread THEN Units[buf.pos + 1] ELSE "none"
           Chunk(size) == [reader EXCEPT !.chunk = 0, !.rest = size, !.body_len = @ + size]
       IN  \/ seen /\ reader' = Chunk(reader.chunk) /\ UNCHANGED <<call, sock, buf, pc>>
           \/ ~seen /\ ~Unread /\ pc' = "reading" /\ UNCHANGED <<call, sock, buf, reader>>
           \/ ~seen /\ Unread /\ unit \notin DOMAIN ChunkSize /\ ReaderError
           \/ /\ ~seen /\ Unread /\ unit = "k0"
              /\ buf' = [buf EXCEPT !.pos = @ + 1]
              /\ BodyRead(reader)
           \/ /\ ~seen /\ Unread /\ unit \in {"k1", "k2"}
              /\ buf' = [buf EXCEPT !.pos = @ + 1]
              /\ IF buf.pos + 1 = buf.last
                 THEN reader' = [reader EXCEPT !.chunk = ChunkSize[unit]] /\ pc' = "reading"
                 ELSE reader' = Chunk(ChunkSize[unit]) /\ UNCHANGED pc
              /\ UNCHANGED <<call, sock>>
    /\ UNCHANGED <<net, conf, trapped>>

\* The other beginning of an iteration, with a length or with neither.
read_content_length ==
    /\ pc = "body" /\ ~conf.resp.chunked /\ reader.rest = 0
    /\ \/ /\ conf.resp.clen > 0 /\ reader.body_len = 0
          /\ reader' = [reader EXCEPT !.body_len = conf.resp.clen, !.rest = conf.resp.clen]
          /\ UNCHANGED <<call, sock, pc>>
       \/ (conf.resp.clen <= 0 \/ reader.body_len > 0) /\ BodyRead(reader)
    /\ UNCHANGED <<buf, net, conf, trapped>>

\* Fault: the part of a chunk at the end of a buffer is kept back.
FaultReadBytes ==
    /\ pc = "body" /\ reader.rest > 0
    /\ LET bytes == buf.last - buf.pos
           n == Min({bytes, reader.rest})
       IN  /\ reader' = [reader EXCEPT !.rest = @ - n,
                            !.chunks = IF bytes < reader.rest THEN @
                                       ELSE @ \o [i \in 1 .. n |-> buf.pos + i]]
           /\ buf' = [buf EXCEPT !.pos = @ + n]
           /\ pc' = IF bytes >= reader.rest THEN "body" ELSE "reading"
    /\ UNCHANGED <<call, sock, net, conf, trapped>>

\* ngx_wa_read_bytes() into a new link of the chain of chunks.
read_bytes ==
    /\ pc = "body" /\ reader.rest > 0
    /\ LET bytes == buf.last - buf.pos
           n == Min({bytes, reader.rest})
       IN  IF bytes = 0 THEN ReaderError
           ELSE /\ reader' = [reader EXCEPT !.rest = @ - n,
                                 !.chunks = @ \o [i \in 1 .. n |-> buf.pos + i]]
                /\ buf' = [buf EXCEPT !.pos = @ + n]
                /\ pc' = IF bytes >= reader.rest THEN "body" ELSE "reading"
                /\ UNCHANGED <<call, sock>>
    /\ UNCHANGED <<net, conf, trapped>>

Handler ==
    \/ dispatch_resume_handler
    \/ tcp_connect
    \/ resolve_name
    \/ lua_resolver_resolve
    \/ connect_peer
    \/ ssl_handshake
    \/ tcp_send
    \/ tcp_read
    \/ Wait
    \/ Receive
    \/ ReadEnd
    \/ read_status_line
    \/ read_headers
    \/ ReadBody
    \/ parse_chunked
    \/ read_content_length
    \/ read_bytes
    \/ Received
    \/ dispatch_err

----------------------------------------------------------------------------
\* The events of the worker's loop.

\* The initial event, posted when the filter dispatches the call.
dispatch_handler ==
    /\ pc = "loop" /\ call.posted
    /\ call' = [call EXCEPT !.posted = FALSE]
    /\ pc' = "resume"
    /\ UNCHANGED <<sock, buf, reader, net, conf, trapped>>

\* The answer of nginx's resolver.
resolve_handler ==
    /\ pc = "loop" /\ sock.resolving /\ ~call.freed /\ conf.resolver = "nginx"
    /\ \/ sock' = [sock EXCEPT !.resolving = FALSE] /\ pc' = "resolved"
       \/ sock' = tcp_err([sock EXCEPT !.resolving = FALSE], "resolver") /\ pc' = "resume"
    /\ UNCHANGED <<call, buf, reader, net, conf, trapped>>

\* Nobody told nginx's resolver that the call it answers was destroyed: the
\* handler runs on a socket that is freed, and what it does is undefined.
LateAnswer ==
    /\ pc = "loop" /\ sock.resolving /\ call.freed /\ conf.resolver = "nginx"
    /\ sock' = [sock EXCEPT !.resolving = FALSE]
    /\ pc' = "undefined"
    /\ UNCHANGED <<call, buf, reader, net, conf, trapped>>

\* The Lua thread goes on and ends: both its handlers lead to
\* resolve_handler().
LuaEnds(s, at) ==
    /\ pc = "loop" /\ sock.resolving /\ conf.resolver = "lua"
    /\ sock' = s
    /\ pc' = at
    /\ UNCHANGED <<call, buf, reader, net, conf, trapped>>

lua_resolver_success_handler == LuaEnds([sock EXCEPT !.resolving = FALSE], "resolved")
lua_resolver_error_handler ==
    LuaEnds(tcp_err([sock EXCEPT !.resolving = FALSE], "resolver"), "resume")

connect_handler(s, timedout) ==
    LET d == [s EXCEPT !.rh = "nop", !.wh = "nop"]
    IN  IF timedout THEN tcp_err(s, "timeout")
        ELSE IF net.link = "refused" THEN tcp_err(d, "broken")
        ELSE [d EXCEPT !.wtimer = FALSE, !.connected = TRUE]

send_handler(s, timedout) == IF timedout THEN tcp_err(s, "timeout") ELSE s

receive_handler(s, timedout) ==
    IF timedout THEN tcp_err(s, "timeout") ELSE [s EXCEPT !.rtimer = FALSE]

EventHandler(h, s, timedout) ==
    CASE h = "connect" -> connect_handler(s, timedout)
      [] h = "send" -> send_handler(s, timedout)
      [] h = "receive" -> receive_handler(s, timedout)
      [] h = "nop" -> s

\* While TLS shakes hands its own handlers take the events.
Listening == sock.conn /\ sock.ssl # "handshake"

tcp_handler(h, s, timedout) ==
    /\ pc = "loop" /\ Listening
    /\ sock' = EventHandler(h, s, timedout)
    /\ pc' = "resume"
    /\ UNCHANGED <<call, buf, reader, conf, trapped>>

WriteEvent ==
    /\ net.wevent /\ net' = [net EXCEPT !.wevent = FALSE]
    /\ tcp_handler(sock.wh, sock, FALSE)
ReadEvent ==
    /\ net.revent /\ net' = [net EXCEPT !.revent = FALSE]
    /\ tcp_handler(sock.rh, sock, FALSE)
WriteTimeout ==
    /\ sock.wtimer /\ UNCHANGED net
    /\ tcp_handler(sock.wh, [sock EXCEPT !.wtimer = FALSE], TRUE)
ReadTimeout ==
    /\ sock.rtimer /\ UNCHANGED net
    /\ tcp_handler(sock.rh, [sock EXCEPT !.rtimer = FALSE], TRUE)

\* The handshake is over or failed, or its time is.
ssl_handshake_handler(outcomes) ==
    /\ pc = "loop" /\ sock.conn /\ sock.ssl = "handshake"
    /\ sock' \in outcomes
    /\ pc' = "resume"
    /\ UNCHANGED <<call, buf, reader, net, conf, trapped>>

SslEvent == ssl_handshake_handler(ssl_handshake_done(sock) \cup {tcp_err(sock, "tls")})
SslTimeout ==
    /\ sock.wtimer
    /\ ssl_handshake_handler({tcp_err([sock EXCEPT !.wtimer = FALSE], "tls")})

\* The filter sends a local response, which cancels its calls.
Cancel ==
    /\ pc = "loop" /\ ~call.freed
    /\ dispatch_destroy([call EXCEPT !.cancelled = TRUE])
    /\ UNCHANGED <<reader, net, conf, trapped>>

\* Another context of the filter traps on the same instance.
Trap ==
    /\ pc = "loop" /\ ~call.freed /\ ~trapped
    /\ trapped' = TRUE
    /\ UNCHANGED <<pc, call, sock, buf, reader, net, conf>>

Worker ==
    \/ dispatch_handler
    \/ resolve_handler
    \/ LateAnswer
    \/ lua_resolver_success_handler
    \/ lua_resolver_error_handler
    \/ WriteEvent
    \/ ReadEvent
    \/ WriteTimeout
    \/ ReadTimeout
    \/ SslEvent
    \/ SslTimeout
    \/ Cancel
    \/ Trap

\* The moves of kernel and peer.
Move(n) == net' = n /\ UNCHANGED <<pc, call, sock, buf, reader, conf, trapped>>

Established ==
    /\ sock.conn /\ net.link = "connecting"
    /\ \/ Move([net EXCEPT !.link = "up", !.wevent = TRUE])
       \/ Move([net EXCEPT !.link = "refused", !.wevent = TRUE, !.revent = TRUE])

PeerTakes ==
    /\ sock.conn /\ ~net.wevent /\ sock.wh = "send"
    /\ Move([net EXCEPT !.room = TRUE, !.wevent = TRUE])

PeerSends ==
    /\ sock.conn /\ net.end = "open" /\ sock.unsent = 0
    /\ \E n \in net.arrived + 1 .. Len(Units) :
           Move([net EXCEPT !.arrived = n, !.revent = TRUE])

PeerEnds ==
    /\ sock.conn /\ net.link = "up" /\ net.end = "open"
    /\ \E how \in {"closed", "reset"} : Move([net EXCEPT !.end = how, !.revent = TRUE])

\* Nothing is left to happen.
Ended == call.freed /\ UNCHANGED vars

Next ==
    \/ Handler
    \/ Worker
    \/ Established
    \/ PeerTakes
    \/ PeerSends
    \/ PeerEnds
    \/ Ended

\* A handler runs to its end.  Posted events, ready connections, expired
\* timers and queries, which have a timeout of their own, are all served by
\* the loop.  The peer owes nothing.
Fairness ==
    /\ WF_vars(Handler)
    /\ WF_vars(dispatch_handler)
    /\ WF_vars(resolve_handler)
    /\ WF_vars(lua_resolver_success_handler \/ lua_resolver_error_handler)
    /\ WF_vars(WriteEvent)
    /\ WF_vars(ReadEvent)
    /\ WF_vars(WriteTimeout)
    /\ WF_vars(ReadTimeout)
    /\ WF_vars(SslTimeout)

Spec == Init /\ [][Next]_vars /\ Fairness

----------------------------------------------------------------------------
BodyOf(units) ==
    SelectSeq([i \in 1 .. Len(units) |-> IF units[i] = "b" THEN i ELSE 0], LAMBDA i : i > 0)

\* A response that a filter is given without an error carries the whole body
\* the peer sent, whatever way it was cut into segments and buffers.  Only a
\* body that the peer left off, or did not delimit, is missing, and then as a
\* whole; with an error there is no body (ngx_wasm_read_http_response(),
\* ngx_wa_read_bytes(), ngx_wasm_socket_tcp_read()).
WholeBody ==
    \A i \in 1 .. Len(call.answers) :
        LET a == call.answers[i]
            delimited == conf.resp.chunked \/ conf.resp.clen >= 0
            leftoff == sock.eof /\ net.arrived < Len(Units)
        IN  \/ a.body = BodyOf(Units) /\ a.body_len = Len(a.body)
            \/ a.body = <<>> /\ (call.state # "received" \/ ~delimited \/ leftoff)

\* A call ends with exactly one on_http_call_response(), whichever of answer,
\* error, timeout and trap came first, and with none when it was cancelled
\* (the labels of the resume handler, ngx_http_proxy_wasm_dispatch_err()).
AnsweredOnce ==
    Len(call.answers) = IF call.freed /\ ~call.cancelled THEN 1 ELSE 0

\* Nobody waits for nothing: while a call goes on, its event is posted, a
\* query is out, a timer runs or its connection has an event, unless the
\* connection failed at once in the resolver's handler.  Once the socket is
\* closed it has no posted event, connection, timer or Lua thread, so that no
\* handler can come to run on it.  One query may be left: that of nginx's
\* resolver for a call that was cancelled
\* (ngx_wasm_socket_resolve_handler(), connect_peer(), finalize_read(),
\* ngx_wasm_socket_tcp_destroy()).
AlwaysArmed ==
    /\ pc = "loop" /\ ~call.freed =>
           \/ call.posted \/ sock.resolving \/ sock.wtimer \/ sock.rtimer
           \/ Listening /\ net.wevent
           \/ sock.stuck
    /\ sock.closed => ~call.posted /\ ~sock.conn /\ ~sock.wtimer /\ ~sock.rtimer
    /\ pc = "undefined" \/ (sock.closed /\ sock.resolving) =>
           call.cancelled /\ conf.resolver = "nginx"

\* Every call ends, even with a peer that falls silent at any point, but for
\* the connection that fails at once in the resolver's handler.
CallEnds == <>(call.freed \/ sock.stuck)
=============================================================================
