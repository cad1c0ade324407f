---------------------------- MODULE SocketProofs ----------------------------
(***************************************************************************)
(* A dispatch call is answered once and never waits for nothing, whatever  *)
(* the response, the resolver and the sizes of the buffers.                *)
(***************************************************************************)
EXTENDS Socket, TLAPS

Handlers == {"nop", "connect", "send", "receive"}

\* The fields that the arguments below look at.
Sockets ==
    [err : Errors, resolving : BOOLEAN, conn : BOOLEAN, connected : BOOLEAN, closed : BOOLEAN,
     ssl : {"none", "handshake", "ready", "failed"}, wh : Handlers, rh : Handlers,
     wtimer : BOOLEAN, rtimer : BOOLEAN, unsent : Nat, eof : BOOLEAN, lbusy : Nat,
     stuck : BOOLEAN]

IsCall(c) ==
    c = [state |-> c.state, posted |-> c.posted, answers |-> c.answers,
         freed |-> c.freed, cancelled |-> c.cancelled]

IsNet(n) ==
    n = [link |-> n.link, arrived |-> n.arrived, end |-> n.end,
         room |-> n.room, revent |-> n.revent, wevent |-> n.wevent]

Shapes ==
    /\ IsCall(call)
    /\ {call.posted, call.freed, call.cancelled} \subseteq BOOLEAN
    /\ sock \in Sockets
    /\ IsNet(net)

\* A call that is freed is out of reach of every event of its own, and has been answered
\* unless it was cancelled.
Freed ==
    /\ call.freed => /\ pc \in {"loop", "undefined"} /\ sock.closed
                     /\ ~call.posted /\ ~sock.conn
                     /\ ~(sock.resolving /\ conf.resolver = "lua")
    /\ ~call.freed => pc # "undefined" /\ ~call.cancelled /\ call.answers = <<>>

\* A socket that is closed is about to be freed and has no connection.
Closed ==
    sock.closed => /\ pc = "failed" \/ call.freed
                   /\ ~sock.conn /\ ~sock.wtimer /\ ~sock.rtimer

\* One thing at a time: the posted event, a query, a connection in progress
\* and a connection exclude each other.
Stages ==
    /\ call.posted => pc = "loop" /\ ~sock.resolving /\ ~sock.conn
    /\ sock.resolving => pc = "loop" /\ ~sock.conn /\ conf.resolver \in {"nginx", "lua"}
    /\ sock.conn /\ ~sock.connected =>
           \/ pc = "loop" /\ sock.wh = "connect" /\ sock.rh = "connect"
           \/ pc = "resume" /\ sock.err # "none"
           \/ pc = "failed"
    /\ pc \in {"resolve", "peer", "resolved"} => ~sock.conn
    /\ sock.connected => sock.conn
    /\ ~sock.connected /\ ~sock.closed => sock.ssl = "none"
    /\ pc = "handshake" => sock.connected
    /\ pc \in {"connect", "handshake"} \/ (pc = "resume" /\ sock.err = "none") =>
           sock.ssl # "handshake"

CallInv == Shapes /\ Freed /\ Closed /\ Stages /\ AnsweredOnce /\ AlwaysArmed

----------------------------------------------------------------------------
\* Two sockets that differ in no more than the error, the handlers, the timers
\* and what only the reader looks at.
SameStage(t, s) ==
    /\ t.resolving = s.resolving /\ t.conn = s.conn /\ t.connected = s.connected
    /\ t.closed = s.closed /\ t.ssl = s.ssl /\ t.stuck = s.stuck

\* ngx_wasm_socket_tcp_err() leaves the socket with an error, and changes
\* nothing else of it.
LEMMA ErrShape ==
    ASSUME NEW s \in Sockets, NEW e \in Errors \ {"none"}
    PROVE  /\ tcp_err(s, e) \in Sockets /\ SameStage(tcp_err(s, e), s)
           /\ tcp_err(s, e).err # "none"
           /\ tcp_err(s, e).wtimer = s.wtimer /\ tcp_err(s, e).rtimer = s.rtimer
           /\ tcp_err(s, e).wh = s.wh /\ tcp_err(s, e).rh = s.rh
<1>1. CASE s.err = "none"
    BY <1>1, Zenon DEF tcp_err, Sockets, SameStage
<1>2. CASE s.err # "none"
    BY <1>2, Zenon DEF tcp_err, SameStage
<1> QED
    BY <1>1, <1>2, Zenon

\* ngx_wasm_socket_tcp_close(): no connection and no timer is left.
LEMMA CloseShape ==
    ASSUME NEW s \in Sockets, s.closed => ~s.conn /\ ~s.connected /\ ~s.wtimer /\ ~s.rtimer
    PROVE  LET t == tcp_close(s) IN
           /\ t \in Sockets
           /\ t.closed /\ ~t.conn /\ ~t.connected /\ ~t.wtimer /\ ~t.rtimer
           /\ t.resolving = s.resolving /\ t.stuck = s.stuck
BY ZenonT(30) DEF tcp_close, finalize_read, finalize_write, Sockets, Handlers

\* ngx_wasm_socket_tcp_destroy(): moreover, no Lua thread is left.
LEMMA DestroyShape ==
    ASSUME NEW s \in Sockets, s.closed => ~s.conn /\ ~s.connected /\ ~s.wtimer /\ ~s.rtimer
    PROVE  LET t == tcp_destroy(s) IN
           /\ t \in Sockets
           /\ t.closed /\ ~t.conn /\ ~t.connected /\ ~t.wtimer /\ ~t.rtimer
           /\ ~(t.resolving /\ conf.resolver = "lua")
           /\ t.resolving => s.resolving
<1> DEFINE d == [tcp_close(s) EXCEPT !.lbusy = 0]
           r == [tcp_err(d, "resolver") EXCEPT !.resolving = FALSE]
<1>1. /\ d \in Sockets
      /\ d.closed /\ ~d.conn /\ ~d.connected /\ ~d.wtimer /\ ~d.rtimer
      /\ d.resolving = s.resolving
    BY CloseShape DEF Sockets
<1>2. tcp_err(d, "resolver") \in Sockets /\ SameStage(tcp_err(d, "resolver"), d)
      /\ tcp_err(d, "resolver").wtimer = d.wtimer /\ tcp_err(d, "resolver").rtimer = d.rtimer
    BY <1>1, ErrShape, Zenon DEF Errors
<1>3. r \in Sockets /\ r.closed /\ ~r.conn /\ ~r.connected /\ ~r.wtimer /\ ~r.rtimer /\ ~r.resolving
    BY <1>1, <1>2, Zenon DEF Sockets, SameStage
<1>4. tcp_destroy(s) = IF d.resolving /\ conf.resolver = "lua" THEN r ELSE d
    BY Zenon DEF tcp_destroy
<1> QED
    BY <1>1, <1>3, <1>4, Zenon

\* A handler of the connection's events leaves a socket that is connected or
\* has an error.
LEMMA EventShape ==
    ASSUME NEW s \in Sockets, NEW h \in {s.wh, s.rh}, NEW timedout \in BOOLEAN,
           s.connected \/ h = "connect"
    PROVE  LET t == EventHandler(h, s, timedout) IN
           /\ t \in Sockets
           /\ t.resolving = s.resolving /\ t.conn = s.conn /\ t.closed = s.closed
           /\ t.ssl = s.ssl /\ t.stuck = s.stuck
           /\ t.connected \/ (t.err # "none" /\ t.connected = s.connected)
<1>1. h \in Handlers
    BY Zenon DEF Sockets
<1>2. CASE h = "nop"
    BY <1>2, Zenon DEF EventHandler
<1>3. CASE timedout /\ h # "nop"
    <2>1. EventHandler(h, s, timedout) = tcp_err(s, "timeout")
        BY <1>1, <1>3, Zenon DEF EventHandler, connect_handler, send_handler, receive_handler,
            Handlers
    <2> QED
        BY <2>1, ErrShape DEF SameStage, Errors
<1>4. CASE ~timedout /\ h = "send"
    BY <1>4, Zenon DEF EventHandler, send_handler
<1>5. CASE ~timedout /\ h = "receive"
    <2>1. EventHandler(h, s, timedout) = [s EXCEPT !.rtimer = FALSE]
        BY <1>5, Zenon DEF EventHandler, receive_handler
    <2> QED
        BY <2>1, <1>5, ZenonT(60) DEF Sockets
<1>6. CASE ~timedout /\ h = "connect"
    <2> DEFINE d == [s EXCEPT !.rh = "nop", !.wh = "nop"]
    <2>1. d \in Sockets /\ SameStage(d, s)
        BY Zenon DEF Sockets, SameStage, Handlers
    <2>2. CASE net.link = "refused"
        <3>1. EventHandler(h, s, timedout) = tcp_err(d, "broken")
            BY <1>6, <2>2, Zenon DEF EventHandler, connect_handler
        <3> HIDE DEF d
        <3> QED
            BY <2>1, <3>1, ErrShape DEF SameStage, Errors
    <2>3. CASE net.link # "refused"
        <3> DEFINE c == [d EXCEPT !.wtimer = FALSE, !.connected = TRUE]
        <3>1. EventHandler(h, s, timedout) = c
            BY <1>6, <2>3, Zenon DEF EventHandler, connect_handler
        <3> HIDE DEF d
        <3>2. /\ c \in Sockets /\ c.connected
              /\ c.resolving = d.resolving /\ c.conn = d.conn /\ c.closed = d.closed
              /\ c.ssl = d.ssl /\ c.stuck = d.stuck
            BY <2>1, Zenon DEF Sockets
        <3> HIDE DEF c
        <3> QED
            BY <2>1, <3>1, <3>2, Zenon DEF SameStage
    <2> QED
        BY <2>2, <2>3, Zenon
<1> QED
    BY <1>1, <1>2, <1>3, <1>4, <1>5, <1>6, Zenon DEF Handlers

\* The filter is told of the end of a call by one append to no answers.
LEMMA FirstAnswer ==
    ASSUME NEW e PROVE Len(Append(<<>>, e)) = 1
OBVIOUS

\* The invariant holds when the filter has just dispatched the call.
LEMMA InitCallInv == Init => CallInv
BY SizesAssumption DEF Init, CallInv, Shapes, Freed, Closed, Stages, AnsweredOnce, AlwaysArmed,
    Sockets, Handlers, Errors, Listening, IsCall, IsNet

\* A handler of an event that leaves the socket connected or with an error
\* may hand over to the resume handler of the call.
LEMMA Resumed ==
    ASSUME CallInv, pc = "loop", ~call.freed, ~call.posted, pc' = "resume",
           UNCHANGED <<call, conf>>, sock' \in Sockets,
           net' \in {net, [net EXCEPT !.wevent = FALSE], [net EXCEPT !.revent = FALSE]},
           ~sock'.closed, ~sock'.resolving, sock'.connected => sock'.conn,
           sock'.conn => sock'.connected \/ sock'.err # "none",
           ~sock'.connected => sock'.ssl = "none",
           sock'.err = "none" => sock'.ssl # "handshake"
    PROVE  CallInv'
<1>1. Shapes'
    BY Zenon DEF CallInv, Shapes, IsCall, IsNet
<1>2. Freed' /\ AnsweredOnce'
    BY Zenon DEF CallInv, Freed, AnsweredOnce
<1>3. Closed' /\ Stages' /\ AlwaysArmed'
    BY Zenon DEF CallInv, Shapes, Sockets, Closed, Stages, AlwaysArmed
<1> QED
    BY <1>1, <1>2, <1>3, Zenon DEF CallInv

\* The events of a connection, with or without their timer.
LEMMA Handled ==
    ASSUME CallInv, NEW s \in Sockets, NEW h \in {s.wh, s.rh}, NEW timedout \in BOOLEAN,
           SameStage(s, sock), s.wh = sock.wh, s.rh = sock.rh, tcp_handler(h, s, timedout),
           net' \in {net, [net EXCEPT !.wevent = FALSE], [net EXCEPT !.revent = FALSE]}
    PROVE  CallInv'
<1>1. /\ pc = "loop" /\ sock.conn /\ sock.ssl # "handshake" /\ pc' = "resume"
      /\ sock' = EventHandler(h, s, timedout)
      /\ UNCHANGED <<call, conf>>
    BY Zenon DEF tcp_handler, Listening
<1>2. /\ ~call.freed /\ ~call.posted /\ ~sock.closed /\ ~sock.resolving
      /\ sock.connected \/ h = "connect"
      /\ ~sock.connected => sock.ssl = "none"
    BY <1>1, Zenon DEF CallInv, Freed, Closed, Stages
<1>3. s.connected \/ h = "connect"
    BY <1>2, Zenon DEF SameStage
<1>4. /\ sock' \in Sockets
      /\ sock'.resolving = s.resolving /\ sock'.conn = s.conn /\ sock'.closed = s.closed
      /\ sock'.ssl = s.ssl
      /\ sock'.connected \/ (sock'.err # "none" /\ sock'.connected = s.connected)
    BY <1>1, <1>3, EventShape
<1>5. /\ ~sock'.closed /\ ~sock'.resolving
      /\ sock'.connected => sock'.conn
      /\ sock'.conn => sock'.connected \/ sock'.err # "none"
      /\ ~sock'.connected => sock'.ssl = "none"
      /\ sock'.ssl # "handshake"
    BY <1>1, <1>2, <1>4, Zenon DEF SameStage
<1> QED
    BY <1>1, <1>2, <1>4, <1>5, Resumed, Zenon

\* ngx_http_proxy_wasm_dispatch_destroy() ends a call that was told to the
\* filter, or cancelled.
LEMMA Destroyed ==
    ASSUME CallInv, ~call.freed, NEW c, dispatch_destroy(c), UNCHANGED <<net, conf>>,
           IsCall(c),
           c.cancelled \in BOOLEAN, Len(c.answers) = IF c.cancelled THEN 0 ELSE 1,
           sock.resolving => c.cancelled
    PROVE  CallInv'
<1>1. sock.closed => ~sock.conn /\ ~sock.connected /\ ~sock.wtimer /\ ~sock.rtimer
    BY Zenon DEF CallInv, Shapes, Sockets, Closed, Stages
<1>2. /\ sock' \in Sockets
      /\ sock'.closed /\ ~sock'.conn /\ ~sock'.connected /\ ~sock'.wtimer /\ ~sock'.rtimer
      /\ ~(sock'.resolving /\ conf.resolver = "lua")
      /\ sock'.resolving => sock.resolving
    BY <1>1, DestroyShape, Zenon DEF CallInv, Shapes, dispatch_destroy
<1>3. call' = [c EXCEPT !.posted = FALSE, !.freed = TRUE] /\ pc' = "loop"
    BY Zenon DEF dispatch_destroy
<1>4. /\ IsCall(call')
      /\ call'.posted = FALSE /\ call'.freed = TRUE /\ call'.cancelled = c.cancelled
      /\ call'.answers = c.answers
    BY <1>3, Zenon DEF IsCall
<1>5. Shapes'
    BY <1>2, <1>4, Zenon DEF CallInv, Shapes, IsCall, IsNet
<1>6. sock'.resolving => c.cancelled /\ conf.resolver = "nginx"
    BY <1>2, Zenon DEF CallInv, Stages
<1>7. Freed' /\ Closed' /\ Stages' /\ AlwaysArmed' /\ AnsweredOnce'
    BY <1>2, <1>3, <1>4, <1>6, Zenon DEF Freed, Closed, Stages, AlwaysArmed, AnsweredOnce
<1> QED
    BY <1>5, <1>7, Zenon DEF CallInv

\* Every function of a handler keeps the invariant.
LEMMA HandlerStep ==
    ASSUME CallInv, Handler PROVE CallInv'
<1> USE DEF CallInv, Shapes, Freed, Closed, Stages, AnsweredOnce, AlwaysArmed, Sockets, Handlers,
            Errors, Listening, IsCall, IsNet
<1>1. CASE dispatch_resume_handler
    BY <1>1 DEF dispatch_resume_handler
<1>2. CASE tcp_connect
    BY <1>2 DEF tcp_connect, Onward
<1>3. CASE resolve_name
    BY <1>3, Zenon DEF resolve_name, Resolve
<1>4. CASE lua_resolver_resolve
    BY <1>4, Zenon DEF lua_resolver_resolve, Resolve
<1>5. CASE connect_peer
    <2>1. pc \in {"peer", "resolved"} /\ ~sock.conn /\ ~sock.connected /\ sock.ssl = "none"
          /\ ~sock.closed /\ ~sock.resolving /\ ~call.freed /\ ~call.posted
          /\ UNCHANGED conf
        BY <1>5, Zenon DEF connect_peer
    <2>2. CASE Returned("error") /\ UNCHANGED net
               /\ \E s \in {sock, tcp_err(sock, "broken")} :
                      sock' = [s EXCEPT !.stuck = pc = "resolved"]
        <3>1. PICK s \in {sock, tcp_err(sock, "broken")} :
                     sock' = [s EXCEPT !.stuck = pc = "resolved"]
            BY <2>2, Zenon
        <3>2. s \in Sockets /\ SameStage(s, sock)
            BY ErrShape DEF SameStage
        <3>3. /\ sock' \in Sockets /\ sock'.stuck = (pc = "resolved")
              /\ ~sock'.conn /\ ~sock'.connected /\ sock'.ssl = "none" /\ ~sock'.closed
              /\ ~sock'.resolving
            BY <2>1, <3>1, <3>2, ZenonT(30) DEF SameStage
        <3>4. UNCHANGED call /\ pc' = IF pc = "resolved" THEN "loop" ELSE "failed"
            BY <2>1, <2>2, Zenon DEF Returned
        <3> QED
            BY <2>1, <2>2, <3>3, <3>4, Zenon
    <2>3. CASE /\ Returned("ok")
               /\ sock' = [sock EXCEPT !.conn = TRUE, !.connected = TRUE]
               /\ net' = [net EXCEPT !.link = "up", !.wevent = TRUE]
        <3>1. /\ sock' \in Sockets /\ sock'.conn /\ sock'.connected /\ sock'.ssl = "none"
              /\ ~sock'.closed /\ ~sock'.resolving
            BY <2>1, <2>3, Zenon
        <3>2. \/ pc' = "loop" /\ UNCHANGED call
              \/ pc' = "handshake" /\ UNCHANGED call
              \/ pc' = "send" /\ call' = [call EXCEPT !.state = "sending"]
            BY <2>1, <2>3, Zenon DEF Returned, Onward
        <3>3. /\ call'.posted = call.posted /\ call'.freed = call.freed
              /\ call'.cancelled = call.cancelled /\ call'.answers = call.answers
              /\ IsCall(call')
            BY <3>2, Zenon
        <3>4. /\ net'.wevent
              /\ IsNet(net')
            BY <2>3, Zenon
        <3> QED
            BY <2>1, <3>1, <3>2, <3>3, <3>4
    <2>4. CASE /\ Returned("again")
               /\ sock' = [sock EXCEPT !.conn = TRUE, !.wtimer = TRUE,
                                       !.rh = "connect", !.wh = "connect"]
               /\ net' = [net EXCEPT !.link = "connecting"]
        <3>1. /\ sock' \in Sockets /\ sock'.conn /\ ~sock'.connected /\ sock'.ssl = "none"
              /\ sock'.wtimer /\ sock'.wh = "connect" /\ sock'.rh = "connect"
              /\ ~sock'.closed /\ ~sock'.resolving
            BY <2>1, <2>4, Zenon
        <3>2. pc' = "loop" /\ UNCHANGED call
            BY <2>1, <2>4, Zenon DEF Returned
        <3> QED
            BY <2>1, <2>4, <3>1, <3>2, Zenon
    <2> QED
        BY <1>5, <2>2, <2>3, <2>4, Zenon DEF connect_peer
<1>6. CASE ssl_handshake
    <2>1. /\ pc = "handshake" /\ sock.conn /\ sock.connected /\ ~sock.closed /\ ~sock.resolving
          /\ sock.ssl # "handshake" /\ ~call.freed /\ ~call.posted /\ UNCHANGED <<net, conf>>
        BY <1>6, Zenon DEF ssl_handshake
    <2>2. /\ tcp_err(sock, "tls") \in Sockets /\ SameStage(tcp_err(sock, "tls"), sock)
        BY ErrShape, Zenon
    <2>3. \/ sock' \in {sock, tcp_err(sock, "tls"), [sock EXCEPT !.ssl = "ready"],
                        [sock EXCEPT !.ssl = "failed"]}
          \/ sock' = [sock EXCEPT !.ssl = "handshake", !.wtimer = TRUE]
        BY <1>6, Zenon DEF ssl_handshake, ssl_handshake_done
    <2>4. /\ sock' \in Sockets
          /\ sock'.conn /\ sock'.connected /\ ~sock'.closed /\ ~sock'.resolving
          /\ sock'.ssl = "handshake" => sock'.wtimer
        <3>1. CASE sock' \in {sock, tcp_err(sock, "tls")}
            BY <2>1, <2>2, <3>1, ZenonT(60) DEF SameStage
        <3>2. CASE sock' = [sock EXCEPT !.ssl = "ready"]
            BY <2>1, <3>2, Zenon
        <3>3. CASE sock' = [sock EXCEPT !.ssl = "failed"]
            BY <2>1, <3>3, Zenon
        <3>4. CASE sock' = [sock EXCEPT !.ssl = "handshake", !.wtimer = TRUE]
            BY <2>1, <3>4, Zenon
        <3> QED
            BY <2>3, <3>1, <3>2, <3>3, <3>4, Zenon
    <2>5. \/ pc' = "send" /\ call' = [call EXCEPT !.state = "sending"]
          \/ pc' = "loop" /\ UNCHANGED call /\ sock'.ssl = "handshake"
          \/ pc' = "failed" /\ UNCHANGED call
        BY <1>6, Zenon DEF ssl_handshake
    <2>6. /\ call'.posted = call.posted /\ call'.freed = call.freed
          /\ call'.cancelled = call.cancelled /\ call'.answers = call.answers
          /\ IsCall(call')
        BY <2>5, Zenon
    <2> QED
        BY <2>1, <2>4, <2>5, <2>6
<1>7. CASE tcp_send
    <2>1. pc = "send" /\ UNCHANGED conf /\ net' = [net EXCEPT !.room = FALSE]
        BY <1>7, Zenon DEF tcp_send
    <2>2. CASE /\ sock' = [sock EXCEPT !.unsent = 0, !.wtimer = FALSE, !.wh = "nop"]
               /\ call' = [call EXCEPT !.state = "receiving"]
               /\ pc' = "read"
        BY <2>1, <2>2, Zenon
    <2>3. ASSUME NEW rest \in 1 .. IF net.room THEN sock.unsent - 1 ELSE sock.unsent,
                 sock' = [sock EXCEPT !.unsent = rest, !.wtimer = TRUE, !.wh = "send"],
                 pc' = "loop", UNCHANGED call
          PROVE  CallInv'
        <3>1. rest \in Nat
            OBVIOUS
        <3> QED
            BY <2>1, <2>3, <3>1, Zenon
    <2>4. CASE sock' = tcp_err(sock, "broken") /\ pc' = "failed" /\ UNCHANGED call
        <3>1. /\ sock' \in Sockets /\ SameStage(sock', sock) /\ sock'.err # "none"
              /\ sock'.wtimer = sock.wtimer /\ sock'.rtimer = sock.rtimer
            BY <2>4, ErrShape
        <3> QED
            BY <2>1, <2>4, <3>1, Zenon DEF SameStage
    <2> QED
        BY <1>7, <2>2, <2>3, <2>4, Zenon DEF tcp_send
<1>8. CASE tcp_read
    BY <1>8, Zenon DEF tcp_read
<1>9. CASE Wait
    BY <1>9, Zenon DEF Wait
<1>10. CASE Receive
    <2>1. pc = "reading" /\ UNCHANGED <<call, net, conf>>
        BY <1>10, Zenon DEF Receive
    <2>2. \/ UNCHANGED <<sock, pc>>
          \/ sock' = tcp_err(sock, "broken") /\ pc' = "failed"
          \/ sock' = [sock EXCEPT !.eof = TRUE] /\ UNCHANGED pc
        BY <1>10, Zenon DEF Receive
    <2>3. CASE UNCHANGED <<sock, pc>>
        BY <2>1, <2>3
    <2>4. CASE sock' = tcp_err(sock, "broken") /\ pc' = "failed"
        <3>1. /\ sock' \in Sockets /\ SameStage(sock', sock) /\ sock'.err # "none"
              /\ sock'.wtimer = sock.wtimer /\ sock'.rtimer = sock.rtimer
            BY <2>4, ErrShape
        <3> QED
            BY <2>1, <2>4, <3>1, Zenon DEF SameStage
    <2>5. CASE sock' = [sock EXCEPT !.eof = TRUE] /\ UNCHANGED pc
        BY <2>1, <2>5, Zenon
    <2> QED
        BY <2>2, <2>3, <2>4, <2>5, Zenon
<1>11. CASE ReadEnd
    BY <1>11, Zenon DEF ReadEnd, ReaderOK
<1>12. CASE read_status_line
    BY <1>12 DEF read_status_line, AwaitLine, ReaderError, tcp_err
<1>13. CASE read_headers
    BY <1>13 DEF read_headers, AwaitLine, ReaderError, ReaderOK, tcp_err
<1>14. CASE ReadBody
    BY <1>14 DEF ReadBody
<1>15. CASE parse_chunked
    BY <1>15 DEF parse_chunked, ReaderError, BodyRead, ReaderOK, tcp_err
<1>16. CASE read_content_length
    BY <1>16 DEF read_content_length, BodyRead, ReaderOK
<1>17. CASE read_bytes
    BY <1>17 DEF read_bytes, ReaderError, tcp_err
<1>18. CASE Received
    <2>1. pc = "received" /\ ~call.freed /\ ~sock.closed /\ UNCHANGED <<net, conf>>
        BY <1>18, Zenon DEF Received
    <2>2. CASE sock' = tcp_close(sock) /\ pc' = "failed" /\ UNCHANGED call
        <3>1. /\ sock' \in Sockets
              /\ sock'.closed /\ ~sock'.conn /\ ~sock'.connected /\ ~sock'.wtimer /\ ~sock'.rtimer
              /\ sock'.resolving = sock.resolving
            BY <2>1, <2>2, CloseShape, Zenon
        <3> QED
            BY <2>1, <2>2, <3>1, Zenon
    <2>3. CASE dispatch_destroy(invoke_on_http_dispatch_response(call))
        <3> DEFINE c == invoke_on_http_dispatch_response(call)
        <3>1. /\ IsCall(c)
              /\ c.cancelled = FALSE /\ Len(c.answers) = 1
            BY <2>1, FirstAnswer DEF invoke_on_http_dispatch_response
        <3> HIDE DEF c
        <3> QED
            BY <2>1, <2>3, <3>1, Destroyed, Zenon DEF c
    <2> QED
        BY <1>18, <2>2, <2>3, Zenon DEF Received
<1>19. CASE dispatch_err
    BY FirstAnswer, <1>19, ZenonT(30) DEF dispatch_err, dispatch_destroy,
        invoke_on_http_dispatch_response, tcp_destroy, tcp_close, finalize_read, finalize_write,
        tcp_err
<1> QED
    BY <1>1, <1>2, <1>3, <1>4, <1>5, <1>6, <1>7, <1>8, <1>9, <1>10, <1>11, <1>12, <1>13, <1>14,
        <1>15, <1>16, <1>17, <1>18, <1>19, ZenonT(30) DEF Handler

\* So does every event of the loop.
LEMMA WorkerStep ==
    ASSUME CallInv, Worker PROVE CallInv'
<1> USE DEF CallInv, Shapes, Freed, Closed, Stages, AnsweredOnce, AlwaysArmed, Sockets, Handlers,
            Errors, Listening, IsCall, IsNet
<1>1. CASE dispatch_handler
    <2>1. /\ call'.posted = FALSE /\ call'.freed = call.freed
          /\ call'.cancelled = call.cancelled /\ call'.answers = call.answers
          /\ IsCall(call')
        BY <1>1, Zenon DEF dispatch_handler
    <2>2. /\ ~call.freed /\ ~sock.conn /\ ~sock.connected /\ ~sock.closed /\ ~sock.resolving
          /\ sock.ssl = "none" /\ pc' = "resume" /\ UNCHANGED <<sock, net, conf>>
        BY <1>1, Zenon DEF dispatch_handler
    <2>3. Shapes'
        <3>1. {call'.posted, call'.freed, call'.cancelled} \subseteq BOOLEAN
            BY <2>1, Zenon
        <3> HIDE DEF Sockets, Freed, Closed, Stages, AnsweredOnce, AlwaysArmed
        <3> QED
            BY <2>1, <2>2, <3>1, Zenon
    <2>4. Freed' /\ AnsweredOnce'
        BY <2>1, <2>2, Zenon
    <2>5. Closed' /\ Stages' /\ AlwaysArmed'
        BY <2>1, <2>2, Zenon
    <2> QED
        BY <2>3, <2>4, <2>5, Zenon
<1>2. CASE resolve_handler
    <2>1. /\ pc = "loop" /\ sock.resolving /\ ~call.freed /\ ~call.posted
          /\ ~sock.conn /\ ~sock.connected /\ ~sock.closed /\ sock.ssl = "none"
          /\ UNCHANGED <<call, net, conf>>
        BY <1>2, Zenon DEF resolve_handler
    <2> DEFINE s == [sock EXCEPT !.resolving = FALSE]
    <2>2. s \in Sockets /\ ~s.resolving /\ ~s.conn /\ ~s.connected /\ ~s.closed /\ s.ssl = "none"
        BY <2>1, Zenon
    <2>3. CASE sock' = s /\ pc' = "resolved"
        BY <2>1, <2>2, <2>3
    <2>4. CASE sock' = tcp_err(s, "resolver") /\ pc' = "resume"
        <3> HIDE DEF s
        <3>1. sock' \in Sockets /\ SameStage(sock', s)
            BY <2>2, <2>4, ErrShape, Zenon
        <3> QED
            BY <2>1, <2>2, <2>4, <3>1, Resumed, Zenon DEF SameStage
    <2> QED
        BY <1>2, <2>3, <2>4, Zenon DEF resolve_handler
<1>3. CASE lua_resolver_success_handler
    BY <1>3, Zenon DEF lua_resolver_success_handler, LuaEnds
<1>4. CASE lua_resolver_error_handler
    BY <1>4, ZenonT(30) DEF lua_resolver_error_handler, LuaEnds, tcp_err
<1>5. CASE WriteEvent
    <2>1. tcp_handler(sock.wh, sock, FALSE) /\ net' = [net EXCEPT !.wevent = FALSE]
        BY <1>5, Zenon DEF WriteEvent
    <2> QED
        BY <2>1, Handled, Zenon DEF SameStage
<1>6. CASE ReadEvent
    <2>1. tcp_handler(sock.rh, sock, FALSE) /\ net' = [net EXCEPT !.revent = FALSE]
        BY <1>6, Zenon DEF ReadEvent
    <2> QED
        BY <2>1, Handled, Zenon DEF SameStage
<1>7. CASE WriteTimeout
    <2> DEFINE s == [sock EXCEPT !.wtimer = FALSE]
    <2>1. tcp_handler(sock.wh, s, TRUE) /\ net' = net
        BY <1>7, Zenon DEF WriteTimeout
    <2>2. s \in Sockets /\ SameStage(s, sock) /\ s.wh = sock.wh /\ s.rh = sock.rh
        BY Zenon DEF SameStage
    <2> HIDE DEF s
    <2> QED
        BY <2>1, <2>2, Handled, Zenon
<1>8. CASE ReadTimeout
    <2> DEFINE s == [sock EXCEPT !.rtimer = FALSE]
    <2>1. tcp_handler(sock.rh, s, TRUE) /\ net' = net
        BY <1>8, Zenon DEF ReadTimeout
    <2>2. s \in Sockets /\ SameStage(s, sock) /\ s.wh = sock.wh /\ s.rh = sock.rh
        BY Zenon DEF SameStage
    <2> HIDE DEF s
    <2> QED
        BY <2>1, <2>2, Handled, Zenon
<1>9. CASE SslEvent
    BY <1>9 DEF SslEvent, ssl_handshake_handler, ssl_handshake_done, tcp_err
<1>10. CASE SslTimeout
    <2> DEFINE s == [sock EXCEPT !.wtimer = FALSE]
    <2>1. /\ pc = "loop" /\ sock.conn /\ sock.connected /\ ~sock.resolving /\ ~sock.closed
          /\ ~call.freed /\ ~call.posted
          /\ sock' = tcp_err(s, "tls") /\ pc' = "resume" /\ UNCHANGED <<call, net, conf>>
        BY <1>10, Zenon DEF SslTimeout, ssl_handshake_handler
    <2>2. s \in Sockets /\ SameStage(s, sock)
        BY Zenon DEF SameStage
    <2> HIDE DEF s
    <2>3. sock' \in Sockets /\ SameStage(sock', s) /\ sock'.err # "none"
        BY <2>1, <2>2, ErrShape
    <2> QED
        BY <2>1, <2>2, <2>3, Resumed, ZenonT(30) DEF SameStage
<1>11. CASE Cancel
    BY <1>11, ZenonT(30) DEF Cancel, dispatch_destroy, tcp_destroy, tcp_close, finalize_read,
        finalize_write, tcp_err
<1>12. CASE Trap
    BY <1>12 DEF Trap
<1>13. CASE LateAnswer
    <2>1. /\ pc = "loop" /\ sock.resolving /\ call.freed /\ pc' = "undefined"
          /\ conf.resolver = "nginx" /\ UNCHANGED <<call, net, conf>>
          /\ sock' = [sock EXCEPT !.resolving = FALSE]
        BY <1>13, Zenon DEF LateAnswer
    <2>2. call.cancelled /\ sock.closed /\ ~call.posted
        BY <2>1, Zenon
    <2> QED
        BY <2>1, <2>2, Zenon
<1> QED
    BY <1>1, <1>2, <1>3, <1>4, <1>5, <1>6, <1>7, <1>8, <1>9, <1>10, <1>11, <1>12, <1>13,
        Zenon DEF Worker

\* So do the moves of the kernel and of the peer.
LEMMA NetStep ==
    ASSUME CallInv, Established \/ PeerTakes \/ PeerSends \/ PeerEnds PROVE CallInv'
<1>1. /\ UNCHANGED <<pc, call, sock, conf>>
      /\ IsNet(net')
      /\ net'.wevent = net.wevent \/ net'.wevent = TRUE
    BY Zenon DEF CallInv, Shapes, IsNet, Established, PeerTakes, PeerSends, PeerEnds, Move
<1> QED
    BY <1>1, Zenon DEF CallInv, Shapes, Freed, Closed, Stages, AnsweredOnce, AlwaysArmed,
        Listening

\* Every step keeps the invariant.
LEMMA NextCallInv == CallInv /\ [Next]_vars => CallInv'
<1> SUFFICES ASSUME CallInv, [Next]_vars PROVE CallInv'
    BY Zenon
<1>1. CASE UNCHANGED vars
    BY <1>1, Zenon DEF vars, CallInv, Shapes, Freed, Closed, Stages, AnsweredOnce, AlwaysArmed,
        Listening
<1>2. CASE Next
    BY <1>1, <1>2, HandlerStep, WorkerStep, NetStep, Zenon DEF Next, Ended
<1> QED
    BY <1>1, <1>2, Zenon

\* CallInv is inductive, so it holds always.
THEOREM CallInvariance == Spec => []CallInv
BY InitCallInv, NextCallInv, PTL DEF Spec

\* A dispatch call ends with one on_http_call_response(), or none if it was
\* cancelled, whichever of answer, error, timeout and trap came first: for
\* every response, resolver and size of the buffers.
THEOREM AnsweredExactlyOnce == Spec => []AnsweredOnce
<1>1. CallInv => AnsweredOnce
    BY Zenon DEF CallInv
<1> QED
    BY <1>1, CallInvariance, PTL

\* A call in progress always has a posted event, a query, a timer or an event
\* of its connection to go on with, unless its connection failed at once in
\* the resolver's handler.  A closed socket has no posted event, connection,
\* timer or Lua thread; a query of nginx's resolver is left of a cancelled call
\* only.  All this for every response, resolver and size of the buffers.
THEOREM NeverForgotten == Spec => []AlwaysArmed
<1>1. CallInv => AlwaysArmed
    BY Zenon DEF CallInv
<1> QED
    BY <1>1, CallInvariance, PTL
=============================================================================
