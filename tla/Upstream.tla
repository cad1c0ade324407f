------------------------------ MODULE Upstream ------------------------------
(***************************************************************************)
(* A request from its headers to its log, with filters that read and write *)
(* headers (module Headers) at every step, choose the upstream of each try *)
(* (http/ngx_http_wasm_upstream.c), answer themselves, or are called with  *)
(* the response to a dispatch call in the middle of it.                    *)
(*                                                                         *)
(* nginx is external: content handlers, the proxy module that makes the    *)
(* upstream request, the loop over the tries and the error pages.  $host   *)
(* is proxied as $wasm_upstream_host.                                      *)
(***************************************************************************)
EXTENDS Headers

CONSTANTS
    Answers,       \* responses of an upstream: as Contents
    Retriable,     \* statuses that proxy_next_upstream names
    MaxTries,      \* proxy_wasm_upstream_max_tries
    NextTries,     \* proxy_next_upstream_tries, 0 = no limit
    ConfTimeout,   \* the timeouts configured
    Forbidden      \* addresses the acl refuses

VARIABLE up        \* upstream_peer, nginx's r->upstream and where nginx is

upVars == <<vars, up>>

\* Where nginx is.  A request whose filter trapped is not followed any further.
Phase == IF pwctx.step = "done" THEN "done" ELSE up.pc
Go(pc) == up' = [up EXCEPT !.pc = pc]

----------------------------------------------------------------------------
\* Content, from nginx or an upstream, and error pages.

\* nginx points to the last element of a key that the response brings.
Content(c, q) ==
    LET n == Len(q.list["response"])
        At(k) == {i \in DOMAIN c.list : c.list[i].key = k}
    IN  [q EXCEPT !.list["response"] = @ \o c.list,
                  !.ptr["response"] = [k \in DOMAIN @ |-> IF At(k) = {} THEN @[k] ELSE n + Max(At(k))],
                  !.chain["response"] =
                      [k \in DOMAIN @ |-> @[k] \o SetToSortSeq({n + i : i \in At(k)}, <)],
                  !.status = c.status, !.content_length_n["response"] = c.length,
                  !.content_type = IF c.type # {} THEN c.type ELSE @,
                  !.last_modified_time = c.time]

SpecialResponse(status, q) ==
    LET p == Forget("content-length", Forget("last-modified", q))
    IN  [p EXCEPT !.err_status = status, !.content_length_n["response"] = 5,
                  !.content_type = {"text/html"}, !.last_modified_time = -1]

\* The response is there, and early is whether a length was written before.
Respond(q, early) ==
    /\ r' = q
    /\ pwctx' = [pwctx EXCEPT !.early = early]
    /\ call' = NoCall
HasLength(q) == q.ptr["response"]["content-length"] # 0

Idle == pwctx.saved = "" /\ pwctx.todo = <<>>

\* On the request's headers or body, a filter is or holds the chain.
InFilter == \/ Phase = "request" /\ pwctx.filter > 0
            \/ Phase = "content" /\ pwctx.step = "req_body"

\* Each filter's on_request_headers first saves the length of the body, as the
\* filters before it left it.
on_request_headers ==
    /\ Phase = "request" /\ Idle
    /\ pwctx.filter < NFilters
    /\ r' = [r EXCEPT !.req_content_length_n = r.content_length_n["request"]]
    /\ pwctx' = [pwctx EXCEPT !.filter = @ + 1]
    /\ call' = NoCall
    /\ UNCHANGED up

\* What rewrite or try_files does after on_request_headers.
rewrite_uri ==
    /\ Phase = "request" /\ Idle
    /\ pwctx.filter = NFilters
    /\ Program.rewrites
    /\ r' = [r EXCEPT !.uri = {"/n"}]
    /\ pwctx' = [pwctx EXCEPT !.kept = pwctx.path # {}]
    /\ call' = NoCall
    /\ Go("rewritten")

\* Whenever the content phase is entered, the length that was saved is put back.
Restored(q) ==
    IF q.req_content_length_n > 0
    THEN [q EXCEPT !.content_length_n["request"] = q.req_content_length_n] ELSE q

\* nginx reads as much as the length says, unless a filter has set a body.
read_client_request_body(q) ==
    IF q.body_set THEN q ELSE [q EXCEPT !.request_body = Max({0, q.content_length_n["request"]})]

\* The filters see a body that is not empty, and nginx goes on to the content.
content_phase ==
    /\ Phase \in {"request", "rewritten"} /\ Idle
    /\ pwctx.filter = NFilters
    /\ \E q \in {read_client_request_body(Restored(r))} :
          /\ r' = q
          /\ pwctx' = IF q.request_body > 0 THEN [pwctx EXCEPT !.step = "req_body"] ELSE pwctx
    /\ call' = NoCall
    /\ Go("content")

content(c) ==
    /\ Phase = "content" /\ Idle
    /\ Respond(Content(c, r), HasLength(r))
    /\ Go("response")

\* What send_local_response left is sent at the end of the step: its headers
\* are set one by one, and one that is refused makes it fail.
flush_local_response(lr) ==
    /\ \/ Phase = "select" /\ pwctx.todo = <<>>
       \/ InFilter /\ Idle
       \/ Phase = "rewritten" /\ Idle
    /\ r' = set_resp_status(lr.status, r)
    /\ pwctx' = [pwctx EXCEPT !.todo = lr.headers]
    /\ call' = NoCall
    /\ up' = [up EXCEPT !.pc = "flush", !.local = lr.length]

flush_header ==
    /\ Phase = "flush" /\ pwctx.todo # <<>>
    /\ LET h == Head(pwctx.todo)
       IN  \E set \in {set_header("response", h.key, h.value, "set", r, pwctx.step)} :
              \/ /\ set.rc = "OK"
                 /\ r' = set.r
                 /\ pwctx' = [pwctx EXCEPT !.todo = Tail(@)]
                 /\ UNCHANGED <<call, up>>
              \/ /\ set.rc # "OK"
                 /\ r' = SpecialResponse(500, set.r)
                 /\ pwctx' = [pwctx EXCEPT !.todo = <<>>]
                 /\ Go("response")
                 /\ UNCHANGED call

flush_body ==
    /\ Phase = "flush" /\ pwctx.todo = <<>>
    /\ LET typed == IF up.local # 0 /\ r.content_type = {}
                    THEN [r EXCEPT !.content_type = {"text/plain"}] ELSE r
       IN  r' = IF up.local < 0 THEN typed ELSE set_resp_content_length(up.local, typed, pwctx.step).r
    /\ Go("response")
    /\ UNCHANGED <<pwctx, call>>

----------------------------------------------------------------------------
\* The tries.  A step of an upstream is run in between and then undone.

upstream_resume(step) == pwctx' = [pwctx EXCEPT !.step = step, !.saved = pwctx.step]
Resumed(pw) == [pw EXCEPT !.step = pw.saved, !.saved = ""]

upstream_host_variable(q) == IF q.upstream_host # {} THEN q.upstream_host ELSE {"proxy_host"}
create_request(q) == [headers |-> q.list["request"], host |-> upstream_host_variable(q)]

\* The proxy module makes the request before the first peer is asked for.
init_peer ==
    /\ Phase = "content" /\ Idle
    /\ up' = [up EXCEPT !.pc = "get", !.bufs = create_request(r),
                        !.tries = IF NextTries # 0 THEN Min({NextTries, MaxTries}) ELSE MaxTries]
    /\ call' = NoCall
    /\ UNCHANGED <<r, pwctx>>

on_upstream_select ==
    /\ Phase = "get" /\ Idle
    /\ r' = [r EXCEPT !.req_headers_modified = FALSE]
    /\ upstream_resume("upstream_select")
    /\ up' = [up EXCEPT !.pc = "select", !.chosen = "original"]
    /\ call' = NoCall

\* An upstream that is set stays; sni is kept when none is given.
set_upstream(c) ==
    /\ Running
    /\ \/ /\ pwctx.step # "upstream_select"
          /\ Trap([NoCall EXCEPT !.op = "set_upstream", !.rc = "TRAP"])
          /\ UNCHANGED up
       \/ /\ pwctx.step = "upstream_select"
          /\ LET bad == c.port > 65535 \/ up.sockaddr # "" \/ c.addr \in Forbidden \cup {"invalid"}
             IN  /\ up' = IF bad THEN up
                          ELSE [up EXCEPT !.sockaddr = c.addr, !.tls = c.tls, !.chosen = c.addr,
                                          !.sni = IF c.sni # "" THEN c.sni ELSE @]
                 /\ call' = [NoCall EXCEPT !.op = "set_upstream", !.rc = IF bad THEN "BADARG" ELSE "OK"]
          /\ pwctx' = Called(pwctx)
          /\ UNCHANGED r

set_upstream_timeouts(t) ==
    /\ Running
    /\ call' = [NoCall EXCEPT !.op = "set_upstream_timeouts"]
    /\ \/ /\ pwctx.step # "upstream_select"
          /\ pwctx' = [pwctx EXCEPT !.step = "done"]
          /\ UNCHANGED up
       \/ /\ pwctx.step = "upstream_select"
          /\ pwctx' = Called(pwctx)
          /\ up' = IF t # 0 THEN [up EXCEPT !.timeout = Min({t, ConfTimeout})] ELSE up
    /\ UNCHANGED r

\* The filters failed: no peer, and the request fails.
select_fails ==
    /\ Phase = "select" /\ pwctx.todo = <<>>
    /\ r' = SpecialResponse(500, r)
    /\ pwctx' = [Resumed(pwctx) EXCEPT !.step = "done"]
    /\ call' = NoCall
    /\ Go("response")

\* The rest of get_peer, after the filters.
get_peer ==
    /\ Phase = "select" /\ pwctx.todo = <<>>
    /\ pwctx' = Resumed(pwctx)
    /\ call' = NoCall
    /\ LET bufs == IF r.req_headers_modified THEN create_request(r) ELSE up.bufs
           peer == IF up.sockaddr # ""
                   THEN [up EXCEPT !.peer = up.sockaddr, !.ssl = up.tls,
                                   !.ssl_name = IF up.tls /\ up.sni # "" THEN up.sni ELSE @]
                   ELSE [up EXCEPT !.peer = "original"]
       IN  up' = [peer EXCEPT !.pc = "connected", !.bufs = bufs,
                              !.outside = @ /\ ~r.req_headers_modified]
    /\ UNCHANGED r

\* then is what nginx does once the peer is freed.
FaultFreePeer(state, then) ==
    LET tries == IF up.tries > 0 THEN up.tries - 1 ELSE 0
    IN  IF up.sockaddr # ""
        THEN /\ upstream_resume("upstream_info")
             /\ up' = [up EXCEPT !.pc = "info", !.then = then, !.tries = tries, !.peer = "",
                                 !.last_peer_state = state]
        ELSE /\ up' = [up EXCEPT !.pc = then, !.tries = tries, !.peer = ""]
             /\ UNCHANGED pwctx

free_peer(state, then) ==
    LET tries == IF up.tries > 0 THEN up.tries - 1 ELSE 0
        failed == tries = 0 /\ state = "ok" /\ up.status \in Retriable
    IN  IF up.sockaddr # ""
        THEN /\ upstream_resume("upstream_info")
             /\ up' = [up EXCEPT !.pc = "info", !.then = then, !.tries = tries, !.peer = "",
                                 !.sockaddr = "",
                                 !.last_peer_state = IF failed THEN "failed" ELSE state]
        ELSE /\ up' = [up EXCEPT !.pc = then, !.tries = tries, !.peer = ""]
             /\ UNCHANGED pwctx

connection_fails ==
    /\ Phase = "connected" /\ Idle
    /\ free_peer("failed", IF up.tries > 1 THEN "get" ELSE "error")
    /\ call' = NoCall
    /\ UNCHANGED r

\* The patched nginx asks only when it would go on to another try.
upstream_response(a) ==
    /\ Phase = "connected" /\ Idle
    /\ LET next == a.status \in Retriable /\ up.tries > 1
       IN  \/ /\ next /\ up.sockaddr # ""
              /\ upstream_resume("next_upstream")
              /\ up' = [up EXCEPT !.pc = "next", !.accept_resp = FALSE, !.status = a.status, !.answer = a]
              /\ r' = [r EXCEPT !.upstream = a.list]
              /\ call' = NoCall
           \/ /\ next /\ up.sockaddr = ""
              /\ up' = [up EXCEPT !.pc = "free", !.status = a.status]
              /\ call' = NoCall
              /\ UNCHANGED <<r, pwctx>>
           \/ /\ ~next
              /\ up' = [up EXCEPT !.pc = "response", !.status = a.status]
              /\ Respond(Content(a, r), HasLength(r))

accept_upstream_response ==
    /\ Running
    /\ call' = [NoCall EXCEPT !.op = "accept_upstream_response"]
    /\ \/ /\ pwctx.step # "next_upstream"
          /\ pwctx' = [pwctx EXCEPT !.step = "done"]
          /\ UNCHANGED up
       \/ /\ pwctx.step = "next_upstream"
          /\ pwctx' = Called(pwctx)
          /\ up' = [up EXCEPT !.accept_resp = TRUE]
    /\ UNCHANGED r

test_next ==
    /\ Phase = "next" /\ pwctx.todo = <<>>
    /\ call' = NoCall
    /\ \/ /\ up.accept_resp
          /\ r' = Content(up.answer, r)
          /\ pwctx' = [Resumed(pwctx) EXCEPT !.early = HasLength(r)]
          /\ Go("response")
       \/ /\ ~up.accept_resp
          /\ pwctx' = Resumed(pwctx)
          /\ Go("free")
          /\ UNCHANGED r

next_try ==
    /\ Phase = "free"
    /\ free_peer("failed", "get")
    /\ call' = NoCall
    /\ UNCHANGED r

upstream_info_done ==
    /\ Phase = "info"
    /\ pwctx' = Resumed(pwctx)
    /\ Go(up.then)
    /\ call' = NoCall
    /\ UNCHANGED r

\* No try is left.
bad_gateway ==
    /\ Phase = "error"
    /\ Respond(SpecialResponse(502, r), FALSE)
    /\ Go("response")

----------------------------------------------------------------------------
\* The response, to its log.

on_response_headers(q) == get_shim_headers([q EXCEPT !.reset_resp_shims = TRUE])

header_filter_handler ==
    /\ Phase = "response"
    /\ r' = [r EXCEPT !.entered_header_filter = TRUE]
    /\ pwctx' = [pwctx EXCEPT !.step = "resp_headers", !.saved = "", !.filter = 0, !.todo = produced]
    /\ call' = NoCall
    /\ Go("produce")

produce_header ==
    /\ Phase = "produce" /\ pwctx.todo # <<>>
    /\ r' = produce_resp_headers(Head(pwctx.todo), r, pwctx.step)
    /\ pwctx' = [pwctx EXCEPT !.todo = Tail(@)]
    /\ up' = IF Len(pwctx.todo) = 1 THEN [up EXCEPT !.pc = "filter"] ELSE up
    /\ UNCHANGED call

next_filter ==
    /\ Phase = "filter" /\ pwctx.todo = <<>>
    /\ pwctx.filter < NFilters
    /\ r' = on_response_headers(r)
    /\ pwctx' = [pwctx EXCEPT !.filter = @ + 1, !.wrote = FALSE]
    /\ call' = NoCall
    /\ UNCHANGED up

headers_sent ==
    /\ Phase = "filter" /\ pwctx.todo = <<>>
    /\ pwctx.filter = NFilters
    /\ r' = [r EXCEPT !.header_sent = TRUE]
    /\ pwctx' = [pwctx EXCEPT !.step = "resp_body"]
    /\ call' = NoCall
    /\ Go("body")

\* The upstream is freed when the request is finalized.
finalize ==
    /\ Phase = "body" /\ Idle
    /\ IF up.peer # "" THEN free_peer("ok", "log") ELSE Go("log") /\ UNCHANGED pwctx
    /\ call' = NoCall
    /\ UNCHANGED r

log_handler ==
    /\ Phase = "log" /\ pwctx.step = "resp_body"
    /\ pwctx' = [pwctx EXCEPT !.step = "log"]
    /\ call' = NoCall
    /\ UNCHANGED <<r, up>>

\* The response to a dispatch call, whenever nginx waits for something else.  A
\* chain it held on the request's body goes on, with the content phase.
dispatch_response ==
    /\ InFilter \/ Phase \in {"rewritten", "connected", "body"}
    /\ Idle
    /\ pwctx.dispatched < Program.dispatches
    /\ pwctx' = [pwctx EXCEPT !.step = "dispatch_response", !.saved = pwctx.step,
                              !.call = pwctx.dispatched + 1, !.dispatched = @ + 1]
    /\ call' = NoCall
    /\ UNCHANGED <<r, up>>

dispatch_done ==
    /\ pwctx.step = "dispatch_response" /\ pwctx.todo = <<>>
    /\ pwctx' = [Resumed(pwctx) EXCEPT !.call = 0]
    /\ call' = NoCall
    /\ \/ UNCHANGED r
       \/ pwctx.saved = "req_body" /\ r' = Restored(r)
    /\ UNCHANGED up

----------------------------------------------------------------------------

NoAnswer == [status |-> 0, length |-> -1, type |-> {}, list |-> <<>>, time |-> -1]

Init ==
    /\ HeadersInit
    /\ up = [pc |-> "request", sockaddr |-> "", tls |-> FALSE, sni |-> "", ssl |-> FALSE,
             ssl_name |-> "", peer |-> "", chosen |-> "", tries |-> 0, then |-> "",
             bufs |-> [headers |-> <<>>, host |-> {}], outside |-> FALSE, status |-> 0,
             accept_resp |-> FALSE, answer |-> NoAnswer, last_peer_state |-> "ok",
             timeout |-> ConfTimeout, local |-> 0]

\* Where a filter is running.
Calling ==
    \/ pwctx.step = "dispatch_response"
    \/ InFilter
    \/ Phase \in {"select", "next", "info", "body"}
    \/ Phase = "filter" /\ pwctx.filter > 0
    \/ Phase = "log" /\ pwctx.step = "log"

\* outside: a request header was written after the request was made, and not
\* in on_upstream_select.
Outside == up' = [up EXCEPT !.outside = @ \/ (Phase = "connected" /\ r'.list["request"] # r.list["request"])]

Filters ==
    \/ \E w \in Program.writes : Calling /\ set_header_map_value(w) /\ Outside
    \/ \E w \in Program.pairs : Calling /\ set_header_map_pairs(w) /\ Outside
    \/ set_pair /\ Outside
    \/ \E rd \in Program.reads : Calling /\ get_header_map_value(rd) /\ UNCHANGED up
    \/ \E m \in {rd.map : rd \in Program.reads} : Calling /\ get_header_map_pairs(m) /\ UNCHANGED up
    \/ \E b \in Program.bodies : Calling /\ set_buffer(b) /\ UNCHANGED up
    \/ \E c \in Program.selections : Calling /\ set_upstream(c)
    \/ \E t \in Program.timeouts : Calling /\ set_upstream_timeouts(t)
    \/ Program.accepts /\ Calling /\ accept_upstream_response

Nginx ==
    \/ on_request_headers
    \/ rewrite_uri
    \/ content_phase
    \/ \E c \in Contents : content(c)
    \/ \E lr \in LocalResponses : flush_local_response(lr)
    \/ flush_header
    \/ flush_body
    \/ init_peer
    \/ on_upstream_select
    \/ select_fails
    \/ get_peer
    \/ connection_fails
    \/ \E a \in Answers : upstream_response(a)
    \/ test_next
    \/ next_try
    \/ upstream_info_done
    \/ bad_gateway
    \/ header_filter_handler
    \/ produce_header
    \/ next_filter
    \/ headers_sent
    \/ finalize
    \/ log_handler
    \/ dispatch_response
    \/ dispatch_done

Ended ==
    /\ pwctx.step \in {"done", "log"}
    /\ UNCHANGED upVars

Next == Filters \/ Nginx \/ Ended

Spec == Init /\ [][Next]_upVars

----------------------------------------------------------------------------
\* Properties.

\* A call that writes a header changes that header only, in the list nginx
\* sends, and as its mode says: an append to a header nginx knows to be single
\* is taken only when there is none, a refused write changes nothing.  A set of
\* a header that repeats clears it, as does a remove.  Neither touches an
\* element that a module of nginx added, unless nginx has a pointer to it.  Kept
\* out: pseudo-headers and the two response headers that are in no list, Host
\* during on_upstream_select, and a single header with an element that nginx's
\* pointer is not to: a local redirect, or one a filter wrote before nginx added
\* its own (ngx_http_wasm_set_header_helper and the handlers).
InNoList(m) == IF m = "response" THEN {"content-type", "connection"} ELSE {}
Expected(c, old) ==
    CASE c.op = "append" -> Append(old, c.value)
      [] c.op = "remove" -> <<>>
      [] c.op = "set"    -> IF Len(old) <= 1 THEN <<c.value>> ELSE <<>>
Taken(c) ==
    /\ c.taken
    /\ ~Contains(special_keys(c.map), c.key)
    /\ c.key \notin InNoList(c.map)
    /\ ~(c.key = "host" /\ pwctx.step = "upstream_select")
Values(l, k, hashes) ==
    LET s == SelectSeq(l, LAMBDA e : e.key = k /\ e.hash \in hashes)
    IN  [i \in DOMAIN s |-> s[i].value]
WritesOneHeader ==
    [][call'.op \in {"set", "append", "remove"} /\ pwctx'.calls = pwctx.calls + 1 =>
          \A m \in Maps :
             \A k \in {r.list[m][i].key : i \in DOMAIN r.list[m]}
                          \cup {r'.list[m][i].key : i \in DOMAIN r'.list[m]} :
                LET Old(hashes) == Values(r.list[m], k, hashes)
                    New(hashes) == Values(r'.list[m], k, hashes)
                    seen == IF k \in Single(m) THEN {One, KeyHash} ELSE {KeyHash}
                IN  \/ k \in Single(m) /\ ~(Live(r.list[m], k) \subseteq {r.ptr[m][k]})
                    \/ IF m = call'.map /\ k = call'.key /\ Taken(call')
                       THEN /\ New(seen) = Expected(call', Old(seen))
                            /\ New({One} \ seen) = Old({One} \ seen)
                            /\ call'.op = "append" /\ k \in Single(m) => Old(seen) = <<>>
                       ELSE New({One, KeyHash}) = Old({One, KeyHash})]_upVars

\* The length nginx goes by is the one of the header it sends: they are written
\* by different statements of each handler (content_length_n and the list), at
\* any step and by several filters.  A request's length may be forgotten, when
\* a write was refused; it may be that of a body a filter has set, whatever the
\* header says; and from the content phase on it may be the one that the last
\* filter's on_request_headers found, put back over what that filter or a later
\* step has written.  A response length written before there was content is
\* overridden by it.
LengthsAgree ==
    /\ LET p == r.ptr["request"]["content-length"]
           l == r.list["request"]
           n == r.content_length_n["request"]
       IN  \/ n = -1
           \/ p # 0 /\ l[p].hash # 0 /\ n = Number(l[p].value)
           \/ r.body_set /\ n = r.request_body
           \/ up.pc \notin {"request", "rewritten"} /\ n = r.req_content_length_n
    /\ LET p == r.ptr["response"]["content-length"]
           l == r.list["response"]
       IN  \/ pwctx.early
           \/ IF p = 0 THEN Live(l, "content-length") = {}
              ELSE l[p].hash # 0 /\ r.content_length_n["response"] = Number(l[p].value)

\* What a filter reads is what there is, whatever was cached by an earlier read
\* (path, status, shims): pseudo-headers follow writes of other filters and of a
\* dispatch handler, and the status those of nginx, and the whole map starts with
\* them and with the response headers nginx has yet to write, as long as this
\* filter has written none since its on_response_headers began.  The path follows
\* nginx's changes of the uri only if no filter has read it before: what was read
\* is answered until a filter sets the path (ngx_proxy_wasm_maps_get_path).
Status(q) == CASE q.err_status # 0 -> q.err_status
               [] q.err_status = 0 /\ q.status # 0 -> q.status
               [] OTHER -> IF q.http09 THEN 9 ELSE 0
FreshPath == IF pwctx.kept THEN pwctx.path ELSE r.uri \cup r.args
Fresh(m, k) ==
    CASE k = ":path" -> FreshPath
      [] k = ":method" -> r.method
      [] k = ":status" /\ m = "response" -> IF Status(r) = 0 THEN NULL ELSE Text(Status(r))
      [] k = ":status" /\ m = "call" -> Text(Dispatched[pwctx.call].status)
FreshMap(m) ==
    (CASE m = "request" -> <<Pair(":path", FreshPath), Pair(":method", r.method),
                             Pair(":scheme", {"http"}), Pair(":authority", {"localhost", ":80"})>>
       [] m = "response" -> (IF Status(r) = 0 THEN <<>> ELSE <<Pair(":status", Text(Status(r)))>>)
                               \o (IF pwctx.step \in WithShims THEN Shims(r) ELSE <<>>)
       [] OTHER -> <<>>)
ReadsFresh ==
    /\ call.op = "get" /\ call.key \in {":path", ":method", ":status"} =>
          call.answer = Fresh(call.map, call.key)
    /\ call.op = "get_all" /\ call.map \in Maps /\ ~(call.map = "response" /\ pwctx.wrote) =>
          LET n == Min({Len(FreshMap(call.map)), Len(call.pairs)})
          IN  /\ SubSeq(call.pairs, 1, n) = SubSeq(FreshMap(call.map), 1, n)
              /\ n < Len(FreshMap(call.map)) => Len(call.pairs) = MaxPairs

\* Each try connects to the peer that was selected in its own on_upstream_select
\* (nginx's own choice if none was), and sends the request headers as they are,
\* with what was written in any try before.  Kept out: headers a dispatch
\* handler wrote while an earlier try was on, which get_peer does not notice.
TryAsSelected ==
    Phase = "connected" =>
        /\ up.peer = up.chosen
        /\ up.outside \/ up.bufs = [headers |-> r.list["request"], host |-> IF r.upstream_host = {}
                                                                            THEN {"proxy_host"}
                                                                            ELSE r.upstream_host]
=============================================================================
