------------------------------ MODULE Headers ------------------------------
(***************************************************************************)
(* The request and response headers as filters read and write them         *)
(* (common/proxy_wasm/ngx_proxy_wasm_maps.c, http/ngx_http_wasm_headers*.c *)
(* and the host functions of ngx_proxy_wasm_host.c around them).           *)
(*                                                                         *)
(* nginx keeps headers in a list, from which an element is only cleared    *)
(* (hash = 0), and next to it pointers to the elements it knows, chains of *)
(* those that may repeat, and values parsed from them.  Every handler has  *)
(* to keep these together.  Some response headers are in no list: they are *)
(* made up from fields of the request ("shims"), and cached.               *)
(*                                                                         *)
(* A value is the set of the words it contains, {} the empty string; a key *)
(* is in lower case already.  Escaping and memory exhaustion are left out. *)
(* nginx is 1.23 or later, the version the Makefile names being 1.27.      *)
(***************************************************************************)
EXTENDS Integers, Sequences, FiniteSets, FiniteSetsExt, SequencesExt

CONSTANTS
    Requests,       \* requests as nginx parsed them: [list, keepalive, vary, http09]
    Contents,       \* what content handlers answer: [status, length, type, list, time]
    LocalResponses, \* [status, headers, length]
    Dispatched,     \* the responses to dispatch calls, in order: [status, sock, list]
    Programs,       \* what filters do, by name: the writes [map, op, key, value], the maps
                    \* set as a whole [map, pairs], the keys read [map, key], the request
                    \* bodies set [prepend, at, len], the upstreams selected [addr, port,
                    \* tls, sni] and timeouts set, the number of dispatch calls, whether
                    \* responses are accepted, whether nginx rewrites the uri, the bound
                    \* on host calls
    NFilters, MaxPairs

VARIABLES
    r,       \* the request, and what its rctx adds to it
    pwctx,   \* step and caches of the filter chain
    call     \* the last host call: what it did and returned

vars == <<r, pwctx, call>>

Maps == {"request", "response"}
NULL == {"(null)"}
Single(m) ==
    IF m = "request"
    THEN {"host", "connection", "user-agent", "content-length", "referer"}
    ELSE {"server", "date", "content-length", "location", "last-modified"}
Multi(m) == IF m = "request" THEN {"cookie"} ELSE {"cache-control"}

\* hash is 0 in a cleared element, 1 in one that a module of nginx added, and
\* computed from the key in those that were parsed or that filters wrote.
One == 1
KeyHash == 2
Elem(k, v) == [key |-> k, value |-> v, hash |-> KeyHash]
Live(l, k) == {i \in DOMAIN l : l[i].hash # 0 /\ l[i].key = k}
Shown(l) == SelectSeq(l, LAMBDA e : e.hash # 0)

\* ngx_atoof(), ngx_atoi() and the numbers printed back.
Digits == {"009", "2", "5", "101", "200", "500", "502", "503", "700"}
Decimal(t) == CASE t = "009" -> 9 [] t = "2" -> 2 [] t = "5" -> 5 [] t = "101" -> 101 [] t = "200" -> 200
                [] t = "500" -> 500 [] t = "502" -> 502 [] t = "503" -> 503 [] t = "700" -> 700
IsNumber(v) == \E t \in Digits : v = {t}
Number(v) == IF IsNumber(v) THEN Decimal(CHOOSE t \in Digits : v = {t}) ELSE -1
Text(n) == {CHOOSE t \in Digits : Decimal(t) = n}

Res(rc, q) == [rc |-> rc, r |-> q]

----------------------------------------------------------------------------
\* The list.  out is the element a handler is told of: none was set (Unset)
\* when a header to remove is not there.

Unset == -1
Wild == -2   \* what a pointer that was never set points to
Cleared(l, S) == [i \in DOMAIN l |-> [l[i] EXCEPT !.hash = IF i \in S THEN 0 ELSE @]]

\* Every element found after the first is cleared and the search starts over,
\* and then finds the one it has just updated: of several, none is left.  One
\* that a module of nginx added has another hash and is never found.
set_header_helper(m, k, v, mode, q) ==
    LET l == q.list[m]
        found == {i \in Live(l, k) : l[i].hash = KeyHash}
        one == CHOOSE i \in found : TRUE
        Push == [out |-> Len(l) + 1, r |-> [q EXCEPT !.list[m] = Append(@, Elem(k, v))]]
        Clear == [out |-> 0, r |-> [q EXCEPT !.list[m] = Cleared(@, found)]]
    IN  CASE mode = "append" -> Push
          [] mode = "remove" -> IF found = {} THEN [out |-> Unset, r |-> q] ELSE Clear
          [] mode = "set"    -> CASE found = {} -> Push
                                  [] Cardinality(found) = 1 ->
                                        [out |-> one, r |-> [q EXCEPT !.list[m][one] = Elem(k, v)]]
                                  [] OTHER -> Clear

FaultSetBuiltin(m, k, v, mode, q) ==
    LET p == q.ptr[m][k]
        new == set_header_helper(m, k, v, mode, q)
    IN  IF mode = "remove" THEN Res("OK", [q EXCEPT !.list[m] = Cleared(@, {p})])
        ELSE Res("OK", [new.r EXCEPT !.ptr[m][k] = new.out])

set_builtin_header_handler(m, k, v, mode, q) ==
    LET p == q.ptr[m][k]
        new == set_header_helper(m, k, v, mode, q)
    IN  CASE p = 0 /\ mode # "remove" -> Res("OK", [new.r EXCEPT !.ptr[m][k] = new.out])
          [] p = 0 /\ mode = "remove" -> Res("OK", q)
          [] p # 0 /\ mode = "remove" -> Res("OK", [q EXCEPT !.list[m] = Cleared(@, {p})])
          [] p # 0 /\ mode = "append" -> Res("DECLINED", q)
          [] p # 0 /\ mode = "set"    -> Res("OK", [q EXCEPT !.list[m][p] = Elem(k, v)])

\* The chain of a header that may repeat, after *ph = h and h->next = NULL.
Linked(chain, h) ==
    CASE h = 0 -> chain
      [] h = Unset -> Append(chain, Wild)
      [] Contains(chain, h) -> SubSeq(chain, 1, CHOOSE i \in DOMAIN chain : chain[i] = h)
      [] OTHER -> Append(chain, h)

\* Only the handler of the request starts the chain anew.
set_builtin_multi_header_handler(m, k, v, mode, q) ==
    LET new == set_header_helper(m, k, v, mode, q)
        chain == IF m = "request" /\ mode # "append" THEN <<>> ELSE q.chain[m][k]
    IN  Res("OK", [new.r EXCEPT !.chain[m][k] = Linked(chain, new.out)])

----------------------------------------------------------------------------
\* Handlers of request headers.

\* During on_upstream_select the header is that of the try, not of the request.
set_host_header_handler(k, v, mode, q, step) ==
    LET set == set_builtin_header_handler("request", k, v, mode, q)
    IN  IF step = "upstream_select" THEN Res("OK", [q EXCEPT !.upstream_host = v])
        ELSE IF set.rc # "OK" THEN set
        ELSE Res("OK", [set.r EXCEPT !.server = v])

Keepalive(on, q) == [q EXCEPT !.keepalive = on, !.req_keepalive = on]

set_req_connection_header_handler(k, v, mode, q) ==
    LET set == set_builtin_header_handler("request", k, v, mode, q)
    IN  CASE set.rc # "OK" -> set
          [] "close" \in v -> Res("OK", Keepalive(FALSE, set.r))
          [] "close" \notin v /\ "keep-alive" \in v -> Res("OK", Keepalive(TRUE, set.r))
          [] OTHER -> set

\* The flags of the browsers that nginx tells apart.
Agents(v) ==
    LET msie == v \cap {"MSIE 5.", "MSIE 6.", "MSIE 7."} # {}
    IN  IF "Opera" \in v THEN {"opera"}
        ELSE IF msie
        THEN {"msie"} \cup (IF "MSIE 5." \in v \/ {"MSIE 6.", "SV1"} \cap v = {"MSIE 6."}
                            THEN {"msie6"} ELSE {})
        ELSE CASE "Gecko/" \in v -> {"gecko"}
               [] "Gecko/" \notin v /\ "Chrome/" \in v -> {"chrome"}
               [] {"Gecko/", "Chrome/"} \cap v = {} /\ {"Safari/", "Mac OS X"} \subseteq v -> {"safari"}
               [] OTHER -> IF "Konqueror" \in v THEN {"konqueror"} ELSE {}

set_ua_header_handler(k, v, mode, q) ==
    LET set == set_builtin_header_handler("request", k, v, mode, q)
    IN  IF set.rc # "OK" THEN set ELSE Res("OK", [set.r EXCEPT !.agents = Agents(v)])

\* The length is forgotten when the header is refused, which stays as it was.
set_cl_header_handler(k, v, mode, q) ==
    LET set == set_builtin_header_handler("request", k, v, mode, q)
        bad == IF v # {} THEN ~IsNumber(v) ELSE mode = "append"
        Refused == Res("DECLINED", [q EXCEPT !.content_length_n["request"] = -1])
    IN  IF bad \/ set.rc # "OK" THEN Refused
        ELSE Res("OK", [set.r EXCEPT !.content_length_n["request"] = Number(v)])

----------------------------------------------------------------------------
\* Handlers of response headers.

\* A pointer to a local redirect would have nginx prepend the host to it.
set_location_header_handler(k, v, mode, q) ==
    LET set == set_builtin_header_handler("response", k, v, mode, q)
        p == set.r.ptr["response"][k]
    IN  IF set.rc = "OK" /\ p # 0 /\ "/" \in set.r.list["response"][p].value
        THEN Res("OK", [set.r EXCEPT !.ptr["response"][k] = 0]) ELSE set

\* ngx_http_clear_content_length(), ngx_http_clear_last_modified()
Forget(k, q) == [q EXCEPT !.list["response"] = Cleared(@, {q.ptr["response"][k]}),
                          !.ptr["response"][k] = 0]

set_last_modified_header_handler(k, v, mode, q) ==
    LET set == set_builtin_header_handler("response", k, v, mode, q)
    IN  IF mode = "remove" THEN Res("OK", [Forget(k, q) EXCEPT !.last_modified_time = -1])
        ELSE IF set.rc # "OK" THEN set
        ELSE Res("OK", [set.r EXCEPT !.last_modified_time = Number(v)])

FaultSetContentLength(k, v, mode, q) ==
    LET set == set_builtin_header_handler("response", k, v, mode, q)
    IN  CASE mode = "remove" -> Res("OK", [Forget(k, q) EXCEPT !.content_length_n["response"] = -1])
          [] mode # "remove" /\ ~IsNumber(v) -> Res("DECLINED", q)
          [] OTHER -> Res(set.rc, [set.r EXCEPT !.content_length_n["response"] = Number(v)])

set_content_length_header_handler(k, v, mode, q) ==
    LET set == set_builtin_header_handler("response", k, v, mode, q)
    IN  CASE mode = "remove" -> Res("OK", [Forget(k, q) EXCEPT !.content_length_n["response"] = -1])
          [] mode # "remove" /\ ~IsNumber(v) -> Res("DECLINED", q)
          [] OTHER -> IF set.rc # "OK" THEN set
                      ELSE Res("OK", [set.r EXCEPT !.content_length_n["response"] = Number(v)])

\* In no list, whatever the mode: it is a shim.
set_content_type_header_handler(k, v, mode, q) == Res("OK", [q EXCEPT !.content_type = v])

set_resp_connection_header_handler(k, v, mode, q) ==
    CASE v = {"keep-alive"} -> Res("OK", Keepalive(TRUE, q))
      [] v = {"close"} -> Res("OK", Keepalive(FALSE, q))
      [] v = {"upgrade"} -> Res("OK", [q EXCEPT !.status = 101])
      [] OTHER -> Res("DECLINED", q)

----------------------------------------------------------------------------
\* Setting and clearing.

set_header(m, k, value, mode, q, step) ==
    LET v == IF mode = "remove" THEN {} ELSE value
        new == set_header_helper(m, k, v, mode, q)
    IN  IF m = "request"
        THEN CASE k = "host" -> set_host_header_handler(k, v, mode, q, step)
               [] k = "connection" -> set_req_connection_header_handler(k, v, mode, q)
               [] k = "user-agent" -> set_ua_header_handler(k, v, mode, q)
               [] k = "content-length" -> set_cl_header_handler(k, v, mode, q)
               [] k = "referer" -> set_builtin_header_handler(m, k, v, mode, q)
               [] k \in Multi(m) -> set_builtin_multi_header_handler(m, k, v, mode, q)
               [] OTHER -> Res("OK", new.r)
        ELSE CASE k = "content-length" -> set_content_length_header_handler(k, v, mode, q)
               [] k = "location" -> set_location_header_handler(k, v, mode, q)
               [] k = "last-modified" -> set_last_modified_header_handler(k, v, mode, q)
               [] k = "content-type" -> set_content_type_header_handler(k, v, mode, q)
               [] k = "connection" -> set_resp_connection_header_handler(k, v, mode, q)
               [] k \in {"server", "date"} -> set_builtin_header_handler(m, k, v, mode, q)
               [] k \in Multi(m) -> set_builtin_multi_header_handler(m, k, v, mode, q)
               [] OTHER -> Res("OK", new.r)

\* The removals of a clear: none of an element that an earlier one cleared.
clear_headers_helper(m, q) ==
    LET l == q.list[m]
        first == SelectSeq([i \in DOMAIN l |-> i], LAMBDA i : l[i].hash = One \/ (l[i].hash # 0 /\ i = Min(Live(l, l[i].key))))
    IN  [n \in DOMAIN first |-> [map |-> m, key |-> l[first[n]].key, value |-> {}, mode |-> "remove"]]

set_resp_status(status, q) == [q EXCEPT !.status = status, !.err_status = 0]

set_resp_content_length(n, q, step) ==
    IF n = q.content_length_n["response"] THEN Res("OK", q)
    ELSE set_header("response", "content-length", Text(n), "set", q, step)

\* What nginx would add to a response is added before filters see it.
produced == <<"server", "date", "last-modified">>
produce_resp_headers(k, q, step) ==
    LET Set(v) == set_header("response", k, v, "set", q, step).r
    IN  CASE q.ptr["response"][k] # 0 -> q
          [] q.ptr["response"][k] = 0 /\ k = "server" -> Set({"nginx"})
          [] q.ptr["response"][k] = 0 /\ k = "date" -> Set({"now"})
          [] OTHER -> IF q.last_modified_time = -1 THEN q
                      ELSE [Set(Text(q.last_modified_time)) EXCEPT !.last_modified_time = -1]

----------------------------------------------------------------------------
\* Pseudo-headers.  Each operator gives the value and the caches it leaves.

Got(v, pw) == [value |-> v, pw |-> pw]

Path(q) == q.uri \cup q.args
maps_get_path(q, pw) ==
    IF pw.path # {} THEN Got(pw.path, pw) ELSE Got(Path(q), [pw EXCEPT !.path = Path(q)])

\* A path without a query keeps the query that was there.
Queries == {"?q", "?"}
FaultSetPath(v, q, pw) ==
    [rc |-> "OK", pw |-> pw,
     r |-> [q EXCEPT !.uri = v \ Queries,
                     !.args = IF v \cap Queries # {} THEN v \cap {"?q"} ELSE @]]

maps_set_path(v, q, pw) ==
    [rc |-> "OK", pw |-> [pw EXCEPT !.path = {}, !.kept = FALSE],
     r |-> [q EXCEPT !.uri = v \ Queries,
                     !.args = IF v \cap Queries # {} THEN v \cap {"?q"} ELSE @]]

maps_get_method(q, pw) == Got(q.method, pw)
maps_set_method(v, q, pw) == [rc |-> "OK", pw |-> pw, r |-> [q EXCEPT !.method = v]]

maps_get_scheme(q, pw) == Got({"http"}, [pw EXCEPT !.scheme = {"http"}])
maps_get_authority(q, pw) == Got({"localhost", ":80"}, [pw EXCEPT !.authority = {"localhost", ":80"}])

maps_get_response_status(q, pw) ==
    LET status == CASE q.err_status # 0 -> q.err_status
                    [] q.err_status = 0 /\ q.status # 0 -> q.status
                    [] OTHER -> IF q.http09 THEN 9 ELSE 0
        text == IF status = pw.response_code /\ pw.response_status # {}
                THEN pw.response_status ELSE Text(status)
    IN  IF status = 0 THEN Got(NULL, pw)
        ELSE Got(text, [pw EXCEPT !.response_code = status, !.response_status = text])

\* Out of range is no error, for the sake of the Rust SDK.
maps_set_response_status(v, q, pw) ==
    [rc |-> "OK", pw |-> pw,
     r |-> IF Number(v) \in 100..599 THEN set_resp_status(Number(v), q) ELSE q]

maps_get_dispatch_response_status(q, pw) ==
    LET status == Dispatched[pw.call].status
        text == IF status = pw.dispatch_call_code /\ pw.dispatch_call_status # {}
                THEN pw.dispatch_call_status ELSE Text(status)
    IN  IF status = 0 THEN Got(NULL, pw)
        ELSE Got(text, [pw EXCEPT !.dispatch_call_code = status, !.dispatch_call_status = text])

maps_get_dispatch_status(q, pw) == Got(Dispatched[pw.call].sock, pw)

special_keys(m) ==
    CASE m = "request" -> <<":path", ":method", ":scheme", ":authority">>
      [] m = "response" -> <<":status">>
      [] m = "call" -> <<":status", ":dispatch_status">>
      [] OTHER -> <<>>

maps_get_special_key(m, k, q, pw) ==
    CASE k = ":path" -> maps_get_path(q, pw)
      [] k = ":method" -> maps_get_method(q, pw)
      [] k = ":scheme" -> maps_get_scheme(q, pw)
      [] k = ":authority" -> maps_get_authority(q, pw)
      [] k = ":status" /\ m = "response" -> maps_get_response_status(q, pw)
      [] k = ":status" /\ m = "call" -> maps_get_dispatch_response_status(q, pw)
      [] k = ":dispatch_status" -> maps_get_dispatch_status(q, pw)
      [] OTHER -> Got(NULL, pw)

\* ABORT: a read-only key; DECLINED: no special key.
maps_set_special_key(m, k, v, q, pw) ==
    CASE ~Contains(special_keys(m), k) -> [rc |-> "DECLINED", r |-> q, pw |-> pw]
      [] k \in {":scheme", ":authority"} -> [rc |-> "ABORT", r |-> q, pw |-> pw]
      [] k = ":path" -> maps_set_path(v, q, pw)
      [] k = ":method" -> maps_set_method(v, q, pw)
      [] k = ":status" -> maps_set_response_status(v, q, pw)

----------------------------------------------------------------------------
\* Response headers that nginx's header filter would write.

shim_content_type(q) == IF q.content_type # {} THEN q.content_type ELSE NULL
shim_content_len(q) ==
    IF q.ptr["response"]["content-length"] = 0 /\ q.content_length_n["response"] >= 0
    THEN Text(q.content_length_n["response"]) ELSE NULL
shim_transfer_encoding(q) ==
    IF q.ptr["response"]["content-length"] = 0 /\ q.content_length_n["response"] < 0
    THEN {"chunked"} ELSE NULL
shim_connection(q) ==
    IF q.status = 101 THEN {"upgrade"}
    ELSE IF q.req_keepalive \/ q.keepalive THEN {"keep-alive"} ELSE {"close"}
shim_keep_alive(q) == IF q.req_keepalive THEN {"timeout"} ELSE NULL
shim_vary(q) == IF q.gzip_vary THEN {"Accept-Encoding"} ELSE NULL

get_shim_header(k, q) ==
    CASE k = "content-type" -> shim_content_type(q)
      [] k = "content-length" -> shim_content_len(q)
      [] k = "transfer-encoding" -> shim_transfer_encoding(q)
      [] k = "connection" -> shim_connection(q)
      [] k = "keep-alive" -> shim_keep_alive(q)
      [] k = "vary" -> shim_vary(q)
      [] OTHER -> NULL

Pair(k, v) == [key |-> k, value |-> v]
ShimKeys == <<"content-type", "content-length", "transfer-encoding", "connection",
              "keep-alive", "vary">>
Shims(q) == SelectSeq([i \in DOMAIN ShimKeys |-> Pair(ShimKeys[i], get_shim_header(ShimKeys[i], q))],
                      LAMBDA p : p.value # NULL)

get_shim_headers(q) ==
    IF q.shims_made /\ ~q.reset_resp_shims THEN q
    ELSE [q EXCEPT !.shims = Shims(q), !.shims_made = TRUE, !.reset_resp_shims = FALSE]

----------------------------------------------------------------------------
\* The maps.

maps_get_map(m, q, pw) ==
    CASE m \in Maps -> [found |-> TRUE, list |-> q.list[m]]
      [] m = "call" /\ pw.call # 0 -> [found |-> TRUE, list |-> Dispatched[pw.call].list]
      [] m = "upstream" /\ pw.step = "next_upstream" -> [found |-> TRUE, list |-> q.upstream]
      [] OTHER -> [found |-> FALSE, list |-> <<>>]

\* hash is not looked at: a header that was removed is still found.
get_list_elem(l, k) ==
    LET at == {i \in DOMAIN l : l[i].key = k}
    IN  IF at = {} THEN NULL ELSE l[Min(at)].value

maps_get(m, k, q, pw) ==
    LET special == IF Contains(special_keys(m), k) THEN maps_get_special_key(m, k, q, pw)
                   ELSE Got(NULL, pw)
        elem == get_list_elem(maps_get_map(m, q, pw).list, k)
    IN  IF special.value # NULL THEN special
        ELSE IF elem # NULL THEN Got(elem, special.pw)
        ELSE Got(IF m = "response" THEN get_shim_header(k, q) ELSE NULL, special.pw)

WithShims == {"resp_headers", "resp_body", "log"}

\* The list, and before it the pseudo-headers and the shims.
maps_get_all(m, q, pw) ==
    LET keys == special_keys(m)
        path == maps_get_path(q, pw).pw
        caches == IF m = "request" THEN maps_get_authority(q, maps_get_scheme(q, path).pw).pw
                  ELSE IF m = "response" THEN maps_get_response_status(q, pw).pw
                  ELSE IF m = "call" THEN maps_get_dispatch_response_status(q, pw).pw ELSE pw
        special == [i \in DOMAIN keys |-> Pair(keys[i], maps_get_special_key(m, keys[i], q, pw).value)]
        shims == m = "response" /\ pw.step \in WithShims
        made == IF shims THEN get_shim_headers(q) ELSE q
    IN  [r |-> made, pw |-> caches,
         extras |-> SelectSeq(special, LAMBDA p : p.value \notin {NULL, {}})
                        \o (IF shims THEN made.shims ELSE <<>>)]

\* As many pairs as the limit of the ABI allows.
pairs_marshal(list, extras) ==
    LET all == extras \o [i \in DOMAIN Shown(list) |-> Pair(Shown(list)[i].key, Shown(list)[i].value)]
    IN  IF MaxPairs # 0 /\ Len(all) > MaxPairs THEN SubSeq(all, 1, MaxPairs) ELSE all

maps_set(m, k, v, mode, q, pw) ==
    LET special == maps_set_special_key(m, k, v, q, pw)
        set == set_header(m, k, v, mode, q, pw.step)
    IN  IF special.rc # "DECLINED" THEN special
        ELSE [rc |-> IF set.rc = "DECLINED" THEN "OK" ELSE set.rc, r |-> set.r, pw |-> pw]

maps_set_all(m, pairs) ==
    [i \in DOMAIN pairs |-> [map |-> m, key |-> pairs[i].key, value |-> pairs[i].value, mode |-> "set"]]

\* Which headers a filter may write at which step.
set_header_check(m, q, pw) ==
    CASE m = "request"  -> \/ pw.step \in {"req_headers", "req_body"}
                           \/ pw.step \in {"upstream_select", "dispatch_response"}
                                /\ ~q.entered_header_filter
      [] m = "response" -> \/ pw.step \in {"req_headers", "req_body", "resp_headers"}
                           \/ pw.step = "dispatch_response" /\ ~q.header_sent

\* A write to the request is remembered for the upstream.
Checked(m, q) == IF m = "request" THEN [q EXCEPT !.req_headers_modified = TRUE] ELSE q

----------------------------------------------------------------------------
\* The request as it comes, and the host calls of a filter.

FirstOf(l, k) == IF Live(l, k) = {} THEN 0 ELSE Min(Live(l, k))

Request(rq) ==
    [list |-> [request |-> rq.list, response |-> <<>>],
     ptr |-> [request |-> [k \in Single("request") |-> FirstOf(rq.list, k)],
              response |-> [k \in Single("response") |-> 0]],
     chain |-> [request |-> [k \in Multi("request") |-> SetToSortSeq(Live(rq.list, k), <)],
                response |-> [k \in Multi("response") |-> <<>>]],
     content_length_n |->
        [request |-> LET p == FirstOf(rq.list, "content-length")
                     IN  IF p = 0 THEN -1 ELSE Number(rq.list[p].value),
         response |-> -1],
     keepalive |-> rq.keepalive, req_keepalive |-> rq.keepalive, gzip_vary |-> rq.vary,
     agents |-> {}, server |-> {}, uri |-> {"/a"}, args |-> {"?q"}, method |-> {"GET"},
     status |-> 0, err_status |-> 0, content_type |-> {}, last_modified_time |-> -1,
     upstream |-> <<>>, upstream_host |-> {}, req_headers_modified |-> FALSE,
     entered_header_filter |-> FALSE, header_sent |-> FALSE, http09 |-> rq.http09,
     req_content_length_n |-> 0, request_body |-> 0, body_set |-> FALSE,
     shims |-> <<>>, shims_made |-> FALSE, reset_resp_shims |-> FALSE]

NoCall == [op |-> "none", map |-> "", key |-> "", value |-> {}, rc |-> "", taken |-> FALSE,
           answer |-> {}, pairs |-> <<>>]

\* wrote, early and kept are history: this filter has written the response since
\* its on_response_headers began; the length was written before there was
\* content; the path was read before nginx changed the uri, and not set since.
HeadersInit ==
    /\ \E rq \in Requests : r = Request(rq)
    /\ \E name \in DOMAIN Programs :
       pwctx = [program |-> name, step |-> "req_headers", todo |-> <<>>, saved |-> "", filter |-> 0,
                call |-> 0, calls |-> 0, dispatched |-> 0,
                path |-> {}, scheme |-> {}, authority |-> {},
                response_code |-> 0, response_status |-> {},
                dispatch_call_code |-> 0, dispatch_call_status |-> {},
                wrote |-> FALSE, early |-> FALSE, kept |-> FALSE]
    /\ call = NoCall

Program == Programs[pwctx.program]
Running == pwctx.step # "done" /\ pwctx.calls < Program.calls /\ pwctx.todo = <<>>
Called(pw) == [pw EXCEPT !.calls = @ + 1]

\* A host call at the wrong step traps, which ends the request here.
Trap(c) == /\ pwctx' = [pwctx EXCEPT !.step = "done"]
           /\ call' = c
           /\ UNCHANGED r

Left(pw, m) == [Called(pw) EXCEPT !.wrote = @ \/ m = "response"]

\* add_header_map_value, replace_header_map_value, remove_header_map_value
set_header_map_value(w) ==
    LET c == [NoCall EXCEPT !.op = w.op, !.map = w.map, !.key = w.key, !.value = w.value]
    IN  /\ Running
        /\ \/ /\ ~set_header_check(w.map, r, pwctx)
              /\ Trap([c EXCEPT !.rc = "TRAP"])
           \/ /\ set_header_check(w.map, r, pwctx)
              /\ \E q \in {Checked(w.map, r)} :
                 \E set \in {maps_set(w.map, w.key, w.value, w.op, q, pwctx)} :
                    /\ r' = set.r
                    /\ pwctx' = Left(set.pw, w.map)
                    /\ call' = [c EXCEPT !.rc = set.rc,
                                  !.taken = set_header(w.map, w.key, w.value, w.op, q, pwctx.step).rc = "OK"]

\* The map is cleared and its pairs are set, one by one and with nothing else
\* in between: set_pair.  It ends at the first that is refused, a read-only key.
set_header_map_pairs(w) ==
    LET c == [NoCall EXCEPT !.op = "set_all", !.map = w.map]
    IN  /\ Running
        /\ \/ /\ ~set_header_check(w.map, r, pwctx)
              /\ Trap([c EXCEPT !.rc = "TRAP"])
           \/ /\ set_header_check(w.map, r, pwctx)
              /\ r' = Checked(w.map, r)
              /\ pwctx' = [Left(pwctx, w.map) EXCEPT !.todo = clear_headers_helper(w.map, r)
                                                                 \o maps_set_all(w.map, w.pairs)]
              /\ call' = [c EXCEPT !.rc = "OK"]

set_pair ==
    /\ call.op = "set_all" /\ pwctx.todo # <<>>
    /\ LET t == Head(pwctx.todo)
       IN  \E set \in {maps_set(t.map, t.key, t.value, t.mode, r, pwctx)} :
              /\ r' = set.r
              /\ pwctx' = [set.pw EXCEPT !.todo = IF set.rc = "OK" THEN Tail(@) ELSE <<>>]
    /\ UNCHANGED call

\* The request body, from an offset on or in front of what there is.  The length
\* nginx goes by changes with it, the header does not.
set_buffer(b) ==
    /\ Running
    /\ \/ /\ pwctx.step \notin {"req_headers", "req_body"}
          /\ Trap([NoCall EXCEPT !.op = "set_buffer", !.rc = "TRAP"])
       \/ /\ pwctx.step \in {"req_headers", "req_body"}
          /\ LET n == b.len + (IF b.prepend THEN r.request_body ELSE Min({b.at, r.request_body}))
             IN  r' = [r EXCEPT !.request_body = n, !.body_set = TRUE, !.content_length_n["request"] = n]
          /\ pwctx' = Called(pwctx)
          /\ call' = [NoCall EXCEPT !.op = "set_buffer", !.rc = "OK"]

\* A filter asks for the response to a call only in the handler of one.
get_header_map_value(rd) ==
    /\ Running
    /\ rd.map = "call" => pwctx.call # 0
    /\ \E got \in {maps_get(rd.map, rd.key, r, pwctx)} :
          /\ pwctx' = Called(got.pw)
          /\ call' = [NoCall EXCEPT !.op = "get", !.map = rd.map, !.key = rd.key,
                                    !.rc = IF got.value = NULL THEN "NOTFOUND" ELSE "OK",
                                    !.answer = got.value]
    /\ UNCHANGED r

get_header_map_pairs(m) ==
    LET map == maps_get_map(m, r, pwctx)
        c == [NoCall EXCEPT !.op = "get_all", !.map = m]
    IN  /\ Running
        /\ \/ /\ ~map.found
              /\ pwctx' = Called(pwctx)
              /\ call' = [c EXCEPT !.rc = "BADARG"]
              /\ UNCHANGED r
           \/ /\ map.found
              /\ \E all \in {maps_get_all(m, r, pwctx)} :
                    /\ r' = all.r
                    /\ pwctx' = Called(all.pw)
                    /\ call' = [c EXCEPT !.rc = "OK", !.pairs = pairs_marshal(map.list, all.extras)]
=============================================================================
