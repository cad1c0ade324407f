----------------------------- MODULE MCUpstream -----------------------------
(***************************************************************************)
(* A request with repeated headers, one with few and one of HTTP/0.9;      *)
(* programs that write every header with a handler of its own, three calls *)
(* at any step; two tries.  The inputs keep out what dereferences NULL:    *)
(* removing :path, :status or the response's Connection.                   *)
(***************************************************************************)
EXTENDS Upstream

Q(k, v) == Elem(k, v)

MCRequests ==
    {[list |-> <<Q("host", {"h"}), Q("content-length", {"2"}), Q("x", {"a"}), Q("cookie", {"a"}),
                 Q("x", {"b"}), Q("cookie", {"b"})>>, keepalive |-> TRUE, vary |-> TRUE,
      http09 |-> FALSE],
     [list |-> <<Q("host", {"h"}), Q("connection", {"close"})>>, keepalive |-> FALSE, vary |-> FALSE,
      http09 |-> FALSE],
     [list |-> <<>>, keepalive |-> FALSE, vary |-> FALSE, http09 |-> TRUE]}

MCContents ==
    {[status |-> 200, length |-> 5, type |-> {"text/plain"}, list |-> <<>>, time |-> 2],
     [status |-> 200, length |-> -1, type |-> {}, time |-> -1,
      list |-> <<[Q("cache-control", {"a"}) EXCEPT !.hash = One]>>]}

MCAnswers ==
    {[status |-> 503, length |-> 2, type |-> {}, list |-> <<Q("content-length", {"2"})>>, time |-> -1],
     [status |-> 200, length |-> 5, type |-> {"text/plain"},
      list |-> <<Q("content-length", {"5"}), Q("last-modified", {"2"})>>, time |-> 2]}

MCLocalResponses ==
    {[status |-> 200, length |-> 5, headers |-> <<Pair("content-length", {"2"}), Pair("x", {"a"})>>],
     [status |-> 503, length |-> 0, headers |-> <<Pair("content-length", {"bad"})>>]}

MCDispatched == <<[status |-> 200, sock |-> {"ok"}, list |-> <<Q("x", {"a"})>>],
                  [status |-> 503, sock |-> {"ok"}, list |-> <<>>]>>

W(m, op, k, v) == [map |-> m, op |-> op, key |-> k, value |-> v]
R(m, k) == [map |-> m, key |-> k]
Nothing == [writes |-> {}, pairs |-> {}, reads |-> {}, bodies |-> {}, selections |-> {},
            timeouts |-> {}, dispatches |-> 0, accepts |-> FALSE, rewrites |-> FALSE, calls |-> 3]

Table ==
    [length |-> [Nothing EXCEPT !.writes =
        {W("request", "set", "content-length", {"5"}), W("request", "append", "content-length", {"5"}),
         W("request", "remove", "content-length", {}),
         W("response", "set", "content-length", {"2"}), W("response", "append", "content-length", {"5"}),
         W("response", "remove", "content-length", {}), W("response", "set", "content-length", {"bad"})},
                                    !.dispatches = 1],
     body |-> [Nothing EXCEPT !.writes =
        {W("request", "set", "content-length", {"5"}), W("request", "remove", "content-length", {})},
                                  !.bodies = {[prepend |-> TRUE, at |-> 0, len |-> 1],
                                              [prepend |-> FALSE, at |-> 1, len |-> 3]},
                                  !.dispatches = 1],
     known |-> [Nothing EXCEPT !.writes =
        {W("request", "append", "connection", {"keep-alive"}), W("request", "set", "connection", {"close"}),
         W("request", "set", "user-agent", {"MSIE 6."}), W("request", "append", "referer", {"a"}),
         W("request", "remove", "referer", {}), W("response", "set", "server", {"s"})}],
     repeated |-> [Nothing EXCEPT !.writes =
        {W("request", "set", "x", {"c"}), W("request", "append", "x", {"c"}), W("request", "remove", "x", {}),
         W("request", "append", "cookie", {"c"}), W("request", "set", "cookie", {"c"})},
                                      !.reads = {R("request", "x")}],
     shims |-> [Nothing EXCEPT !.writes =
        {W("response", "set", "content-type", {"a"}), W("response", "set", "connection", {"close"}),
         W("response", "set", "connection", {"upgrade"}), W("response", "append", "cache-control", {"b"}),
         W("response", "set", "cache-control", {"c"})},
                                   !.reads = {R("response", "vary")}],
     redirect |-> [Nothing EXCEPT !.writes =
        {W("response", "set", "location", {"/"}), W("response", "append", "location", {"abs"}),
         W("response", "set", "last-modified", {"5"}), W("response", "remove", "last-modified", {}),
         W("response", "remove", "x", {})}],
     pseudo |-> [Nothing EXCEPT !.writes =
        {W("request", "set", ":path", {"/b"}), W("request", "set", ":path", {"/b", "?q"}),
         W("request", "set", ":method", {"PUT"}), W("request", "set", ":scheme", {"https"})},
                                    !.reads = {R("request", ":path"), R("request", ":scheme")},
                                    !.rewrites = TRUE],
     status |-> [Nothing EXCEPT !.writes =
        {W("response", "set", ":status", {"503"}), W("response", "set", ":status", {"700"})},
                                    !.reads = {R("response", ":status"), R("call", ":status")},
                                    !.dispatches = 2],
     maps |-> [Nothing EXCEPT !.pairs =
        {[map |-> "request", pairs |-> <<Pair("x", {"c"}), Pair(":scheme", {"https"}), Pair("host", {"n"})>>],
         [map |-> "response", pairs |-> <<Pair("content-length", {"2"}), Pair(":status", {"503"})>>]},
                                  !.reads = {R("request", "x")},
                                  !.dispatches = 1],
     tries |-> [Nothing EXCEPT !.writes = {W("request", "set", "host", {"n"}), W("request", "set", "x", {"c"})},
                                   !.selections = {[addr |-> "a", port |-> 80, tls |-> TRUE, sni |-> "a"],
                                                   [addr |-> "b", port |-> 80, tls |-> FALSE, sni |-> ""]},
                                   !.dispatches = 1, !.accepts = TRUE],
     choices |-> [Nothing EXCEPT !.selections = {[addr |-> "a", port |-> 80, tls |-> FALSE, sni |-> ""],
                                                 [addr |-> "f", port |-> 80, tls |-> FALSE, sni |-> ""],
                                                 [addr |-> "a", port |-> 65536, tls |-> FALSE, sni |-> ""]},
                                     !.reads = {R("upstream", "content-length"),
                                                R("call", ":dispatch_status")},
                                     !.timeouts = {0, 1}, !.dispatches = 1, !.accepts = TRUE]]

MCPrograms == [name \in DOMAIN Table |-> Table[name]]
=============================================================================
