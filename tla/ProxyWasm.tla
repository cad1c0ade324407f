----------------------------- MODULE ProxyWasm -----------------------------
(***************************************************************************)
(* One HTTP request through a chain of proxy-wasm filters: the resumable   *)
(* loop over the filters (common/proxy_wasm/ngx_proxy_wasm.c), the HTTP    *)
(* calls a filter dispatches while it holds the chain                      *)
(* (http/proxy_wasm/ngx_http_proxy_wasm_dispatch.c), and the nginx         *)
(* handlers that start, suspend and re-enter the chain                     *)
(* (http/ngx_http_wasm_module.c, ngx_http_wasm_filter_module.c).           *)
(*                                                                         *)
(* A worker is single-threaded.  Whatever one event sets off runs until    *)
(* control is back in the event loop (pc = "idle"), and only there can     *)
(* another event come in.  Inside an event, pc tells who is running:       *)
(*   "nginx"     the phase or filter handler of the place `at`;            *)
(*   "chain"     the loop of ngx_proxy_wasm_resume();                      *)
(*   "callback"  Wasm code, from the loop or (job) from a finished call;   *)
(*   "ret"       the loop has returned to the one who called it;           *)
(*   "buffer"    the response body is being buffered;                      *)
(*   "reenter"   ngx_http_wasm_resume().                                   *)
(*                                                                         *)
(* A filter whose instance has trapped gets a fresh one for its next       *)
(* callback; the fresh instance is assumed to start.                       *)
(***************************************************************************)
EXTENDS Integers, FiniteSets

CONSTANTS
    NFilters,           \* pwctx->nfilters
    MaxCalls,           \* bound on the calls dispatched by one request
    PausesOnDispatch,   \* a filter with calls pending returns Pause
    StuckCalls          \* calls whose connection fails as their host is resolved

ASSUME FiltersAssumption == NFilters \in Nat \ {0}
ASSUME CallsAssumption == MaxCalls \in Nat
ASSUME PausesAssumption == PausesOnDispatch \in BOOLEAN
ASSUME StuckAssumption == StuckCalls \subseteq 1 .. MaxCalls

Filters == 0 .. NFilters - 1
Calls == 1 .. MaxCalls

VARIABLES
    phase, step, last_completed_step, exec_index, action,   \* pwctx
    failed,         \* filters whose pwexec->ecode is set
    trapped,        \* filters whose instance has trapped
    dispatch_ops,   \* filter |-> its calls that are not finished
    calls,          \* call |-> the state of its socket
    env,            \* rctx->env.state
    wev,            \* r->write_event_handler is ngx_http_wasm_wev_handler
    local_resp,     \* the local response of the request
    body,           \* the request's body
    resp_buffering, resp_bufs, resp_chunk_eof,
    resp_last,      \* nginx has given the filters its last buffer
    at,             \* the nginx phase or filter the request has come to
    response,       \* history: where its response comes from
    pc, chain, job, \* who is running; the loop's locals; the call's locals
    ran,            \* history: callbacks begun, per step of the request
    held            \* history: the filter that holds the chain, and why

pwctx == <<phase, step, last_completed_step, exec_index, action>>
pwexec == <<failed, trapped, dispatch_ops>>
resp == <<resp_buffering, resp_bufs, resp_chunk_eof, resp_last>>
rctx == <<env, wev, local_resp, body>>
place == <<at, response>>
history == <<ran, held>>
vars == <<pwctx, pwexec, calls, rctx, resp, place, pc, chain, job, history>>

NoJob == [f |-> -1]
NoChain == [i |-> 0, by |-> "none", rc |-> "ok"]
NotHeld == [f |-> -1, why |-> "none"]

\* ngx_proxy_wasm_step_e, in the order of the enum.
Rank ==
    [none |-> 0, req_headers |-> 1, req_body |-> 2, resp_headers |-> 4,
     resp_body |-> 5, log |-> 7, done |-> 8, dispatch_response |-> 10]

RequestSteps == {"req_headers", "req_body"}
ReturningSteps == RequestSteps \cup {"resp_headers", "resp_body"}
DispatchSteps == RequestSteps \cup {"dispatch_response"}
PausablePhases == {"rewrite", "content", "header_filter", "body_filter", "background"}

----------------------------------------------------------------------------
\* Is the resume handler ngx_http_wasm_wev_handler, were it chosen now?
set_resume_handler(state) ==
    state = "yield" \/ at # "rewrite" \/ local_resp # "none"

ngx_wasm_continue == env' = "continue" /\ wev' = set_resume_handler(env)
ngx_wasm_yield == env' = "yield" /\ wev' = TRUE

\* What the next action of the chain means to the caller.
action2rc(f, act) ==
    IF f \in failed THEN "500"
    ELSE IF step = "done" \/ act = "continue" THEN "ok"
    ELSE IF act = "done" THEN "done"
    ELSE IF phase \in PausablePhases THEN "again"
    ELSE "error"

Consumed(act) == IF act = "done" /\ step # "done" THEN "continue" ELSE act
Buffers(act) == act = "pause" /\ step # "done" /\ phase = "body_filter"

\* Fault: a step that has been completed is run again.
FaultSkips(s) == FALSE

Skips(s) ==
    /\ s \notin {"done", "resp_headers", "resp_body", "dispatch_response"}
    /\ Rank[s] <= Rank[last_completed_step]

\* Fault: the loop starts over at the first filter.
FaultLoopStart(s) == 0

\* Where the loop of ngx_proxy_wasm_resume() starts.
LoopStart(s) ==
    IF s = "resp_headers" /\ Rank[last_completed_step] < Rank[s]
    THEN 0 ELSE exec_index

\* ngx_proxy_wasm_resume(), up to its loop.
Resume(s, who) ==
    /\ step' = s
    /\ exec_index' = IF s = "resp_headers" THEN LoopStart(s) ELSE exec_index
    /\ chain' = [i |-> LoopStart(s), by |-> who, rc |-> "ok"]
    /\ pc' = IF Skips(s) THEN "ret" ELSE "chain"

\* The response of that origin begins; only a proxied one takes its time.
Respond(origin) ==
    /\ at' = "header_filter"
    /\ response' = origin
    /\ pc' = IF origin = "upstream" THEN "idle" ELSE "nginx"
    /\ held' = NotHeld
    /\ chain' = NoChain

Init ==
    /\ phase = "rewrite"
    /\ step = "none"
    /\ last_completed_step = "none"
    /\ exec_index = 0
    /\ action = "continue"
    /\ failed = {}
    /\ trapped = {}
    /\ dispatch_ops = [f \in Filters |-> {}]
    /\ calls = [c \in Calls |-> "unused"]
    /\ env = "continue"
    /\ wev = FALSE
    /\ local_resp = "none"
    /\ body \in {"none", "unread"}
    /\ resp_buffering = FALSE
    /\ resp_bufs = FALSE
    /\ resp_chunk_eof = FALSE
    /\ resp_last = FALSE
    /\ at = "rewrite"
    /\ response = "none"
    /\ pc = "nginx"
    /\ chain = NoChain
    /\ job = NoJob
    /\ ran = [s \in RequestSteps |-> 0]
    /\ held = NotHeld

----------------------------------------------------------------------------
(***************************************************************************)
(* The handlers nginx runs.                                                *)
(***************************************************************************)
RewriteHandler ==
    /\ pc = "nginx"
    /\ at = "rewrite"
    /\ phase' = "rewrite"
    /\ Resume("req_headers", "nginx")
    /\ UNCHANGED <<last_completed_step, action, pwexec, calls, rctx, resp,
                   place, job, history>>

\* Once the handler of the body leaves the request to the event loop, the body
\* is one that has been received.
Received == IF body = "arrived" THEN "received" ELSE body

\* ngx_http_wasm_content() while the request yields.
ContentYields ==
    /\ pc = "nginx"
    /\ at = "content"
    /\ env = "yield"
    /\ body' = Received
    /\ pc' = "idle"
    /\ UNCHANGED <<pwctx, pwexec, calls, env, wev, local_resp, resp, place, chain,
                   job, history>>

ContentFlushes ==
    /\ pc = "nginx"
    /\ at = "content"
    /\ env = "continue"
    /\ local_resp = "stashed"
    /\ local_resp' = "flushed"
    /\ Respond("local")
    /\ UNCHANGED <<pwctx, pwexec, calls, env, wev, body, resp, job, ran>>

\* No body, or one that is waited for: the handler the location had before
\* takes over.
ContentPasses ==
    /\ pc = "nginx"
    /\ at = "content"
    /\ env = "continue"
    /\ local_resp = "none"
    /\ body \in {"none", "waited"}
    /\ Respond("upstream")
    /\ UNCHANGED <<pwctx, pwexec, calls, rctx, resp, job, ran>>

ContentWaitsForBody ==
    /\ pc = "nginx"
    /\ at = "content"
    /\ env = "continue"
    /\ local_resp = "none"
    /\ body = "unread"
    /\ body' = "waited"
    /\ pc' = "idle"
    /\ UNCHANGED <<pwctx, pwexec, calls, env, wev, local_resp, resp, place,
                   chain, job, history>>

\* The body is there: on_request_body().
ContentRunsBody ==
    /\ pc = "nginx"
    /\ at = "content"
    /\ env = "continue"
    /\ local_resp = "none"
    /\ body \in {"unread", "received", "arrived"}
    /\ body' = IF body = "unread" THEN "received" ELSE body
    /\ phase' = "content"
    /\ Resume("req_body", "nginx")
    /\ UNCHANGED <<last_completed_step, action, pwexec, calls, env, wev,
                   local_resp, resp, place, job, history>>

\* ngx_http_proxy_wasm_on_request_body_handler(), later, from the event loop.
BodyArrives ==
    /\ pc = "idle"
    /\ at = "content"
    /\ body = "waited"
    /\ body' = "arrived"
    /\ pc' = "nginx"
    /\ UNCHANGED <<pwctx, pwexec, calls, env, wev, local_resp, resp, place,
                   chain, job, history>>

HeaderFilter ==
    /\ pc = IF response = "upstream" THEN "idle" ELSE "nginx"
    /\ at = "header_filter"
    /\ phase' = "header_filter"
    /\ Resume("resp_headers", "nginx")
    /\ UNCHANGED <<last_completed_step, action, pwexec, calls, rctx, resp,
                   place, job, history>>

\* ngx_http_wasm_body_filter_resume().
BodyFilterResume ==
    /\ phase' = "body_filter"
    /\ action' = "continue"
    /\ Resume("resp_body", "nginx")
    /\ UNCHANGED last_completed_step

BodyFilter(eof) ==
    /\ at = "body_filter"
    /\ pc = IF response = "upstream" THEN "idle" ELSE "nginx"
    /\ response = "upstream" \/ eof
    /\ resp_chunk_eof' = (resp_chunk_eof \/ eof)
    /\ resp_last' = eof
    /\ IF resp_buffering
       THEN pc' = "buffer" /\ UNCHANGED <<pwctx, chain>>
       ELSE BodyFilterResume
    /\ UNCHANGED <<pwexec, calls, rctx, resp_buffering, resp_bufs, place, job,
                   history>>

\* The filters wait for more, even if nginx has no more to give.
BufferChunk ==
    /\ pc = "buffer"
    /\ ~resp_chunk_eof
    /\ resp_bufs' = TRUE
    /\ at' = IF resp_last THEN "log" ELSE at
    /\ pc' = "idle"
    /\ chain' = NoChain
    /\ UNCHANGED <<pwctx, pwexec, calls, rctx, resp_buffering, resp_chunk_eof,
                   resp_last, response, job, history>>

\* The body is at its end, or the buffers are full.
BufferComplete ==
    /\ pc = "buffer"
    /\ resp_buffering' = FALSE
    /\ resp_bufs' = TRUE
    /\ BodyFilterResume
    /\ UNCHANGED <<pwexec, calls, rctx, resp_chunk_eof, resp_last, place, job,
                   history>>

LogHandler ==
    /\ pc = IF response = "none" THEN "nginx" ELSE "idle"
    /\ at = "log"
    /\ phase' = "log"
    /\ Resume("log", "nginx")
    /\ UNCHANGED <<last_completed_step, action, pwexec, calls, rctx, resp,
                   place, job, history>>

Cleanup ==
    /\ pc = "nginx"
    /\ at = "done"
    /\ phase' = "done"
    /\ Resume("done", "nginx")
    /\ UNCHANGED <<last_completed_step, action, pwexec, calls, rctx, resp,
                   place, job, history>>

----------------------------------------------------------------------------
(***************************************************************************)
(* ngx_proxy_wasm_resume(): one turn of its loop, and what its callers do  *)
(* with the result.                                                        *)
(***************************************************************************)
ChainEnds ==
    /\ pc = "chain"
    /\ chain.i >= NFilters
    /\ pc' = "ret"
    /\ UNCHANGED <<pwctx, pwexec, calls, rctx, resp, place, chain, job, history>>

\* The check for a yielded state, before the filter is run.
ChainStops ==
    LET rc == action2rc(chain.i, action) IN
    /\ pc = "chain"
    /\ chain.i < NFilters
    /\ rc # "ok"
    /\ action' = IF rc = "500" THEN action ELSE Consumed(action)
    /\ failed' = IF rc = "error" THEN failed \cup {exec_index} ELSE failed
    /\ resp_buffering' = (resp_buffering \/ (rc = "again" /\ Buffers(action)))
    /\ chain' = [chain EXCEPT !.rc = rc]
    /\ pc' = "ret"
    /\ UNCHANGED <<phase, step, last_completed_step, exec_index, trapped,
                   dispatch_ops, calls, rctx, resp_bufs, resp_chunk_eof, resp_last,
                   place, job, history>>

\* on_done() of a trapped filter is skipped, and of those after it.
ChainSkipsDone ==
    /\ pc = "chain"
    /\ chain.i < NFilters
    /\ step = "done"
    /\ chain.i \in trapped
    /\ chain.i \notin failed
    /\ pc' = "ret"
    /\ UNCHANGED <<pwctx, pwexec, calls, rctx, resp, place, chain, job, history>>

Runs(f) ==
    /\ pc = "chain"
    /\ f = chain.i
    /\ f < NFilters
    /\ action2rc(f, action) = "ok"
    /\ ~(step = "done" /\ f \in trapped)

\* on_response_body() of a response with a length: only a chunk as long as the
\* whole response is at its end.
ChunkEof == IF step = "resp_body" THEN {resp_chunk_eof, TRUE, FALSE} ELSE {resp_chunk_eof}

\* ngx_proxy_wasm_run_step(), up to the callback.
RunStep(f) ==
    /\ Runs(f)
    /\ step # "dispatch_response"
    /\ trapped' = trapped \ {f}
    /\ pc' = "callback"
    /\ ran' = IF step \in RequestSteps THEN [ran EXCEPT ![step] = @ + 1] ELSE ran
    /\ held' = NotHeld
    /\ resp_chunk_eof' \in ChunkEof
    /\ UNCHANGED <<pwctx, failed, dispatch_ops, calls, rctx, resp_buffering, resp_bufs,
                   resp_last, place, chain, job>>

(***************************************************************************)
(* The loop is run with the step a failed call handler has left behind:    *)
(* on_http_call_response() has no call to answer and reads a null pointer. *)
(***************************************************************************)
RunStepCrashes(f) ==
    /\ Runs(f)
    /\ step = "dispatch_response"
    /\ at' = "crashed"
    /\ pc' = "idle"
    /\ chain' = NoChain
    /\ UNCHANGED <<pwctx, pwexec, calls, rctx, resp, response, job, history>>

\* After the callback: the next action is act.
StepDone(act) ==
    LET index == IF act = "pause" /\ step = "resp_body"
                 THEN exec_index ELSE exec_index + 1
        rc == action2rc(-1, act)
        completed == rc \in {"ok", "again"} /\ index >= NFilters
    IN
    /\ action' = Consumed(act)
    /\ exec_index' = IF completed THEN 0 ELSE index
    /\ last_completed_step' = IF completed THEN step ELSE last_completed_step
    /\ resp_buffering' = (resp_buffering \/ Buffers(act))
    /\ chain' = [chain EXCEPT !.i = @ + 1, !.rc = rc]
    /\ pc' = IF rc \in {"ok", "again"} THEN "chain" ELSE "ret"

\* What a filter may return.
Returns(f) ==
    IF step \notin ReturningSteps THEN {action}
    ELSE IF PausesOnDispatch /\ dispatch_ops[f] # {} THEN {"pause"}
    ELSE {"continue", "pause"}

CallbackReturns ==
    /\ pc = "callback"
    /\ job = NoJob
    /\ \E ret \in Returns(chain.i) :
          LET out == IF step = "resp_body" /\ resp_bufs THEN "continue" ELSE ret
              next == IF action = "done" THEN "done" ELSE out
              why == IF dispatch_ops[chain.i] = {} THEN "itself" ELSE "calls"
          IN
          /\ StepDone(next)
          /\ held' = IF next = "pause" /\ step \in RequestSteps
                     THEN [f |-> chain.i, why |-> why] ELSE held
    /\ UNCHANGED <<phase, step, pwexec, calls, rctx, resp_bufs, resp_chunk_eof,
                   resp_last, place, job, ran>>

\* A trap fails the chain, unless the filter has sent its local response.
CallbackTraps ==
    /\ pc = "callback"
    /\ job = NoJob
    /\ trapped' = trapped \cup {chain.i}
    /\ IF step \in ReturningSteps /\ action # "done"
       THEN /\ failed' = failed \cup {chain.i}
            /\ action' = "continue"
            /\ chain' = [chain EXCEPT !.rc = "500"]
            /\ pc' = "ret"
            /\ UNCHANGED <<last_completed_step, exec_index, resp_buffering>>
       ELSE StepDone(action) /\ UNCHANGED failed
    /\ UNCHANGED <<phase, step, dispatch_ops, calls, rctx, resp_bufs,
                   resp_chunk_eof, resp_last, place, job, history>>

Returned(who, where, rcs) ==
    /\ pc = "ret"
    /\ chain.by = who
    /\ at \in where
    /\ chain.rc \in rcs

Suspended ==
    /\ Returned("nginx", {"rewrite"}, {"again"}) \/ Returned("call", {at}, {"again"})
    /\ pc' = "idle"
    /\ chain' = NoChain
    /\ UNCHANGED <<pwctx, pwexec, calls, rctx, resp, place, job, history>>

\* on_request_body() or the wev handler: the request yields.
Yielded ==
    /\ Returned("nginx", {"content"}, {"again"}) \/ Returned("wev", {at}, {"again"})
    /\ ngx_wasm_yield
    /\ body' = Received
    /\ pc' = "idle"
    /\ chain' = NoChain
    /\ UNCHANGED <<pwctx, pwexec, calls, local_resp, resp, place, job, history>>

RewriteDone ==
    /\ Returned("nginx", {"rewrite"}, {"ok", "done"})
    /\ at' = "content"
    /\ pc' = "nginx"
    /\ chain' = NoChain
    /\ UNCHANGED <<pwctx, pwexec, calls, rctx, resp, response, job, history>>

\* The chain has failed: the response is a 500 of nginx.
RequestFails ==
    /\ Returned("nginx", {"rewrite", "content"}, {"500", "error"})
    /\ body # "arrived"
    /\ env' = IF at = "content" THEN "error" ELSE env
    /\ Respond("error")
    /\ UNCHANGED <<pwctx, pwexec, calls, wev, local_resp, body, resp, job, ran>>

\* The handler of the body ignores what ngx_http_wasm_content() returns: the
\* request ends without a response.
BodyHandlerFails ==
    /\ Returned("nginx", {"content"}, {"500", "error"})
    /\ body = "arrived"
    /\ env' = "error"
    /\ at' = "log"
    /\ pc' = "nginx"
    /\ held' = NotHeld
    /\ chain' = NoChain
    /\ UNCHANGED <<pwctx, pwexec, calls, wev, local_resp, body, resp, response, job, ran>>

ContentDone ==
    /\ Returned("nginx", {"content"}, {"ok", "done"})
    /\ local_resp' = IF local_resp = "none" THEN "none" ELSE "flushed"
    /\ Respond(IF local_resp = "none" THEN "upstream" ELSE "local")
    /\ UNCHANGED <<pwctx, pwexec, calls, env, wev, body, resp, job, ran>>

\* The filters of the response ignore the result.
HeaderFilterDone ==
    /\ Returned("nginx", {"header_filter"}, {chain.rc})
    /\ at' = "body_filter"
    /\ pc' = IF response = "upstream" THEN "idle" ELSE "nginx"
    /\ chain' = NoChain
    /\ UNCHANGED <<pwctx, pwexec, calls, rctx, resp, response, job, history>>

BodyFilterDone ==
    /\ Returned("nginx", {"body_filter"}, {chain.rc})
    /\ pc' = IF resp_buffering THEN "buffer" ELSE "idle"
    /\ at' = IF ~resp_buffering /\ resp_last THEN "log" ELSE at
    /\ chain' = NoChain
    /\ UNCHANGED <<pwctx, pwexec, calls, rctx, resp, response, job, history>>

LogDone ==
    /\ Returned("nginx", {"log"}, {chain.rc})
    /\ at' = "done"
    /\ pc' = "nginx"
    /\ chain' = NoChain
    /\ UNCHANGED <<pwctx, pwexec, calls, rctx, resp, response, job, history>>

\* ngx_proxy_wasm_ctx_destroy(), and the request's pool is released.
Freed ==
    /\ Returned("nginx", {"done"}, {chain.rc})
    /\ at' = "freed"
    /\ pc' = "idle"
    /\ chain' = NoChain
    /\ UNCHANGED <<pwctx, pwexec, calls, rctx, resp, response, job, history>>

CallResumed ==
    /\ Returned("call", {at}, {"ok", "done", "500", "error"})
    /\ pc' = "reenter"
    /\ chain' = NoChain
    /\ UNCHANGED <<pwctx, pwexec, calls, rctx, resp, place, job, history>>

\* ngx_http_wasm_wev_handler(): back to the phases, or nothing at all.
WevResumed ==
    /\ Returned("wev", {at}, {"ok", "done", "500", "error"})
    /\ IF chain.rc \in {"ok", "done"}
       THEN wev' = FALSE /\ pc' = "nginx"
       ELSE pc' = "idle" /\ UNCHANGED wev
    /\ chain' = NoChain
    /\ UNCHANGED <<pwctx, pwexec, calls, env, local_resp, body, resp, place, job,
                   history>>

(***************************************************************************)
(* ngx_http_wasm_resume() calls the write event handler.  Once the content *)
(* has been produced there is nothing left for it to resume.               *)
(***************************************************************************)
ReenterPhases ==
    /\ pc = "reenter"
    /\ at \in {"rewrite", "content"}
    /\ ~wev \/ at = "content" \/ local_resp # "none"
    /\ at' = IF wev THEN "content" ELSE at
    /\ pc' = "nginx"
    /\ UNCHANGED <<pwctx, pwexec, calls, rctx, resp, response, chain, job, history>>

ReenterWev ==
    /\ pc = "reenter"
    /\ at = "rewrite"
    /\ wev
    /\ local_resp = "none"
    /\ phase' = "rewrite"
    /\ Resume("req_headers", "wev")
    /\ UNCHANGED <<last_completed_step, action, pwexec, calls, rctx, resp, place,
                   job, history>>

ReenterNothing ==
    /\ pc = "reenter"
    /\ at \notin {"rewrite", "content"}
    /\ pc' = "idle"
    /\ UNCHANGED <<pwctx, pwexec, calls, rctx, resp, place, chain, job, history>>

(***************************************************************************)
(* The client's connection is writable: the handler is called for nothing. *)
(* The calls just posted are started first, in the same turn of the event  *)
(* loop.  While nginx reads the body it has a handler of its own.          *)
(***************************************************************************)
ClientWritable ==
    /\ pc = "idle"
    /\ at \in {"rewrite", "content"}
    /\ body # "waited"
    /\ \A c \in Calls : calls[c] # "posted"
    /\ pc' = "reenter"
    /\ UNCHANGED <<pwctx, pwexec, calls, rctx, resp, place, chain, job, history>>

----------------------------------------------------------------------------
(***************************************************************************)
(* The host functions a callback may call.  One that is called where it is *)
(* not allowed traps, which is CallbackTraps or HandlerTraps.              *)
(***************************************************************************)
Current == IF job = NoJob THEN chain.i ELSE job.f

proxy_dispatch_http_call(c) ==
    /\ pc = "callback"
    /\ step \in DispatchSteps
    /\ calls[c] = "unused"
    /\ \A d \in Calls : d < c => calls[d] # "unused"
    /\ calls' = [calls EXCEPT ![c] = "posted"]
    /\ dispatch_ops' = [dispatch_ops EXCEPT ![Current] = @ \cup {c}]
    /\ action' = "pause"
    /\ UNCHANGED <<phase, step, last_completed_step, exec_index, failed, trapped,
                   rctx, resp, place, pc, chain, job, history>>

\* Stashed until the content phase; cancels the filter's own calls.
proxy_send_local_response ==
    /\ pc = "callback"
    /\ at \in {"rewrite", "content"}
    /\ local_resp = "none"
    /\ local_resp' = "stashed"
    /\ action' = IF step = "dispatch_response" THEN action ELSE "done"
    /\ calls' = [c \in Calls |->
                    IF c \in dispatch_ops[Current] THEN "closed" ELSE calls[c]]
    /\ dispatch_ops' = [dispatch_ops EXCEPT ![Current] = {}]
    /\ UNCHANGED <<phase, step, last_completed_step, exec_index, failed, trapped,
                   env, wev, body, resp, place, pc, chain, job, history>>

proxy_continue ==
    /\ pc = "callback"
    /\ ngx_wasm_continue
    /\ UNCHANGED <<pwctx, pwexec, calls, local_resp, body, resp, place, pc, chain,
                   job, history>>

----------------------------------------------------------------------------
(***************************************************************************)
(* The resume handler of a call's socket.  After the request is freed its  *)
(* calls work on freed memory, and nothing more is said of them.           *)
(***************************************************************************)
Pending(c) ==
    /\ pc = "idle"
    /\ at \notin {"freed", "crashed"}
    /\ calls[c] \in {"posted", "open"}

OwnerOf(c) == CHOOSE f \in Filters : c \in dispatch_ops[f]

\* Resolving, connecting, sending or receiving goes on.
CallProgress(c) ==
    /\ Pending(c)
    /\ calls' = [calls EXCEPT ![c] = "open"]
    /\ ngx_wasm_yield
    /\ action' = "pause"
    /\ UNCHANGED <<phase, step, last_completed_step, exec_index, pwexec,
                   local_resp, body, resp, place, pc, chain, job, history>>

\* Fault: a call that errs stays in the filter's list.
FaultUnlisted(c, received) ==
    [dispatch_ops EXCEPT ![OwnerOf(c)] = IF received THEN @ \ {c} ELSE @]

Unlisted(c, received) == [dispatch_ops EXCEPT ![OwnerOf(c)] = @ \ {c}]

(***************************************************************************)
(* The response is received, or the call errs.  Both answer the filter,    *)
(* in a fresh instance should the filter have trapped meanwhile.           *)
(***************************************************************************)
CallEnds(c, received) ==
    LET f == OwnerOf(c) IN
    /\ Pending(c)
    /\ calls' = [calls EXCEPT ![c] = "closed"]
    /\ dispatch_ops' = Unlisted(c, received)
    /\ failed' = IF received /\ f \in trapped THEN failed \cup {f} ELSE failed
    /\ trapped' = trapped \ {f}
    /\ job' = [f |-> f, saved |-> step, erred |-> ~received \/ f \in trapped]
    /\ phase' = "background"
    /\ step' = "dispatch_response"
    /\ ngx_wasm_continue
    /\ pc' = "callback"
    /\ UNCHANGED <<last_completed_step, exec_index, action, local_resp, body, resp,
                   place, chain, history>>

\* Fault: one finished call is enough to resume the chain.
FaultMorePending(f) == FALSE

MorePending(f) == dispatch_ops[f] # {}

\* Fault: after a call that erred nobody is resumed.
FaultErredNext == "idle"

ErredNext == "reenter"

\* The end of the resume handler: the next step is s.
CallHandled(s, erred) ==
    IF MorePending(job.f)
    THEN /\ ngx_wasm_yield
         /\ action' = "pause"
         /\ step' = s
         /\ pc' = "idle"
         /\ UNCHANGED <<exec_index, chain>>
    ELSE /\ ngx_wasm_continue
         /\ action' = "continue"
         /\ IF erred
            THEN step' = s /\ pc' = ErredNext /\ UNCHANGED <<exec_index, chain>>
            ELSE Resume(s, "call")

HandlerReturns ==
    /\ pc = "callback"
    /\ job # NoJob
    /\ failed' = failed \ {job.f}
    /\ CallHandled(job.saved, job.erred)
    /\ job' = NoJob
    /\ UNCHANGED <<phase, last_completed_step, trapped, dispatch_ops, calls,
                   local_resp, body, resp, place, history>>

\* The step stays that of the handler.
HandlerTraps ==
    /\ pc = "callback"
    /\ job # NoJob
    /\ failed' = failed \cup {job.f}
    /\ trapped' = trapped \cup {job.f}
    /\ CallHandled(step, TRUE)
    /\ job' = NoJob
    /\ UNCHANGED <<phase, last_completed_step, dispatch_ops, calls, local_resp,
                   body, resp, place, history>>

Ended == pc = "idle" /\ at \in {"freed", "crashed"} /\ UNCHANGED vars

\* What runs in the worker once an event has been taken up.
Synchronous ==
    \/ RewriteHandler
    \/ ContentYields \/ ContentFlushes \/ ContentPasses
    \/ ContentWaitsForBody \/ ContentRunsBody
    \/ BufferChunk \/ BufferComplete \/ Cleanup
    \/ ChainEnds \/ ChainStops \/ ChainSkipsDone
    \/ \E f \in Filters : RunStep(f) \/ RunStepCrashes(f)
    \/ CallbackReturns \/ CallbackTraps \/ HandlerReturns \/ HandlerTraps
    \/ Suspended \/ Yielded \/ RewriteDone \/ ContentDone
    \/ RequestFails \/ BodyHandlerFails
    \/ HeaderFilterDone \/ BodyFilterDone \/ LogDone \/ Freed
    \/ CallResumed \/ WevResumed
    \/ ReenterPhases \/ ReenterWev \/ ReenterNothing
    \/ \E c \in Calls : proxy_dispatch_http_call(c)
    \/ proxy_send_local_response \/ proxy_continue

Next ==
    \/ Synchronous
    \/ BodyArrives \/ ClientWritable
    \/ HeaderFilter
    \/ \E eof \in BOOLEAN : BodyFilter(eof)
    \/ LogHandler
    \/ \E c \in Calls : CallProgress(c) \/ CallEnds(c, TRUE) \/ CallEnds(c, FALSE)
    \/ Ended

(***************************************************************************)
(* A worker goes on with what it has begun, and callbacks return.  The     *)
(* socket of a call has a timer, which the event loop looks at in each of  *)
(* its turns: no other event can keep the call from ending.  Only when the *)
(* connection fails at once in the resolver's handler are no timer and no  *)
(* event left (Socket, sock.stuck): such a call may never end.             *)
(***************************************************************************)
Fairness ==
    /\ WF_vars(Synchronous)
    /\ \A c \in Calls \ StuckCalls : SF_vars(CallEnds(c, TRUE) \/ CallEnds(c, FALSE))

Spec == Init /\ [][Next]_vars /\ Fairness

----------------------------------------------------------------------------
Steps == DOMAIN Rank
Codes == {"ok", "again", "done", "500", "error"}

(***************************************************************************)
(* The variables have their types; the assertion of ngx_proxy_wasm_resume  *)
(* that exec_index is at most nfilters is among them.                      *)
(***************************************************************************)
TypeOK ==
    /\ phase \in PausablePhases \cup {"log", "done"}
    /\ step \in Steps
    /\ last_completed_step \in Steps
    /\ exec_index \in 0 .. NFilters
    /\ action \in {"continue", "pause", "done"}
    /\ failed \subseteq Filters
    /\ trapped \subseteq Filters
    /\ dispatch_ops \in [Filters -> SUBSET Calls]
    /\ calls \in [Calls -> {"unused", "posted", "open", "closed"}]
    /\ env \in {"continue", "yield", "error"}
    /\ wev \in BOOLEAN
    /\ local_resp \in {"none", "stashed", "flushed"}
    /\ body \in {"none", "unread", "waited", "arrived", "received"}
    /\ resp_buffering \in BOOLEAN
    /\ resp_bufs \in BOOLEAN
    /\ resp_chunk_eof \in BOOLEAN
    /\ resp_last \in BOOLEAN
    /\ at \in {"rewrite", "content", "header_filter", "body_filter", "log",
               "done", "freed", "crashed"}
    /\ response \in {"none", "upstream", "local", "error"}
    /\ pc \in {"nginx", "chain", "callback", "ret", "buffer", "reenter", "idle"}
    /\ chain \in [i : 0 .. NFilters, by : {"none", "nginx", "wev", "call"}, rc : Codes]
    /\ job \in {NoJob} \cup [f : Filters, saved : Steps, erred : BOOLEAN]
    /\ ran \in [RequestSteps -> 0 .. NFilters]
    /\ held \in {NotHeld} \cup [f : Filters, why : {"itself", "calls"}]

(***************************************************************************)
(* However often the chain is suspended, resumed from a call and entered   *)
(* again by nginx, each filter sees each step of the request at most once, *)
(* in the order of the chain and with none left out, and sees the body     *)
(* only when all filters have seen the headers.                            *)
(***************************************************************************)
FiltersRunInOrder ==
    pc = "callback" /\ job = NoJob /\ step \in RequestSteps =>
       /\ ran[step] = chain.i + 1
       /\ step = "req_body" => ran["req_headers"] = NFilters

(***************************************************************************)
(* docs/PROXY_WASM.md: "the filter chain will resume once all dispatch     *)
(* calls have finished executing".  While calls are pending of the filter  *)
(* that holds the chain, no filter's step is run from the chain and no     *)
(* response begins, except a local one a filter has sent in between or the *)
(* 500 of a filter that has failed; one that has failed the handler of the *)
(* body ends the request with no response at all.                          *)
(***************************************************************************)
HeldUntilAnswered ==
    [][held.why = "calls" /\ held' # held =>
          \/ dispatch_ops[held.f] = {}
          \/ response' \in {"local", "error"}
          \/ failed # {} /\ env' = "error"]_vars

(***************************************************************************)
(* No lost wakeup: a request that is left suspended to the event loop      *)
(* waits for its body, for a call, or because a filter paused without any  *)
(* call.  A finished, failed, cancelled or trapping call never leaves it   *)
(* waiting for nothing.                                                    *)
(***************************************************************************)
NoLostWakeup ==
    pc = "idle" /\ at \in {"rewrite", "content"} =>
       \/ body = "waited"
       \/ held.why = "itself"
       \/ \E f \in Filters : dispatch_ops[f] # {}

(***************************************************************************)
(* docs/PROXY_WASM.md: "Paused filter chains will continue to the next     *)
(* step on a "resume" event": a chain held by calls does not stay held, as *)
(* every call is answered, times out or is cancelled.  It goes on to the   *)
(* next filter, to the response, or to where it needs the client's body.   *)
(* Two things are excepted: the filter that holds it waits for a call that *)
(* no event can end any more, or the worker crashes.                       *)
(***************************************************************************)
ChainResumes ==
    held.why = "calls" ~>
       \/ held.why # "calls"
       \/ body = "waited"
       \/ held.why = "calls" /\ dispatch_ops[held.f] \cap StuckCalls # {}
       \/ at = "crashed"

(***************************************************************************)
(* docs/PROXY_WASM.md: "Once the call is scheduled, the                    *)
(* `on_http_call_response` handler will be invoked when a response is      *)
(* received or the connection has encountered an error."  So a request is  *)
(* not freed while it has calls that have been neither answered nor        *)
(* cancelled.                                                              *)
(***************************************************************************)
CallsEndBeforeRequest == at = "freed" => \A f \in Filters : dispatch_ops[f] = {}
============================================================================
