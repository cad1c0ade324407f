------------------------ MODULE ProxyWasmInvariant -------------------------
(***************************************************************************)
(* What holds of every chain, however many filters it has and however many *)
(* calls they dispatch: filters run in order and once per step, a chain is *)
(* held until its calls are answered, and no request waits for nothing.    *)
(***************************************************************************)
EXTENDS ProxyWasm, TLAPS

\* The phases that run the request's steps; a Wasm callback of the loop.
Early == at \in {"rewrite", "content"}
InLoop == pc = "callback" /\ job = NoJob

\* The calls with a live socket are those in the list of some filter, and a
\* call is in the list of one filter only.
CallsListed ==
    /\ \A c \in Calls :
          calls[c] \in {"posted", "open"} <=> \E f \in Filters : c \in dispatch_ops[f]
    /\ \A f, g \in Filters : f # g => dispatch_ops[f] \cap dispatch_ops[g] = {}

\* Who is running determines whose local variables are in use, and the loop is
\* never behind the index it is resumed from.
Locals ==
    /\ pc \notin {"chain", "callback", "ret"} => chain = NoChain
    /\ job # NoJob => pc = "callback" /\ chain = NoChain /\ step = "dispatch_response"
    /\ pc \in {"chain", "ret"} \/ InLoop => chain.by # "none"
    /\ pc = "chain" => exec_index <= chain.i /\ chain.rc \in {"ok", "again"}
    /\ InLoop => exec_index <= chain.i /\ chain.i < NFilters
    /\ action = "done" => InLoop /\ step # "done"
    /\ chain.by = "wev" => at = "rewrite"
    /\ pc = "buffer" => at = "body_filter"

\* Is the step of the request not completed yet?
ToRun(s) ==
    \/ s = "req_headers" /\ last_completed_step = "none"
    \/ s = "req_body" /\ last_completed_step \in {"none", "req_headers"}

\* Once the response has begun, nobody holds the chain and no step of the
\* request is left to run, whatever the request has failed in.
Late ==
    /\ IF at = "crashed" THEN pc = "idle" ELSE held = NotHeld
    /\ ToRun(step) => at \in {"header_filter", "log"} /\ pc = "nginx"
    /\ job # NoJob => ~ToRun(job.saved)
    /\ pc = "chain" \/ InLoop => step \notin RequestSteps

----------------------------------------------------------------------------
\* What holds in the request's phases.  How far the steps have come:
Places ==
    /\ step \in DispatchSteps \cup {"none"}
    /\ last_completed_step \in RequestSteps \cup {"none"}
    /\ at = "rewrite" => step # "req_body" /\ last_completed_step # "req_body"
    /\ step = "none" => at = "rewrite" /\ pc = "nginx"
    /\ step = "req_body" => last_completed_step # "none" /\ body \in {"received", "arrived"}
    /\ job # NoJob => job.saved \in DispatchSteps
    /\ job # NoJob /\ job.saved = "req_body" =>
          at = "content" /\ last_completed_step # "none" /\ body \in {"received", "arrived"}

\* The request waits for somebody: for the filter that paused, or for a call.
Waiting == held.why = "itself" \/ \E f \in Filters : dispatch_ops[f] # {}

\* A chain that is paused, or a request that yields, waits for somebody.
Pauses ==
    /\ action = "pause" /\ pc # "callback" => Waiting
    /\ action = "pause" /\ InLoop => dispatch_ops[chain.i] # {}
    /\ env = "yield" => action = "pause" /\ pc # "callback"
    /\ env # "error"
    /\ pc \in {"chain", "ret"} /\ chain.rc = "again" => action = "pause"
    /\ at = "rewrite" /\ wev /\ local_resp = "none" /\ job = NoJob =>
          action = "pause" /\ pc # "callback"
    /\ pc = "idle" => body = "waited" \/ Waiting

\* Who has called the loop tells where the request stands.
Callers ==
    /\ chain.by = "call" => env = "continue"
    /\ chain.by \in {"nginx", "wev"} => step \in RequestSteps
    /\ chain.by = "wev" => action = "pause" /\ ~InLoop /\ (pc = "chain" => chain.rc = "ok")
    /\ at = "rewrite" /\ (pc = "nginx" \/ chain.by \in {"nginx", "call"}) =>
          ~wev \/ local_resp # "none"
    /\ at = "content" /\ chain.by = "nginx" => env = "continue" /\ body \in {"received", "arrived"}
    /\ phase \in PausablePhases

\* Where the loop stands while it runs a step of the request: at the index the
\* chain is resumed from, until it has reached its end.
Turns ==
    /\ InLoop => ToRun(step) /\ chain.i = exec_index
    /\ pc = "chain" =>
          \/ step = "dispatch_response" /\ chain.rc = "ok"
          \/ ToRun(step) /\ chain.i = exec_index
          \/ step \in RequestSteps /\ step = last_completed_step /\ chain.i = NFilters
    /\ local_resp = "none" => exec_index < NFilters
    /\ at = "content" /\ local_resp = "none" => last_completed_step # "none"
    /\ pc = "ret" /\ chain.by # "call" /\ chain.rc = "ok" => ~ToRun(step) \/ local_resp # "none"
    /\ action = "done" \/ (pc = "ret" /\ chain.rc = "done") => local_resp # "none"

(***************************************************************************)
(* The filter to run next has failed, and nothing is left to the worker    *)
(* but to find out: every way from here leads back to the loop, which      *)
(* stops at this filter, or to a response.                                 *)
(***************************************************************************)
Doomed ==
    /\ exec_index \in failed
    /\ env = "continue"
    /\ job = NoJob
    /\ pc \in {"chain", "ret", "reenter", "nginx"}
    /\ chain.by # "wev"
    /\ pc = "ret" => chain.rc = "500"
    /\ pc = "chain" => chain.i = exec_index /\ step \in RequestSteps
    /\ at = "rewrite" => last_completed_step = "none" /\ (~wev \/ local_resp # "none")
    /\ at = "content" => \/ last_completed_step = "req_headers" /\ body \in {"received", "arrived"}
                         \/ local_resp # "none"

\* The callbacks begun are those of the filters before the index, and that of
\* the filter that is running or has failed.
Tally(s) ==
    IF InLoop THEN ran[s] = exec_index + 1
    ELSE ran[s] = exec_index \/ (Doomed /\ ran[s] = exec_index + 1)

Counts ==
    /\ last_completed_step = "none" => Tally("req_headers") /\ ran["req_body"] = 0
    /\ last_completed_step # "none" => ran["req_headers"] = NFilters
    /\ last_completed_step = "req_headers" => Tally("req_body")
    /\ last_completed_step = "req_body" => ran["req_body"] = NFilters /\ exec_index = 0
    /\ at = "rewrite" => ran["req_body"] = 0

\* Filters that pause when they have dispatched have their calls one at a time:
\* only the filter that runs or holds the chain has any, and a chain that waits
\* for the request's body has none.
Owners ==
    /\ InLoop => held = NotHeld /\ (action = "done" => dispatch_ops[chain.i] = {})
    /\ PausesOnDispatch =>
          \A f \in Filters : dispatch_ops[f] # {} =>
             IF InLoop THEN f = chain.i /\ \A c \in dispatch_ops[f] : calls[c] = "posted"
             ELSE held = [f |-> f, why |-> "calls"] \/ Doomed
    /\ PausesOnDispatch /\ job # NoJob => held = [f |-> job.f, why |-> "calls"]
    /\ PausesOnDispatch /\ body = "waited" =>
          pc = "idle" /\ \A f \in Filters : dispatch_ops[f] = {}

\* While the filter that holds the chain has calls, the chain is paused, and the
\* request has yielded or is about to start those calls.
Blocked ==
    PausesOnDispatch /\ held.why = "calls" /\ dispatch_ops[held.f] # {} /\ job = NoJob =>
       \/ Doomed
       \/ action = "pause" /\ env = "yield"
       \/ /\ action = "pause"
          /\ \A c \in dispatch_ops[held.f] : calls[c] = "posted"
          /\ pc = "idle" \/ (pc \in {"chain", "ret"} /\ chain.rc = "again")

Flow == TypeOK /\ CallsListed /\ Locals
Request == Places /\ Pauses /\ Callers /\ Turns /\ Counts /\ Owners /\ Blocked
ChainInv == Flow /\ (IF Early THEN Request ELSE Late)

----------------------------------------------------------------------------
\* The steps of the enumeration.
LEMMA StepNames ==
    Steps = {"none", "req_headers", "req_body", "resp_headers", "resp_body", "log",
             "done", "dispatch_response"}
BY Zenon DEF Steps, Rank

\* The rank of the steps of the request against that of any step.
LEMMA StepRanks ==
    /\ \A s \in Steps : Rank[s] \in Nat
    /\ Rank["none"] = 0 /\ Rank["req_headers"] = 1 /\ Rank["req_body"] = 2
    /\ \A s \in Steps \ {"none", "req_headers", "req_body"} : Rank[s] > 2
BY DEF Steps, Rank

Chains == [i : 0 .. NFilters, by : {"none", "nginx", "wev", "call"}, rc : Codes]
Actions == {"continue", "pause", "done"}

\* ngx_proxy_wasm_resume() up to its loop: the loop starts at the index, and a
\* step of the request that is completed is not run.
LEMMA ResumeShape ==
    ASSUME TypeOK, NEW s \in Steps, NEW who \in {"nginx", "wev", "call"}, Resume(s, who)
    PROVE  /\ step' = s
           /\ exec_index' \in 0 .. NFilters
           /\ s # "resp_headers" => exec_index' = exec_index
           /\ chain' = [i |-> exec_index', by |-> who, rc |-> "ok"]
           /\ pc' \in {"chain", "ret"}
           /\ s \in RequestSteps => pc' = IF ToRun(s) THEN "chain" ELSE "ret"
           /\ s = "dispatch_response" => pc' = "chain"
<1>1. exec_index' = LoopStart(s) /\ LoopStart(s) \in {0, exec_index}
    BY Zenon DEF Resume, LoopStart
<1>2. s \in RequestSteps => (Skips(s) <=> ~ToRun(s))
    BY StepNames, StepRanks DEF TypeOK, Skips, ToRun, RequestSteps
<1>3. s = "dispatch_response" => ~Skips(s)
    BY Zenon DEF Skips
<1>4. s # "resp_headers" => exec_index' = exec_index
    BY Zenon DEF Resume
<1>5. 0 \in 0 .. NFilters /\ exec_index \in 0 .. NFilters
    BY FiltersAssumption DEF TypeOK
<1> QED
    BY <1>1, <1>2, <1>3, <1>4, <1>5, Zenon DEF Resume

\* The end of a callback: the loop goes on to the next filter or returns.
LEMMA StepDoneShape ==
    ASSUME TypeOK, Locals, InLoop, NEW act \in Actions, StepDone(act), act = "done" => step # "done"
    PROVE  /\ chain' \in Chains /\ chain'.i = chain.i + 1 /\ chain'.by = chain.by
           /\ action' \in Actions \ {"done"}
           /\ exec_index' \in 0 .. NFilters /\ exec_index' <= chain'.i
           /\ last_completed_step' \in {step, last_completed_step}
           /\ resp_buffering' \in BOOLEAN
           /\ \/ pc' = "chain" /\ chain'.rc \in {"ok", "again"}
              \/ pc' = "ret"
<1>1. -1 \notin failed
    BY DEF TypeOK, Filters
<1> DEFINE rc == action2rc(-1, act)
           index == IF act = "pause" /\ step = "resp_body" THEN exec_index ELSE exec_index + 1
<1>2. rc \in {"ok", "done", "again", "error"}
    BY <1>1, Zenon DEF action2rc
<1>3. index \in 0 .. NFilters /\ index <= chain.i + 1 /\ chain.i + 1 \in 0 .. NFilters
    BY FiltersAssumption DEF TypeOK, Locals
<1>4. action' \in Actions \ {"done"}
    BY Zenon DEF StepDone, Consumed, Actions
<1>5. /\ exec_index' \in {0, index} /\ last_completed_step' \in {step, last_completed_step}
      /\ chain' = [chain EXCEPT !.i = @ + 1, !.rc = rc]
      /\ pc' = IF rc \in {"ok", "again"} THEN "chain" ELSE "ret"
    BY Zenon DEF StepDone
<1>6. resp_buffering' \in BOOLEAN
    BY Zenon DEF StepDone, TypeOK
<1> HIDE DEF rc, index
<1>7. chain' \in Chains /\ chain'.i = chain.i + 1 /\ chain'.by = chain.by /\ chain'.rc = rc
    BY <1>2, <1>3, <1>5, Zenon DEF TypeOK, Chains, Codes
<1> QED
    BY <1>2, <1>3, <1>4, <1>5, <1>6, <1>7, FiltersAssumption

\* The same in a step of the request, which a pause does not keep from being
\* completed.
LEMMA RequestStepDone ==
    ASSUME TypeOK, InLoop, Callers, Turns, NEW act \in Actions, StepDone(act)
    PROVE  IF act = "done"
           THEN /\ pc' = "ret" /\ chain'.rc = "done" /\ action' = "continue"
                /\ exec_index' = exec_index + 1 /\ UNCHANGED last_completed_step
           ELSE /\ pc' = "chain" /\ action' = act
                /\ chain'.rc = IF act = "pause" THEN "again" ELSE "ok"
                /\ IF exec_index + 1 < NFilters
                   THEN exec_index' = exec_index + 1 /\ UNCHANGED last_completed_step
                   ELSE exec_index' = 0 /\ last_completed_step' = step
<1>1. -1 \notin failed /\ step \in RequestSteps /\ phase \in PausablePhases
    BY DEF TypeOK, Filters, Callers, Turns, ToRun, RequestSteps
<1>2. step # "done" /\ step # "resp_body"
    BY <1>1, Zenon DEF RequestSteps
<1>3. action2rc(-1, act) = CASE act = "continue" -> "ok" [] act = "done" -> "done" [] OTHER -> "again"
    BY <1>1, <1>2, Zenon DEF action2rc, Actions
<1>4. Consumed(act) = IF act = "done" THEN "continue" ELSE act
    BY <1>2, Zenon DEF Consumed
<1>5. chain'.rc = action2rc(-1, act)
    BY Zenon DEF StepDone, TypeOK
<1>6. /\ action' = Consumed(act)
      /\ pc' = IF act = "done" THEN "ret" ELSE "chain"
    BY <1>3, Zenon DEF StepDone, Actions
<1>7. IF act # "done" /\ exec_index + 1 >= NFilters
      THEN exec_index' = 0 /\ last_completed_step' = step
      ELSE exec_index' = exec_index + 1 /\ UNCHANGED last_completed_step
    BY <1>2, <1>3, Zenon DEF StepDone, Actions
<1> QED
    BY <1>3, <1>4, <1>5, <1>6, <1>7, FiltersAssumption DEF Actions, TypeOK

\* The owner of a call that is not finished.
LEMMA OwnerShape ==
    ASSUME CallsListed, NEW c \in Calls, calls[c] \in {"posted", "open"}
    PROVE  OwnerOf(c) \in Filters /\ c \in dispatch_ops[OwnerOf(c)]
BY Zenon DEF OwnerOf, CallsListed

\* The loop runs a filter of a request only while nobody has paused it.
LEMMA RunsShape ==
    ASSUME Early, Places, NEW f \in Filters, Runs(f)
    PROVE  pc = "chain" /\ f = chain.i /\ f \notin failed /\ action = "continue"
BY Zenon DEF Runs, action2rc, Places, DispatchSteps, RequestSteps

\* The end of a call's handler: while the filter has more calls the request
\* yields, otherwise it is resumed.
LEMMA CallHandledShape ==
    ASSUME TypeOK, Locals, job # NoJob, NEW s \in Steps, NEW erred \in BOOLEAN,
           CallHandled(s, erred)
    PROVE  /\ chain' \in Chains /\ wev' \in BOOLEAN /\ env' \in {"continue", "yield"}
           /\ action' \in {"continue", "pause"} /\ pc' \in {"idle", "reenter", "chain", "ret"}
           /\ step' = s
           /\ exec_index' \in 0 .. NFilters
           /\ s # "resp_headers" => exec_index' = exec_index
           /\ IF dispatch_ops[job.f] # {}
              THEN /\ env' = "yield" /\ wev' = TRUE /\ action' = "pause" /\ pc' = "idle"
                   /\ chain' = NoChain
              ELSE /\ env' = "continue" /\ wev' = set_resume_handler(env) /\ action' = "continue"
                   /\ IF erred THEN pc' = "reenter" /\ chain' = NoChain
                      ELSE /\ chain' = [i |-> exec_index', by |-> "call", rc |-> "ok"]
                           /\ pc' \in {"chain", "ret"}
                           /\ s \in RequestSteps => pc' = IF ToRun(s) THEN "chain" ELSE "ret"
                           /\ s = "dispatch_response" => pc' = "chain"
<1>1. /\ chain = NoChain /\ chain \in Chains /\ exec_index \in 0 .. NFilters
      /\ set_resume_handler(env) \in BOOLEAN
    BY Zenon DEF Locals, TypeOK, Chains, set_resume_handler
<1>2. CASE MorePending(job.f)  BY <1>1, <1>2, Zenon DEF CallHandled, MorePending, ngx_wasm_yield
<1>3. CASE ~MorePending(job.f) /\ erred
    BY <1>1, <1>3, Zenon DEF CallHandled, MorePending, ErredNext, ngx_wasm_continue
<1>4. CASE ~MorePending(job.f) /\ ~erred
    <2>1. Resume(s, "call")
        BY <1>4, Zenon DEF CallHandled
    <2>2. env' = "continue" /\ wev' = set_resume_handler(env) /\ action' = "continue"
        BY <1>4, Zenon DEF CallHandled, ngx_wasm_continue
    <2> QED
        BY <1>1, <1>4, <2>1, <2>2, ResumeShape DEF MorePending, Chains, Codes
<1> QED
    BY <1>2, <1>3, <1>4, Zenon

\* The filter whose callback runs, from the loop or from a call.
LEMMA CurrentShape ==
    ASSUME TypeOK, Locals, pc = "callback"
    PROVE  /\ Current \in Filters
           /\ InLoop => Current = chain.i
           /\ job # NoJob => Current = job.f
BY FiltersAssumption DEF TypeOK, Locals, InLoop, Current, Filters, NoJob

\* The end of a callback of the loop in a step of the request: the filter has
\* sent its local response, has trapped, or has returned.
LEMMA CallbackShape ==
    ASSUME TypeOK, Locals, Callers, Turns, CallbackReturns \/ CallbackTraps
    PROVE  /\ InLoop /\ step \in RequestSteps /\ ToRun(step)
           /\ chain.i = exec_index /\ exec_index < NFilters
           /\ UNCHANGED <<phase, step, dispatch_ops, calls, rctx, place, job, ran>>
           /\ chain'.by = chain.by
           /\ \/ /\ action = "done" /\ action' = "continue"
                 /\ pc' = "ret" /\ chain'.rc = "done"
                 /\ exec_index' = exec_index + 1 /\ UNCHANGED <<last_completed_step, failed, held>>
              \/ /\ action # "done" /\ action' = "continue"
                 /\ pc' = "ret" /\ chain'.rc = "500" /\ failed' = failed \cup {exec_index}
                 /\ UNCHANGED <<exec_index, last_completed_step, held>>
              \/ /\ action # "done" /\ action' \in {"continue", "pause"}
                 /\ PausesOnDispatch /\ dispatch_ops[chain.i] # {} => action' = "pause"
                 /\ pc' = "chain" /\ chain'.rc = IF action' = "pause" THEN "again" ELSE "ok"
                 /\ chain'.i = chain.i + 1
                 /\ IF exec_index + 1 < NFilters
                    THEN exec_index' = exec_index + 1 /\ UNCHANGED last_completed_step
                    ELSE exec_index' = 0 /\ last_completed_step' = step
                 /\ UNCHANGED failed
                 /\ held' = IF action' = "pause"
                            THEN [f |-> chain.i,
                                  why |-> IF dispatch_ops[chain.i] = {} THEN "itself" ELSE "calls"]
                            ELSE held
<1>1. /\ InLoop /\ step \in RequestSteps /\ step \in ReturningSteps /\ step # "resp_body"
      /\ step # "done" /\ ToRun(step) /\ chain.i = exec_index /\ exec_index < NFilters
    BY Zenon DEF CallbackReturns, CallbackTraps, InLoop, Turns, ToRun, RequestSteps,
        ReturningSteps, Locals
<1>2. UNCHANGED <<phase, step, dispatch_ops, calls, rctx, place, job, ran>>
    BY Zenon DEF CallbackReturns, CallbackTraps, pwexec, history
<1>3. CASE CallbackReturns
    <2>1. PICK ret \in Returns(chain.i) :
             LET next == IF action = "done" THEN "done" ELSE ret
                 why == IF dispatch_ops[chain.i] = {} THEN "itself" ELSE "calls" IN
             /\ StepDone(next)
             /\ held' = IF next = "pause" THEN [f |-> chain.i, why |-> why] ELSE held
        BY <1>1, <1>3, Zenon DEF CallbackReturns
    <2>2. /\ ret \in {"continue", "pause"}
          /\ PausesOnDispatch /\ dispatch_ops[chain.i] # {} => ret = "pause"
        BY <1>1, <2>1, Zenon DEF Returns
    <2>3. UNCHANGED failed
        BY <1>3, Zenon DEF CallbackReturns, pwexec
    <2>4. CASE action = "done"
        <3>1. StepDone("done") /\ held' = held
            BY <2>1, <2>4, Zenon
        <3> QED
            BY <1>1, <1>2, <2>3, <2>4, <3>1, StepDoneShape, RequestStepDone, Zenon DEF Actions
    <2>5. CASE action # "done"
        <3>1. /\ StepDone(ret)
              /\ held' = IF ret = "pause"
                         THEN [f |-> chain.i,
                               why |-> IF dispatch_ops[chain.i] = {} THEN "itself" ELSE "calls"]
                         ELSE held
            BY <2>1, <2>5, Zenon
        <3>2. /\ pc' = "chain" /\ action' = ret /\ chain'.rc = IF ret = "pause" THEN "again" ELSE "ok"
              /\ IF exec_index + 1 < NFilters
                 THEN exec_index' = exec_index + 1 /\ UNCHANGED last_completed_step
                 ELSE exec_index' = 0 /\ last_completed_step' = step
            BY <1>1, <2>2, <3>1, RequestStepDone, Zenon DEF Actions
        <3>3. chain'.i = chain.i + 1 /\ chain'.by = chain.by
            BY <1>1, <2>2, <3>1, StepDoneShape, Zenon DEF Actions
        <3> QED
            BY <1>1, <1>2, <2>2, <2>3, <2>5, <3>1, <3>2, <3>3, Zenon
    <2> QED
        BY <2>4, <2>5, Zenon
<1>4. CASE CallbackTraps /\ action = "done"
    <2>1. StepDone("done") /\ UNCHANGED <<failed, held>>
        BY <1>4, Zenon DEF CallbackTraps, history
    <2> QED
        BY <1>1, <1>2, <1>4, <2>1, StepDoneShape, RequestStepDone, Zenon DEF Actions
<1>5. CASE CallbackTraps /\ action # "done"
    <2>1. /\ action' = "continue" /\ pc' = "ret" /\ chain' = [chain EXCEPT !.rc = "500"]
          /\ failed' = failed \cup {chain.i}
          /\ UNCHANGED <<exec_index, last_completed_step, held>>
        BY <1>1, <1>5, Zenon DEF CallbackTraps, history
    <2>2. chain'.by = chain.by /\ chain'.rc = "500"
        BY <2>1, Zenon DEF TypeOK
    <2> QED
        BY <1>1, <1>2, <1>5, <2>1, <2>2, Zenon
<1> QED
    BY <1>3, <1>4, <1>5, Zenon

\* The end of a call's handler in the request's phases.
LEMMA HandlerShape ==
    ASSUME TypeOK, Locals, Places, HandlerReturns \/ HandlerTraps
    PROVE  /\ pc = "callback" /\ job # NoJob /\ job' = NoJob /\ job.f \in Filters
           /\ UNCHANGED <<phase, last_completed_step, exec_index, dispatch_ops, calls, local_resp,
                          body, place, history>>
           /\ step' \in DispatchSteps /\ step' \in {job.saved, "dispatch_response"}
           /\ IF dispatch_ops[job.f] # {}
              THEN /\ env' = "yield" /\ wev' = TRUE /\ action' = "pause" /\ pc' = "idle"
                   /\ chain' = NoChain
              ELSE /\ env' = "continue" /\ wev' = set_resume_handler(env) /\ action' = "continue"
                   /\ \/ pc' = "reenter" /\ chain' = NoChain
                      \/ /\ chain' = [i |-> exec_index, by |-> "call", rc |-> "ok"]
                         /\ pc' = IF step' \in RequestSteps /\ ~ToRun(step') THEN "ret" ELSE "chain"
<1> DEFINE s == IF HandlerReturns THEN job.saved ELSE step
           erred == IF HandlerReturns THEN job.erred ELSE TRUE
<1>1. pc = "callback" /\ job # NoJob /\ job' = NoJob
    BY Zenon DEF HandlerReturns, HandlerTraps
<1>2. job \in [f : Filters, saved : Steps, erred : BOOLEAN] /\ step = "dispatch_response"
    BY <1>1, Zenon DEF TypeOK, Locals
<1>3. /\ s \in Steps /\ erred \in BOOLEAN /\ s \in DispatchSteps
      /\ s \in {job.saved, "dispatch_response"}
    BY <1>1, <1>2, Zenon DEF TypeOK, Places, DispatchSteps
<1>4. CallHandled(s, erred)
    BY Zenon DEF HandlerReturns, HandlerTraps
<1>5. UNCHANGED <<phase, last_completed_step, dispatch_ops, calls, local_resp, body, place, history>>
    BY Zenon DEF HandlerReturns, HandlerTraps
<1> HIDE DEF s, erred
<1>6. s # "resp_headers" /\ (s \in RequestSteps \/ s = "dispatch_response")
    BY <1>3, Zenon DEF DispatchSteps, RequestSteps
<1>7. step' = s /\ exec_index' = exec_index
    BY <1>1, <1>3, <1>4, <1>6, CallHandledShape, Zenon
<1>8. CASE dispatch_ops[job.f] # {}
    BY <1>1, <1>2, <1>3, <1>4, <1>5, <1>7, <1>8, CallHandledShape, Zenon
<1>9. CASE dispatch_ops[job.f] = {}
    <2>1. /\ env' = "continue" /\ wev' = set_resume_handler(env) /\ action' = "continue"
          /\ IF erred THEN pc' = "reenter" /\ chain' = NoChain
             ELSE /\ chain' = [i |-> exec_index', by |-> "call", rc |-> "ok"]
                  /\ s \in RequestSteps => pc' = IF ToRun(s) THEN "chain" ELSE "ret"
                  /\ s = "dispatch_response" => pc' = "chain"
        BY <1>1, <1>3, <1>4, <1>9, CallHandledShape, Zenon
    <2>2. s = "dispatch_response" => s \notin RequestSteps
        BY Zenon DEF RequestSteps
    <2> QED
        BY <1>1, <1>2, <1>3, <1>5, <1>6, <1>7, <1>9, <2>1, <2>2, Zenon
<1> QED
    BY <1>8, <1>9, Zenon

\* A filter that traps in a step of the request is the one to run next.
LEMMA TrapDooms ==
    ASSUME TypeOK, Locals, Places, Pauses, Callers, Turns, CallbackReturns \/ CallbackTraps,
           chain'.rc = "500"
    PROVE  Doomed'
<1>1. /\ InLoop /\ step \in RequestSteps /\ ToRun(step)
      /\ UNCHANGED <<env, wev, local_resp, body, at, job>> /\ chain'.by = chain.by
    BY CallbackShape, Zenon DEF rctx, place
<1>2. /\ pc' = "ret" /\ exec_index \in failed'
      /\ UNCHANGED <<exec_index, last_completed_step>>
    BY CallbackShape, Zenon
<1>3. env = "continue" /\ job = NoJob /\ chain.by # "wev"
    BY <1>1, Zenon DEF TypeOK, Pauses, Callers, InLoop
<1>4. /\ at = "rewrite" => last_completed_step = "none" /\ (~wev \/ local_resp # "none")
      /\ at = "content" =>
            \/ last_completed_step = "req_headers" /\ body \in {"received", "arrived"}
            \/ local_resp # "none"
    BY <1>1, Zenon DEF Places, Pauses, Turns, ToRun, InLoop
<1> QED
    BY <1>1, <1>2, <1>3, <1>4, Zenon DEF Doomed

----------------------------------------------------------------------------
\* The steps that are taken in the request's phases and do not leave them.
RequestNext ==
    \/ RewriteHandler \/ ContentYields \/ ContentWaitsForBody \/ ContentRunsBody
    \/ Yielded \/ RewriteDone \/ WevResumed \/ ReenterPhases \/ ReenterWev
    \/ BodyArrives \/ ClientWritable \/ proxy_send_local_response
    \/ ChainEnds \/ ChainStops \/ \E f \in Filters : RunStep(f)
    \/ CallbackReturns \/ CallbackTraps \/ Suspended \/ CallResumed
    \/ HandlerReturns \/ HandlerTraps \/ proxy_continue
    \/ \E c \in Calls :
          \/ proxy_dispatch_http_call(c) \/ CallProgress(c)
          \/ \E received \in BOOLEAN : CallEnds(c, received)

\* The steps that are taken once the response has begun.
LateNext ==
    \/ BufferChunk \/ BufferComplete \/ Cleanup \/ HeaderFilter
    \/ \E eof \in BOOLEAN : BodyFilter(eof)
    \/ LogHandler \/ HeaderFilterDone \/ BodyFilterDone \/ LogDone \/ Freed
    \/ ReenterNothing \/ ChainSkipsDone
    \/ ChainEnds \/ ChainStops \/ \E f \in Filters : RunStep(f)
    \/ CallbackReturns \/ CallbackTraps \/ Suspended \/ CallResumed
    \/ HandlerReturns \/ HandlerTraps \/ proxy_continue
    \/ \E c \in Calls :
          \/ proxy_dispatch_http_call(c) \/ CallProgress(c)
          \/ \E received \in BOOLEAN : CallEnds(c, received)

----------------------------------------------------------------------------
\* A call enters one filter's list when it is dispatched and leaves it when it
\* ends or is cancelled by a local response.
LEMMA CallsListedStep ==
    ASSUME Flow, Next, ~Ended
    PROVE  CallsListed'
<1>1. Flow /\ TypeOK /\ Locals /\ CallsListed
    BY Zenon DEF Flow
<1>2. CASE UNCHANGED <<calls, dispatch_ops>>
    BY <1>1, <1>2, Zenon DEF CallsListed
<1>3. CASE proxy_send_local_response
    <2>1. Current \in Filters
        BY <1>3, <1>1, CurrentShape, Zenon DEF proxy_send_local_response
    <2>2. /\ \A c \in Calls : calls'[c] = IF c \in dispatch_ops[Current] THEN "closed" ELSE calls[c]
          /\ \A f \in Filters : dispatch_ops'[f] = IF f = Current THEN {} ELSE dispatch_ops[f]
        BY <1>3, <1>1, <2>1, Zenon DEF TypeOK, proxy_send_local_response
    <2>4. \A f, g \in Filters : f # g => dispatch_ops'[f] \cap dispatch_ops'[g] = {}
        BY <1>1, <2>1, <2>2, Zenon DEF CallsListed
    <2>5. \A d \in Calls : calls'[d] \in {"posted", "open"} =>
             \E f \in Filters : d \in dispatch_ops'[f]
        BY <1>1, <2>1, <2>2, Zenon DEF CallsListed
    <2>6. \A d \in Calls : (\E f \in Filters : d \in dispatch_ops'[f]) =>
             calls'[d] \in {"posted", "open"}
        BY <1>1, <2>1, <2>2, Zenon DEF CallsListed
    <2> QED
        BY <2>4, <2>5, <2>6, Zenon DEF CallsListed
<1>4. ASSUME NEW c \in Calls, proxy_dispatch_http_call(c) PROVE CallsListed'
    <2>1. Current \in Filters
        BY <1>4, <1>1, CurrentShape, Zenon DEF proxy_dispatch_http_call
    <2>2. calls[c] = "unused" /\ \A f \in Filters : c \notin dispatch_ops[f]
        BY <1>1, <1>4, Zenon DEF proxy_dispatch_http_call, CallsListed
    <2>3. /\ \A d \in Calls : calls'[d] = IF d = c THEN "posted" ELSE calls[d]
          /\ \A f \in Filters : dispatch_ops'[f] =
                IF f = Current THEN dispatch_ops[f] \cup {c} ELSE dispatch_ops[f]
        BY <1>4, <1>1, <2>1, Zenon DEF TypeOK, proxy_dispatch_http_call
    <2>4. ASSUME NEW f \in Filters, NEW g \in Filters, f # g,
                 NEW d \in dispatch_ops'[f], d \in dispatch_ops'[g]
          PROVE  FALSE
        <3>1. f # Current => d \in dispatch_ops[f]
            BY <2>3, <2>4, Zenon
        <3>2. g # Current => d \in dispatch_ops[g]
            BY <2>3, <2>4, Zenon
        <3>3. f = Current => d \in dispatch_ops[f] \cup {c}
            BY <2>3, <2>4, Zenon
        <3>4. g = Current => d \in dispatch_ops[g] \cup {c}
            BY <2>3, <2>4, Zenon
        <3> QED
            BY <1>1, <2>2, <2>4, <3>1, <3>2, <3>3, <3>4 DEF CallsListed
    <2>5. \A d \in Calls : calls'[d] \in {"posted", "open"} =>
             \E f \in Filters : d \in dispatch_ops'[f]
        BY <1>1, <2>1, <2>2, <2>3, Zenon DEF CallsListed
    <2>6. ASSUME NEW d \in Calls, NEW f \in Filters, d \in dispatch_ops'[f]
          PROVE  calls'[d] \in {"posted", "open"}
        <3>1. d = c \/ d \in dispatch_ops[f]
            BY <2>3, <2>6, Zenon
        <3> QED
            BY <1>1, <2>3, <3>1, Zenon DEF CallsListed
    <2> QED
        BY <2>4, <2>5, <2>6, Zenon DEF CallsListed
<1>5. ASSUME NEW c \in Calls, CallProgress(c) PROVE CallsListed'
    BY <1>1, <1>5, Zenon DEF CallProgress, Pending, CallsListed, TypeOK, pwexec
<1>6. ASSUME NEW c \in Calls, NEW received \in BOOLEAN, CallEnds(c, received) PROVE CallsListed'
    <2>1. OwnerOf(c) \in Filters /\ c \in dispatch_ops[OwnerOf(c)]
        BY <1>6, <1>1, OwnerShape, Zenon DEF CallEnds, Pending
    <2>2. /\ \A d \in Calls : calls'[d] = IF d = c THEN "closed" ELSE calls[d]
          /\ \A f \in Filters : dispatch_ops'[f] =
                IF f = OwnerOf(c) THEN dispatch_ops[f] \ {c} ELSE dispatch_ops[f]
        BY <1>6, <1>1, <2>1, Zenon DEF TypeOK, CallEnds, Unlisted
    <2>4. \A f, g \in Filters : f # g => dispatch_ops'[f] \cap dispatch_ops'[g] = {}
        BY <1>1, <2>1, <2>2, Zenon DEF CallsListed
    <2>5. \A d \in Calls : calls'[d] \in {"posted", "open"} =>
             \E f \in Filters : d \in dispatch_ops'[f]
        BY <1>1, <2>1, <2>2, Zenon DEF CallsListed
    <2>6. ASSUME NEW d \in Calls, NEW f \in Filters, d \in dispatch_ops'[f]
          PROVE  calls'[d] \in {"posted", "open"}
        <3>1. d \in dispatch_ops[f] /\ (f = OwnerOf(c) => d # c)
            BY <2>2, <2>6, Zenon
        <3>2. d # c
            BY <1>1, <2>1, <3>1 DEF CallsListed
        <3> QED
            BY <1>1, <2>2, <3>1, <3>2, Zenon DEF CallsListed
    <2> QED
        BY <2>4, <2>5, <2>6, Zenon DEF CallsListed
<1> USE DEF pwexec
<1>7. RewriteHandler \/ ContentYields \/ ContentFlushes \/ ContentPasses \/ ContentWaitsForBody
      \/ ContentRunsBody \/ BufferChunk \/ BufferComplete \/ Cleanup \/ BodyArrives
      \/ ClientWritable \/ HeaderFilter \/ (\E eof \in BOOLEAN : BodyFilter(eof)) \/ LogHandler
      => UNCHANGED <<calls, dispatch_ops>>
    BY Zenon DEF RewriteHandler, ContentYields, ContentFlushes, ContentPasses,
        ContentWaitsForBody, ContentRunsBody, BufferChunk, BufferComplete, Cleanup, BodyArrives,
        ClientWritable, HeaderFilter, BodyFilter, LogHandler
<1>8. ChainEnds \/ ChainStops \/ ChainSkipsDone
      \/ (\E f \in Filters : RunStep(f) \/ RunStepCrashes(f))
      \/ CallbackReturns \/ CallbackTraps \/ HandlerReturns \/ HandlerTraps \/ proxy_continue
      => UNCHANGED <<calls, dispatch_ops>>
    BY Zenon DEF ChainEnds, ChainStops, ChainSkipsDone, RunStep, RunStepCrashes, CallbackReturns,
        CallbackTraps, HandlerReturns, HandlerTraps, proxy_continue
<1>9. Suspended \/ Yielded \/ RewriteDone \/ RequestFails \/ BodyHandlerFails \/ ContentDone
      \/ HeaderFilterDone \/ BodyFilterDone \/ LogDone \/ Freed \/ CallResumed \/ WevResumed
      \/ ReenterPhases \/ ReenterWev \/ ReenterNothing => UNCHANGED <<calls, dispatch_ops>>
    BY Zenon DEF Suspended, Yielded, RewriteDone, RequestFails, BodyHandlerFails, ContentDone,
        HeaderFilterDone,
        BodyFilterDone, LogDone, Freed, CallResumed, WevResumed, ReenterPhases, ReenterWev,
        ReenterNothing
<1> QED
    BY <1>2, <1>3, <1>4, <1>5, <1>6, <1>7, <1>8, <1>9, Zenon DEF Next, Synchronous

\* The loop's and the call handler's local variables are in use exactly while
\* they run, and the loop stays at or after exec_index.
LEMMA LocalsStep ==
    ASSUME ChainInv, Next, ~Ended
    PROVE  Locals'
<1> USE DEF ChainInv, Flow, Locals, InLoop, RequestSteps, DispatchSteps, NoJob, NoChain,
       NotHeld, pwctx, pwexec, resp, rctx, place, history
<1>1. CASE RewriteHandler  BY <1>1, ResumeShape, StepNames DEF RewriteHandler
<1>2. CASE ContentYields  BY <1>2, Zenon DEF ContentYields, Received
<1>3. CASE ContentWaitsForBody  BY <1>3, Zenon DEF ContentWaitsForBody
<1>4. CASE ContentRunsBody  BY <1>4, ResumeShape, StepNames DEF ContentRunsBody
<1>5. CASE Yielded  BY <1>5, Zenon DEF Yielded, Received, Returned, ngx_wasm_yield
<1>6. CASE RewriteDone  BY <1>6, Zenon DEF RewriteDone, Returned
<1>7. CASE WevResumed  BY <1>7, Zenon DEF WevResumed, Returned
<1>8. CASE ReenterPhases  BY <1>8 DEF ReenterPhases
<1>9. CASE ReenterWev  BY <1>9, ResumeShape, StepNames DEF ReenterWev
<1>10. CASE BodyArrives  BY <1>10, Zenon DEF BodyArrives
<1>11. CASE ClientWritable  BY <1>11, Zenon DEF ClientWritable
<1>12. CASE proxy_send_local_response
    <2> USE StepNames, FiltersAssumption DEF Places, TypeOK, ReturningSteps, PausablePhases,
          Codes, Filters, Calls
    <2>1. step \in DispatchSteps \cup {"none"}
        BY <1>12, Zenon DEF proxy_send_local_response, Early, Request, Places
    <2>2. action' = "done" => InLoop /\ step # "done"
        BY <1>12, <2>1, Zenon DEF proxy_send_local_response
    <2> QED
        BY <1>12, <2>2, Zenon DEF proxy_send_local_response
<1>13. CASE ContentFlushes  BY <1>13, Zenon DEF ContentFlushes, Respond
<1>14. CASE ContentPasses  BY <1>14, Zenon DEF ContentPasses, Respond
<1>15. CASE RequestFails  BY <1>15, Zenon DEF RequestFails, Respond, Returned
<1>16. CASE ContentDone  BY <1>16, Zenon DEF ContentDone, Respond, Returned
<1>17. CASE BufferChunk  BY <1>17, Zenon DEF BufferChunk
<1>18. CASE BufferComplete  BY <1>18, ResumeShape, StepNames DEF BufferComplete, BodyFilterResume
<1>19. CASE Cleanup  BY <1>19, ResumeShape, StepNames DEF Cleanup
<1>20. CASE HeaderFilter  BY <1>20, ResumeShape, StepNames DEF HeaderFilter
<1>21. ASSUME NEW eof \in BOOLEAN, BodyFilter(eof) PROVE Locals'
    BY <1>21, ResumeShape, StepNames DEF BodyFilter, BodyFilterResume
<1>22. CASE LogHandler  BY <1>22, ResumeShape, StepNames DEF LogHandler
<1>23. CASE HeaderFilterDone  BY <1>23, Zenon DEF HeaderFilterDone, Returned
<1>24. CASE BodyFilterDone  BY <1>24, Zenon DEF BodyFilterDone, Returned
<1>25. CASE LogDone  BY <1>25, Zenon DEF LogDone, Returned
<1>26. CASE Freed  BY <1>26, Zenon DEF Freed, Returned
<1>27. CASE ReenterNothing  BY <1>27, Zenon DEF ReenterNothing
<1>28. CASE ChainSkipsDone  BY <1>28, Zenon DEF ChainSkipsDone
<1>29. CASE ChainEnds  BY <1>29, Zenon DEF ChainEnds
<1>30. CASE ChainStops  BY <1>30 DEF ChainStops, Consumed, Buffers, action2rc
<1>31. ASSUME NEW f \in Filters, RunStep(f) PROVE Locals'
    BY <1>31, Zenon DEF RunStep, Runs, action2rc
<1>32. CASE CallbackReturns
    <2> USE StepNames, FiltersAssumption DEF Places, TypeOK, ReturningSteps, PausablePhases,
          Codes, Filters, Calls
    <2>1. PICK next \in Actions : StepDone(next) /\ (next = "done" => action = "done")
        BY <1>32 DEF CallbackReturns, Returns, Actions
    <2>2. InLoop /\ UNCHANGED <<step, job, at>>
        BY <1>32, Zenon DEF CallbackReturns
    <2> QED
        BY <2>1, <2>2, StepDoneShape DEF Chains, Actions
<1>33. CASE CallbackTraps
    <2> USE StepNames, FiltersAssumption DEF Places, TypeOK, ReturningSteps, PausablePhases,
          Codes, Filters, Calls
    <2>1. InLoop /\ UNCHANGED <<step, job, at>>
        BY <1>33, Zenon DEF CallbackTraps
    <2>2. CASE step \in ReturningSteps /\ action # "done"
        BY <1>33, <2>1, <2>2 DEF CallbackTraps
    <2>3. CASE ~(step \in ReturningSteps /\ action # "done")
        <3>1. StepDone(action)
            BY <1>33, <2>3, Zenon DEF CallbackTraps
        <3> QED
            BY <2>1, <3>1, StepDoneShape, SMTT(30) DEF Chains, Actions
    <2> QED
        BY <2>2, <2>3, Zenon
<1>34. CASE Suspended  BY <1>34, Zenon DEF Suspended, Returned
<1>35. CASE CallResumed  BY <1>35, Zenon DEF CallResumed, Returned
<1>36. CASE HandlerReturns
    <2> USE StepNames, FiltersAssumption DEF Places, TypeOK, ReturningSteps, PausablePhases,
          Codes, Filters, Calls
    <2>1. /\ job # NoJob /\ job.saved \in Steps /\ job.erred \in BOOLEAN
          /\ CallHandled(job.saved, job.erred) /\ job' = NoJob
        BY <1>36, ZenonT(30) DEF HandlerReturns
    <2>2. /\ \/ pc' \in {"idle", "reenter"} /\ chain' = NoChain
             \/ pc' \in {"chain", "ret"} /\ chain' = [i |-> exec_index', by |-> "call", rc |-> "ok"]
          /\ action' # "done" /\ exec_index' \in 0 .. NFilters
        BY <2>1, CallHandledShape, ZenonT(30)
    <2> QED
        BY <2>1, <2>2
<1>37. CASE HandlerTraps  BY <1>37, CallHandledShape, StepNames, Zenon DEF HandlerTraps
<1>38. ASSUME NEW c \in Calls, proxy_dispatch_http_call(c) PROVE Locals'
    BY <1>38, Zenon DEF proxy_dispatch_http_call, Current
<1>39. CASE proxy_continue
    BY <1>39, Zenon DEF proxy_continue, ngx_wasm_continue, ngx_wasm_yield, set_resume_handler
<1>40. ASSUME NEW c \in Calls, CallProgress(c) PROVE Locals'
    BY <1>40, Zenon DEF CallProgress, Pending, ngx_wasm_yield
<1>41. ASSUME NEW c \in Calls, NEW received \in BOOLEAN, CallEnds(c, received) PROVE Locals'
    BY <1>41, OwnerShape, Zenon DEF CallEnds, Pending, Unlisted, ngx_wasm_continue,
        ngx_wasm_yield, set_resume_handler
<1>42. ASSUME NEW f \in Filters, RunStepCrashes(f) PROVE Locals'
    BY <1>42, Zenon DEF RunStepCrashes, Runs, action2rc
<1>43. CASE BodyHandlerFails  BY <1>43, Zenon DEF BodyHandlerFails, Returned
<1> HIDE DEF ChainInv, Flow, Locals, InLoop, RequestSteps, DispatchSteps, NoJob, NoChain,
       NotHeld, pwctx, pwexec, resp, rctx, place, history
<1> QED
    BY <1>1, <1>2, <1>3, <1>4, <1>5, <1>6, <1>7, <1>8, <1>9, <1>10, <1>11, <1>12, <1>13, <1>14,
        <1>15, <1>16, <1>17, <1>18, <1>19, <1>20, <1>21, <1>22, <1>23, <1>24, <1>25, <1>26, <1>27,
        <1>28, <1>29, <1>30, <1>31, <1>32, <1>33, <1>34, <1>35, <1>36, <1>37, <1>38, <1>39, <1>40,
        <1>41, <1>42, <1>43, ZenonT(30) DEF Next, Synchronous

\* After the response has begun, no handler holds the chain again or runs a
\* step of the request.
LEMMA LateStep ==
    ASSUME Flow, Late, LateNext
    PROVE  Late'
<1> USE DEF Flow, Early, Late, ToRun, InLoop, RequestSteps, DispatchSteps, NoJob, NoChain,
       NotHeld, pwctx, pwexec, resp, rctx, place, history
<1>1. CASE BufferChunk  BY <1>1, Zenon DEF BufferChunk, Locals
<1>2. CASE BufferComplete
    BY <1>2, ResumeShape, StepNames, Zenon DEF BufferComplete, BodyFilterResume
<1>3. CASE Cleanup  BY <1>3, ResumeShape, StepNames, Zenon DEF Cleanup
<1>4. CASE HeaderFilter  BY <1>4, ResumeShape, StepNames, Zenon DEF HeaderFilter
<1>5. ASSUME NEW eof \in BOOLEAN, BodyFilter(eof) PROVE Late'
    BY <1>5, ResumeShape, StepNames, Zenon DEF BodyFilter, BodyFilterResume
<1>6. CASE LogHandler  BY <1>6, ResumeShape, StepNames, Zenon DEF LogHandler
<1>7. CASE HeaderFilterDone  BY <1>7, Zenon DEF HeaderFilterDone, Returned
<1>8. CASE BodyFilterDone  BY <1>8, Zenon DEF BodyFilterDone, Returned
<1>9. CASE LogDone  BY <1>9, Zenon DEF LogDone, Returned
<1>10. CASE Freed  BY <1>10, Zenon DEF Freed, Returned
<1>11. CASE ReenterNothing  BY <1>11, Zenon DEF ReenterNothing
<1>12. CASE ChainSkipsDone  BY <1>12, Zenon DEF ChainSkipsDone
<1>13. CASE ChainEnds  BY <1>13, Zenon DEF ChainEnds
<1>14. CASE ChainStops  BY <1>14, Zenon DEF ChainStops, Consumed, Buffers, action2rc
<1>15. ASSUME NEW f \in Filters, RunStep(f) PROVE Late'
    BY <1>15, Zenon DEF RunStep, Runs, action2rc
<1>16. CASE CallbackReturns  BY <1>16, StepDoneShape, StepNames, Zenon DEF CallbackReturns, Returns
<1>17. CASE CallbackTraps  BY <1>17, StepDoneShape, StepNames, Zenon DEF CallbackTraps
<1>18. CASE Suspended  BY <1>18, Zenon DEF Suspended, Returned
<1>19. CASE CallResumed  BY <1>19, Zenon DEF CallResumed, Returned
<1>20. CASE HandlerReturns
    BY <1>20, CallHandledShape, StepNames, FiltersAssumption, ZenonT(30) DEF HandlerReturns,
        Locals, Places, TypeOK, ReturningSteps, PausablePhases, Codes, Filters, Calls
<1>21. CASE HandlerTraps  BY <1>21, CallHandledShape, StepNames, Zenon DEF HandlerTraps, Locals
<1>22. ASSUME NEW c \in Calls, proxy_dispatch_http_call(c) PROVE Late'
    BY <1>22, Zenon DEF proxy_dispatch_http_call, Current
<1>23. CASE proxy_continue
    BY <1>23, Zenon DEF proxy_continue, ngx_wasm_continue, ngx_wasm_yield, set_resume_handler
<1>24. ASSUME NEW c \in Calls, CallProgress(c) PROVE Late'
    BY <1>24, Zenon DEF CallProgress, Pending, ngx_wasm_yield
<1>25. ASSUME NEW c \in Calls, NEW received \in BOOLEAN, CallEnds(c, received) PROVE Late'
    BY <1>25, OwnerShape, Zenon DEF CallEnds, Pending, Unlisted, ngx_wasm_continue,
        ngx_wasm_yield, set_resume_handler
<1> HIDE DEF Flow, Early, Late, ToRun, InLoop, RequestSteps, DispatchSteps, NoJob, NoChain,
       NotHeld, pwctx, pwexec, resp, rctx, place, history
<1> QED
    BY <1>1, <1>2, <1>3, <1>4, <1>5, <1>6, <1>7, <1>8, <1>9, <1>10, <1>11, <1>12, <1>13, <1>14,
        <1>15, <1>16, <1>17, <1>18, <1>19, <1>20, <1>21, <1>22, <1>23, <1>24, <1>25, Zenon DEF
        LateNext

\* Once the filter to run next has failed, every way leads to a response: no
\* step of the request's phases gets the chain past that filter.
LEMMA DoomedStep ==
    ASSUME Flow, Early, Request, RequestNext, Doomed
    PROVE  Doomed'
<1> USE DEF Flow, Early, Request, Doomed, RequestSteps, DispatchSteps, NoJob, NoChain, NotHeld,
       pwctx, pwexec, resp, rctx, place, history
<1>1. CASE RewriteHandler
    BY <1>1, ResumeShape, StepNames DEF RewriteHandler, Locals, InLoop, Places, Turns, ToRun,
        Callers, Pauses, Waiting
<1>2. CASE ContentYields  BY <1>2, Zenon DEF ContentYields, Received
<1>3. CASE ContentWaitsForBody  BY <1>3, Zenon DEF ContentWaitsForBody
<1>4. CASE ContentRunsBody
    BY <1>4, ResumeShape, StepNames DEF ContentRunsBody, Locals, InLoop, Places, Turns, ToRun,
        Callers, Pauses, Waiting
<1>5. CASE Yielded  BY <1>5, Zenon DEF Yielded, Received, Returned, ngx_wasm_yield
<1>6. CASE RewriteDone  BY <1>6, Zenon DEF RewriteDone, Returned
<1>7. CASE WevResumed  BY <1>7, Zenon DEF WevResumed, Returned
<1>8. CASE ReenterPhases  BY <1>8, Zenon DEF ReenterPhases
<1>9. CASE ReenterWev  BY <1>9, ResumeShape, StepNames, Zenon DEF ReenterWev
<1>10. CASE BodyArrives  BY <1>10, Zenon DEF BodyArrives
<1>11. CASE ClientWritable  BY <1>11, Zenon DEF ClientWritable
<1>12. CASE proxy_send_local_response  BY <1>12, Zenon DEF proxy_send_local_response, Current
<1>13. CASE ChainEnds
    BY <1>13, StepNames, FiltersAssumption DEF ChainEnds, Locals, InLoop, Places, Turns, ToRun,
        Callers, Pauses, Waiting, TypeOK, ReturningSteps, PausablePhases, Codes, Filters, Calls
<1>14. CASE ChainStops  BY <1>14 DEF ChainStops, Consumed, Buffers, action2rc
<1>15. ASSUME NEW f \in Filters, RunStep(f) PROVE Doomed'
    BY <1>15, Zenon DEF RunStep, Runs, action2rc
<1>16. CASE CallbackReturns \/ CallbackTraps  BY <1>16, CallbackShape, Zenon DEF Locals, InLoop
<1>17. CASE Suspended  BY <1>17, Zenon DEF Suspended, Returned
<1>18. CASE CallResumed  BY <1>18, Zenon DEF CallResumed, Returned
<1>19. CASE HandlerReturns \/ HandlerTraps
    BY <1>19, HandlerShape, Zenon DEF set_resume_handler, Locals, InLoop
<1>20. ASSUME NEW c \in Calls, proxy_dispatch_http_call(c) PROVE Doomed'
    BY <1>20, Zenon DEF proxy_dispatch_http_call, Current
<1>21. CASE proxy_continue
    BY <1>21, Zenon DEF proxy_continue, ngx_wasm_continue, ngx_wasm_yield, set_resume_handler
<1>22. ASSUME NEW c \in Calls, CallProgress(c) PROVE Doomed'
    BY <1>22, Zenon DEF CallProgress, Pending, ngx_wasm_yield
<1>23. ASSUME NEW c \in Calls, NEW received \in BOOLEAN, CallEnds(c, received) PROVE Doomed'
    BY <1>23, OwnerShape, Zenon DEF CallEnds, Pending, Unlisted, ngx_wasm_continue,
        ngx_wasm_yield, set_resume_handler
<1> HIDE DEF Flow, Early, Request, Doomed, RequestSteps, DispatchSteps, NoJob, NoChain, NotHeld,
       pwctx, pwexec, resp, rctx, place, history
<1> QED
    BY <1>1, <1>2, <1>3, <1>4, <1>5, <1>6, <1>7, <1>8, <1>9, <1>10, <1>11, <1>12, <1>13, <1>14,
        <1>15, <1>16, <1>17, <1>18, <1>19, <1>20, <1>21, <1>22, <1>23 DEF RequestNext

\* The steps advance with the phases: a body step only in the content phase,
\* after all filters have seen the headers.
LEMMA PlacesStep ==
    ASSUME Flow, Early, Request, RequestNext
    PROVE  Places'
<1> USE DEF Flow, Early, Request, Places, RequestSteps, DispatchSteps, NoJob, NoChain, NotHeld,
       pwctx, pwexec, resp, rctx, place, history
<1>1. CASE RewriteHandler  BY <1>1, ResumeShape, StepNames, Zenon DEF RewriteHandler
<1>2. CASE ContentYields  BY <1>2, Zenon DEF ContentYields, Received
<1>3. CASE ContentWaitsForBody  BY <1>3, Zenon DEF ContentWaitsForBody
<1>4. CASE ContentRunsBody
    BY <1>4, ResumeShape, StepNames, Zenon DEF ContentRunsBody, Locals, InLoop, Callers, Turns,
        ToRun
<1>5. CASE Yielded  BY <1>5, Zenon DEF Yielded, Received, Returned, ngx_wasm_yield
<1>6. CASE RewriteDone  BY <1>6, Zenon DEF RewriteDone, Returned
<1>7. CASE WevResumed  BY <1>7, Zenon DEF WevResumed, Returned
<1>8. CASE ReenterPhases  BY <1>8, Zenon DEF ReenterPhases
<1>9. CASE ReenterWev  BY <1>9, ResumeShape, StepNames, Zenon DEF ReenterWev
<1>10. CASE BodyArrives  BY <1>10, Zenon DEF BodyArrives
<1>11. CASE ClientWritable  BY <1>11, Zenon DEF ClientWritable
<1>12. CASE proxy_send_local_response  BY <1>12, Zenon DEF proxy_send_local_response, Current
<1>13. CASE ChainEnds  BY <1>13, Zenon DEF ChainEnds
<1>14. CASE ChainStops  BY <1>14, Zenon DEF ChainStops, Consumed, Buffers, action2rc
<1>15. ASSUME NEW f \in Filters, RunStep(f) PROVE Places'
    BY <1>15, Zenon DEF RunStep, Runs, action2rc
<1>16. CASE CallbackReturns \/ CallbackTraps  BY <1>16, CallbackShape, Zenon DEF Locals, InLoop
<1>17. CASE Suspended  BY <1>17, Zenon DEF Suspended, Returned
<1>18. CASE CallResumed  BY <1>18, Zenon DEF CallResumed, Returned
<1>19. CASE HandlerReturns \/ HandlerTraps
    BY <1>19, HandlerShape, Zenon DEF set_resume_handler, Locals, InLoop
<1>20. ASSUME NEW c \in Calls, proxy_dispatch_http_call(c) PROVE Places'
    BY <1>20, Zenon DEF proxy_dispatch_http_call, Current
<1>21. CASE proxy_continue
    BY <1>21, Zenon DEF proxy_continue, ngx_wasm_continue, ngx_wasm_yield, set_resume_handler
<1>22. ASSUME NEW c \in Calls, CallProgress(c) PROVE Places'
    BY <1>22, Zenon DEF CallProgress, Pending, ngx_wasm_yield
<1>23. ASSUME NEW c \in Calls, NEW received \in BOOLEAN, CallEnds(c, received) PROVE Places'
    BY <1>23, OwnerShape, Zenon DEF CallEnds, Pending, Unlisted, ngx_wasm_continue,
        ngx_wasm_yield, set_resume_handler
<1> HIDE DEF Flow, Early, Request, Places, RequestSteps, DispatchSteps, NoJob, NoChain, NotHeld,
       pwctx, pwexec, resp, rctx, place, history
<1> QED
    BY <1>1, <1>2, <1>3, <1>4, <1>5, <1>6, <1>7, <1>8, <1>9, <1>10, <1>11, <1>12, <1>13, <1>14,
        <1>15, <1>16, <1>17, <1>18, <1>19, <1>20, <1>21, <1>22, <1>23 DEF RequestNext
============================================================================
