------------------------- MODULE ProxyWasmRequest --------------------------
(***************************************************************************)
(* In the request's phases every step keeps what holds there: what a       *)
(* paused chain waits for, where its loop stands, and whose calls are      *)
(* pending.                                                                *)
(***************************************************************************)
EXTENDS ProxyWasmInvariant

\* Whoever pauses the chain or makes the request yield leaves something to wait
\* for: the filter itself, or a call in somebody's list.
LEMMA PausesStep ==
    ASSUME Flow, Early, Request, RequestNext
    PROVE  Pauses'
<1>1. CASE RewriteHandler
    BY <1>1, ResumeShape, StepNames DEF RewriteHandler, Flow, Request, Pauses, Waiting, InLoop,
        pwexec, rctx, history
<1>2. CASE ContentYields
    BY <1>2, Zenon DEF ContentYields, Received, Request, Pauses, Waiting, InLoop, pwctx, pwexec,
        rctx, history
<1>3. CASE ContentWaitsForBody
    BY <1>3, Zenon DEF ContentWaitsForBody, Request, Pauses, Waiting, InLoop, pwctx, pwexec,
        place, history
<1>4. CASE ContentRunsBody
    BY <1>4, ResumeShape, StepNames DEF ContentRunsBody, Flow, Request, Pauses, Waiting, InLoop,
        pwexec, place, history
<1>5. CASE Yielded
    BY <1>5, Zenon DEF Yielded, Received, Returned, ngx_wasm_yield, Request, Pauses, Waiting,
        InLoop, pwctx, pwexec, history
<1>6. CASE RewriteDone
    BY <1>6, Zenon DEF RewriteDone, Returned, Request, Pauses, Waiting, InLoop, pwctx, pwexec,
        rctx, history
<1>7. CASE WevResumed
    BY <1>7, Zenon DEF WevResumed, Returned, Callers, Request, Pauses, Waiting, InLoop, pwctx,
        pwexec, history
<1>8. CASE ReenterPhases
    BY <1>8, Zenon DEF ReenterPhases, Request, Pauses, Waiting, InLoop, pwctx, pwexec, rctx,
        history
<1>9. CASE ReenterWev
    BY <1>9, ResumeShape, StepNames DEF ReenterWev, Flow, Request, Pauses, Waiting, InLoop,
        pwexec, rctx, history
<1>10. CASE BodyArrives
    BY <1>10, Zenon DEF BodyArrives, Request, Pauses, Waiting, InLoop, pwctx, pwexec, place,
        history
<1>11. CASE ClientWritable
    BY <1>11, Zenon DEF ClientWritable, Request, Pauses, Waiting, InLoop, pwctx, pwexec, rctx,
        place, history
<1>12. CASE proxy_send_local_response
    BY <1>12, Zenon DEF proxy_send_local_response, Turns, ToRun, Request, Pauses, InLoop
<1>13. CASE ChainEnds
    BY <1>13, Zenon DEF ChainEnds, Request, Pauses, Waiting, InLoop, pwctx, pwexec, rctx, place,
        history
<1>14. CASE ChainStops
    BY <1>14, Zenon DEF ChainStops, Consumed, action2rc, TypeOK, Flow, Request, Pauses, Waiting,
        InLoop, rctx, place, history
<1>15. ASSUME NEW f \in Filters, RunStep(f) PROVE Pauses'
    BY <1>15, Zenon DEF RunStep, Runs, action2rc, Places, Request, Pauses, RequestSteps,
        DispatchSteps, pwctx, rctx, place
<1>16. CASE CallbackReturns \/ CallbackTraps
    BY <1>16, CallbackShape, StepNames, FiltersAssumption DEF Locals, Places, Callers, Turns,
        ToRun, TypeOK, ReturningSteps, PausablePhases, Codes, Filters, Calls, Flow, Early,
        Request, Pauses, Waiting, InLoop, RequestSteps, DispatchSteps, NoJob, NoChain, NotHeld,
        pwctx, pwexec, resp, rctx, place, history
<1>17. CASE Suspended
    BY <1>17, Zenon DEF Suspended, Returned, Request, Pauses, Waiting, InLoop, pwctx, pwexec,
        rctx, history
<1>18. CASE CallResumed
    BY <1>18, Zenon DEF CallResumed, Returned, Request, Pauses, Waiting, InLoop, pwctx, pwexec,
        rctx, place, history
<1>19. CASE HandlerReturns \/ HandlerTraps
    <2>1. /\ job # NoJob /\ job' = NoJob /\ job.f \in Filters /\ pc = "callback" /\ pc' # "callback"
          /\ UNCHANGED <<dispatch_ops, local_resp, body, at, held>>
        BY <1>19, HandlerShape, Zenon DEF Flow, Request, place, history
    <2>2. CASE dispatch_ops[job.f] # {} /\ env' = "yield" /\ action' = "pause" /\ chain' = NoChain
        <3>1. Waiting'
            BY <2>1, <2>2, Zenon DEF Waiting
        <3> QED
            BY <2>1, <2>2, Zenon DEF Pauses, Waiting, InLoop
    <2>3. CASE /\ env' = "continue" /\ wev' = set_resume_handler(env) /\ action' = "continue"
               /\ pc' # "idle" /\ chain'.rc = "ok"
        BY <2>1, <2>3, Zenon DEF set_resume_handler, Request, Pauses
    <2>4. CASE dispatch_ops[job.f] # {}
        BY <1>19, <2>2, <2>4, HandlerShape, Zenon DEF Flow, Request
    <2>5. CASE dispatch_ops[job.f] = {}
        <3>1. env' = "continue" /\ wev' = set_resume_handler(env) /\ action' = "continue"
            BY <1>19, <2>5, HandlerShape, Zenon DEF Flow, Request
        <3>2. pc' # "idle" /\ chain'.rc = "ok"
            BY <1>19, <2>5, HandlerShape, StepNames, FiltersAssumption DEF Flow, Early, Request,
                Pauses, Waiting, InLoop, RequestSteps, DispatchSteps, NoJob, NoChain, NotHeld,
                pwctx, pwexec, resp, rctx, place, history, Locals, Places, Callers, Turns, ToRun,
                TypeOK, ReturningSteps, PausablePhases, Codes, Filters, Calls
        <3> QED
            BY <2>3, <3>1, <3>2, Zenon
    <2> QED
        BY <2>4, <2>5, Zenon
<1>20. ASSUME NEW c \in Calls, proxy_dispatch_http_call(c) PROVE Pauses'
    <2>1. pc = "callback" /\ action' = "pause" /\ Current \in Filters /\ (InLoop => Current = chain.i)
        BY <1>20, CurrentShape, Zenon DEF proxy_dispatch_http_call, Flow
    <2>2. dispatch_ops' = [dispatch_ops EXCEPT ![Current] = dispatch_ops[Current] \cup {c}]
        BY <1>20, Zenon DEF proxy_dispatch_http_call
    <2>3. dispatch_ops'[Current] # {}
        BY <2>1, <2>2, Zenon DEF Flow, TypeOK
    <2>4. UNCHANGED <<env, wev, local_resp, at, pc, chain, job>>
        BY <1>20, Zenon DEF proxy_dispatch_http_call, rctx, place
    <2> QED
        BY <2>1, <2>3, <2>4, Zenon DEF Request, Pauses, InLoop
<1>21. CASE proxy_continue
    BY <1>21, Zenon DEF proxy_continue, ngx_wasm_continue, set_resume_handler, Request, Pauses,
        InLoop, pwctx, pwexec, place
<1>22. ASSUME NEW c \in Calls, CallProgress(c) PROVE Pauses'
    <2>1. Waiting
        BY <1>22, OwnerShape, Zenon DEF CallProgress, Pending, Flow, Waiting
    <2>2. /\ env' = "yield" /\ action' = "pause" /\ pc = "idle" /\ Waiting'
          /\ UNCHANGED <<body, pc, chain, job>>
        BY <1>22, <2>1, Zenon DEF CallProgress, Pending, ngx_wasm_yield, Waiting, pwexec, history
    <2> QED
        BY <2>2, Zenon DEF Pauses, InLoop
<1>23. ASSUME NEW c \in Calls, NEW received \in BOOLEAN, CallEnds(c, received) PROVE Pauses'
    BY <1>23, Zenon DEF CallEnds, ngx_wasm_continue, Pauses, InLoop, NoJob
<1> QED
    BY <1>1, <1>2, <1>3, <1>4, <1>5, <1>6, <1>7, <1>8, <1>9, <1>10, <1>11, <1>12, <1>13, <1>14,
        <1>15, <1>16, <1>17, <1>18, <1>19, <1>20, <1>21, <1>22, <1>23 DEF RequestNext

\* The loop is called by nginx in a step of the request, by the write event
\* handler while the chain is paused, or by a call once the request continues.
LEMMA CallersStep ==
    ASSUME Flow, Early, Request, RequestNext
    PROVE  Callers'
<1>1. CASE RewriteHandler
    BY <1>1, ResumeShape, StepNames, FiltersAssumption DEF RewriteHandler, Locals, Places, Pauses,
        Waiting, TypeOK, ReturningSteps, PausablePhases, Codes, Filters, Calls, Flow, Early,
        Request, Callers, InLoop, RequestSteps, DispatchSteps, NoJob, NoChain, NotHeld, pwctx,
        pwexec, resp, rctx, place, history
<1>2. CASE ContentYields
    BY <1>2, Zenon DEF ContentYields, Received, Request, Callers, InLoop, pwctx
<1>3. CASE ContentWaitsForBody
    BY <1>3, Zenon DEF ContentWaitsForBody, Request, Callers, InLoop, pwctx, place
<1>4. CASE ContentRunsBody
    BY <1>4, ResumeShape, StepNames, FiltersAssumption DEF ContentRunsBody, Locals, Places,
        Pauses, Waiting, TypeOK, ReturningSteps, PausablePhases, Codes, Filters, Calls, Flow,
        Early, Request, Callers, InLoop, RequestSteps, DispatchSteps, NoJob, NoChain, NotHeld,
        pwctx, pwexec, resp, rctx, place, history
<1>5. CASE Yielded  BY <1>5, Zenon DEF Yielded, Received, Request, Callers, NoChain, pwctx
<1>6. CASE RewriteDone  BY <1>6, Zenon DEF RewriteDone, Request, Callers, NoChain, pwctx
<1>7. CASE WevResumed  BY <1>7, Zenon DEF WevResumed, Request, Callers, NoChain, pwctx
<1>8. CASE ReenterPhases
    BY <1>8, SMTT(30) DEF ReenterPhases, Locals, Flow, Request, Callers, NoChain, pwctx, rctx
<1>9. CASE ReenterWev
    BY <1>9, ResumeShape, StepNames, FiltersAssumption DEF ReenterWev, Locals, Places, Pauses,
        Waiting, TypeOK, ReturningSteps, PausablePhases, Codes, Filters, Calls, Flow, Early,
        Request, Callers, InLoop, RequestSteps, DispatchSteps, NoJob, NoChain, NotHeld, pwctx,
        pwexec, resp, rctx, place, history
<1>10. CASE BodyArrives  BY <1>10, Zenon DEF BodyArrives, Request, Callers, InLoop, pwctx, place
<1>11. CASE ClientWritable
    BY <1>11, Zenon DEF ClientWritable, Request, Callers, InLoop, pwctx, rctx, place
<1>12. CASE proxy_send_local_response
    BY <1>12, Zenon DEF proxy_send_local_response, Locals, Flow, Request, Callers, InLoop, place
<1>13. CASE ChainEnds  BY <1>13, Zenon DEF ChainEnds, Request, Callers, InLoop, pwctx, rctx, place
<1>14. CASE ChainStops  BY <1>14 DEF ChainStops, Consumed, Request, Callers, InLoop, rctx, place
<1>15. ASSUME NEW f \in Filters, RunStep(f) PROVE Callers'
    BY <1>15, Zenon DEF RunStep, Runs, action2rc, Request, Callers, RequestSteps, pwctx, rctx,
        place
<1>16. CASE CallbackReturns \/ CallbackTraps
    BY <1>16, CallbackShape DEF Locals, Flow, Early, Request, Callers, InLoop, RequestSteps,
        DispatchSteps, NoJob, NoChain, NotHeld, pwctx, pwexec, resp, rctx, place, history
<1>17. CASE Suspended  BY <1>17, Zenon DEF Suspended, Request, Callers, NoChain, pwctx
<1>18. CASE CallResumed  BY <1>18, Zenon DEF CallResumed, Request, Callers, NoChain, pwctx
<1>19. CASE HandlerReturns \/ HandlerTraps
    <2>1. /\ pc = "callback" /\ step' \in DispatchSteps /\ UNCHANGED <<phase, local_resp, body, at>>
          /\ pc' # "callback" /\ pc' # "nginx"
        BY <1>19, HandlerShape, Zenon DEF Flow, Request, place
    <2>2. CASE chain' = NoChain
        BY <2>1, <2>2, Zenon DEF Request, Callers, NoChain
    <2>3. CASE /\ env' = "continue" /\ wev' = set_resume_handler(env)
               /\ chain' = [i |-> exec_index, by |-> "call", rc |-> "ok"]
        <3>1. env # "yield"
            BY <2>1, Zenon DEF Request, Pauses
        <3>2. at = "rewrite" /\ local_resp = "none" => ~wev'
            BY <2>3, <3>1, Zenon DEF set_resume_handler
        <3> QED
            BY <2>1, <2>3, <3>2, Zenon DEF Request, Callers
    <2> QED
        BY <1>19, <2>2, <2>3, HandlerShape, Zenon DEF Flow, Request
<1>20. ASSUME NEW c \in Calls, proxy_dispatch_http_call(c) PROVE Callers'
    BY <1>20, Zenon DEF proxy_dispatch_http_call, Request, Callers, InLoop, rctx, place
<1>21. CASE proxy_continue
    BY <1>21, Zenon DEF proxy_continue, ngx_wasm_continue, set_resume_handler, Pauses, Request,
        Callers, InLoop, pwctx, place
<1>22. ASSUME NEW c \in Calls, CallProgress(c) PROVE Callers'
    BY <1>22, SMTT(30) DEF CallProgress, Pending, Locals, Flow, Request, Callers, NoChain
<1>23. ASSUME NEW c \in Calls, NEW received \in BOOLEAN, CallEnds(c, received) PROVE Callers'
    BY <1>23, OwnerShape, StepNames, FiltersAssumption DEF CallEnds, Pending, Unlisted,
        ngx_wasm_continue, ngx_wasm_yield, set_resume_handler, Locals, Places, Pauses, Waiting,
        TypeOK, ReturningSteps, PausablePhases, Codes, Filters, Calls, Flow, Early, Request,
        Callers, InLoop, RequestSteps, DispatchSteps, NoJob, NoChain, NotHeld, pwctx, pwexec,
        resp, rctx, place, history
<1> QED
    BY <1>1, <1>2, <1>3, <1>4, <1>5, <1>6, <1>7, <1>8, <1>9, <1>10, <1>11, <1>12, <1>13, <1>14,
        <1>15, <1>16, <1>17, <1>18, <1>19, <1>20, <1>21, <1>22, <1>23, Zenon DEF RequestNext

\* The loop runs a step that is not completed, at the index the chain is resumed
\* from; it is past the last filter only with a completed step.
LEMMA TurnsStep ==
    ASSUME Flow, Early, Request, RequestNext
    PROVE  Turns'
<1>1. CASE RewriteHandler
    BY <1>1, ResumeShape, StepNames DEF RewriteHandler, Flow, Request, Turns, InLoop, ToRun,
        RequestSteps, rctx, place
<1>2. CASE ContentYields
    BY <1>2, Zenon DEF ContentYields, Received, Request, Turns, InLoop, pwctx, rctx
<1>3. CASE ContentWaitsForBody
    BY <1>3, Zenon DEF ContentWaitsForBody, Request, Turns, InLoop, pwctx
<1>4. CASE ContentRunsBody
    <2>1. /\ step' = "req_body" /\ exec_index' = exec_index
          /\ chain' = [i |-> exec_index, by |-> "nginx", rc |-> "ok"]
          /\ pc' = IF ToRun("req_body") THEN "chain" ELSE "ret"
        BY <1>4, ResumeShape, StepNames, Zenon DEF ContentRunsBody, Flow, RequestSteps
    <2>2. local_resp = "none" /\ UNCHANGED <<last_completed_step, action, local_resp, at>>
        BY <1>4, Zenon DEF ContentRunsBody, place
    <2> QED
        BY <2>1, <2>2, Zenon DEF Request, Turns, InLoop, ToRun
<1>5. CASE Yielded  BY <1>5, Zenon DEF Yielded, Received, Request, Turns, InLoop, pwctx, place
<1>6. CASE RewriteDone
    BY <1>6, Zenon DEF RewriteDone, Returned, Callers, Request, Turns, InLoop, ToRun,
        RequestSteps, pwctx, rctx
<1>7. CASE WevResumed  BY <1>7, Zenon DEF WevResumed, Request, Turns, InLoop, pwctx, place
<1>8. CASE ReenterPhases  BY <1>8, Zenon DEF ReenterPhases, Request, Turns, InLoop, pwctx, rctx
<1>9. CASE ReenterWev
    BY <1>9, ResumeShape, StepNames DEF ReenterWev, Flow, Request, Turns, InLoop, ToRun,
        RequestSteps, place
<1>10. CASE BodyArrives  BY <1>10, Zenon DEF BodyArrives, Request, Turns, InLoop, pwctx
<1>11. CASE ClientWritable
    BY <1>11, Zenon DEF ClientWritable, Request, Turns, InLoop, pwctx, rctx, place
<1>12. CASE proxy_send_local_response
    BY <1>12, Zenon DEF proxy_send_local_response, Request, Turns, InLoop, ToRun
<1>13. CASE ChainEnds
    BY <1>13, StepNames, FiltersAssumption DEF ChainEnds, Locals, Places, Callers, Pauses,
        Waiting, TypeOK, ReturningSteps, PausablePhases, Codes, Filters, Calls, Flow, Early,
        Request, Turns, InLoop, ToRun, RequestSteps, DispatchSteps, NoJob, NoChain, NotHeld,
        pwctx, pwexec, resp, rctx, place, history
<1>14. CASE ChainStops
    BY <1>14 DEF ChainStops, Consumed, action2rc, Request, Turns, InLoop, rctx, place
<1>15. ASSUME NEW f \in Filters, RunStep(f) PROVE Turns'
    BY <1>15, StepNames, FiltersAssumption DEF RunStep, Runs, action2rc, Locals, Places, Callers,
        Pauses, Waiting, TypeOK, ReturningSteps, PausablePhases, Codes, Filters, Calls, Flow,
        Early, Request, Turns, InLoop, ToRun, RequestSteps, DispatchSteps, NoJob, NoChain,
        NotHeld, pwctx, pwexec, resp, rctx, place, history
<1>16. CASE CallbackReturns \/ CallbackTraps
    <2>1. /\ InLoop /\ ~InLoop' /\ ToRun(step) /\ chain.i = exec_index /\ exec_index < NFilters
          /\ step \in RequestSteps /\ UNCHANGED <<step, local_resp, at>>
        BY <1>16, CallbackShape, Zenon DEF Flow, Request, InLoop, rctx, place
    <2>2. CASE /\ action = "done" /\ pc' = "ret" /\ chain'.rc = "done" /\ action' = "continue"
               /\ UNCHANGED last_completed_step
        BY <2>1, <2>2, Zenon DEF Request, Turns
    <2>3. CASE /\ pc' = "ret" /\ chain'.rc = "500" /\ action' = "continue"
               /\ UNCHANGED <<exec_index, last_completed_step>>
        BY <2>1, <2>3, Zenon DEF Request, Turns
    <2>4. CASE /\ pc' = "chain" /\ chain'.i = chain.i + 1 /\ action' # "done"
               /\ IF exec_index + 1 < NFilters
                  THEN exec_index' = exec_index + 1 /\ UNCHANGED last_completed_step
                  ELSE exec_index' = 0 /\ last_completed_step' = step
        BY <2>1, <2>4, StepNames, FiltersAssumption DEF Flow, Early, Request, Turns, InLoop,
            ToRun, RequestSteps, DispatchSteps, NoJob, NoChain, NotHeld, pwctx, pwexec, resp,
            rctx, place, history, Locals, Places, Callers, Pauses, Waiting, TypeOK,
            ReturningSteps, PausablePhases, Codes, Filters, Calls
    <2> QED
        BY <1>16, <2>2, <2>3, <2>4, CallbackShape, Zenon DEF Flow, Request
<1>17. CASE Suspended  BY <1>17, Zenon DEF Suspended, Request, Turns, InLoop, pwctx, rctx, place
<1>18. CASE CallResumed
    BY <1>18, Zenon DEF CallResumed, Request, Turns, InLoop, pwctx, rctx, place
<1>19. CASE HandlerReturns \/ HandlerTraps
    <2>1. /\ pc' # "callback" /\ action' # "done" /\ step' \in DispatchSteps
          /\ UNCHANGED <<last_completed_step, exec_index, local_resp, at>>
        BY <1>19, HandlerShape, Zenon DEF Flow, Request, place
    <2>2. CASE pc' \notin {"chain", "ret"}
        BY <2>1, <2>2, Zenon DEF Request, Turns, InLoop
    <2>3. CASE /\ chain' = [i |-> exec_index, by |-> "call", rc |-> "ok"]
               /\ pc' = IF step' \in RequestSteps /\ ~ToRun(step') THEN "ret" ELSE "chain"
        BY <2>1, <2>3, Zenon DEF Request, Turns, InLoop, ToRun, DispatchSteps
    <2> QED
        BY <1>19, <2>2, <2>3, HandlerShape, Zenon DEF Flow, Request
<1>20. ASSUME NEW c \in Calls, proxy_dispatch_http_call(c) PROVE Turns'
    BY <1>20, Zenon DEF proxy_dispatch_http_call, Request, Turns, InLoop, ToRun, rctx, place
<1>21. CASE proxy_continue
    BY <1>21, Zenon DEF proxy_continue, Request, Turns, InLoop, ToRun, pwctx, place
<1>22. ASSUME NEW c \in Calls, CallProgress(c) PROVE Turns'
    BY <1>22, Zenon DEF CallProgress, Pending, Request, Turns, InLoop, place
<1>23. ASSUME NEW c \in Calls, NEW received \in BOOLEAN, CallEnds(c, received) PROVE Turns'
    BY <1>23, Zenon DEF CallEnds, Request, Turns, InLoop, NoJob, place
<1> QED
    BY <1>1, <1>2, <1>3, <1>4, <1>5, <1>6, <1>7, <1>8, <1>9, <1>10, <1>11, <1>12, <1>13, <1>14,
        <1>15, <1>16, <1>17, <1>18, <1>19, <1>20, <1>21, <1>22, <1>23, Zenon DEF RequestNext

\* The callbacks begun in a step are counted by exec_index, over all suspensions
\* and reentries.
LEMMA CountsStep ==
    ASSUME Flow, Early, Request, RequestNext
    PROVE  Counts'
<1>0. Doomed => /\ Doomed' /\ exec_index \in failed /\ env = "continue" /\ job = NoJob
                /\ pc \in {"chain", "ret", "reenter", "nginx"}
                /\ pc = "ret" => chain.rc = "500"
                /\ pc = "chain" => chain.i = exec_index
                /\ at = "content" => body \in {"received", "arrived"} \/ local_resp # "none"
    BY DoomedStep, Zenon DEF Doomed
<1>1. CASE RewriteHandler
    BY <1>1, <1>0, ResumeShape, StepNames, Zenon DEF RewriteHandler, Flow, Request, Counts, Tally,
        InLoop, history
<1>2. CASE ContentYields
    BY <1>2, <1>0, Zenon DEF ContentYields, Received, Request, Counts, Tally, InLoop, pwctx,
        place, history
<1>3. CASE ContentWaitsForBody
    BY <1>3, <1>0, Zenon DEF ContentWaitsForBody, Request, Counts, Tally, InLoop, pwctx, place,
        history
<1>4. CASE ContentRunsBody
    BY <1>4, <1>0, ResumeShape, StepNames, Zenon DEF ContentRunsBody, Flow, Request, Counts,
        Tally, InLoop, place, history
<1>5. CASE Yielded
    BY <1>5, <1>0, Zenon DEF Yielded, Received, Returned, Request, Counts, Tally, InLoop, pwctx,
        place, history
<1>6. CASE RewriteDone
    BY <1>6, <1>0, Zenon DEF RewriteDone, Returned, Request, Counts, Tally, InLoop, pwctx, history
<1>7. CASE WevResumed
    BY <1>7, <1>0, Zenon DEF WevResumed, Returned, Request, Counts, Tally, InLoop, pwctx, place,
        history
<1>8. CASE ReenterPhases
    BY <1>8, <1>0, Zenon DEF ReenterPhases, Request, Counts, Tally, InLoop, pwctx, history
<1>9. CASE ReenterWev
    BY <1>9, <1>0, ResumeShape, StepNames, Zenon DEF ReenterWev, Flow, Request, Counts, Tally,
        InLoop, history
<1>10. CASE BodyArrives
    BY <1>10, <1>0, Zenon DEF BodyArrives, Request, Counts, Tally, InLoop, pwctx, place, history
<1>11. CASE ClientWritable
    BY <1>11, <1>0, Zenon DEF ClientWritable, Request, Counts, Tally, InLoop, pwctx, place,
        history
<1>12. CASE proxy_send_local_response
    BY <1>12, <1>0, Zenon DEF proxy_send_local_response, Request, Counts, Tally, InLoop, place,
        history
<1>13. CASE ChainEnds
    BY <1>13, <1>0, Zenon DEF ChainEnds, Request, Counts, Tally, InLoop, pwctx, place, history
<1>14. CASE ChainStops
    BY <1>14, <1>0, Zenon DEF ChainStops, Request, Counts, Tally, InLoop, place, history
<1>15. ASSUME NEW f \in Filters, RunStep(f) PROVE Counts'
    <2>1. /\ pc = "chain" /\ f = chain.i /\ f \notin failed
          /\ step # "dispatch_response" /\ pc' = "callback"
          /\ ran' = IF step \in RequestSteps THEN [ran EXCEPT ![step] = @ + 1] ELSE ran
          /\ UNCHANGED <<last_completed_step, exec_index, at, job>>
        <3>1. Runs(f)
            BY <1>15, Zenon DEF RunStep
        <3> QED
            BY <1>15, <3>1, RunsShape, Zenon DEF RunStep, Request, pwctx, place
    <2>2. ~Doomed /\ ~InLoop /\ InLoop'
        BY <1>0, <2>1, Zenon DEF Flow, Locals, InLoop
    <2>3. step \in RequestSteps
        BY <2>1, Zenon DEF Request, Places, DispatchSteps, RequestSteps
    <2>4. ToRun(step)
        BY <2>1, FiltersAssumption DEF Request, Turns, Filters
    <2>5. \/ last_completed_step = "none" /\ step = "req_headers"
          \/ last_completed_step = "req_headers" /\ step = "req_body" /\ at # "rewrite"
        BY <2>4, Zenon DEF ToRun, Request, Places
    <2>6. ran[step] = exec_index
        BY <2>2, <2>5, Zenon DEF Request, Counts, Tally
    <2>7. /\ ran'[step] = exec_index + 1
          /\ \A s \in RequestSteps \ {step} : ran'[s] = ran[s]
        BY <2>1, <2>3, <2>6, Zenon DEF Flow, TypeOK
    <2> QED
        BY <2>1, <2>2, <2>5, <2>7, Zenon DEF Request, Counts, Tally, RequestSteps
<1>16. CASE CallbackReturns \/ CallbackTraps
    <2>1. /\ InLoop /\ ~InLoop' /\ ToRun(step) /\ chain.i = exec_index /\ exec_index < NFilters
          /\ UNCHANGED <<step, local_resp, body, env, wev, at, job, ran>>
        BY <1>16, CallbackShape, Zenon DEF Flow, Request, InLoop, rctx, place
    <2>2. /\ \/ last_completed_step = "none" /\ step = "req_headers" /\ ran["req_body"] = 0
             \/ last_completed_step = "req_headers" /\ step = "req_body"
          /\ ran[step] = exec_index + 1
        <3>1. \/ last_completed_step = "none" /\ step = "req_headers"
              \/ last_completed_step = "req_headers" /\ step = "req_body"
            BY <2>1, Zenon DEF ToRun, Request, Places
        <3>2. Tally(step) /\ (last_completed_step = "none" => ran["req_body"] = 0)
            BY <3>1, Zenon DEF Request, Counts
        <3> QED
            BY <2>1, <3>1, <3>2, Zenon DEF Tally
    <2>3. CASE exec_index' = exec_index + 1 /\ UNCHANGED last_completed_step
        BY <2>1, <2>2, <2>3, Zenon DEF Request, Counts, Tally
    <2>4. CASE exec_index' = 0 /\ last_completed_step' = step /\ exec_index + 1 >= NFilters
        BY <2>1, <2>2, <2>4, StepNames, FiltersAssumption DEF Flow, Early, Request, Counts, Tally,
            InLoop, RequestSteps, DispatchSteps, NoJob, NoChain, NotHeld, pwctx, pwexec, resp,
            rctx, place, history, Locals, Places, Turns, ToRun, Callers, Pauses, Waiting, TypeOK,
            ReturningSteps, PausablePhases, Codes, Filters, Calls
    <2>5. CASE pc' = "ret" /\ chain'.rc = "500" /\ failed' = failed \cup {exec_index}
               /\ UNCHANGED <<exec_index, last_completed_step>>
        <3>1. Doomed'
            BY <1>16, <2>5, TrapDooms, Zenon DEF Flow, Request
        <3> QED
            BY <2>1, <2>5, <3>1, Zenon DEF Request, Counts, Tally
    <2>6. \/ exec_index' = exec_index + 1 /\ UNCHANGED last_completed_step
          \/ exec_index' = 0 /\ last_completed_step' = step /\ exec_index + 1 >= NFilters
          \/ /\ pc' = "ret" /\ chain'.rc = "500" /\ failed' = failed \cup {exec_index}
             /\ UNCHANGED <<exec_index, last_completed_step>>
        <3>1. TypeOK /\ Locals /\ Callers /\ Turns
            BY Zenon DEF Flow, Request
        <3>2. \/ exec_index' = exec_index + 1 /\ UNCHANGED last_completed_step
              \/ exec_index' = 0 /\ last_completed_step' = step /\ ~(exec_index + 1 < NFilters)
              \/ /\ pc' = "ret" /\ chain'.rc = "500" /\ failed' = failed \cup {exec_index}
                 /\ UNCHANGED <<exec_index, last_completed_step>>
            BY <1>16, <3>1, CallbackShape, Zenon
        <3>3. ~(exec_index + 1 < NFilters) => exec_index + 1 >= NFilters
            BY <3>1, FiltersAssumption DEF TypeOK
        <3> QED
            BY <3>2, <3>3, Zenon
    <2> QED
        BY <2>3, <2>4, <2>5, <2>6, Zenon
<1>17. CASE Suspended
    BY <1>17, <1>0, Zenon DEF Suspended, Returned, Request, Counts, Tally, InLoop, pwctx, place,
        history
<1>18. CASE CallResumed
    BY <1>18, <1>0, Zenon DEF CallResumed, Returned, Request, Counts, Tally, InLoop, pwctx, place,
        history
<1>19. CASE HandlerReturns \/ HandlerTraps
    BY <1>19, <1>0, HandlerShape, Zenon DEF Flow, Request, Counts, Tally, InLoop, place, history
<1>20. ASSUME NEW c \in Calls, proxy_dispatch_http_call(c) PROVE Counts'
    BY <1>20, <1>0, Zenon DEF proxy_dispatch_http_call, Request, Counts, Tally, InLoop, place,
        history
<1>21. CASE proxy_continue
    BY <1>21, <1>0, Zenon DEF proxy_continue, Request, Counts, Tally, InLoop, pwctx, place,
        history
<1>22. ASSUME NEW c \in Calls, CallProgress(c) PROVE Counts'
    BY <1>22, <1>0, Zenon DEF CallProgress, Request, Counts, Tally, InLoop, place, history
<1>23. ASSUME NEW c \in Calls, NEW received \in BOOLEAN, CallEnds(c, received) PROVE Counts'
    BY <1>23, <1>0, Zenon DEF CallEnds, Pending, Request, Counts, Tally, InLoop, NoJob, place,
        history
<1> QED
    BY <1>1, <1>2, <1>3, <1>4, <1>5, <1>6, <1>7, <1>8, <1>9, <1>10, <1>11, <1>12, <1>13, <1>14,
        <1>15, <1>16, <1>17, <1>18, <1>19, <1>20, <1>21, <1>22, <1>23, Zenon DEF RequestNext

\* Only the filter that runs, or that holds the chain, has calls pending, if
\* filters pause when they have dispatched.
LEMMA OwnersStep ==
    ASSUME Flow, Early, Request, RequestNext
    PROVE  Owners'
<1>0. Doomed => /\ Doomed' /\ exec_index \in failed /\ env = "continue" /\ job = NoJob
                /\ pc \in {"chain", "ret", "reenter", "nginx"}
                /\ pc = "ret" => chain.rc = "500"
                /\ pc = "chain" => chain.i = exec_index
                /\ at = "content" => body \in {"received", "arrived"} \/ local_resp # "none"
    BY DoomedStep, Zenon DEF Doomed
<1>1. CASE RewriteHandler
    BY <1>1, <1>0, ResumeShape, StepNames, Zenon DEF RewriteHandler, Flow, Request, Owners,
        InLoop, pwexec, rctx, history
<1>2. CASE ContentYields
    BY <1>2, <1>0, Zenon DEF ContentYields, Received, Request, Owners, InLoop, pwexec, rctx, history
<1>3. CASE ContentWaitsForBody
    BY <1>3, <1>0, SMTT(30) DEF ContentWaitsForBody, Locals, Blocked, Flow, Request, Owners,
        InLoop, pwexec
<1>4. CASE ContentRunsBody
    BY <1>4, <1>0, ResumeShape, StepNames, Zenon DEF ContentRunsBody, Flow, Request, Owners,
        InLoop, pwexec, history
<1>5. CASE Yielded
    BY <1>5, <1>0, Zenon DEF Yielded, Received, Returned, Request, Owners, InLoop, pwexec, history
<1>6. CASE RewriteDone
    BY <1>6, <1>0, Zenon DEF RewriteDone, Returned, Request, Owners, InLoop, pwexec, rctx, history
<1>7. CASE WevResumed
    BY <1>7, <1>0, Zenon DEF WevResumed, Returned, Request, Owners, InLoop, pwexec, history
<1>8. CASE ReenterPhases
    BY <1>8, <1>0, Zenon DEF ReenterPhases, Request, Owners, InLoop, pwexec, rctx, history
<1>9. CASE ReenterWev
    BY <1>9, <1>0, ResumeShape, StepNames, Zenon DEF ReenterWev, Flow, Request, Owners, InLoop,
        pwexec, rctx, history
<1>10. CASE BodyArrives  BY <1>10, Zenon DEF BodyArrives, Request, Owners, InLoop, pwexec, history
<1>11. CASE ClientWritable
    BY <1>11, <1>0, Zenon DEF ClientWritable, Request, Owners, InLoop, pwexec, rctx, history
<1>12. CASE proxy_send_local_response
    BY <1>12, <1>0, FiltersAssumption, SMTT(30) DEF proxy_send_local_response, Current, Locals,
        TypeOK, Filters, Flow, Request, Owners, InLoop, history
<1>13. CASE ChainEnds
    BY <1>13, <1>0, Zenon DEF ChainEnds, Request, Owners, InLoop, pwexec, rctx, history
<1>14. CASE ChainStops
    BY <1>14, <1>0, Zenon DEF ChainStops, Request, Owners, InLoop, rctx, history
<1>15. ASSUME NEW f \in Filters, RunStep(f) PROVE Owners'
    <2>1. pc = "chain" /\ f = chain.i /\ f \notin failed /\ action = "continue"
        BY <1>15, RunsShape, Zenon DEF RunStep, Request
    <2>2. ~Doomed /\ job = NoJob
        BY <1>0, <2>1, Zenon DEF Flow, Locals
    <2>3. PausesOnDispatch => \A g \in Filters : dispatch_ops[g] = {}
        BY <2>1, <2>2 DEF Request, Owners, InLoop, Blocked
    <2>4. held' = NotHeld /\ pc' = "callback" /\ UNCHANGED <<action, dispatch_ops, body, job>>
        BY <1>15, Zenon DEF RunStep, pwctx, rctx
    <2> QED
        BY <2>1, <2>2, <2>3, <2>4, Zenon DEF Request, Owners
<1>16. CASE CallbackReturns \/ CallbackTraps
    <2>1. /\ InLoop /\ ~InLoop' /\ UNCHANGED <<dispatch_ops, calls, body, job>> /\ job = NoJob
          /\ PausesOnDispatch => body # "waited"
          /\ held = NotHeld /\ chain.i \in Filters
        BY <1>16, CallbackShape, FiltersAssumption, SMTT(30) DEF Flow, Request, Owners, InLoop,
            rctx, TypeOK, Filters
    <2>2. CASE chain'.rc = "500"
        <3>1. Doomed'
            BY <1>16, <2>2, TrapDooms, Zenon DEF Flow, Request
        <3> QED
            BY <2>1, <3>1, Zenon DEF Owners
    <2>3. CASE action = "done"
        BY <2>1, <2>3, Zenon DEF Request, Owners
    <2>4. CASE /\ PausesOnDispatch /\ dispatch_ops[chain.i] # {} => action' = "pause"
               /\ held' = IF action' = "pause"
                          THEN [f |-> chain.i,
                                why |-> IF dispatch_ops[chain.i] = {} THEN "itself" ELSE "calls"]
                          ELSE held
        BY <2>1, <2>4, Zenon DEF Request, Owners
    <2> QED
        BY <1>16, <2>2, <2>4, CallbackShape, Zenon DEF Flow, Request, Owners
<1>17. CASE Suspended
    BY <1>17, <1>0, Zenon DEF Suspended, Returned, Request, Owners, InLoop, pwexec, rctx, history
<1>18. CASE CallResumed
    BY <1>18, <1>0, Zenon DEF CallResumed, Returned, Request, Owners, InLoop, pwexec, rctx,
        history
<1>19. CASE HandlerReturns \/ HandlerTraps
    BY <1>19, <1>0, HandlerShape, Zenon DEF Flow, Request, Owners, InLoop, history
<1>20. ASSUME NEW c \in Calls, proxy_dispatch_http_call(c) PROVE Owners'
    BY <1>20, <1>0, SMTT(30) DEF proxy_dispatch_http_call, Current, TypeOK, Flow, Request, Owners,
        InLoop, rctx, history
<1>21. CASE proxy_continue
    BY <1>21, <1>0, Zenon DEF proxy_continue, Request, Owners, InLoop, pwctx, pwexec, history
<1>22. ASSUME NEW c \in Calls, CallProgress(c) PROVE Owners'
    BY <1>22, <1>0, Zenon DEF CallProgress, Pending, Request, Owners, InLoop, pwexec, history
<1>23. ASSUME NEW c \in Calls, NEW received \in BOOLEAN, CallEnds(c, received) PROVE Owners'
    <2>1. PICK f : f = OwnerOf(c)
        BY Zenon
    <2>2. /\ pc = "idle" /\ pc' = "callback" /\ job' # NoJob /\ job'.f = f
          /\ dispatch_ops' = [dispatch_ops EXCEPT ![f] = @ \ {c}]
          /\ UNCHANGED <<held, body>>
        BY <1>23, <2>1, Zenon DEF CallEnds, Pending, Unlisted, NoJob, history
    <2>3. f \in Filters /\ dispatch_ops[f] # {}
        BY <1>23, <2>1, OwnerShape, Zenon DEF CallEnds, Pending, Flow
    <2>4. \A g \in Filters : dispatch_ops'[g] # {} => dispatch_ops[g] # {}
        BY <2>2, <2>3
    <2>5. ~InLoop /\ ~InLoop' /\ ~Doomed
        BY <1>0, <2>2, Zenon DEF InLoop
    <2> QED
        BY <2>2, <2>3, <2>4, <2>5, Zenon DEF Request, Owners
<1> QED
    BY <1>1, <1>2, <1>3, <1>4, <1>5, <1>6, <1>7, <1>8, <1>9, <1>10, <1>11, <1>12, <1>13, <1>14,
        <1>15, <1>16, <1>17, <1>18, <1>19, <1>20, <1>21, <1>22, <1>23, Zenon DEF RequestNext

\* The chain stays paused while the filter that holds it has calls: a call that
\* is started makes the request yield, one that ends with others left too.
LEMMA BlockedStep ==
    ASSUME Flow, Early, Request, RequestNext
    PROVE  Blocked'
<1>0. Doomed => /\ Doomed' /\ exec_index \in failed /\ env = "continue" /\ job = NoJob
                /\ pc \in {"chain", "ret", "reenter", "nginx"}
                /\ pc = "ret" => chain.rc = "500"
                /\ pc = "chain" => chain.i = exec_index
                /\ at = "content" => body \in {"received", "arrived"} \/ local_resp # "none"
    BY DoomedStep, Zenon DEF Doomed
<1>1. CASE RewriteHandler
    BY <1>1, <1>0, Zenon DEF RewriteHandler, Request, Blocked, pwexec, rctx, history
<1>2. CASE ContentYields
    BY <1>2, <1>0, Zenon DEF ContentYields, Received, Request, Blocked, pwctx, pwexec, rctx, history
<1>3. CASE ContentWaitsForBody
    BY <1>3, <1>0, Zenon DEF ContentWaitsForBody, Request, Blocked, pwexec, history
<1>4. CASE ContentRunsBody
    BY <1>4, <1>0, Zenon DEF ContentRunsBody, Request, Blocked, pwexec, history
<1>5. CASE Yielded
    BY <1>5, <1>0, Zenon DEF Yielded, Received, ngx_wasm_yield, Request, Blocked, pwctx, pwexec,
        history
<1>6. CASE RewriteDone
    BY <1>6, <1>0, Zenon DEF RewriteDone, Returned, Request, Blocked, pwctx, pwexec, rctx, history
<1>7. CASE WevResumed
    BY <1>7, <1>0, Zenon DEF WevResumed, Returned, Request, Blocked, pwctx, pwexec, history
<1>8. CASE ReenterPhases
    BY <1>8, <1>0, Zenon DEF ReenterPhases, Request, Blocked, pwctx, pwexec, rctx, history
<1>9. CASE ReenterWev  BY <1>9, <1>0, Zenon DEF ReenterWev, Request, Blocked, pwexec, rctx, history
<1>10. CASE BodyArrives
    BY <1>10 DEF BodyArrives, Owners, Flow, Request, Blocked, NotHeld, pwexec, history, TypeOK
<1>11. CASE ClientWritable
    BY <1>11, <1>0, SMTT(30) DEF ClientWritable, TypeOK, Flow, Request, Blocked, NotHeld, pwctx,
        pwexec, rctx, history
<1>12. CASE proxy_send_local_response
    BY <1>12, <1>0, SMTT(30) DEF proxy_send_local_response, Pauses, Request, Blocked, history
<1>13. CASE ChainEnds
    BY <1>13, <1>0, Zenon DEF ChainEnds, Request, Blocked, pwctx, pwexec, rctx, history
<1>14. CASE ChainStops
    <2>1. /\ pc = "chain" /\ pc' = "ret" /\ chain.i \in Filters /\ job = NoJob
          /\ chain'.by = chain.by /\ chain'.rc = action2rc(chain.i, action)
          /\ UNCHANGED <<step, last_completed_step, exec_index, dispatch_ops, calls, env, wev,
                         local_resp, body, at, held, job>>
        BY <1>14, FiltersAssumption DEF ChainStops, Flow, rctx, place, history, Locals, TypeOK,
            Filters
    <2>2. /\ phase \in PausablePhases /\ step \in DispatchSteps /\ action \in {"continue", "pause"}
          /\ action = "pause" => action' = "pause"
        BY <1>14, Zenon DEF ChainStops, Consumed, InLoop, Flow, Request, Locals, Places, Callers,
            TypeOK
    <2>3. \/ chain.i \in failed /\ chain'.rc = "500" /\ failed' = failed
          \/ action = "pause" /\ chain'.rc = "again" /\ chain.i \notin failed
        BY <1>14, <2>2 DEF ChainStops, action2rc
    <2>4. CASE Doomed
        BY <1>0, <2>4, Zenon DEF Blocked
    <2>5. CASE action = "pause" /\ env = "yield"
        BY <2>1, <2>2, <2>5, Zenon DEF Blocked
    <2>6. CASE /\ action = "pause" /\ env # "yield" /\ chain.rc = "again"
               /\ \A c \in dispatch_ops[held.f] : calls[c] = "posted"
        <3>1. CASE chain'.rc = "again"
            BY <2>1, <2>2, <2>6, <3>1, Zenon DEF Blocked
        <3>2. CASE chain.i \in failed /\ chain'.rc = "500" /\ failed' = failed
            <4>1. chain.i = exec_index /\ step \in RequestSteps /\ ToRun(step)
                BY <2>1, <2>6, SMTT(30) DEF Request, RequestSteps, Turns, ToRun, Filters
            <4>2. Doomed'
                BY <2>1, <2>6, <3>2, <4>1, Zenon DEF ToRun, Doomed, Flow, Request, Locals, Places,
                    Turns, Callers, Pauses, TypeOK
            <4> QED
                BY <4>2, Zenon DEF Blocked
        <3> QED
            BY <2>3, <3>1, <3>2, Zenon
    <2> QED
        BY <2>1, <2>4, <2>5, <2>6, Zenon DEF Request, Blocked
<1>15. ASSUME NEW f \in Filters, RunStep(f) PROVE Blocked'
    BY <1>15, Zenon DEF RunStep, Blocked, NotHeld
<1>16. CASE CallbackReturns \/ CallbackTraps
    <2>1. /\ InLoop /\ held = NotHeld /\ UNCHANGED <<dispatch_ops, calls>>
          /\ chain.i \in Filters
        BY <1>16, CallbackShape, FiltersAssumption, SMTT(60) DEF Flow, Request, Owners, TypeOK,
            Filters
    <2>2. CASE UNCHANGED held
        BY <2>1, <2>2, Zenon DEF Blocked, NotHeld
    <2>3. CASE action' = "pause" /\ held'.f = chain.i /\ pc' = "chain" /\ chain'.rc = "again"
        BY <2>1, <2>3, Zenon DEF Request, Blocked, Owners
    <2> QED
        BY <1>16, <2>2, <2>3, CallbackShape, SMTT(30) DEF Flow, Request
<1>17. CASE Suspended
    BY <1>17, <1>0, Zenon DEF Suspended, Request, Blocked, pwctx, pwexec, rctx, history
<1>18. CASE CallResumed
    BY <1>18, <1>0, Zenon DEF CallResumed, Returned, Request, Blocked, pwctx, pwexec, rctx,
        history
<1>19. CASE HandlerReturns \/ HandlerTraps
    <2>1. job # NoJob /\ UNCHANGED <<dispatch_ops, held>>
        BY <1>19, HandlerShape, Zenon DEF Flow, Request, history
    <2>2. dispatch_ops[job.f] # {} => env' = "yield" /\ action' = "pause"
        BY <1>19, HandlerShape, Zenon DEF Flow, Request
    <2> QED
        BY <2>1, <2>2 DEF Request, Blocked, Owners
<1>20. ASSUME NEW c \in Calls, proxy_dispatch_http_call(c) PROVE Blocked'
    BY <1>20, SMTT(30) DEF proxy_dispatch_http_call, InLoop, Owners, Request, Blocked, NotHeld,
        history
<1>21. CASE proxy_continue
    BY <1>21, <1>0, Zenon DEF proxy_continue, Pauses, Request, Blocked, pwexec, history
<1>22. ASSUME NEW c \in Calls, CallProgress(c) PROVE Blocked'
    BY <1>22, Zenon DEF CallProgress, ngx_wasm_yield, Blocked
<1>23. ASSUME NEW c \in Calls, NEW received \in BOOLEAN, CallEnds(c, received) PROVE Blocked'
    BY <1>23, Zenon DEF CallEnds, Blocked, NoJob
<1> QED
    BY <1>1, <1>2, <1>3, <1>4, <1>5, <1>6, <1>7, <1>8, <1>9, <1>10, <1>11, <1>12, <1>13, <1>14,
        <1>15, <1>16, <1>17, <1>18, <1>19, <1>20, <1>21, <1>22, <1>23, Zenon DEF RequestNext

=============================================================================
