-------------------------- MODULE ProxyWasmProofs --------------------------
(***************************************************************************)
(* The filter chain for every number of filters and calls: the invariant   *)
(* is inductive, and the properties follow from it.                        *)
(***************************************************************************)
EXTENDS ProxyWasmRequest

\* Every handler keeps the variables in their types.  That a filter is not run
\* more often than there are filters needs the count of its callbacks.
LEMMA TypeOKStep ==
    ASSUME ChainInv, Next, ~Ended
    PROVE  TypeOK'
<1> USE StepNames, FiltersAssumption DEF ChainInv, Flow, TypeOK, Locals, InLoop, RequestSteps,
       DispatchSteps, ReturningSteps, PausablePhases, Codes, Filters, Calls, NoJob, NoChain,
       NotHeld, pwctx, pwexec, resp, rctx, place, history
<1>1. CASE RewriteHandler  BY <1>1, ResumeShape DEF RewriteHandler
<1>2. CASE ContentYields  BY <1>2 DEF ContentYields, Received
<1>3. CASE ContentWaitsForBody  BY <1>3 DEF ContentWaitsForBody
<1>4. CASE ContentRunsBody  BY <1>4, ResumeShape DEF ContentRunsBody
<1>5. CASE Yielded  BY <1>5 DEF Yielded, Received, Returned, ngx_wasm_yield
<1>6. CASE RewriteDone  BY <1>6 DEF RewriteDone, Returned
<1>7. CASE WevResumed
    <2>1. wev' \in BOOLEAN /\ pc' \in {"nginx", "idle"} /\ chain' = NoChain
        BY <1>7, Zenon DEF WevResumed
    <2>2. UNCHANGED <<pwctx, pwexec, calls, env, local_resp, body, resp, place, job, history>>
        BY <1>7, Zenon DEF WevResumed
    <2> QED
        BY <2>1, <2>2
<1>8. CASE ReenterPhases  BY <1>8 DEF ReenterPhases
<1>9. CASE ReenterWev  BY <1>9, ResumeShape DEF ReenterWev
<1>10. CASE BodyArrives  BY <1>10 DEF BodyArrives
<1>11. CASE ClientWritable  BY <1>11 DEF ClientWritable
<1>12. CASE proxy_send_local_response  BY <1>12 DEF proxy_send_local_response, Current
<1>13. CASE ContentFlushes  BY <1>13 DEF ContentFlushes, Respond
<1>14. CASE ContentPasses  BY <1>14 DEF ContentPasses, Respond
<1>15. CASE RequestFails  BY <1>15 DEF RequestFails, Respond, Returned
<1>16. CASE ContentDone  BY <1>16 DEF ContentDone, Respond, Returned
<1>17. CASE BufferChunk  BY <1>17 DEF BufferChunk
<1>18. CASE BufferComplete
    <2>1. Resume("resp_body", "nginx") /\ phase' = "body_filter" /\ action' = "continue"
          /\ resp_buffering' \in BOOLEAN /\ resp_bufs' \in BOOLEAN
        BY <1>18, Zenon DEF BufferComplete, BodyFilterResume
    <2>2. UNCHANGED <<last_completed_step, pwexec, calls, rctx, resp_chunk_eof, resp_last,
                      place, job, history>>
        BY <1>18, Zenon DEF BufferComplete, BodyFilterResume
    <2> QED
        BY <2>1, <2>2, ResumeShape
<1>19. CASE Cleanup  BY <1>19, ResumeShape DEF Cleanup
<1>20. CASE HeaderFilter  BY <1>20, ResumeShape, SMTT(30) DEF HeaderFilter
<1>21. ASSUME NEW eof \in BOOLEAN, BodyFilter(eof) PROVE TypeOK'
    BY <1>21, ResumeShape DEF BodyFilter, BodyFilterResume
<1>22. CASE LogHandler  BY <1>22, ResumeShape DEF LogHandler
<1>23. CASE HeaderFilterDone  BY <1>23 DEF HeaderFilterDone, Returned
<1>24. CASE BodyFilterDone  BY <1>24 DEF BodyFilterDone, Returned
<1>25. CASE LogDone  BY <1>25 DEF LogDone, Returned
<1>26. CASE Freed  BY <1>26 DEF Freed, Returned
<1>27. CASE ReenterNothing  BY <1>27 DEF ReenterNothing
<1>28. CASE ChainSkipsDone  BY <1>28 DEF ChainSkipsDone
<1>29. CASE ChainEnds  BY <1>29 DEF ChainEnds
<1>30. CASE ChainStops  BY <1>30 DEF ChainStops, Consumed, Buffers, action2rc
<1>31. ASSUME NEW f \in Filters, RunStep(f) PROVE TypeOK'
    <2>1. step \in RequestSteps => ran[step] \in Nat /\ ran[step] + 1 <= NFilters
        <3> SUFFICES ASSUME step \in RequestSteps PROVE ran[step] + 1 <= NFilters
            OBVIOUS
        <3>1. Early /\ Request
            BY <1>31, Zenon DEF RunStep, Runs, Late
        <3>2. pc = "chain" /\ f = chain.i /\ f \notin failed /\ chain.i < NFilters
            BY <1>31, <3>1, RunsShape, SMTT(30) DEF RunStep, Request
        <3>3. ToRun(step) /\ chain.i = exec_index
            BY <3>1, <3>2 DEF Request, Turns
        <3>4. Tally(step)
            BY <3>1, <3>3, ZenonT(30) DEF Request, Counts, ToRun, Places
        <3> QED
            BY <3>2, <3>3, <3>4 DEF Tally, Doomed, InLoop
    <2>2. ran' \in [RequestSteps -> 0 .. NFilters]
        BY <1>31, <2>1 DEF RunStep
    <2>3. trapped' \subseteq Filters /\ pc' = "callback" /\ held' = NotHeld
        BY <1>31, Zenon DEF RunStep
    <2>4. UNCHANGED <<pwctx, failed, dispatch_ops, calls, rctx, resp_buffering, resp_bufs,
                      resp_last, place, chain, job>>
        BY <1>31, ZenonT(30) DEF RunStep
    <2>5. resp_chunk_eof' \in BOOLEAN
        BY <1>31, Zenon DEF RunStep, ChunkEof
    <2> QED
        BY <2>2, <2>3, <2>4, <2>5
<1>32. CASE CallbackReturns
    <2>1. PICK next \in Actions : StepDone(next) /\ (next = "done" => action = "done")
        BY <1>32 DEF CallbackReturns, Returns, Actions
    <2>2. chain.i \in Filters /\ InLoop
        BY <1>32 DEF CallbackReturns
    <2>3. held' \in {held} \cup [f : Filters, why : {"itself", "calls"}]
        BY <1>32, <2>2 DEF CallbackReturns
    <2>4. UNCHANGED <<phase, step, pwexec, calls, rctx, resp_bufs, resp_chunk_eof, resp_last,
                      place, job, ran>>
        BY <1>32, Zenon DEF CallbackReturns
    <2> QED
        BY <2>1, <2>2, <2>3, <2>4, StepDoneShape, SMTT(30) DEF Chains, Actions
<1>33. CASE CallbackTraps
    <2>1. InLoop /\ chain.i \in Filters /\ trapped' = trapped \cup {chain.i}
        BY <1>33 DEF CallbackTraps
    <2>2. UNCHANGED <<phase, step, dispatch_ops, calls, rctx, resp_bufs, resp_chunk_eof, resp_last,
                      place, job, history>>
        BY <1>33, Zenon DEF CallbackTraps
    <2>3. CASE step \in ReturningSteps /\ action # "done"
        <3>1. /\ failed' = failed \cup {chain.i} /\ action' = "continue"
              /\ chain' = [chain EXCEPT !.rc = "500"] /\ pc' = "ret"
              /\ UNCHANGED <<last_completed_step, exec_index, resp_buffering>>
            BY <1>33, <2>3, ZenonT(30) DEF CallbackTraps
        <3> QED
            BY <2>1, <2>2, <3>1
    <2>4. CASE ~(step \in ReturningSteps /\ action # "done")
        <3>1. StepDone(action) /\ UNCHANGED failed
            BY <1>33, <2>4, ZenonT(30) DEF CallbackTraps
        <3>2. /\ chain' \in Chains /\ action' \in Actions /\ pc' \in {"chain", "ret"}
              /\ exec_index' \in 0 .. NFilters /\ resp_buffering' \in BOOLEAN
              /\ last_completed_step' \in {step, last_completed_step}
            BY <2>1, <3>1, StepDoneShape DEF Actions
        <3>3. /\ chain' \in [i : 0 .. NFilters, by : {"none", "nginx", "wev", "call"}, rc : Codes]
              /\ action' \in {"continue", "pause", "done"}
              /\ failed' \subseteq Filters /\ trapped' \subseteq Filters
              /\ last_completed_step' \in Steps
            BY <2>1, <3>1, <3>2, ZenonT(30) DEF Chains, Actions
        <3> QED
            BY <2>2, <3>2, <3>3
    <2> QED
        BY <2>3, <2>4, Zenon
<1>34. CASE Suspended  BY <1>34 DEF Suspended, Returned
<1>35. CASE CallResumed  BY <1>35 DEF CallResumed, Returned
<1>36. CASE HandlerReturns
    <2>1. job # NoJob /\ CallHandled(job.saved, job.erred) /\ job.saved \in Steps
          /\ job.erred \in BOOLEAN /\ failed' \subseteq Filters /\ job' = NoJob
        BY <1>36, Zenon DEF HandlerReturns
    <2>2. UNCHANGED <<phase, last_completed_step, trapped, dispatch_ops, calls, local_resp, body,
    resp,
                      place, history>>
        BY <1>36, SMTT(30) DEF HandlerReturns
    <2>3. /\ wev' \in BOOLEAN /\ env' \in {"continue", "yield"} /\ action' \in {"continue", "pause"}
          /\ step' \in Steps /\ exec_index' \in 0 .. NFilters /\ chain' \in Chains
          /\ pc' \in {"idle", "reenter", "chain", "ret"}
        BY <2>1, CallHandledShape, ZenonT(30)
    <2> QED
        BY <2>1, <2>2, <2>3, SMTT(30) DEF Chains
<1>37. CASE HandlerTraps
    <2>1. job # NoJob /\ CallHandled(step, TRUE) /\ job.f \in Filters
          /\ failed' \subseteq Filters /\ trapped' \subseteq Filters /\ job' = NoJob
        BY <1>37, Zenon DEF HandlerTraps
    <2>2. UNCHANGED <<phase, last_completed_step, dispatch_ops, calls, local_resp, body, resp,
                      place, history>>
        BY <1>37, Zenon DEF HandlerTraps
    <2>3. /\ wev' \in BOOLEAN /\ env' \in {"continue", "yield"} /\ action' \in {"continue", "pause"}
          /\ step' \in Steps /\ exec_index' \in 0 .. NFilters /\ chain' \in Chains
          /\ pc' \in {"idle", "reenter", "chain", "ret"}
        BY <2>1, CallHandledShape, ZenonT(30)
    <2> QED
        BY <2>1, <2>2, <2>3 DEF Chains
<1>38. ASSUME NEW c \in Calls, proxy_dispatch_http_call(c) PROVE TypeOK'
    BY <1>38 DEF proxy_dispatch_http_call, Current
<1>39. CASE proxy_continue
    BY <1>39 DEF proxy_continue, ngx_wasm_continue, ngx_wasm_yield, set_resume_handler
<1>40. ASSUME NEW c \in Calls, CallProgress(c) PROVE TypeOK'
    BY <1>40 DEF CallProgress, Pending, ngx_wasm_yield
<1>41. ASSUME NEW c \in Calls, NEW received \in BOOLEAN, CallEnds(c, received) PROVE TypeOK'
    <2>1. calls[c] \in {"posted", "open"} /\ OwnerOf(c) \in Filters
        BY <1>41, OwnerShape, Zenon DEF CallEnds, Pending
    <2>2. /\ calls' = [calls EXCEPT ![c] = "closed"]
          /\ dispatch_ops' = [dispatch_ops EXCEPT ![OwnerOf(c)] = dispatch_ops[OwnerOf(c)] \ {c}]
        BY <1>41, ZenonT(30) DEF CallEnds, Unlisted
    <2>5. failed' \subseteq Filters /\ trapped' \subseteq Filters
        BY <1>41, <2>1, ZenonT(30) DEF CallEnds
    <2>6. calls' \in [Calls -> {"unused", "posted", "open", "closed"}]
        BY <2>2, Zenon
    <2>7. dispatch_ops' \in [Filters -> SUBSET Calls]
        BY <2>1, <2>2
    <2>3. /\ job' \in [f : Filters, saved : Steps, erred : BOOLEAN]
          /\ phase' = "background" /\ step' = "dispatch_response" /\ pc' = "callback"
          /\ env' = "continue" /\ wev' \in BOOLEAN
        BY <1>41, <2>1 DEF CallEnds, ngx_wasm_continue, set_resume_handler
    <2>4. UNCHANGED <<last_completed_step, exec_index, action, local_resp, body, resp, place, chain,
                      history>>
        BY <1>41, ZenonT(30) DEF CallEnds
    <2> QED
        BY <2>3, <2>4, <2>5, <2>6, <2>7, SMTT(30)
<1>42. ASSUME NEW f \in Filters, RunStepCrashes(f) PROVE TypeOK'
    BY <1>42 DEF RunStepCrashes, Runs, action2rc
<1>43. CASE BodyHandlerFails  BY <1>43 DEF BodyHandlerFails, Returned
<1> HIDE DEF ChainInv, Flow, TypeOK, Locals, InLoop, RequestSteps, DispatchSteps,
       ReturningSteps, PausablePhases, Codes, Filters, Calls, NoJob, NoChain, NotHeld, pwctx,
       pwexec, resp, rctx, place, history
<1> QED
    BY <1>1, <1>2, <1>3, <1>4, <1>5, <1>6, <1>7, <1>8, <1>9, <1>10, <1>11, <1>12, <1>13, <1>14,
        <1>15, <1>16, <1>17, <1>18, <1>19, <1>20, <1>21, <1>22, <1>23, <1>24, <1>25, <1>26, <1>27,
        <1>28, <1>29, <1>30, <1>31, <1>32, <1>33, <1>34, <1>35, <1>36, <1>37, <1>38, <1>39, <1>40,
        <1>41, <1>42, <1>43, ZenonT(30) DEF Next, Synchronous

----------------------------------------------------------------------------
\* The initial state, in the rewrite phase with nothing done yet.
LEMMA Initially == Init => ChainInv
<1> SUFFICES ASSUME Init PROVE ChainInv
    BY Zenon
<1> USE FiltersAssumption DEF Init, InLoop
<1>1. /\ pc = "nginx" /\ chain = NoChain /\ job = NoJob /\ held = NotHeld /\ at = "rewrite"
      /\ step = "none" /\ last_completed_step = "none" /\ exec_index = 0 /\ action = "continue"
    BY Zenon
<1>2. TypeOK
    <2>1. /\ dispatch_ops \in [Filters -> SUBSET Calls]
          /\ calls \in [Calls -> {"unused", "posted", "open", "closed"}]
          /\ ran \in [RequestSteps -> 0 .. NFilters]
        OBVIOUS
    <2>2. /\ chain \in [i : 0 .. NFilters, by : {"none", "nginx", "wev", "call"}, rc : Codes]
          /\ job = NoJob /\ held = NotHeld
        BY DEF NoChain, Codes
    <2>3. /\ phase \in PausablePhases /\ step \in Steps /\ last_completed_step \in Steps
          /\ exec_index \in 0 .. NFilters /\ failed \subseteq Filters /\ trapped \subseteq Filters
        BY StepNames DEF PausablePhases
    <2> QED
        BY <2>1, <2>2, <2>3, Zenon DEF TypeOK
<1>3. CallsListed
    BY Zenon DEF CallsListed
<1>4. Locals
    BY Zenon DEF Locals, NoChain
<1>5. Places /\ Pauses
    BY Zenon DEF Places, Pauses, NoChain
<1>6. Callers
    BY Zenon DEF Callers, NoChain, PausablePhases
<1>7. Turns
    BY DEF Turns
<1>8. Counts /\ Owners /\ Blocked
    BY Zenon DEF Counts, Tally, Owners, Blocked, NotHeld, RequestSteps
<1> QED
    BY <1>1, <1>2, <1>3, <1>4, <1>5, <1>6, <1>7, <1>8, Zenon DEF ChainInv, Flow, Request, Early

\* A step that changes nothing.
LEMMA Stuttering == ASSUME ChainInv, UNCHANGED vars PROVE ChainInv'
<1> USE DEF vars, pwctx, pwexec, resp, rctx, place, history
<1>1. Flow'
    BY DEF ChainInv, Flow, TypeOK, CallsListed, Locals, InLoop
<1>2. (Early' <=> Early) /\ (InLoop' <=> InLoop) /\ (Doomed' <=> Doomed)
    BY Zenon DEF Early, InLoop, Doomed
<1>3. Late => Late'
    BY Zenon DEF Late, ToRun, InLoop
<1>4. Request => Request'
    <2>1. Places => Places'
        BY Zenon DEF Places
    <2>2. Pauses => Pauses'
        BY Zenon DEF Pauses, Waiting, InLoop
    <2>3. Callers => Callers'
        BY Zenon DEF Callers, InLoop
    <2>4. Turns => Turns'
        BY Zenon DEF Turns, InLoop, ToRun
    <2>5. Counts => Counts'
        BY <1>2, Zenon DEF Counts, Tally
    <2>6. Owners => Owners'
        BY <1>2, Zenon DEF Owners
    <2>7. Blocked => Blocked'
        BY <1>2, Zenon DEF Blocked
    <2> QED
        BY <2>1, <2>2, <2>3, <2>4, <2>5, <2>6, <2>7, Zenon DEF Request
<1> QED
    BY <1>1, <1>2, <1>3, <1>4, Zenon DEF ChainInv

\* A response begins, or the request ends without one: nobody holds the chain
\* and no step of the request is left to run, but for the one that has failed.
LEMMA ResponseBegins ==
    ASSUME Flow, Early, Request,
           ContentFlushes \/ ContentPasses \/ RequestFails \/ BodyHandlerFails \/ ContentDone
    PROVE  ~Early' /\ Late'
<1> USE DEF Flow, Request, Early, TypeOK, Locals, Places, Turns, Late, ToRun, InLoop,
            NoJob, NoChain, NotHeld, pwctx, pwexec, rctx, history, RequestSteps, DispatchSteps
<1>1. CASE ContentFlushes  BY <1>1, Zenon DEF ContentFlushes, Respond
<1>2. CASE ContentPasses  BY <1>2, Zenon DEF ContentPasses, Respond
<1>3. CASE RequestFails  BY <1>3, Zenon DEF RequestFails, Returned, Respond
<1>4. CASE ContentDone  BY <1>4, Zenon DEF ContentDone, Returned, Respond
<1>5. CASE BodyHandlerFails  BY <1>5, Zenon DEF BodyHandlerFails, Returned
<1> QED
    BY <1>1, <1>2, <1>3, <1>4, <1>5, Zenon

\* A crash of the worker ends the request.
LEMMA CrashEnds ==
    ASSUME Flow, NEW f \in Filters, RunStepCrashes(f)
    PROVE  ~Early' /\ Late'
BY Zenon DEF Flow, Locals, Early, Late, ToRun, InLoop, RunStepCrashes, Runs, NotHeld, NoJob,
    pwctx, RequestSteps

\* Every step is one of the request's phases, one that leaves them, or one
\* taken after them.
LEMMA StepsByPhase ==
    ASSUME ChainInv, Next, ~Ended
    PROVE  \/ Early /\ RequestNext
           \/ /\ Early
              /\ \/ ContentFlushes \/ ContentPasses \/ ContentDone
                 \/ RequestFails \/ BodyHandlerFails
           \/ ~Early /\ LateNext
           \/ \E f \in Filters : RunStepCrashes(f)
<1>1. RewriteHandler \/ ContentYields \/ ContentWaitsForBody \/ ContentRunsBody \/ RewriteDone
      \/ ReenterPhases \/ ReenterWev \/ BodyArrives \/ ClientWritable \/ proxy_send_local_response
      \/ ContentFlushes \/ ContentPasses \/ RequestFails \/ BodyHandlerFails \/ ContentDone
      => Early
    BY Zenon DEF Early, RewriteHandler, ContentYields, ContentWaitsForBody, ContentRunsBody,
        RewriteDone, ReenterPhases, ReenterWev, BodyArrives, ClientWritable,
        proxy_send_local_response, ContentFlushes, ContentPasses, RequestFails,
        BodyHandlerFails, ContentDone, Returned
<1>2. Yielded \/ WevResumed => Early
    BY Zenon DEF ChainInv, Flow, Locals, Early, Yielded, WevResumed, Returned
<1>3. Cleanup \/ HeaderFilter \/ (\E eof \in BOOLEAN : BodyFilter(eof)) \/ LogHandler
      \/ HeaderFilterDone \/ BodyFilterDone \/ LogDone \/ Freed \/ ReenterNothing => ~Early
    BY Zenon DEF Early, Cleanup, HeaderFilter, BodyFilter, LogHandler, HeaderFilterDone,
        BodyFilterDone, LogDone, Freed, ReenterNothing, Returned
<1>4. BufferChunk \/ BufferComplete => ~Early
    BY Zenon DEF ChainInv, Flow, Locals, Early, BufferChunk, BufferComplete
<1>5. ChainSkipsDone => ~Early
    BY Zenon DEF ChainInv, Request, Places, ChainSkipsDone, DispatchSteps, RequestSteps
<1> QED
    BY <1>1, <1>2, <1>3, <1>4, <1>5, Zenon DEF Next, Synchronous, RequestNext, LateNext

\* A step of the request's phases stays in them.
LEMMA RequestStays == ASSUME Flow, Early, Request, RequestNext PROVE Early'
<1> USE DEF Early, pwctx, place
<1>1. RewriteHandler \/ ContentYields \/ ContentWaitsForBody \/ ContentRunsBody \/ Yielded
      \/ RewriteDone \/ WevResumed \/ ReenterPhases \/ ReenterWev \/ BodyArrives \/ ClientWritable
      \/ proxy_send_local_response => Early'
    BY Zenon DEF RewriteHandler, ContentYields, ContentWaitsForBody, ContentRunsBody, Yielded,
        RewriteDone, WevResumed, ReenterPhases, ReenterWev, BodyArrives, ClientWritable,
        proxy_send_local_response
<1>2. ChainEnds \/ ChainStops \/ (\E f \in Filters : RunStep(f)) \/ CallbackReturns
      \/ CallbackTraps \/ Suspended \/ CallResumed \/ HandlerReturns \/ HandlerTraps
      \/ proxy_continue => Early'
    BY Zenon DEF ChainEnds, ChainStops, RunStep, CallbackReturns, CallbackTraps, Suspended,
        CallResumed, HandlerReturns, HandlerTraps, proxy_continue
<1>3. (\E c \in Calls : \/ proxy_dispatch_http_call(c) \/ CallProgress(c)
                        \/ \E received \in BOOLEAN : CallEnds(c, received)) => Early'
    BY Zenon DEF proxy_dispatch_http_call, CallProgress, CallEnds
<1> QED
    BY <1>1, <1>2, <1>3, Zenon DEF RequestNext

\* Once the response has begun the request's phases do not come back.
LEMMA LateStays == ASSUME Flow, ~Early, LateNext PROVE ~Early'
<1> USE DEF Early, pwctx, place
<1>1. BufferChunk \/ BufferComplete \/ Cleanup \/ HeaderFilter
      \/ (\E eof \in BOOLEAN : BodyFilter(eof)) \/ LogHandler \/ HeaderFilterDone
      \/ BodyFilterDone \/ LogDone \/ Freed \/ ReenterNothing \/ ChainSkipsDone => ~Early'
    BY Zenon DEF BufferChunk, BufferComplete, Cleanup, HeaderFilter, BodyFilter, LogHandler,
        HeaderFilterDone, BodyFilterDone, LogDone, Freed, ReenterNothing, ChainSkipsDone
<1>2. ChainEnds \/ ChainStops \/ (\E f \in Filters : RunStep(f)) \/ CallbackReturns
      \/ CallbackTraps \/ Suspended \/ CallResumed \/ HandlerReturns \/ HandlerTraps
      \/ proxy_continue => ~Early'
    BY Zenon DEF ChainEnds, ChainStops, RunStep, CallbackReturns, CallbackTraps, Suspended,
        CallResumed, HandlerReturns, HandlerTraps, proxy_continue
<1>3. (\E c \in Calls : \/ proxy_dispatch_http_call(c) \/ CallProgress(c)
                        \/ \E received \in BOOLEAN : CallEnds(c, received)) => ~Early'
    BY Zenon DEF proxy_dispatch_http_call, CallProgress, CallEnds
<1> QED
    BY <1>1, <1>2, <1>3, Zenon DEF LateNext

\* Every step preserves the invariant.
LEMMA ChainStep == ASSUME ChainInv, [Next]_vars PROVE ChainInv'
<1>1. CASE UNCHANGED vars  BY <1>1, Stuttering, Zenon
<1>2. CASE Next /\ ~Ended
    <2>1. Flow'
        BY <1>2, TypeOKStep, CallsListedStep, LocalsStep, Zenon DEF Flow, ChainInv
    <2>2. CASE Early /\ RequestNext
        <3>1. Flow /\ Request
            BY <2>2, Zenon DEF ChainInv
        <3>2. Early'
            BY <2>2, <3>1, RequestStays, Zenon
        <3>3. Places' /\ Pauses' /\ Callers' /\ Turns'
            BY <2>2, <3>1, PlacesStep, PausesStep, CallersStep, TurnsStep, Zenon
        <3>4. Counts' /\ Owners' /\ Blocked'
            BY <2>2, <3>1, CountsStep, OwnersStep, BlockedStep, Zenon
        <3> QED
            BY <2>1, <3>2, <3>3, <3>4, Zenon DEF ChainInv, Request
    <2>3. CASE /\ Early
               /\ \/ ContentFlushes \/ ContentPasses \/ ContentDone
                  \/ RequestFails \/ BodyHandlerFails
        BY <2>1, <2>3, ResponseBegins, Zenon DEF ChainInv
    <2>4. CASE ~Early /\ LateNext
        BY <2>1, <2>4, LateStep, LateStays, Zenon DEF ChainInv
    <2>5. CASE \E f \in Filters : RunStepCrashes(f)
        BY <2>1, <2>5, CrashEnds, Zenon DEF ChainInv
    <2> QED
        BY <1>2, <2>2, <2>3, <2>4, <2>5, StepsByPhase, Zenon
<1> QED
    BY <1>1, <1>2, Zenon DEF Ended

----------------------------------------------------------------------------
\* The inductive invariant of the filter chain holds for every number of
\* filters and calls, whether filters pause on a dispatched call or not.
THEOREM ChainInvariance == Spec => []ChainInv
<1>1. Init => ChainInv
    BY Initially, Zenon
<1>2. ChainInv /\ [Next]_vars => ChainInv'
    BY ChainStep, Zenon
<1> QED
    BY <1>1, <1>2, PTL DEF Spec

\* The variables have their types; exec_index is at most nfilters, as
\* ngx_proxy_wasm_resume() asserts.
THEOREM ChainTypes == Spec => []TypeOK
<1>1. ChainInv => TypeOK
    BY Zenon DEF ChainInv, Flow
<1> QED
    BY <1>1, ChainInvariance, PTL

\* However the chain is suspended, resumed and entered again, every filter sees
\* every step of the request once, in order, and none is left out.
THEOREM OrderKept == Spec => []FiltersRunInOrder
<1>1. ChainInv => FiltersRunInOrder
    <2> SUFFICES ASSUME ChainInv, pc = "callback", job = NoJob, step \in RequestSteps
                 PROVE  ran[step] = chain.i + 1 /\ (step = "req_body" => ran["req_headers"] = NFilters)
        BY Zenon DEF FiltersRunInOrder
    <2>1. InLoop /\ Early /\ Request
        BY Zenon DEF ChainInv, InLoop, Late
    <2>2. ToRun(step) /\ chain.i = exec_index
        BY <2>1, Zenon DEF Request, Turns
    <2>3. \/ step = "req_headers" /\ last_completed_step = "none"
          \/ step = "req_body" /\ last_completed_step = "req_headers"
        BY <2>1, <2>2, Zenon DEF Request, Places, ToRun
    <2> QED
        BY <2>1, <2>2, <2>3, Zenon DEF Request, Counts, Tally
<1> QED
    BY <1>1, ChainInvariance, PTL

\* A finished, failed, cancelled or trapping call never leaves a request to the
\* event loop with nobody to wait for.
THEOREM WakeupsKept == Spec => []NoLostWakeup
<1>1. ChainInv => NoLostWakeup
    BY Zenon DEF ChainInv, Early, Request, Pauses, Waiting, NoLostWakeup
<1> QED
    BY <1>1, ChainInvariance, PTL

\* A filter whose calls hold the chain lets go of it only when they are all
\* answered, for a local response, or for a failed filter.
LEMMA HeldStep ==
    ASSUME PausesOnDispatch, ChainInv, Next, held.why = "calls", held' # held,
           dispatch_ops[held.f] # {}
    PROVE  response' \in {"local", "error"} \/ (failed # {} /\ env' = "error")
<1>1. Early /\ Flow /\ Request
    <2> SUFFICES ASSUME ~Early PROVE FALSE
        BY Zenon DEF ChainInv
    <2>1. pc = "idle"
        BY DEF ChainInv, Late, NotHeld
    <2>2. LateNext \/ \E f \in Filters : RunStepCrashes(f)
        BY StepsByPhase, Zenon DEF Ended, vars, history
    <2>3. LateNext \/ (\E f \in Filters : RunStepCrashes(f)) => held' = held \/ pc # "idle"
        BY Zenon DEF LateNext, history, BufferChunk, BufferComplete, Cleanup, HeaderFilter,
            BodyFilter, LogHandler, HeaderFilterDone, BodyFilterDone, LogDone, Freed,
            ReenterNothing, ChainSkipsDone, ChainEnds, ChainStops, RunStep, RunStepCrashes, Runs,
            CallbackReturns, CallbackTraps, Suspended, CallResumed, HandlerReturns, HandlerTraps,
            proxy_continue, proxy_dispatch_http_call, CallProgress, CallEnds
    <2> QED
        BY <2>1, <2>2, <2>3, Zenon
<1>2. job = NoJob /\ pc # "callback" =>
         \/ Doomed
         \/ action = "pause" /\ env = "yield"
         \/ action = "pause" /\ (pc = "idle" \/ (pc \in {"chain", "ret"} /\ chain.rc = "again"))
    BY <1>1, Zenon DEF Request, Blocked
<1>3. pc # "callback" => job = NoJob
    BY <1>1, Zenon DEF Flow, Locals
<1>4. CASE ContentFlushes \/ RequestFails  BY <1>4, Zenon DEF ContentFlushes, RequestFails, Respond
<1>5. CASE ContentPasses  BY <1>2, <1>3, <1>5, Zenon DEF ContentPasses, Doomed
<1>6. CASE ContentDone
    <2>1. pc = "ret" /\ chain.rc \in {"ok", "done"} /\ env = "continue"
        BY <1>1, <1>6, Zenon DEF ContentDone, Returned, Request, Callers
    <2> QED
        BY <1>2, <1>3, <2>1, Zenon DEF Doomed
<1>7. ASSUME NEW f \in Filters, RunStep(f) \/ RunStepCrashes(f) PROVE FALSE
    <2>1. pc = "chain" /\ f = chain.i /\ f \notin failed /\ action = "continue"
        BY <1>1, <1>7, RunsShape, Zenon DEF RunStep, RunStepCrashes, Request
    <2> QED
        BY <1>2, <1>3, <2>1, Zenon DEF Doomed
<1>8. CASE CallbackReturns  BY <1>1, <1>8 DEF CallbackReturns, InLoop, Request, Owners, NotHeld
<1>9. CASE BodyHandlerFails
    <2>1. pc = "ret" /\ chain.rc \in {"500", "error"} /\ env = "continue" /\ env' = "error"
        BY <1>1, <1>9, Zenon DEF BodyHandlerFails, Returned, Request, Callers
    <2> QED
        BY <1>2, <1>3, <2>1, Zenon DEF Doomed
<1>10. \/ ContentFlushes \/ RequestFails \/ BodyHandlerFails \/ ContentPasses \/ ContentDone
       \/ \E f \in Filters : RunStep(f) \/ RunStepCrashes(f)
       \/ CallbackReturns
    <2>1. \/ Early /\ RequestNext
          \/ ContentFlushes \/ ContentPasses \/ RequestFails \/ BodyHandlerFails \/ ContentDone
          \/ \E f \in Filters : RunStepCrashes(f)
        BY <1>1, StepsByPhase, Zenon DEF Ended, vars, history
    <2>2. RequestNext => \/ UNCHANGED held \/ CallbackReturns \/ \E f \in Filters : RunStep(f)
        BY Zenon DEF RequestNext, history, RewriteHandler, ContentYields, ContentWaitsForBody,
            ContentRunsBody, Yielded, RewriteDone, WevResumed, ReenterPhases, ReenterWev,
            BodyArrives, ClientWritable, proxy_send_local_response, ChainEnds, ChainStops,
            CallbackTraps, Suspended, CallResumed, HandlerReturns, HandlerTraps, proxy_continue,
            proxy_dispatch_http_call, CallProgress, CallEnds
    <2> QED
        BY <2>1, <2>2, Zenon
<1> QED
    BY <1>4, <1>5, <1>6, <1>7, <1>8, <1>9, <1>10, Zenon

\* Filters that pause when they have dispatched calls hold the chain until all
\* their calls are answered.
THEOREM CallsHoldChain == ASSUME PausesOnDispatch PROVE Spec => HeldUntilAnswered
<1>1. ChainInv /\ [Next]_vars =>
         [held.why = "calls" /\ held' # held =>
             \/ dispatch_ops[held.f] = {}
             \/ response' \in {"local", "error"}
             \/ failed # {} /\ env' = "error"]_vars
    BY HeldStep, Zenon
<1> QED
    BY <1>1, ChainInvariance, PTL DEF Spec, HeldUntilAnswered
============================================================================
