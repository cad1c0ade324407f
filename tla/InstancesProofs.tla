-------------------------- MODULE InstancesProofs --------------------------
(***************************************************************************)
(* Ticks do not die with the instances they ran on, whatever the filters,  *)
(* their modules, the requests and the isolations.  It does not matter to  *)
(* this which instance get_instance() finds: the walk over its queue is    *)
(* never expanded here.                                                    *)
(***************************************************************************)
EXTENDS Instances, TLAPS

\* A root context whose period is set has a timer, at any time: the timer
\* that fired counts until the tick handler ends.
RootArmed(x) ==
    /\ {"tick", "timers"} \subseteq DOMAIN rexec[x]
    /\ rexec[x].timers \in Nat
    /\ rexec[x].tick => rexec[x].timers > 0

RootsArmed == DOMAIN rexec = RootIds /\ \A x \in RootIds : RootArmed(x)

\* The root context of a tick that is being handled has the timer that fired,
\* so that it is not freed with its instance in the meantime.
TickHeld ==
    /\ "kind" \in DOMAIN job
    /\ job.kind = "tick" =>
          "x" \in DOMAIN job /\ job.x \in RootIds /\ rexec[job.x].timers > 0
    /\ pc = "ticked" => job.kind = "tick"

TickInv == RootsArmed /\ TickHeld

----------------------------------------------------------------------------
\* Root contexts whose instances go away (invalidate, ngx_wavm_instance_destroy)
\* keep their timers and their period, or are freed if they have no timer.
LEMMA UnlinkedStayArmed ==
    ASSUME RootsArmed, NEW gone, rexec' = UnlinkRoots(gone)
    PROVE  /\ RootsArmed'
           /\ \A x \in RootIds : rexec[x].timers > 0 => rexec'[x].timers > 0
<1> DEFINE in == UNION {root_ctxs[i] : i \in gone}
<1>1. DOMAIN rexec' = RootIds
      BY Zenon DEF UnlinkRoots
<1>2. ASSUME NEW x \in RootIds
      PROVE  RootArmed(x)' /\ (rexec[x].timers > 0 => rexec'[x].timers > 0)
    <2> HIDE DEF in
    <2>1. rexec'[x] = IF x \notin in THEN rexec[x]
                      ELSE IF rexec[x].timers = 0 THEN NoRexec
                      ELSE [rexec[x] EXCEPT !.ictx = NoInstance]
          BY Zenon DEF UnlinkRoots, in
    <2>2. RootArmed(x)
          BY Zenon DEF RootsArmed
    <2> QED
        BY <2>1, <2>2 DEF RootArmed, NoRexec
<1> QED
    BY <1>1, <1>2 DEF RootsArmed

\* A step that leaves the root contexts alone, and the job or what the job says
\* of a tick, keeps the invariant.
LEMMA HeldKept ==
    ASSUME TickInv, RootsArmed',
           \A x \in RootIds : rexec[x].timers > 0 => rexec'[x].timers > 0,
           "kind" \in DOMAIN job',
           job'.kind = "tick" => job.kind = "tick" /\ "x" \in DOMAIN job' /\ job'.x = job.x,
           pc' = "ticked" => job'.kind = "tick"
    PROVE  TickInv'
BY DEF TickInv, TickHeld

\* The steps of create_context() up to the instance.
LEMMA TicksOfGet ==
    ASSUME TickInv, GetInstance
    PROVE  TickInv'
<1> DEFINE walk == Walk(Busy(StoreOf(job)), ModuleOf[job.f])
           dropped == Range(Busy(StoreOf(job))) \ Range(walk.left)
<1>1. rexec' = UnlinkRoots(dropped)
      BY DEF GetInstance
<1>2. pc' # "ticked" /\ (job' = job \/ \E i : job' = [job EXCEPT !.i = i])
    <2> HIDE DEF walk
    <2>1. \/ pc' = "root" /\ job' = [job EXCEPT !.i = walk.hit]
          \/ pc' = "root" /\ job' = [job EXCEPT !.i = NextId]
          \/ pc' = "error" /\ job' = job
          BY DEF GetInstance, walk
    <2> QED
        BY <2>1, ZenonT(30)
<1> HIDE DEF walk, dropped
<1>3. RootsArmed' /\ \A x \in RootIds : rexec[x].timers > 0 => rexec'[x].timers > 0
      BY <1>1, UnlinkedStayArmed, Zenon DEF TickInv
<1>4. /\ "kind" \in DOMAIN job'
      /\ job'.kind = "tick" => job.kind = "tick" /\ "x" \in DOMAIN job' /\ job'.x = job.x
      BY <1>2 DEF TickInv, TickHeld
<1> QED
    BY <1>2, <1>3, <1>4, HeldKept, SMTT(30)

\* on_configure sets the tick of a root context and adds its timer; that of a
\* tick on a new instance keeps the timer that fired.
LEMMA TicksOfStart ==
    ASSUME TickInv, StartRoot
    PROVE  TickInv'
<1>1. PICK x \in RootToStart : /\ rexec' = [rexec EXCEPT ![x] = FreshRoot(x)]
                               /\ job' = [job EXCEPT !.y = x]
      BY ZenonT(30) DEF StartRoot
<1>2. x \in RootIds
      BY Zenon DEF RootToStart, TickInv, TickHeld
<1>3. rexec'[x] = FreshRoot(x) /\ \A z \in RootIds \ {x} : rexec'[z] = rexec[z]
      BY <1>1, <1>2 DEF TickInv, RootsArmed
<1>4. rexec[x].timers \in Nat
      BY <1>2, Zenon DEF TickInv, RootsArmed, RootArmed
<1>5. /\ FreshRoot(x).timers \in Nat /\ FreshRoot(x).timers >= rexec[x].timers
      /\ FreshRoot(x).tick => FreshRoot(x).timers > 0
      /\ {"tick", "timers"} \subseteq DOMAIN FreshRoot(x)
    <2>1. CASE job.f \in Ticking
          BY <1>4, <2>1 DEF FreshRoot
    <2>2. CASE job.f \notin Ticking
        <3>1. FreshRoot(x).timers = rexec[x].timers
              BY <1>4, <2>2 DEF FreshRoot
        <3>2. ~FreshRoot(x).tick
              BY <2>2, Zenon DEF FreshRoot
        <3>3. {"tick", "timers"} \subseteq DOMAIN FreshRoot(x)
              BY DEF FreshRoot
        <3> QED
            BY <1>4, <3>1, <3>2, <3>3, SMTT(30)
    <2> QED
        BY <2>1, <2>2
<1>6. \A z \in RootIds : RootArmed(z)' /\ (rexec[z].timers > 0 => rexec'[z].timers > 0)
    <2> TAKE z \in RootIds
    <2>1. RootArmed(z)
          BY Zenon DEF TickInv, RootsArmed
    <2>2. CASE z = x
          BY <1>3, <1>4, <1>5, <2>2, SMTT(30) DEF RootArmed
    <2>3. CASE z # x
          BY <1>3, <2>1, <2>3, ZenonT(30) DEF RootArmed
    <2> QED
        BY <2>2, <2>3
<1>7. RootsArmed'
      BY <1>1, <1>6 DEF RootsArmed, TickInv
<1>8. /\ "kind" \in DOMAIN job'
      /\ job'.kind = "tick" => job.kind = "tick" /\ "x" \in DOMAIN job' /\ job'.x = job.x
      BY <1>1 DEF TickInv, TickHeld
<1>9. pc' # "ticked"
      BY Zenon DEF StartRoot, AfterRoot
<1> QED
    BY <1>6, <1>7, <1>8, <1>9, HeldKept, SMTT(30)

\* The end of the tick handler takes the timer that fired and adds one if the
\* period is still set.
LEMMA TicksOfEnd ==
    ASSUME TickInv, TickEnds
    PROVE  TickInv'
<1>0. PICK x : x = job.x
      BY Zenon
<1> DEFINE left == rexec[x].timers - 1 + Rearmed
<1>1. x \in RootIds /\ rexec[x].timers > 0 /\ RootArmed(x)
      BY <1>0 DEF TickInv, TickHeld, RootsArmed, TickEnds
<1>2. left \in Nat /\ (rexec[x].tick => left > 0)
      BY <1>0, <1>1 DEF RootArmed, Rearmed
<1>3. PICK linked \in BOOLEAN :
          rexec' = [rexec EXCEPT ![x] = IF left = 0 /\ ~linked THEN NoRexec
                                        ELSE [rexec[x] EXCEPT !.timers = left]]
      BY <1>0, <1>1, ZenonT(30) DEF TickEnds, TickInv, RootsArmed
<1> HIDE DEF left
<1>4. rexec'[x] = NoRexec \/ rexec'[x] = [rexec[x] EXCEPT !.timers = left]
      BY <1>1, <1>3 DEF TickInv, RootsArmed
<1>5. RootArmed(x)'
      BY <1>1, <1>2, <1>4 DEF RootArmed, NoRexec
<1>6. \A z \in RootIds \ {x} : RootArmed(z)'
      BY <1>1, <1>3, ZenonT(30) DEF TickInv, RootsArmed, RootArmed
<1>7. RootsArmed'
      BY <1>3, <1>5, <1>6 DEF RootsArmed, TickInv
<1> QED
    BY <1>7 DEF TickInv, TickHeld, TickEnds, NoJob

\* What on_tick does to its own period: each time it sets it, a timer is added.
LEMMA TicksOfSetPeriod ==
    ASSUME TickInv, NEW on \in BOOLEAN, SetTickPeriod(on)
    PROVE  TickInv'
<1>1. PICK y : y = job.y
      OBVIOUS
<1>2. CASE y \in RootIds
    <2>1. RootArmed(y)
          BY <1>2 DEF TickInv, RootsArmed
    <2>2. /\ rexec' = [rexec EXCEPT ![y] = rexec'[y]]
          /\ rexec'[y] = [rexec[y] EXCEPT !.tick = on,
                                          !.timers = @ + (IF on THEN 1 ELSE 0)]
          BY <1>1, <1>2, ZenonT(30) DEF TickInv, RootsArmed, SetTickPeriod
    <2>3. RootArmed(y)' /\ (rexec[y].timers > 0 => rexec'[y].timers > 0)
          BY <2>1, <2>2 DEF RootArmed
    <2>4. ASSUME NEW z \in RootIds, z # y
          PROVE  RootArmed(z)' /\ rexec'[z].timers = rexec[z].timers
          BY <2>2, <2>4 DEF TickInv, RootsArmed, RootArmed
    <2>5. RootsArmed' /\ \A z \in RootIds : rexec[z].timers > 0 => rexec'[z].timers > 0
          BY <2>2, <2>3, <2>4, ZenonT(30) DEF TickInv, RootsArmed
    <2> QED
        BY <2>5, Zenon DEF TickInv, TickHeld, SetTickPeriod
<1>3. CASE y \notin RootIds
    <2>1. rexec' = [rexec EXCEPT ![y] = rexec'[y]]
          BY <1>1, <1>3, ZenonT(30) DEF TickInv, RootsArmed, SetTickPeriod
    <2>2. RootsArmed' /\ \A z \in RootIds : rexec'[z] = rexec[z]
          BY <1>3, <2>1 DEF TickInv, RootsArmed, RootArmed
    <2> QED
        BY <2>2, Zenon DEF TickInv, TickHeld, SetTickPeriod
<1> QED
    BY <1>2, <1>3

\* A root context that cannot be started on its new instance loses its period,
\* and keeps the timer that fired until its handler ends.
LEMMA TicksOfFailedStart ==
    ASSUME TickInv, StartRootFails
    PROVE  TickInv'
<1>1. job' = job /\ pc' = "error"
      BY DEF StartRootFails
<1>2. CASE job.kind # "tick"
    <2>1. rexec' = rexec
          BY <1>2 DEF StartRootFails
    <2> QED
        BY <1>1, <1>2, <2>1, SMTT(30) DEF TickInv, TickHeld, RootsArmed, RootArmed
<1>3. CASE job.kind = "tick"
    <2>1. PICK x : x = job.x
          OBVIOUS
    <2>2. x \in RootIds /\ RootArmed(x)
          BY <1>3, <2>1, SMTT(30) DEF TickInv, TickHeld, RootsArmed
    <2>3. /\ rexec' = [rexec EXCEPT ![x] = rexec'[x]]
          /\ rexec'[x] = [rexec[x] EXCEPT !.ictx = job.i, !.started = FALSE, !.tick = FALSE]
          BY <1>3, <2>1, <2>2, ZenonT(30) DEF TickInv, RootsArmed, StartRootFails
    <2>4. RootArmed(x)' /\ rexec'[x].timers = rexec[x].timers
          BY <2>2, <2>3, Zenon DEF RootArmed
    <2>5. ASSUME NEW z \in RootIds, z # x
          PROVE  RootArmed(z)' /\ rexec'[z].timers = rexec[z].timers
          BY <2>3, <2>5 DEF TickInv, RootsArmed, RootArmed
    <2>6. RootsArmed' /\ \A z \in RootIds : rexec'[z].timers = rexec[z].timers
          BY <2>3, <2>4, <2>5, ZenonT(30) DEF TickInv, RootsArmed
    <2> QED
        BY <1>1, <2>6 DEF TickInv, TickHeld
<1> QED
    BY <1>2, <1>3, Zenon

\* What a step needs to keep the invariant when it leaves the root contexts alone.
LEMMA TicksUntouched ==
    ASSUME TickInv, rexec' = rexec,
           \/ job' = NoJob
           \/ job' = job
           \/ "kind" \in DOMAIN job' /\ job'.kind # "tick"
           \/ \E y : job' = [job EXCEPT !.y = y],
           pc' = "ticked" => job' = job /\ job.kind = "tick"
    PROVE  TickInv'
<1>1. RootsArmed'
      BY Zenon DEF TickInv, RootsArmed, RootArmed
<1> QED
    BY <1>1 DEF TickInv, TickHeld, NoJob

\* A tick that fires is that of a root context with a timer.
LEMMA TicksOfTick ==
    ASSUME TickInv, NEW x \in RootIds, Tick(x)
    PROVE  TickInv'
<1>1. RootsArmed' /\ rexec' = rexec /\ rexec[x].timers > 0 /\ pc' # "ticked"
      BY Zenon DEF TickInv, RootsArmed, RootArmed, Tick, contexts
<1>2. "kind" \in DOMAIN job' /\ "x" \in DOMAIN job' /\ job'.x = x
      BY DEF Tick, Job
<1> QED
    BY <1>1, <1>2 DEF TickInv, TickHeld

\* Every step keeps the timers of the root contexts whose period is set.
LEMMA TicksKept ==
    ASSUME TickInv, [Next]_vars
    PROVE  TickInv'
<1>1. CASE GetInstance
      BY <1>1, TicksOfGet
<1>2. CASE FindRoot
    <2>1. PICK y : job' = [job EXCEPT !.y = y]
          BY <1>2 DEF FindRoot
    <2>2. rexec' = rexec /\ pc' # "ticked"
          BY <1>2, Zenon DEF FindRoot, AfterRoot, contexts
    <2> QED
        BY <2>1, <2>2, TicksUntouched, ZenonT(30)
<1>3. CASE StartRoot
      BY <1>3, TicksOfStart
<1>4. CASE StartRootFails
      BY <1>4, TicksOfFailedStart, ZenonT(30)
<1>5. CASE StartContext
    <2>1. rexec' = rexec /\ pc' # "ticked"
          BY <1>5, ZenonT(30) DEF StartContext, NextFilter
    <2>2. job' = job \/ job' = NoJob \/ ("kind" \in DOMAIN job' /\ job'.kind # "tick")
          BY <1>5, ZenonT(30) DEF StartContext, NextFilter, TickInv, TickHeld
    <2> QED
        BY <2>1, <2>2, TicksUntouched
<1>6. CASE StartContextFails
    <2>1. rexec' = rexec /\ pc' # "ticked" /\ job' = job
          BY <1>6 DEF StartContextFails
    <2> QED
        BY <2>1, TicksUntouched
<1>7. CASE CreateFails
    <2>1. rexec' = rexec
          BY <1>7 DEF CreateFails
    <2>2. \/ job' = job /\ (pc' = "ticked" => job.kind = "tick")
          \/ job' = NoJob /\ pc' # "ticked"
          \/ "kind" \in DOMAIN job' /\ job'.kind # "tick" /\ pc' # "ticked"
          BY <1>7, Zenon DEF CreateFails, NextFilter, TickInv, TickHeld
    <2> QED
        BY <2>1, <2>2, TicksUntouched
<1>8. ASSUME NEW f \in Filters, StartFilter(f)
      PROVE  TickInv'
    <2>1. rexec' = rexec /\ pc' # "ticked"
          BY <1>8, Zenon DEF StartFilter, Idle, contexts
    <2>2. "kind" \in DOMAIN job' /\ job'.kind # "tick"
          BY <1>8 DEF StartFilter, Job
    <2> QED
        BY <2>1, <2>2, TicksUntouched
<1>9. CASE FilterStarted
    <2>1. rexec' = rexec /\ pc' # "ticked" /\ job' = NoJob
          BY <1>9 DEF FilterStarted, contexts
    <2> QED
        BY <2>1, TicksUntouched
<1>10. ASSUME NEW r \in Requests, OpenRequest(r)
       PROVE  TickInv'
    <2>1. rexec' = rexec /\ pc' # "ticked"
          BY <1>10 DEF OpenRequest, Idle
    <2>2. "kind" \in DOMAIN job' /\ job'.kind # "tick"
          BY <1>10, Zenon DEF OpenRequest, Job
    <2> QED
        BY <2>1, <2>2, TicksUntouched, SMTT(30)
<1>11. ASSUME NEW r \in Requests, Done(r)
       PROVE  TickInv'
    <2>1. rexec' = rexec /\ pc' # "ticked"
          BY <1>11, Zenon DEF Done, contexts
    <2>2. "kind" \in DOMAIN job' /\ job'.kind # "tick"
          BY <1>11 DEF Done, Job
    <2> QED
        BY <2>1, <2>2, TicksUntouched, SMTT(30)
<1>12. ASSUME NEW r \in Requests, Cleanup(r)
       PROVE  TickInv'
    <2>1. rexec' = UnlinkRoots(FreedWith(r, FALSE)) /\ job' = job /\ pc' = pc
          BY <1>12, ZenonT(30) DEF Cleanup, ngx_proxy_wasm_ctx_destroy
    <2>2. RootsArmed' /\ \A x \in RootIds : rexec[x].timers > 0 => rexec'[x].timers > 0
          BY <2>1, UnlinkedStayArmed, ZenonT(30) DEF TickInv
    <2> QED
        BY <2>1, <2>2, ZenonT(30) DEF TickInv, TickHeld
<1>13. ASSUME NEW r \in Requests, NEW k \in DOMAIN pwexecs[r], RunStep(r, k)
       PROVE  TickInv'
    <2>1. rexec' = rexec /\ pc' # "ticked"
          BY <1>13 DEF RunStep, contexts
    <2>2. "kind" \in DOMAIN job' /\ job'.kind # "tick"
          BY <1>13, ZenonT(30) DEF RunStep, Job
    <2> QED
        BY <2>1, <2>2, TicksUntouched
<1>14. ASSUME NEW x \in RootIds, Tick(x)
       PROVE  TickInv'
       BY <1>14, TicksOfTick, SMTT(30)
<1>15. CASE CallbackReturns \/ CallbackTraps
    <2>1. rexec' = rexec
          BY <1>15 DEF CallbackReturns, CallbackTraps, contexts
    <2>2. \/ job' = job /\ job.kind = "tick"
          \/ job' = NoJob /\ pc' # "ticked"
          BY <1>15, Zenon DEF CallbackReturns, CallbackTraps, AfterRun
    <2> QED
        BY <2>1, <2>2, TicksUntouched, SMTT(30)
<1>16. ASSUME NEW on \in BOOLEAN, SetTickPeriod(on)
       PROVE  TickInv'
       BY <1>16, TicksOfSetPeriod
<1>17. CASE TickEnds
       BY <1>17, TicksOfEnd, ZenonT(30)
<1>18. CASE OnDone
    <2>1. rexec' = rexec /\ pc' = "done"
          BY <1>18, ZenonT(30) DEF OnDone, contexts
    <2>2. /\ "kind" \in DOMAIN job'
          /\ job'.kind = "tick" => job.kind = "tick" /\ "x" \in DOMAIN job' /\ job'.x = job.x
          BY <1>18, ZenonT(30) DEF OnDone, TickInv, TickHeld
    <2>3. RootsArmed'
          BY <2>1, ZenonT(30) DEF TickInv, RootsArmed, RootArmed
    <2> QED
        BY <2>1, <2>2, <2>3, HeldKept, SMTT(30)
<1>19. CASE DoneEnds
    <2>1. rexec' = UnlinkRoots(FreedWith(job.r, TRUE)) /\ job' = NoJob /\ pc' # "ticked"
          BY <1>19, ZenonT(30) DEF DoneEnds, ngx_proxy_wasm_ctx_destroy
    <2>2. RootsArmed'
          BY <2>1, UnlinkedStayArmed, ZenonT(30) DEF TickInv
    <2> QED
        BY <2>1, <2>2, SMTT(30) DEF TickInv, TickHeld, NoJob
<1>20. CASE UNCHANGED vars
    <2>1. rexec' = rexec /\ job' = job /\ pc' = pc
          BY <1>20 DEF vars, contexts
    <2> QED
        BY <2>1, TicksUntouched DEF TickInv, TickHeld
<1> QED
    BY <1>1, <1>2, <1>3, <1>4, <1>5, <1>6, <1>7, <1>8, <1>9, <1>10, <1>11, <1>12, <1>13, <1>14,
        <1>15, <1>16, <1>17, <1>18, <1>19, <1>20, SMTT(30) DEF Next

\* Whenever the worker is idle, a root context whose tick period is set has a
\* timer pending (ngx_proxy_wasm_filter_tick_handler): neither a trap in
\* on_tick, nor the end of the instance, nor a restart on a new one loses it.
THEOREM TicksStayArmed == Spec => []TickArmed
<1>1. Init => TickInv
    <2> SUFFICES ASSUME Init PROVE TickInv
        BY Zenon
    <2>1. RootsArmed
          BY Zenon DEF Init, RootsArmed, RootArmed, NoRexec
    <2>2. TickHeld
          BY Zenon DEF Init, TickHeld, NoJob
    <2> QED
        BY <2>1, <2>2 DEF TickInv
<1>2. TickInv /\ [Next]_vars => TickInv'
      BY TicksKept, Zenon
<1>3. TickInv => TickArmed
      BY Zenon DEF TickInv, RootsArmed, RootArmed, TickArmed
<1> QED
    BY <1>1, <1>2, <1>3, PTL DEF Spec

=============================================================================
