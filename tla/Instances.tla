----------------------------- MODULE Instances -----------------------------
(***************************************************************************)
(* The Wasm instances of one worker: which instance a filter's contexts    *)
(* run on, what becomes of the contexts when an instance traps, and when   *)
(* instances are freed (common/proxy_wasm/ngx_proxy_wasm.c), with the      *)
(* background ticks of root contexts (ngx_proxy_wasm_util.c, _host.c).     *)
(*                                                                         *)
(* ProxyWasm says when a context runs; here any context that may run does. *)
(* A worker is single-threaded: pc tells which part of                     *)
(* ngx_proxy_wasm_create_context() or which callback is running on behalf  *)
(* of `job`, and only when it is "idle" the next event comes in.           *)
(*                                                                         *)
(* A filter that sets a tick while it is configured does not fail          *)
(* afterwards.  Memory does not run out.                                   *)
(***************************************************************************)
EXTENDS Integers, FiniteSets, Sequences, SequencesExt

CONSTANTS
    Chain,              \* the filters of a request, in order
    ModuleOf,           \* filter |-> its module
    Ticking,            \* filters that set a tick in on_configure
    Retiming,           \* filters that change their tick in on_tick
    Requests,
    Isolations,         \* the values of proxy_wasm_isolation in use
    MayOutliveTrap,     \* isolations under which a context goes on after a trap
    MaxInstances,       \* bound on the instances ever created
    MaxRoots,           \* bound on the root contexts in use
    MaxEvents           \* bound on the requests opened and the ticks fired

Filters == Range(Chain)

ASSUME ModulesAssumption == DOMAIN ModuleOf = Filters
ASSUME TickingAssumption == Ticking \cup Retiming \subseteq Filters
ASSUME IsolationAssumption ==
    MayOutliveTrap \subseteq Isolations /\ Isolations \subseteq {"none", "stream", "filter"}
ASSUME BoundsAssumption == {MaxInstances, MaxRoots, MaxEvents} \subseteq Nat \ {0}

Ids == 1 .. MaxInstances
RootIds == 1 .. MaxRoots
NoInstance == 0     \* NULL
NoRootId == 0

VARIABLES
    inst,       \* instance |-> its module, store, trapped flag, and queue
    root_ctxs,  \* instance |-> root contexts in its tree
    tree_ctxs,  \* instance |-> filter contexts in its tree
    rexec,      \* the root contexts that are referenced
    pwexecs,    \* request |-> its filter contexts
    isolation,  \* request |-> pwctx->isolation
    req,        \* request |-> how far it is
    started,    \* filters with filter->started
    events,     \* requests opened and ticks fired so far
    failures,   \* history: requests for which create_context() failed
    pc, job

trees == <<root_ctxs, tree_ctxs>>
contexts == <<rexec, pwexecs>>
vars == <<inst, trees, contexts, isolation, req, started, events, failures, pc, job>>

RootStore == <<"root">>
NoStore == <<"none">>
Unused == [module |-> "none", store |-> NoStore, trapped |-> FALSE, at |-> "unused"]
NoRexec == [filter |-> "none", ictx |-> NoInstance, started |-> FALSE,
            tick |-> FALSE, timers |-> 0]
NoJob == [kind |-> "none"]

\* The busy queue of a store: instances are appended when they are created.
Busy(store) ==
    SetToSortSeq({i \in Ids : inst[i].at = "busy" /\ inst[i].store = store}, <)

\* Fault: an instance that trapped is used again.
FaultLive(i) == i # NoInstance

\* May the context go on with the instance it points to?
Live(i) == i # NoInstance /\ ~inst[i].trapped

Init ==
    /\ inst = [i \in Ids |-> Unused]
    /\ root_ctxs = [i \in Ids |-> {}]
    /\ tree_ctxs = [i \in Ids |-> {}]
    /\ rexec = [x \in RootIds |-> NoRexec]
    /\ pwexecs = [r \in Requests |-> <<>>]
    /\ isolation \in [Requests -> Isolations]
    /\ req = [r \in Requests |-> "new"]
    /\ started = {}
    /\ failures = {}
    /\ events = 0
    /\ pc = "idle"
    /\ job = NoJob

----------------------------------------------------------------------------
\* The loop of get_instance().  It steps over the neighbour of an instance
\* that it drops, and from the end of the queue it starts again at the head.
Walk(queue, module) ==
    LET W[q \in Seq(Ids), p \in 1 .. MaxInstances + 1] ==
            IF p > Len(q) THEN [hit |-> NoInstance, left |-> q]
            ELSE IF inst[q[p]].trapped
                 THEN W[RemoveAt(q, p), IF p = Len(q) THEN 1 ELSE p + 1]
            ELSE IF inst[q[p]].module = module THEN [hit |-> q[p], left |-> q]
            ELSE W[q, p + 1]
    IN  W[queue, 1]

\* What becomes of the root contexts of instances that go away.  Without a
\* pending tick nothing refers to them any more.
UnlinkRoots(gone) ==
    [x \in RootIds |->
        IF x \notin UNION {root_ctxs[i] : i \in gone} THEN rexec[x]
        ELSE IF rexec[x].timers = 0 THEN NoRexec
        ELSE [rexec[x] EXCEPT !.ictx = NoInstance]]

destroy_pwexec(r, c) ==
    [c EXCEPT !.ictx = NoInstance, !.started = FALSE,
              !.store = IF isolation[r] = "filter" THEN NoStore ELSE @]

\* What becomes of the filter contexts of instances that go away.
DestroyContexts(gone) ==
    [r \in Requests |-> [k \in DOMAIN pwexecs[r] |->
        IF <<r, k>> \in UNION {tree_ctxs[i] : i \in gone}
        THEN destroy_pwexec(r, pwexecs[r][k]) ELSE pwexecs[r][k]]]

Emptied(tree, gone) == [i \in Ids |-> IF i \in gone THEN {} ELSE tree[i]]
Moved(set, queue) ==
    [i \in Ids |-> IF i \in set THEN [inst[i] EXCEPT !.at = queue] ELSE inst[i]]
In(queues, store) == {i \in Ids : inst[i].at \in queues /\ inst[i].store = store}

NextId == 1 + Cardinality({i \in Ids : inst[i].at # "unused"})
RootKinds == {"start", "tick"}

\* Fault: a filter context runs on the worker's instances, whatever its isolation.
FaultStoreOf(j) == RootStore

\* The store create_context() looks in.  A store of its own is a new one.
StoreOf(j) ==
    CASE j.kind \in RootKinds -> RootStore
      [] OTHER -> CASE isolation[j.r] = "none" -> RootStore
                    [] isolation[j.r] = "stream" -> <<"request", j.r>>
                    [] isolation[j.r] = "filter" -> <<"own", j.r, NextId>>

\* create_context(), up to the instance: sweep, get_instance(), invalidate.
GetInstance ==
    /\ pc = "get"
    /\ LET store == StoreOf(job)
           queue == Busy(store)
           walk == Walk(queue, ModuleOf[job.f])
           dropped == Range(queue) \ Range(walk.left)
           freed == IF job.kind \in RootKinds THEN In({"sweep"}, RootStore) ELSE {}
           kept == [i \in Ids |->
                       IF i \in freed THEN Moved(freed, "freed")[i] ELSE Moved(dropped, "sweep")[i]]
       IN  /\ rexec' = UnlinkRoots(dropped)
           /\ pwexecs' = DestroyContexts(dropped)
           /\ root_ctxs' = Emptied(root_ctxs, dropped)
           /\ tree_ctxs' = Emptied(tree_ctxs, dropped)
           /\ \/ /\ walk.hit # NoInstance
                 /\ inst' = kept
                 /\ job' = [job EXCEPT !.i = walk.hit]
                 /\ pc' = "root"
              \/ /\ walk.hit = NoInstance
                 /\ NextId \in Ids
                 /\ inst' = [kept EXCEPT ![NextId] =
                       [module |-> ModuleOf[job.f], store |-> store,
                        trapped |-> FALSE, at |-> "busy"]]
                 /\ job' = [job EXCEPT !.i = NextId]
                 /\ pc' = "root"
              \/ /\ walk.hit = NoInstance
                 /\ inst' = kept
                 /\ pc' = "error"
                 /\ UNCHANGED job
    /\ UNCHANGED <<isolation, req, started, failures, events>>

\* Where create_context() goes when it has a started root context.
AfterRoot ==
    CASE job.kind = "start" -> "started"
      [] job.kind = "tick" -> "run"
      [] OTHER -> "context"

\* Fault: any root context of the instance will do.
FaultRootsOf(f, i) == root_ctxs[i]

RootsOf(f, i) == {x \in root_ctxs[i] : rexec[x].filter = f}

\* lookup_root_ctx() finds one; those in the tree are started.
FindRoot ==
    /\ pc = "root"
    /\ \E x \in RootsOf(job.f, job.i) : job' = [job EXCEPT !.y = x]
    /\ pc' = AfterRoot
    /\ UNCHANGED <<inst, trees, contexts, isolation, req, started, failures, events>>

\* The root context to start: that of the tick, or a new one.
RootToStart ==
    IF job.kind = "tick" THEN {job.x}
    ELSE LET free == {x \in RootIds : rexec[x] = NoRexec}
         IN  {x \in free : \A z \in free : x <= z}

\* A root context after on_configure, which may set its tick.
FreshRoot(x) ==
    [filter |-> job.f, ictx |-> job.i, started |-> TRUE, tick |-> job.f \in Ticking,
     timers |-> rexec[x].timers + (IF job.f \in Ticking THEN 1 ELSE 0)]

\* A new root context, or that of a tick on its new instance, is started.
StartRoot ==
    /\ pc = "root"
    /\ RootsOf(job.f, job.i) = {}
    /\ \E x \in RootToStart :
          /\ rexec' = [rexec EXCEPT ![x] = FreshRoot(x)]
          /\ root_ctxs' = [root_ctxs EXCEPT ![job.i] = @ \cup {x}]
          /\ job' = [job EXCEPT !.y = x]
    /\ pc' = AfterRoot
    /\ UNCHANGED <<inst, tree_ctxs, pwexecs, isolation, req, started, failures, events>>

\* on_context_create, on_vm_start or on_configure traps or returns false.
StartRootFails ==
    /\ pc = "root"
    /\ RootsOf(job.f, job.i) = {}
    /\ \E trap \in BOOLEAN : inst' = [inst EXCEPT ![job.i].trapped = trap]
    /\ rexec' = IF job.kind # "tick" THEN rexec
                ELSE [rexec EXCEPT ![job.x].ictx = job.i, ![job.x].started = FALSE,
                                   ![job.x].tick = FALSE]
    /\ pc' = "error"
    /\ UNCHANGED <<trees, pwexecs, isolation, req, started, failures, events, job>>

\* The next filter of a request, or the end of ngx_proxy_wasm_ctx().
NextFilter(ok) ==
    IF job.k < Len(Chain)
    THEN /\ job' = [job EXCEPT !.k = @ + 1, !.f = Chain[job.k + 1], !.ok = ok]
         /\ pc' = "get"
         /\ UNCHANGED req
    ELSE /\ job' = NoJob
         /\ pc' = "idle"
         /\ req' = [req EXCEPT ![job.r] =
                       IF Len(pwexecs'[job.r]) = Len(Chain) THEN "open" ELSE "short"]

\* create_context(): the filter context is new, or moves to its new instance.
StartContext ==
    /\ pc = "context"
    /\ tree_ctxs' = [tree_ctxs EXCEPT ![job.i] = @ \cup {<<job.r,
           IF job.kind = "step" THEN job.k ELSE Len(pwexecs[job.r]) + 1>>}]
    /\ \/ /\ job.kind = "step"
          /\ pwexecs' = [pwexecs EXCEPT ![job.r][job.k].ictx = job.i,
                                        ![job.r][job.k].started = TRUE]
          /\ pc' = "run"
          /\ UNCHANGED <<req, job>>
       \/ /\ job.kind = "request"
          /\ pwexecs' = [pwexecs EXCEPT ![job.r] = Append(@,
                [filter |-> job.f, ictx |-> job.i, store |-> inst[job.i].store,
                 started |-> TRUE, ecode |-> FALSE])]
          /\ NextFilter(TRUE)
    /\ UNCHANGED <<inst, root_ctxs, rexec, isolation, started, failures, events>>

\* on_context_create traps: the context is not linked.
StartContextFails ==
    /\ pc = "context"
    /\ inst' = [inst EXCEPT ![job.i].trapped = TRUE]
    /\ pwexecs' =
          IF job.kind = "step"
          THEN [pwexecs EXCEPT ![job.r][job.k].ictx = job.i, ![job.r][job.k].started = FALSE]
          ELSE [pwexecs EXCEPT ![job.r] = Append(@,
                   [filter |-> job.f, ictx |-> job.i, store |-> inst[job.i].store,
                    started |-> FALSE, ecode |-> TRUE])]
    /\ pc' = "error"
    /\ UNCHANGED <<trees, rexec, isolation, req, started, failures, events, job>>

\* create_context() has failed: a request without any context gives up, one
\* that has some goes on without this one.
CreateFails ==
    /\ pc = "error"
    /\ \/ /\ job.kind = "start"
          /\ pc' = "exit"
          /\ UNCHANGED <<pwexecs, req, failures, job>>
       \/ /\ job.kind = "request"
          /\ failures' = failures \cup {job.r}
          /\ UNCHANGED pwexecs
          /\ IF job.ok THEN NextFilter(TRUE)
             ELSE /\ req' = [req EXCEPT ![job.r] = "failed"]
                  /\ pc' = "idle"
                  /\ job' = NoJob
       \/ /\ job.kind = "step"
          /\ pwexecs' = [pwexecs EXCEPT ![job.r][job.k].ecode = TRUE]
          /\ pc' = "idle"
          /\ job' = NoJob
          /\ UNCHANGED <<req, failures>>
       \/ /\ job.kind = "tick"
          /\ pc' = "ticked"
          /\ UNCHANGED <<pwexecs, req, failures, job>>
    /\ UNCHANGED <<inst, trees, rexec, isolation, started, events>>

----------------------------------------------------------------------------
Job(kind, r, k, f, x) ==
    [kind |-> kind, r |-> r, k |-> k, f |-> f, x |-> x, y |-> x, i |-> NoInstance, ok |-> FALSE]

Idle == pc = "idle" /\ pc' = "get"

\* ngx_proxy_wasm_filter_start(), when the worker starts.
StartFilter(f) ==
    /\ Idle
    /\ started # Filters
    /\ f = Chain[Cardinality(started) + 1]
    /\ job' = Job("start", "none", 0, f, NoRootId)
    /\ UNCHANGED <<inst, trees, contexts, isolation, req, started, failures, events>>

FilterStarted ==
    /\ pc = "started"
    /\ started' = started \cup {job.f}
    /\ pc' = "idle"
    /\ job' = NoJob
    /\ UNCHANGED <<inst, trees, contexts, isolation, req, failures, events>>

\* Fault: the second attempt adds to the contexts of the first.
FaultNoContexts(r) == pwexecs

NoContexts(r) == [pwexecs EXCEPT ![r] = <<>>]

\* ngx_proxy_wasm_ctx(), in a request's first phase or in one after it failed.
OpenRequest(r) ==
    /\ Idle
    /\ started = Filters
    /\ req[r] \in {"new", "failed"}
    /\ events < MaxEvents
    /\ events' = events + 1
    /\ req' = [req EXCEPT ![r] = "opening"]
    /\ pwexecs' = NoContexts(r)
    /\ job' = Job("request", r, 1, Chain[1], NoRootId)
    /\ UNCHANGED <<inst, trees, rexec, isolation, started, failures>>

\* ngx_proxy_wasm_run_step() of a filter context.
RunStep(r, k) ==
    /\ pc = "idle"
    /\ req[r] = "open"
    /\ ~pwexecs[r][k].ecode
    /\ job' = [Job("step", r, k, Chain[k], NoRootId) EXCEPT !.i = pwexecs[r][k].ictx]
    /\ pc' = IF Live(pwexecs[r][k].ictx) THEN "run" ELSE "get"
    /\ UNCHANGED <<inst, trees, contexts, isolation, req, started, failures, events>>

\* ngx_proxy_wasm_filter_tick_handler(), up to the callback.
Tick(x) ==
    /\ pc = "idle"
    /\ started = Filters
    /\ rexec[x].timers > 0
    /\ events < MaxEvents
    /\ events' = events + 1
    /\ job' = [Job("tick", "none", 0, rexec[x].filter, x) EXCEPT !.i = rexec[x].ictx]
    /\ pc' = IF Live(rexec[x].ictx) THEN "run" ELSE "get"
    /\ UNCHANGED <<inst, trees, contexts, isolation, req, started, failures>>

AfterRun == pc = "run" /\ IF job.kind = "tick" THEN pc' = "ticked" /\ UNCHANGED job
                          ELSE pc' = "idle" /\ job' = NoJob

CallbackReturns ==
    /\ AfterRun
    /\ UNCHANGED <<inst, trees, contexts, isolation, req, started, failures, events>>

\* A trap is an error of the context, unless the filter has already answered
\* or it was its root context that trapped.
CallbackTraps ==
    /\ AfterRun
    /\ inst' = [inst EXCEPT ![job.i].trapped = TRUE]
    /\ \/ /\ job.kind = "step"
          /\ \E e \in {TRUE, isolation[job.r] \notin MayOutliveTrap} :
                pwexecs' = [pwexecs EXCEPT ![job.r][job.k].ecode = e]
       \/ /\ job.kind = "tick"
          /\ inst[job.i].store # RootStore => isolation[inst[job.i].store[2]] \in MayOutliveTrap
          /\ UNCHANGED pwexecs
    /\ UNCHANGED <<trees, rexec, isolation, req, started, failures, events>>

\* set_tick_period in on_tick: zero cancels the tick, another period then
\* sets it again.
SetTickPeriod(on) ==
    /\ pc = "run"
    /\ job.kind = "tick"
    /\ job.f \in Retiming
    /\ rexec[job.y].tick # on
    /\ on => rexec[job.y].timers <= MaxEvents
    /\ rexec' = [rexec EXCEPT ![job.y].tick = on, ![job.y].timers = @ + (IF on THEN 1 ELSE 0)]
    /\ UNCHANGED <<inst, trees, pwexecs, isolation, req, started, failures, events, pc, job>>

\* Fault: a tick that trapped is not armed again.
FaultRearmed == IF rexec[job.x].tick /\ Live(job.i) THEN 1 ELSE 0

Rearmed == IF rexec[job.x].tick THEN 1 ELSE 0

\* The rest of the tick handler: the timer that fired is gone, and a new one
\* is added if the period is set.
TickEnds ==
    /\ pc = "ticked"
    /\ LET left == rexec[job.x].timers - 1 + Rearmed
           linked == \E i \in Ids : job.x \in root_ctxs[i]
       IN  rexec' = [rexec EXCEPT ![job.x] =
                        IF left = 0 /\ ~linked THEN NoRexec ELSE [@ EXCEPT !.timers = left]]
    /\ pc' = "idle"
    /\ job' = NoJob
    /\ UNCHANGED <<inst, trees, pwexecs, isolation, req, started, failures, events>>

----------------------------------------------------------------------------
\* ngx_proxy_wasm_resume() of the done step, from where the chain stands.
Done(r) ==
    /\ pc = "idle"
    /\ req[r] = "open"
    /\ pc' = "done"
    /\ \E k \in DOMAIN Chain : job' = Job("done", r, k, Chain[k], NoRootId)
    /\ UNCHANGED <<inst, trees, contexts, isolation, req, started, failures, events>>

RunsDone ==
    /\ job.k <= Len(Chain)
    /\ ~pwexecs[job.r][job.k].ecode
    /\ Live(pwexecs[job.r][job.k].ictx)

\* on_done, which may trap, and the context is taken from its tree.
OnDone ==
    /\ pc = "done"
    /\ RunsDone
    /\ LET i == pwexecs[job.r][job.k].ictx
       IN  /\ \E trap \in BOOLEAN : inst' = [inst EXCEPT ![i].trapped = trap]
           /\ tree_ctxs' = [tree_ctxs EXCEPT ![i] = @ \ {<<job.r, job.k>>}]
    /\ job' = [job EXCEPT !.k = @ + 1]
    /\ UNCHANGED <<root_ctxs, contexts, isolation, req, started, failures, events, pc>>

\* Fault: the instances of a request's own store outlive it.
FaultFreedWith(r, ready) ==
    IF \E k \in DOMAIN pwexecs[r] : pwexecs[r][k].ictx # NoInstance
    THEN In({"sweep"}, RootStore) ELSE {}

\* The instances that ctx_destroy() frees.
FreedWith(r, ready) ==
    LET held == {k \in DOMAIN pwexecs[r] : pwexecs[r][k].ictx # NoInstance}
    IN  CASE isolation[r] = "stream" ->
                IF ready THEN In({"busy", "sweep"}, <<"request", r>>) ELSE {}
          [] isolation[r] = "none" ->
                IF held # {} THEN In({"sweep"}, RootStore) ELSE {}
          [] isolation[r] = "filter" ->
                UNION {In({"busy", "sweep"}, pwexecs[r][k].store) : k \in held}

\* Fault: contexts that did not finalize stay in the tree of their instance.
FaultContextsOf(r, i) == {}

ContextsOf(r, i) ==
    {<<r, k>> : k \in {k \in DOMAIN pwexecs[r] : pwexecs[r][k].ictx = i}}

ngx_proxy_wasm_ctx_destroy(r, ready) ==
    LET freed == FreedWith(r, ready)
    IN  /\ inst' = Moved(freed, "freed")
        /\ rexec' = UnlinkRoots(freed)
        /\ root_ctxs' = Emptied(root_ctxs, freed)
        /\ tree_ctxs' = [i \in Ids |->
              IF i \in freed THEN {} ELSE tree_ctxs[i] \ ContextsOf(r, i)]
        /\ pwexecs' = [pwexecs EXCEPT ![r] = <<>>]
        /\ req' = [req EXCEPT ![r] = "gone"]

DoneEnds ==
    /\ pc = "done"
    /\ ~RunsDone
    /\ ngx_proxy_wasm_ctx_destroy(job.r, TRUE)
    /\ pc' = "idle"
    /\ job' = NoJob
    /\ UNCHANGED <<isolation, started, failures, events>>

\* A request that has no chain is cleaned up with its pool.
Cleanup(r) ==
    /\ pc = "idle"
    /\ req[r] = "failed"
    /\ ngx_proxy_wasm_ctx_destroy(r, FALSE)
    /\ UNCHANGED <<isolation, started, failures, events, pc, job>>

Next ==
    \/ GetInstance \/ FindRoot \/ StartRoot \/ StartRootFails
    \/ StartContext \/ StartContextFails \/ CreateFails
    \/ \E f \in Filters : StartFilter(f)
    \/ FilterStarted
    \/ \E r \in Requests :
          \/ OpenRequest(r) \/ Done(r) \/ Cleanup(r)
          \/ \E k \in DOMAIN pwexecs[r] : RunStep(r, k)
    \/ \E x \in RootIds : Tick(x)
    \/ CallbackReturns \/ CallbackTraps
    \/ \E on \in BOOLEAN : SetTickPeriod(on)
    \/ TickEnds \/ OnDone \/ DoneEnds

Spec == Init /\ [][Next]_vars

----------------------------------------------------------------------------
Stores == {RootStore, NoStore} \cup {<<"request", r>> : r \in Requests} \cup {<<"own", r, i>> : r \in Requests, i \in Ids}
Contexts == {<<r, k>> : r \in Requests, k \in DOMAIN Chain}

\* The variables hold what the fields of the C structures can hold.
TypeOK ==
    /\ inst \in [Ids -> [module : Range(ModuleOf) \cup {"none"}, store : Stores,
                         trapped : BOOLEAN, at : {"unused", "busy", "sweep", "freed"}]]
    /\ root_ctxs \in [Ids -> SUBSET RootIds]
    /\ tree_ctxs \in [Ids -> SUBSET Contexts]
    /\ rexec \in [RootIds -> [filter : Filters \cup {"none"}, ictx : Ids \cup {NoInstance},
                              started : BOOLEAN, tick : BOOLEAN, timers : 0 .. 2 * MaxEvents + 1]]
    /\ \A r \in Requests :
          /\ Len(pwexecs[r]) <= Len(Chain)
          /\ Range(pwexecs[r]) \subseteq
                [filter : Filters, ictx : Ids \cup {NoInstance}, store : Stores,
                 started : BOOLEAN, ecode : BOOLEAN]
    /\ isolation \in [Requests -> Isolations]
    /\ req \in [Requests -> {"new", "opening", "open", "short", "failed", "gone"}]
    /\ started \subseteq Filters
    /\ failures \subseteq Requests
    /\ events \in 0 .. MaxEvents
    /\ pc \in {"idle", "get", "root", "context", "run", "error", "started", "ticked", "done", "exit"}

\* A context is in the tree of the instance it points to and in no other,
\* and a filter context that may run again is in one: invalidating an
\* instance reaches every context that still points to it, and no context is
\* left in the tree of an instance that is being freed.
TreesMatchContexts ==
    /\ \A i \in Ids :
          /\ \A x \in root_ctxs[i] : rexec[x].ictx = i /\ inst[i].at = "busy"
          /\ \A c \in tree_ctxs[i] :
                /\ c[2] \in DOMAIN pwexecs[c[1]]
                /\ pwexecs[c[1]][c[2]].ictx = i
                /\ inst[i].at = "busy"
    /\ \A r \in Requests : \A k \in DOMAIN pwexecs[r] :
          LET c == pwexecs[r][k]
          IN  req[r] = "open" /\ pc = "idle" /\ ~c.ecode /\ c.ictx # NoInstance
              => <<r, k>> \in tree_ctxs[c.ictx]

\* Wherever a filter has a context, its root context has been started first,
\* however instances came and went: create_context() starts the root context
\* of the instance it got, not of the one the filter was started on.
RootBeforeContexts ==
    \A i \in Ids : \A c \in tree_ctxs[i] :
        \E x \in root_ctxs[i] :
            rexec[x].started /\ rexec[x].filter = pwexecs[c[1]][c[2]].filter

\* Contexts share an instance only as far as proxy_wasm_isolation lets them:
\* all of them with "none", those of one request with "stream", none with
\* "filter"; also after contexts moved to a new instance.
IsolationKept ==
    \A i \in Ids : \A c, d \in tree_ctxs[i] :
        \/ c = d
        \/ isolation[c[1]] = "none" /\ isolation[d[1]] = "none"
        \/ isolation[c[1]] = "stream" /\ c[1] = d[1]

\* An instance on which a callback runs is neither trapped nor dropped and is
\* of the filter's module, as ngx_proxy_wasm_run_step() asserts before the
\* callback, and the context that runs is in its tree.  A root context whose
\* restart failed without a trap is the exception: it is in no tree, and a tick
\* that is still pending runs on it all the same.
RunsOnSoundInstance ==
    pc = "run" =>
        /\ inst[job.i].at = "busy" /\ ~inst[job.i].trapped
        /\ inst[job.i].module = ModuleOf[job.f]
        /\ job.kind = "tick" => job.y \in root_ctxs[job.i] \/ ~rexec[job.y].started
        /\ job.kind = "step" => <<job.r, job.k>> \in tree_ctxs[job.i]

\* When a request ends, and its contexts had all been created, every instance made
\* for it alone has been freed, also those that trapped on the way.
NoInstanceLeak ==
    \A i \in Ids :
        inst[i].at \in {"busy", "sweep"} /\ inst[i].store # RootStore =>
            LET r == inst[i].store[2] IN req[r] # "gone" \/ r \in failures

\* A root context whose tick period is set has a timer pending whenever the
\* worker is idle: ticks do not die with the instance they ran on.
TickArmed ==
    pc = "idle" => \A x \in RootIds : rexec[x].tick => rexec[x].timers > 0

\* "Each root context may optionally start a single background tick"
\* (docs/DIRECTIVES.md): at most one timer of a root context is pending.
SingleTick ==
    pc = "idle" => \A x \in RootIds : rexec[x].timers <= 1

=============================================================================
