-------------------------------- MODULE Wavm --------------------------------
(***************************************************************************)
(* The Wasm virtual machine of a process, from its configuration to the    *)
(* end of the process: modules, links to host interfaces, instances and    *)
(* calls (wasm/vm/ngx_wavm.c, ngx_wavm_host.c), the nginx callbacks that   *)
(* drive it (ngx_wasmx.c, wasm/ngx_wasm_core_module.c), and the plans of   *)
(* operations that requests run (wasm/ngx_wasm_ops.c).                     *)
(*                                                                         *)
(* The process is followed through the fork: what the master prepares is   *)
(* what the worker has.  pc is the function that runs, and "loop" the      *)
(* event loop of the worker.  Pool memory does not run out.                *)
(***************************************************************************)
EXTENDS Wrt, FiniteSetsExt, SequencesExt

CONSTANTS
    Runtimes,       \* the builds: "wasmtime", "wasmer", "v8"
    Wat,            \* the build has support for text modules
    Programs,       \* what a module may be: imports, start, section, wat
    NModules,       \* modules, numbered in the order of their names
    Plans,          \* of the locations, then the ones loaded with the Lua FFI
    NConf,          \* how many plans are of locations
    Phases,         \* the phases of a request, in order
    MaxLinks,       \* bound on the links of a module that is not linked,
    MaxWrtLinks     \* and on the ones that get to the runtime

ASSUME PlansAssumption == NConf \in 0..Len(Plans) /\ {MaxLinks, MaxWrtLinks} \subseteq Nat

Modules == 1..NModules
Roots == {"root"}           \* the instance a filter keeps
CallSlot == "call"          \* the instance of a wasm_call
Slots == Roots \cup {CallSlot}

VARIABLES
    rt,         \* the runtime of the build
    prog,       \* the program of each module
    pc,         \* the function that runs
    k,          \* its arguments, and where it returns to
    vm,         \* state, modules_tree, modules_max
    mod,        \* the modules
    inst,       \* the instances
    plan,       \* the plans: loaded
    req,        \* the request in progress
    heap,       \* runtime objects alive, and the ones misused
    failed      \* a step of the start-up has failed

vars == <<rt, prog, pc, k, vm, mod, inst, plan, req, heap, failed>>

NoInst == [m |-> 0, state |-> {}, err |-> {}]
NoReq == [on |-> FALSE, plan |-> 0, phase |-> 0, last |-> 0, cur_idx |-> 0, i |-> 0,
          rc |-> "none", state |-> "continue", ran |-> <<>>, errored |-> FALSE]
NoK == [m |-> 0, slot |-> CallSlot, ret |-> "loop", then |-> "loop", plan |-> 0, op |-> 0,
        rc |-> "OK"]

Init ==
    /\ rt \in Runtimes
    /\ prog \in [Modules -> Programs]
    /\ pc = "conf" /\ k = NoK /\ failed = FALSE
    /\ vm = [state |-> {}, tree |-> {}, max |-> 0]
    /\ mod = [m \in Modules |->
                 [state |-> {}, host |-> "none", hfuncs |-> <<>>, idx |-> 0, size |-> FALSE,
                  links |-> 0, wlinks |-> 0,
                  wm |-> [nimports |-> 0, wasi |-> FALSE,
                          imports |-> [i \in DOMAIN prog[m].imports |-> Unset]]]]
    /\ inst = [s \in Slots |-> NoInst]
    /\ plan = [p \in DOMAIN Plans |-> FALSE]
    /\ req = NoReq
    /\ heap = [live |-> {}, bad |-> {}]

\* The runtime's entry for an operation.
ngx_wrt(wasmtime, wasmer, v8) ==
    CASE rt = "wasmtime" -> wasmtime [] rt = "wasmer" -> wasmer [] rt = "v8" -> v8

\* Objects created and deleted.  Misused: deleted when not alive, or created
\* over one that is.
Mem(h, new, del) ==
    [live |-> (h.live \cup new) \ del,
     bad  |-> h.bad \cup (new \cap h.live) \cup (del \ (h.live \cup new))]
Apply(o) == heap' = Mem(heap, o.new, o.del)

Goto(label) == pc' = label
Returns(rc) == Goto(k.ret) /\ k' = [k EXCEPT !.rc = rc]
Has(x, flag) == flag \in x.state
With(x, flag) == [x EXCEPT !.state = @ \cup {flag}]
Next_(m) == {n \in vm.tree : n > m}

----------------------------------------------------------------------------
\* Configuration: the modules of the wasm{} block.

\* A name given twice is declined, and the configuration fails.
module_add ==
    /\ pc = "conf" /\ ~Has(vm, "READY")
    /\ \E m \in Modules :
          IF m \in vm.tree
          THEN Goto("cleanup_pool") /\ failed' = TRUE /\ UNCHANGED vm
          ELSE vm' = [vm EXCEPT !.tree = @ \cup {m}] /\ UNCHANGED <<pc, failed>>
    /\ UNCHANGED <<rt, prog, k, mod, inst, plan, req, heap>>

\* ngx_wasmx_init, core_init: the engine is there for the validation only.
\* The modules of the plans are declared: a directive looks its module up.
wasmx_init ==
    /\ pc = "conf" /\ \A p \in DOMAIN Plans : \A n \in DOMAIN Plans[p] : Plans[p][n].m \in vm.tree
    /\ Goto("init_conf")
    /\ k' = [k EXCEPT !.ret = "load_bytes", !.m = 0]
    /\ UNCHANGED <<rt, prog, vm, mod, inst, plan, req, heap, failed>>

----------------------------------------------------------------------------
\* The engine.

EngineFails == failed' = TRUE /\ UNCHANGED <<vm, k>>
    /\ Goto(IF k.ret = "load_bytes" THEN "cleanup_pool" ELSE "exited")

conf_init ==
    /\ pc = "init_conf" /\ ~Has(vm, "INIT")
    /\ \E o \in ngx_wrt(wasmtime_init_conf, wasmer_init_conf, v8_init_conf) :
          /\ Apply(o)
          /\ IF o.rc = "OK" THEN Goto("init_engine") /\ UNCHANGED <<vm, k, failed>>
             ELSE EngineFails
    /\ UNCHANGED <<rt, prog, mod, inst, plan, req>>

engine_init ==
    /\ pc = "init_engine"
    /\ \E o \in ngx_wrt(wasmtime_init_engine(heap.live), wasmer_init_engine(heap.live),
                        v8_init_engine(heap.live)) :
          /\ Apply(o)
          /\ IF o.rc = "OK" THEN Goto(k.ret) /\ vm' = With(vm, "INIT") /\ UNCHANGED <<k, failed>>
             ELSE EngineFails
    /\ UNCHANGED <<rt, prog, mod, inst, plan, req>>

EngineObjects == ngx_wrt(wasmtime_destroy_engine, wasmer_destroy_engine, v8_destroy_engine)

\* Nothing is destroyed when the engine is not there.
\* Fault: the state is left as it was.
FaultEngineDestroy(v, h) ==
    IF Has(v, "INIT") THEN [vm |-> v, heap |-> Mem(h, {}, EngineObjects)]
    ELSE [vm |-> v, heap |-> h]

engine_destroy(v, h) ==
    IF Has(v, "INIT")
    THEN [vm |-> [v EXCEPT !.state = {}], heap |-> Mem(h, {}, EngineObjects)]
    ELSE [vm |-> v, heap |-> h]

----------------------------------------------------------------------------
\* ngx_wavm_init in the master: the bytes of the modules, in name order.

\* The file is read, compiled if it is text, and validated.  Bytes that do
\* not validate are kept until the module is destroyed.
load_bytes ==
    /\ pc = "load_bytes" /\ Next_(k.m) # {}
    /\ LET m == Min(Next_(k.m))
           BytesFail == Goto("init_done") /\ failed' = TRUE /\ k' = [k EXCEPT !.rc = "ERROR"]
           NoBytes == BytesFail /\ UNCHANGED <<mod, heap>>
       IN  \E read \in {"OK", "ERROR"},
              wat  \in ngx_wrt(wasmtime_wat2wasm(Wat), wasmer_wat2wasm(Wat), v8_wat2wasm(Wat)),
              rc   \in ngx_wrt(wasmtime_validate, wasmer_validate, v8_validate) :
              IF read = "ERROR" \/ (prog[m].wat /\ wat = "ERROR") THEN NoBytes
              ELSE /\ heap' = Mem(heap, {Of(m, "bytes")}, {})
                   /\ mod' = [mod EXCEPT ![m].size = TRUE,
                                         ![m].state = IF rc = "OK" THEN @ \cup {"LOADED_BYTES"} ELSE @]
                   /\ IF rc = "OK" THEN k' = [k EXCEPT !.m = m] /\ UNCHANGED <<pc, failed>>
                      ELSE BytesFail
    /\ UNCHANGED <<rt, prog, vm, inst, plan, req>>

wavm_init_done ==
    /\ \/ pc = "load_bytes" /\ Next_(k.m) = {}
       \/ pc = "init_done"
    /\ LET d == engine_destroy(vm, heap) IN vm' = d.vm /\ heap' = d.heap
    /\ Goto(IF k.rc = "OK" THEN "init_ssl" ELSE "cleanup_pool")
    /\ UNCHANGED <<rt, prog, k, mod, inst, plan, req, failed>>

\* Without a TLS context the vm is destroyed, and again with the cycle's pool.
core_init_ssl ==
    /\ pc = "init_ssl"
    /\ \/ Goto("init_process") /\ UNCHANGED <<k, failed>>
       \/ Goto("destroy") /\ k' = [k EXCEPT !.ret = "cleanup_pool"] /\ failed' = TRUE
    /\ UNCHANGED <<rt, prog, vm, mod, inst, plan, req, heap>>

----------------------------------------------------------------------------
\* ngx_wavm_load in the worker.

core_init_process ==
    /\ pc = "init_process" /\ Goto("init_conf")
    /\ k' = [k EXCEPT !.ret = "load", !.m = 0]
    /\ UNCHANGED <<rt, prog, vm, mod, inst, plan, req, heap, failed>>

\* The bytes are deleted whether or not the module could be loaded.
module_bytes_done(m, h) == Mem(h, {}, {Of(m, "bytes")})

module_load ==
    /\ pc = "load" /\ Next_(k.m) # {}
    /\ LET m == Min(Next_(k.m)) IN
       \E o \in ngx_wrt(wasmtime_init_module(m), wasmer_init_module(m), v8_init_module(m)) :
          LET rc == IF o.rc = "OK" /\ Where(prog[m].imports, {"memory"}) = {}
                    THEN "OK" ELSE "ERROR"
          IN  /\ heap' = module_bytes_done(m, Mem(heap, o.new, o.del))
              /\ k' = [k EXCEPT !.m = m]
              /\ IF rc = "OK"
                 THEN /\ mod' = [mod EXCEPT ![m] = [With(@, "LOADED")
                                                       EXCEPT !.size = FALSE, !.idx = vm.max]]
                      /\ vm' = [vm EXCEPT !.max = @ + 1]
                      /\ UNCHANGED <<pc, failed>>
                 ELSE /\ mod' = [mod EXCEPT ![m] = [With(@, "INVALID") EXCEPT !.size = FALSE]]
                      /\ Goto("exited") /\ failed' = TRUE /\ UNCHANGED vm
    /\ UNCHANGED <<rt, prog, inst, plan, req>>

\* The vm is frozen; http_wasm_init_process loads the plans of the locations.
\* Fault: the engine is destroyed at the end, as in ngx_wavm_init.
FaultWavmLoaded ==
    /\ pc = "load" /\ Next_(k.m) = {}
    /\ vm' = With(vm, "READY") /\ Goto("init_plans")
    /\ k' = [k EXCEPT !.plan = 0]
    /\ heap' = engine_destroy(vm, heap).heap
    /\ UNCHANGED <<rt, prog, mod, inst, plan, req, failed>>

wavm_loaded ==
    /\ pc = "load" /\ Next_(k.m) = {}
    /\ vm' = With(vm, "READY") /\ Goto("init_plans")
    /\ k' = [k EXCEPT !.plan = 0]
    /\ UNCHANGED <<rt, prog, mod, inst, plan, req, heap, failed>>

----------------------------------------------------------------------------
\* ngx_wavm_destroy, with the pool of the cycle or before it.

core_cleanup_pool ==
    /\ pc = "cleanup_pool" /\ Goto("destroy") /\ k' = [k EXCEPT !.ret = "end"]
    /\ UNCHANGED <<rt, prog, vm, mod, inst, plan, req, heap, failed>>

Hfuncs(m) == {<<"hfunc", m, n>> : n \in DOMAIN mod[m].hfuncs}

module_destroy(m) ==
    LET wm == mod[m].wm
    IN  Hfuncs(m)
            \cup (IF Has(mod[m], "LOADED")
                  THEN {Of(m, "types")} \cup ngx_wrt(wasmtime_destroy_module(m, wm),
                                                     wasmer_destroy_module(m, wm),
                                                     v8_destroy_module(m, wm))
                  ELSE {})
            \cup (IF mod[m].size THEN {Of(m, "bytes")} ELSE {})

\* Instances are not the vm's to destroy: its queue of them stays empty.
wavm_destroy ==
    /\ pc = "destroy"
    /\ IF vm.tree # {}
       THEN LET m == Min(vm.tree)
            IN  vm' = [vm EXCEPT !.tree = @ \ {m}]
                /\ heap' = Mem(heap, {}, module_destroy(m)) /\ UNCHANGED pc
       ELSE LET d == engine_destroy(vm, heap)
            IN  vm' = d.vm /\ heap' = d.heap /\ Goto(k.ret)
    /\ UNCHANGED <<rt, prog, k, mod, inst, plan, req, failed>>

----------------------------------------------------------------------------
\* Plans.  plan_load links the module of each operation to its host.

init_plans ==
    /\ pc = "init_plans"
    /\ IF k.plan < NConf
       THEN Goto("plan_load")
            /\ k' = [k EXCEPT !.plan = @ + 1, !.op = 1, !.ret = "init_plans"]
       ELSE Goto("loop") /\ k' = NoK
    /\ UNCHANGED <<rt, prog, vm, mod, inst, plan, req, heap, failed>>

CanLink(m) == Has(m, "LINKED") \/ (m.links < MaxLinks /\ m.wlinks < MaxWrtLinks)

\* ngx_wasm_ffi_plan_load: a plan that did not load can be loaded again.
ffi_plan_load ==
    /\ pc = "loop" /\ Goto("plan_load")
    /\ \E p \in NConf + 1..Len(Plans) :
          /\ \A n \in DOMAIN Plans[p] : CanLink(mod[Plans[p][n].m])
          /\ k' = [NoK EXCEPT !.plan = p, !.op = 1]
    /\ UNCHANGED <<rt, prog, vm, mod, inst, plan, req, heap, failed>>

\* A worker whose locations do not load exits; Lua gets an error.
PlanFails == Goto(IF k.ret = "init_plans" THEN "exited" ELSE "loop")

plan_load ==
    /\ pc = "plan_load"
    /\ IF plan[k.plan] \/ k.op > Len(Plans[k.plan])
       THEN plan' = [plan EXCEPT ![k.plan] = TRUE] /\ Goto(k.ret)
       ELSE Goto("link") /\ UNCHANGED plan
    /\ UNCHANGED <<rt, prog, k, vm, mod, inst, req, heap, failed>>

Op == Plans[k.plan][k.op]

\* ngx_wavm_host_hfunc_create: a function of the host, or of the core host.
hfunc_found(kind, host) == kind \in {host, "core"}

\* A host function is made for each env import up to one that is missing.
\* Fault: an import that is missing is skipped.
FaultEnvImports(m, host) ==
    [all |-> TRUE,
     found |-> SetToSortSeq({i \in Where(prog[m].imports, Env) :
                                hfunc_found(prog[m].imports[i], host)}, <)]

EnvImports(m, host) ==
    LET env     == Where(prog[m].imports, Env)
        missing == {i \in env : ~hfunc_found(prog[m].imports[i], host)}
    IN  [all   |-> missing = {},
         found |-> SetToSortSeq({i \in env : \A j \in missing : i < j}, <)]

module_link ==
    /\ pc = "link"
    /\ LET m == Op.m
           e == EnvImports(m, Op.host)
           n == Len(mod[m].hfuncs)
       IN  CASE ~Has(mod[m], "LOADED") \/ Has(mod[m], "INVALID") ->
                    PlanFails /\ UNCHANGED <<mod, heap>>
             [] Has(mod[m], "LOADED") /\ Has(mod[m], "LINKED") ->
                    /\ IF mod[m].host = Op.host THEN Goto("op_linked") ELSE PlanFails
                    /\ UNCHANGED <<mod, heap>>
             [] OTHER ->
                    /\ mod' = [mod EXCEPT ![m].host = Op.host, ![m].links = @ + 1,
                                          ![m].hfuncs = @ \o e.found]
                    /\ heap' = Mem(heap, {<<"hfunc", m, n + i>> : i \in DOMAIN e.found}, {})
                    /\ IF e.all THEN Goto("wrt_link") ELSE PlanFails
    /\ UNCHANGED <<rt, prog, k, vm, inst, plan, req, failed>>

wrt_module_link ==
    /\ pc = "wrt_link"
    /\ LET m  == Op.m
           is == prog[m].imports
           wm == mod[m].wm
           n  == mod[m].wlinks
       IN  \E o \in ngx_wrt(wasmtime_link_module(m, is, wm, n), wasmer_link_module(m, is, wm, n),
                            v8_link_module(m, is, wm, n)) :
              /\ Apply(o)
              /\ IF o.rc = "OK"
                 THEN /\ mod' = [mod EXCEPT ![m] = [With(@, "LINKED") EXCEPT !.wm = o.wm,
                                                                           !.wlinks = @ + 1]]
                      /\ Goto("op_linked")
                 ELSE /\ mod' = [mod EXCEPT ![m].wm = o.wm, ![m].wlinks = @ + 1]
                      /\ PlanFails
    /\ UNCHANGED <<rt, prog, k, vm, inst, plan, req, failed>>

\* A filter is loaded, or the function of a wasm_call looked up: one that does
\* not exist is found out when it is called.
plan_op_linked ==
    /\ pc = "op_linked"
    /\ \/ Goto("plan_load") /\ k' = [k EXCEPT !.op = @ + 1]
       \/ Op.code = "proxy_wasm" /\ PlanFails /\ UNCHANGED k
    /\ UNCHANGED <<rt, prog, vm, mod, inst, plan, req, heap, failed>>

----------------------------------------------------------------------------
\* Instances.

Slot == inst[k.slot]
Wm == mod[Slot.m].wm
SetSlot(x) == inst' = [inst EXCEPT ![k.slot] = x]

\* ngx_proxy_wasm_create_ictx: a filter of a plan that is loaded.
CreateRoot ==
    /\ pc = "loop" /\ Goto("create")
    /\ \E s \in Roots, p \in DOMAIN Plans : \E n \in DOMAIN Plans[p] :
          /\ inst[s] = NoInst /\ plan[p] /\ Plans[p][n].code = "proxy_wasm"
          /\ k' = [NoK EXCEPT !.slot = s, !.m = Plans[p][n].m]
    /\ UNCHANGED <<rt, prog, vm, mod, inst, plan, req, heap, failed>>

instance_create ==
    /\ pc = "create"
    /\ IF Has(mod[k.m], "LINKED")
       THEN /\ UNCHANGED k
            /\ \E o \in ngx_wrt(wasmtime_init_store(k.slot), wasmer_init_store(k.slot),
                                v8_init_store(k.slot)) :
                  /\ Apply(o)
                  /\ SetSlot([NoInst EXCEPT !.m = k.m,
                                            !.state = IF o.rc = "OK" THEN {"STORE"} ELSE {}])
                  /\ Goto(IF o.rc = "OK" THEN "instantiate" ELSE "create_failed")
       ELSE Returns("ERROR") /\ UNCHANGED <<inst, heap>>
    /\ UNCHANGED <<rt, prog, vm, mod, plan, req, failed>>

instance_init ==
    /\ pc = "instantiate"
    /\ LET p == prog[Slot.m]
           s == k.slot
       IN  \E o \in ngx_wrt(wasmtime_init_instance(s, p.imports, Wm, p.section),
                            wasmer_init_instance(s, p.imports, Wm, p.section),
                            v8_init_instance(s, p.imports, Wm, p.section)) :
              /\ Apply(o)
              /\ IF o.rc = "OK" THEN SetSlot(With(Slot, "CREATED")) /\ Goto("externs")
                 ELSE Goto("create_failed") /\ UNCHANGED inst
    /\ UNCHANGED <<rt, prog, k, vm, mod, plan, req, failed>>

\* The type of each export is kept until the instance is destroyed; finding
\* an export may fail after some of them.
instance_externs ==
    /\ pc = "externs"
    /\ heap' = [Mem(heap, {At(k.slot, "functypes")}, {})
                   EXCEPT !.bad = @ \cup ({At(k.slot, "instance")} \ heap.live)]
    /\ SetSlot(With(Slot, "FUNCS"))
    /\ \E rc \in ngx_wrt(wasmtime_init_extern, wasmer_init_extern, v8_init_extern) :
          CASE rc = "ERROR" -> Goto("create_failed") /\ UNCHANGED k
            [] rc = "OK" /\ prog[Slot.m].start -> Goto("call") /\ k' = [k EXCEPT !.then = "started"]
            [] OTHER -> Returns("OK")
    /\ UNCHANGED <<rt, prog, vm, mod, plan, req, failed>>

\* An instance whose _start fails is destroyed.
instance_started ==
    /\ pc = "started"
    /\ IF k.rc = "OK" THEN Goto(k.ret) ELSE Goto("create_failed")
    /\ UNCHANGED <<rt, prog, k, vm, mod, inst, plan, req, heap, failed>>

\* Fault: a store whose instance could not be created is not destroyed.
FaultInstanceObjects(s) ==
    IF Has(inst[s], "CREATED")
    THEN {At(s, "functypes") : f \in {x \in {"FUNCS"} : Has(inst[s], x)}}
             \cup ngx_wrt(wasmtime_destroy_instance(s, mod[inst[s].m].wm),
                          wasmer_destroy_instance(s, mod[inst[s].m].wm),
                          v8_destroy_instance(s, mod[inst[s].m].wm))
             \cup ngx_wrt(wasmtime_destroy_store(s, heap.live),
                          wasmer_destroy_store(s, heap.live), v8_destroy_store(s, heap.live))
    ELSE {}

instance_objects(s) ==
    LET wm == mod[inst[s].m].wm
    IN  (IF Has(inst[s], "FUNCS") THEN {At(s, "functypes")} ELSE {})
            \cup (IF Has(inst[s], "CREATED")
                  THEN ngx_wrt(wasmtime_destroy_instance(s, wm), wasmer_destroy_instance(s, wm),
                               v8_destroy_instance(s, wm))
                  ELSE {})
            \cup (IF Has(inst[s], "STORE")
                  THEN ngx_wrt(wasmtime_destroy_store(s, heap.live),
                               wasmer_destroy_store(s, heap.live), v8_destroy_store(s, heap.live))
                  ELSE {})

instance_destroy ==
    /\ pc \in {"create_failed", "instance_destroy"}
    /\ heap' = Mem(heap, {}, instance_objects(k.slot))
    /\ SetSlot(NoInst)
    /\ Returns(IF pc = "create_failed" THEN "ERROR" ELSE k.rc)
    /\ UNCHANGED <<rt, prog, vm, mod, plan, req, failed>>

\* ngx_proxy_wasm_release_instance.
DestroyRoot ==
    /\ pc = "loop" /\ Goto("instance_destroy")
    /\ \E s \in Roots : inst[s] # NoInst /\ k' = [NoK EXCEPT !.slot = s]
    /\ UNCHANGED <<rt, prog, vm, mod, inst, plan, req, heap, failed>>

----------------------------------------------------------------------------
\* Calls.

\* A filter's callback: an instance that trapped is not called.
CallRoot ==
    /\ pc = "loop" /\ Goto("call")
    /\ \E s \in Roots : /\ inst[s] # NoInst /\ ~Has(inst[s], "TRAPPED")
                        /\ k' = [NoK EXCEPT !.slot = s]
    /\ UNCHANGED <<rt, prog, vm, mod, inst, plan, req, heap, failed>>

\* The last two, proxy_on_done and proxy_on_log, are called one after the other.
CallRootLast ==
    /\ pc = "loop" /\ Goto("call")
    /\ \E s \in Roots : /\ inst[s] # NoInst /\ ~Has(inst[s], "TRAPPED")
                        /\ k' = [NoK EXCEPT !.slot = s, !.then = "on_log"]
    /\ UNCHANGED <<rt, prog, vm, mod, inst, plan, req, heap, failed>>

on_log ==
    /\ pc = "on_log" /\ Goto("call") /\ k' = [k EXCEPT !.then = "loop"]
    /\ UNCHANGED <<rt, prog, vm, mod, inst, plan, req, heap, failed>>

CallReturns(rc) ==
    /\ k' = [k EXCEPT !.rc = rc]
    /\ Goto(IF rc = "OK" THEN k.then ELSE "log_error")

\* The error is cleared for a new call, not when the instance has trapped.
func_call ==
    /\ pc = "call"
    /\ IF Has(Slot, "TRAPPED") THEN CallReturns("ABORT") /\ UNCHANGED inst
       ELSE Goto("wasm") /\ SetSlot([Slot EXCEPT !.err = {}]) /\ UNCHANGED k
    /\ UNCHANGED <<rt, prog, vm, mod, plan, req, heap, failed>>

\* The runtime makes a trap, here told from the others when proxy_on_done's.
TrapOf(s, done) == At(s, IF done THEN "trap of on_done" ELSE "trap")

Traps ==
    LET trap == TrapOf(k.slot, k.then = "on_log")
    IN  /\ CallReturns("ABORT")
        /\ SetSlot([With(Slot, "TRAPPED") EXCEPT !.err = {trap}])
        /\ heap' = Mem(heap, {trap}, {})

wrt_call ==
    /\ pc = "wasm"
    /\ \E rc \in ngx_wrt(wasmtime_call, wasmer_call, v8_call) :
          IF rc = "ABORT" THEN Traps ELSE CallReturns(rc) /\ UNCHANGED <<inst, heap>>
    /\ UNCHANGED <<rt, prog, vm, mod, plan, req, failed>>

\* Wasm calls a function of the host: it may leave the request yielding or in
\* error; any return code but OK, and a trap message, become a trap.
hfunc_trampoline ==
    /\ pc = "wasm" /\ mod[Slot.m].hfuncs # <<>>
    /\ \/ Traps /\ UNCHANGED req
       \/ /\ k.slot = CallSlot /\ req.on /\ req.state = "continue"
          /\ \E st \in {"yield", "error"} : req' = [req EXCEPT !.state = st]
          /\ UNCHANGED <<pc, k, inst, heap>>
    /\ UNCHANGED <<rt, prog, vm, mod, plan, failed>>

\* The trap is logged and deleted, and the instance keeps the pointer to it.
log_error ==
    /\ pc = "log_error" /\ Goto(k.then)
    /\ heap' = Mem(heap, {}, Slot.err)
    /\ UNCHANGED <<rt, prog, k, vm, mod, inst, plan, req, failed>>

----------------------------------------------------------------------------
\* Requests: the operations of a plan, phase by phase.

Pipeline(p, phase) == SelectSeq(Plans[p], LAMBDA op : Phases[phase] \in op.on)
Response(phase) == \E h \in 1..phase : Phases[h] = "header_filter"

\* ngx_http_wasm_rctx attaches the plan.
RequestStarts ==
    /\ pc = "loop" /\ ~req.on
    /\ \E p \in DOMAIN Plans : plan[p] /\ req' = [NoReq EXCEPT !.on = TRUE, !.plan = p, !.phase = 1]
    /\ UNCHANGED <<rt, prog, pc, k, vm, mod, inst, plan, heap, failed>>

\* The phase is run, or resumed when what it waited for has come.
ops_resume ==
    /\ pc = "loop" /\ req.on /\ Goto("run_op")
    /\ req' = [req EXCEPT !.i = 1, !.rc = "DECLINED",
                          !.state = IF @ = "yield" THEN "continue" ELSE @,
                          !.cur_idx = IF req.last # 0 /\ req.last # req.phase THEN 0 ELSE @]
    /\ UNCHANGED <<rt, prog, k, vm, mod, inst, plan, heap, failed>>

ReqOp == Pipeline(req.plan, req.phase)[req.i]
OpsLeft == req.rc = "DECLINED" /\ req.i <= Len(Pipeline(req.plan, req.phase))
OpReturns(r, rc) == req' = [r EXCEPT !.rc = rc, !.i = IF rc = "DECLINED" THEN @ + 1 ELSE @]

\* The filter chain of the phase.
op_proxy_wasm_handler ==
    /\ pc = "run_op" /\ OpsLeft /\ ReqOp.code = "proxy_wasm"
    /\ \E rc \in {"OK", "ERROR", "AGAIN", "DONE"} : OpReturns(req, rc)
    /\ UNCHANGED <<rt, prog, pc, k, vm, mod, inst, plan, heap, failed>>

\* idx counts from 0.
op_call_handler ==
    /\ pc = "run_op" /\ OpsLeft /\ ReqOp.code = "call"
    /\ CASE ~ReqOp.func -> OpReturns(req, "ERROR") /\ UNCHANGED <<pc, k>>
         [] ReqOp.func /\ req.cur_idx > req.i - 1 ->
                OpReturns(req, "DECLINED") /\ UNCHANGED <<pc, k>>
         [] OTHER -> /\ Goto("create") /\ UNCHANGED req
                     /\ k' = [NoK EXCEPT !.m = ReqOp.m, !.ret = "op_created"]
    /\ UNCHANGED <<rt, prog, vm, mod, inst, plan, heap, failed>>

op_call_created ==
    /\ pc = "op_created"
    /\ IF k.rc = "OK"
       THEN /\ Goto("call") /\ k' = [k EXCEPT !.then = "op_called"]
            /\ req' = [req EXCEPT !.ran = Append(@, <<req.phase, req.i>>)]
       ELSE Goto("run_op") /\ OpReturns(req, "ERROR") /\ UNCHANGED k
    /\ UNCHANGED <<rt, prog, vm, mod, inst, plan, heap, failed>>

op_call_called ==
    /\ pc = "op_called" /\ Goto("instance_destroy") /\ k' = [k EXCEPT !.ret = "op_done"]
    /\ UNCHANGED <<rt, prog, vm, mod, inst, plan, req, heap, failed>>

\* Fault: an operation that yields is not counted.
FaultOpCallDone ==
    /\ pc = "op_done" /\ Goto("run_op")
    /\ OpReturns([req EXCEPT !.cur_idx = IF req.state = "yield" THEN @ ELSE @ + 1],
                 CASE k.rc # "OK" \/ req.state = "error" -> "ERROR"
                   [] k.rc = "OK" /\ req.state = "yield" -> "AGAIN"
                   [] OTHER                              -> "DECLINED")
    /\ UNCHANGED <<rt, prog, k, vm, mod, inst, plan, heap, failed>>

op_call_done ==
    /\ pc = "op_done" /\ Goto("run_op")
    /\ OpReturns([req EXCEPT !.cur_idx = @ + 1],
                 CASE k.rc # "OK" \/ req.state = "error" -> "ERROR"
                   [] k.rc = "OK" /\ req.state = "yield" -> "AGAIN"
                   [] OTHER                              -> "DECLINED")
    /\ UNCHANGED <<rt, prog, k, vm, mod, inst, plan, heap, failed>>

\* A phase that yields is run again, but for the ones of the response; after
\* an error the request gets the response of the error.
ops_resumed ==
    /\ pc = "run_op" /\ ~OpsLeft /\ Goto("loop")
    /\ LET error == req.rc = "ERROR"
           next  == IF error /\ ~Response(req.phase)
                    THEN Min({h \in DOMAIN Phases : Response(h)}) ELSE req.phase + 1
           again == req.rc = "AGAIN" /\ ~Response(req.phase)
           r     == [req EXCEPT !.last = IF error THEN @ ELSE req.phase,
                                !.errored = @ \/ error,
                                !.phase = IF again THEN @ ELSE next]
       IN  req' = IF r.phase > Len(Phases) THEN NoReq ELSE r
    /\ UNCHANGED <<rt, prog, k, vm, mod, inst, plan, heap, failed>>

----------------------------------------------------------------------------
\* The worker exits: the root instances go first, then the pool of the cycle.

exit_process ==
    /\ pc = "loop" /\ ~req.on /\ \A s \in Slots : inst[s] = NoInst
    /\ Goto("cleanup_pool")
    /\ UNCHANGED <<rt, prog, k, vm, mod, inst, plan, req, heap, failed>>

Next ==
    \/ module_add \/ wasmx_init \/ conf_init \/ engine_init \/ load_bytes \/ wavm_init_done
    \/ core_init_ssl \/ core_init_process \/ module_load \/ wavm_loaded
    \/ core_cleanup_pool \/ wavm_destroy
    \/ init_plans \/ ffi_plan_load \/ plan_load \/ module_link \/ wrt_module_link \/ plan_op_linked
    \/ CreateRoot \/ instance_create \/ instance_init \/ instance_externs \/ instance_started
    \/ instance_destroy \/ DestroyRoot
    \/ CallRoot \/ CallRootLast \/ on_log \/ func_call \/ wrt_call \/ hfunc_trampoline \/ log_error
    \/ RequestStarts \/ ops_resume \/ op_proxy_wasm_handler \/ op_call_handler
    \/ op_call_created \/ op_call_called \/ op_call_done \/ ops_resumed
    \/ exit_process

Spec == Init /\ [][Next]_vars

----------------------------------------------------------------------------
\* No runtime object is deleted twice or created over one that is alive, no
\* matter which step of the start-up, of a link or of an instance fails, and
\* no instance is used that the runtime did not create.  One object is the
\* exception: a trap of proxy_on_done is deleted again when proxy_on_log is
\* called after it (ngx_proxy_wasm_on_log(), ngx_wavm_func_call()).
ReleasedOnce == heap.bad \subseteq {TrapOf(s, TRUE) : s \in Roots}

\* What the process created is deleted when its cycle's pool is: modules,
\* host functions, engine, and the stores and instances of requests and roots.
\* Links and instances that failed are no exception.  Start-ups that fail are
\* (the engine half made stays), and so is V8's engine, which is the process's.
AllReleased ==
    pc = "end" /\ ~failed => heap.live \subseteq IF rt = "v8" THEN {Engine("engine")} ELSE {}

\* While Wasm runs, the objects it runs on are there: its engine, module, store
\* and instance, and a host function for each of its env imports.
UsedWhileLive ==
    pc = "wasm" =>
        /\ {Of(Slot.m, "module"), At(k.slot, "store"), At(k.slot, "instance")} \subseteq heap.live
        /\ EngineObjects \subseteq heap.live
        /\ Hfuncs(Slot.m) \subseteq heap.live

\* An instance is only ever made of a module whose env imports are all bound,
\* in order, to functions of the one host it is linked to or of the core host.
LinkedImports ==
    \A s \in Slots : inst[s] # NoInst =>
        LET m   == mod[inst[s].m]
            is  == prog[inst[s].m].imports
        IN  /\ \A i \in Where(is, Env) : is[i] \in {m.host, "core"}
            /\ IsSuffix(SetToSortSeq(Where(is, Env), <), m.hfuncs)
            /\ rt # "wasmtime" => m.wm.nimports = Len(is)

Calls(phase) == LET ops == Pipeline(req.plan, phase) IN {i \in DOMAIN ops : ops[i].code = "call"}
Ran(phase) == SelectSeq(req.ran, LAMBDA x : x[1] = phase)

\* The wasm_calls of a phase run one after the other, each once, however often
\* they yield and the phase is resumed; a phase that is through has run them
\* all, if no phase before it failed and no filter is among its operations.
CallsOnce ==
    req.on =>
        /\ \A phase \in DOMAIN Phases : \A i, j \in DOMAIN Ran(phase) :
              i < j => Ran(phase)[i][2] < Ran(phase)[j][2]
        /\ pc = "run_op" /\ ~OpsLeft /\ req.rc = "DECLINED" /\ ~req.errored
              => {Ran(req.phase)[i][2] : i \in DOMAIN Ran(req.phase)} = Calls(req.phase)

\* A phase that is through has run its wasm_calls, as the directive promises.
CallsInvoked ==
    pc = "run_op" /\ req.on /\ ~OpsLeft /\ req.rc = "DECLINED"
        => {Ran(req.phase)[i][2] : i \in DOMAIN Ran(req.phase)} = Calls(req.phase)
=============================================================================
