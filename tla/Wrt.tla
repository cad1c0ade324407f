-------------------------------- MODULE Wrt --------------------------------
(***************************************************************************)
(* The three runtimes behind the table ngx_wrt (wasm/wrt/ngx_wrt_*.c).     *)
(*                                                                         *)
(* A build has one of them.  An operation is given by its outcomes: what   *)
(* it returns, the runtime objects it creates and the ones it deletes.     *)
(* Only objects of the runtime libraries are kept track of: what comes     *)
(* from an nginx pool goes with the pool.  What a library does is external *)
(* and shows up as the choice between outcomes.                            *)
(***************************************************************************)
EXTENDS Naturals, Sequences, FiniteSets

Outcome(rc, new, del) == [rc |-> rc, new |-> new, del |-> del]
Ok(new, del) == Outcome("OK", new, del)
Error(new, del) == Outcome("ERROR", new, del)

\* Objects: of the engine, of a module, of an instance.
Engine(x) == <<"engine", x>>
Of(m, x) == <<"module", m, x>>
At(s, x) == <<"slot", s, x>>
Config == Engine("config")

\* An import is a host function of the interfaces "http", "proxy_wasm" or
\* "core", one none of them has ("missing"), a WASI function the module
\* implements ("hwasi"), one only the runtime has ("rwasi"), a function of an
\* unknown module ("alien") or no function ("memory").
Env == {"http", "proxy_wasm", "core", "missing"}
Wasi == {"hwasi", "rwasi"}
Where(imports, kinds) == {i \in DOMAIN imports : imports[i] \in kinds}

\* The import array of a module: the WASI function created for the import.
Unset == "unset"
Hwasi(m, i, n) == <<"hwasi", m, i, n>>

\* Links the imports `done` of module m, whose n-th link this is: each is
\* counted, and a host WASI function is created for each of kind "hwasi".
Resolve(m, imports, wm, done, n) ==
    [wm EXCEPT !.nimports = @ + Cardinality(done),
               !.imports = [i \in DOMAIN imports |->
                               IF i \in done /\ imports[i] = "hwasi"
                               THEN Hwasi(m, i, n) ELSE @[i]]]
Created(m, imports, done, n) == {Hwasi(m, i, n) : i \in done \cap Where(imports, {"hwasi"})}
Link(rc, wm, new, del) == [rc |-> rc, wm |-> wm, new |-> new, del |-> del]

\* Deleting the WASI functions of a module: the loop is over nimports, and
\* reads past the array when there are more than imports.
HostWasi(m, wm) ==
    {wm.imports[i] : i \in {j \in DOMAIN wm.imports :
                               j <= wm.nimports /\ wm.imports[j] # Unset}}
        \cup (IF wm.nimports > Len(wm.imports) THEN {Of(m, "past imports")} ELSE {})

----------------------------------------------------------------------------
\* wasmtime.  The engine owns the linker, where every module defines its host
\* functions and where WASI is defined once; an instance lives in its store.

wasmtime_init_conf == {Ok({Config}, {}), Error({}, {})}

\* A failure half-way leaves what was created, as no engine is to destroy.
wasmtime_init_engine(live) ==
    LET parts == <<Engine("engine"), Engine("linker"), Engine("wasi")>>
    IN  {Ok({parts[k] : k \in 1..3}, {Config})}
            \cup {Error({parts[k] : k \in 1..n}, {Config}) : n \in 0..3}

wasmtime_destroy_engine == {Engine("wasi"), Engine("linker"), Engine("engine")}

\* Text is compiled to bytes, and bytes are validated, with no object left.
wasmtime_wat2wasm(wat) == {"OK", "ERROR"}
wasmtime_validate == {"OK", "ERROR"}

wasmtime_init_module(m) == {Ok({Of(m, "module"), Of(m, "types")}, {}), Error({}, {})}

\* Only the env imports are defined: the others are left to instantiation.
wasmtime_link_module(m, imports, wm, n) == {Link("OK", wm, {}, {}), Link("ERROR", wm, {}, {})}

wasmtime_destroy_module(m, wm) == {Of(m, "module")}

wasmtime_init_store(s) == {Ok({At(s, "store")}, {}), Error({}, {})}
wasmtime_destroy_store(s, live) == {At(s, "store")} \cup ({At(s, "instance")} \cap live)

\* A trap of the start section comes with no error and is not looked at.
wasmtime_init_instance(s, imports, wm, section) ==
    {Error({}, {})}
        \cup (IF Where(imports, {"alien"}) = {} THEN {Ok({At(s, "instance")}, {})} ELSE {})
        \cup (IF Where(imports, {"alien"}) = {} /\ section THEN {Ok({}, {})} ELSE {})

wasmtime_destroy_instance(s, wm) == {}

\* An export is looked up in the instance.
wasmtime_init_extern == {"OK", "ERROR"}

wasmtime_call == {"OK", "ABORT", "ERROR"}

----------------------------------------------------------------------------
\* wasmer.  WASI functions are looked up by name in the engine's WASI
\* environment at link time, and in the store's at instantiation.

wasmer_init_conf == {Ok({Config}, {}), Error({}, {})}

wasmer_init_engine(live) ==
    {Ok({Engine("engine"), Engine("store"), Engine("wasi")}, {Config}),
     Error({}, {Config}), Error({Engine("engine")}, {Config})}

wasmer_destroy_engine == {Engine("wasi"), Engine("store"), Engine("engine")}

wasmer_wat2wasm(wat) == {"OK", "ERROR"}
wasmer_validate == {"OK", "ERROR"}

wasmer_init_module(m) ==
    {Ok({Of(m, "module"), Of(m, "types")}, {}), Error({}, {}),
     Error({Of(m, "module"), Of(m, "types")}, {})}

\* Every import is tried, and one that is not found makes the link fail; a
\* runtime that does not list its WASI functions ends it at the first one.
\* wasi is never reset: a further link deletes a list it did not fetch.
wasmer_link_module(m, imports, wm, n) ==
    LET found == Where(imports, Env \cup Wasi)
        wasi  == Where(imports, Wasi)
        before == {i \in found : \A w \in wasi : i < w}
    IN  {Link(IF found = DOMAIN imports THEN "OK" ELSE "ERROR",
              [Resolve(m, imports, wm, found, n) EXCEPT !.wasi = @ \/ wasi # {}],
              Created(m, imports, found, n),
              IF wm.wasi THEN {Of(m, "wasi_imports")} ELSE {})}
            \cup (IF wasi # {} /\ ~wm.wasi
                  THEN {Link("ERROR", Resolve(m, imports, wm, before, n),
                             Created(m, imports, before, n), {})}
                  ELSE {})

\* The import and export types were deleted before: nothing is left in them.
wasmer_destroy_module(m, wm) == HostWasi(m, wm) \cup {Of(m, "module")}

wasmer_init_store(s) == {Ok({At(s, "store"), At(s, "wasi")}, {}), Error({}, {})}
wasmer_destroy_store(s, live) == {At(s, "wasi"), At(s, "store")}

\* The error path deletes the WASI functions of the runtime with wasi_imports
\* and again with env, from which destroy_instance takes them out first.
wasmer_init_instance(s, imports, wm, section) ==
    LET wasi == IF wm.wasi THEN {At(s, "wasi_imports")} ELSE {}
    IN  {Ok({At(s, "env"), At(s, "instance"), At(s, "externs")} \cup wasi, {}),
         Error({}, IF Where(imports, {"rwasi"}) # {} THEN {At(s, "WASI functions")} ELSE {})}
            \cup (IF wm.wasi THEN {Error({}, {})} ELSE {})

wasmer_destroy_instance(s, wm) ==
    {At(s, "instance"), At(s, "externs"), At(s, "env")}
        \cup (IF wm.wasi THEN {At(s, "wasi_imports")} ELSE {})

\* The exports were copied when the instance was made.
wasmer_init_extern == {"OK"}

wasmer_call == {"OK", "ABORT", "ERROR"}

----------------------------------------------------------------------------
\* V8.  The engine is one of the process and is never deleted.

v8_init_conf == {Ok({Config}, {}), Error({}, {})}

v8_init_engine(live) ==
    LET engine == {Engine("engine")} \ live
    IN  {Ok(engine \cup {Engine("store")}, {Config}), Error(engine, {Config})}
            \cup (IF engine # {} THEN {Error({}, {Config})} ELSE {})

v8_destroy_engine == {Engine("store")}

\* Support for text is a matter of the build.
v8_wat2wasm(wat) == IF wat THEN {"OK", "ERROR"} ELSE {"ERROR"}
v8_validate == {"OK", "ERROR"}

v8_init_module(m) ==
    {Ok({Of(m, "module"), Of(m, "types")}, {}), Error({}, {}),
     Error({Of(m, "module"), Of(m, "types")}, {})}

v8_link_module(m, imports, wm, n) ==
    LET found == Where(imports, Env \cup {"hwasi"})
    IN  {Link(IF found = DOMAIN imports THEN "OK" ELSE "ERROR",
              Resolve(m, imports, wm, found, n), Created(m, imports, found, n), {})}

v8_destroy_module(m, wm) == HostWasi(m, wm) \cup {Of(m, "module")}

v8_init_store(s) == {Ok({At(s, "store")}, {}), Error({}, {})}
v8_destroy_store(s, live) == {At(s, "store")}

\* The error path is destroy_instance on what there is.
v8_init_instance(s, imports, wm, section) ==
    {Ok({At(s, "env"), At(s, "instance"), At(s, "externs")}, {}), Error({}, {})}

v8_destroy_instance(s, wm) == {At(s, "env"), At(s, "instance"), At(s, "externs")}

v8_init_extern == {"OK"}

v8_call == {"OK", "ABORT"}
=============================================================================
