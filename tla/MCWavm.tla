------------------------------- MODULE MCWavm -------------------------------
(* Two modules; a location with wasm_calls in every phase, and two plans     *)
(* loaded through Lua, one that mixes wasm_calls and a filter and one whose  *)
(* filter is of a module that is linked to another host.                     *)
EXTENDS Wavm

Program(imports, start) == [imports |-> imports, start |-> start, section |-> FALSE,
                            wat |-> start]
MCPrograms ==
    {Program(<<"http", "core">>, FALSE), Program(<<"core", "hwasi">>, TRUE),
     Program(<<"proxy_wasm", "missing">>, FALSE), Program(<<"core", "alien">>, FALSE),
     Program(<<"memory">>, FALSE), Program(<<>>, TRUE), Program(<<"proxy_wasm", "core">>, TRUE)}

MCPhases == <<"rewrite", "content", "header_filter", "log">>
Call(m, phase, func) == [m |-> m, host |-> "http", code |-> "call", on |-> {phase}, func |-> func]
Filter(m) == [m |-> m, host |-> "proxy_wasm", code |-> "proxy_wasm",
              on |-> {MCPhases[i] : i \in DOMAIN MCPhases}, func |-> TRUE]
MCPlans ==
    <<<<Call(1, "rewrite", TRUE), Call(1, "rewrite", TRUE), Call(1, "content", TRUE),
        Call(1, "content", TRUE), Call(1, "header_filter", TRUE), Call(1, "log", FALSE)>>,
      <<Call(1, "rewrite", TRUE), Filter(2), Call(1, "rewrite", TRUE)>>,
      <<Call(1, "content", TRUE), Filter(1)>>>>
=============================================================================
