---------------------------- MODULE MCProxyWasm ----------------------------
(***************************************************************************)
(* Small instances of ProxyWasm: a first, a middle and a last filter, so   *)
(* that one can run while another's calls are pending, and enough calls    *)
(* for a filter to have several at a time.                                 *)
(***************************************************************************)
EXTENDS ProxyWasm
============================================================================
