----------------------------- MODULE MCMetrics -----------------------------
(***************************************************************************)
(* A metric of any type, two workers or one, and a reload that keeps or    *)
(* changes their number.  Bounds have 4 bits, and a histogram of two bins  *)
(* grows to three: two updates fill it, make it grow or find no memory,    *)
(* put a small bound after a larger one, move a bin that is not empty, and *)
(* overflow the copy in a new zone, which has two bins.  The value 9 is    *)
(* above half of the largest bound.                                        *)
(***************************************************************************)
EXTENDS Metrics

MCDefinition(type, h_type, bins) == [type |-> type, h_type |-> h_type, bins |-> bins]
MCDefinitions ==
    [n \in Names |-> {MCDefinition("counter", "log2", <<>>), MCDefinition("gauge", "log2", <<>>),
                      MCDefinition("histogram", "log2", <<>>),
                      MCDefinition("histogram", "custom", <<3>>)}]
MCConfs == {[workers |-> 1, slab_size |-> 1], [workers |-> 2, slab_size |-> 1]}
=============================================================================
