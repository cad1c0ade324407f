---------------------------- MODULE MCInstances ----------------------------
\* Small instances of Instances for TLC.
EXTENDS Instances

MCChain == <<"f1", "f2">>
MCOneModule == [f \in {"f1", "f2"} |-> "m1"]
MCTwoModules == [f1 |-> "m1", f2 |-> "m2"]
MCRequests == {"r1", "r2"}

=============================================================================
