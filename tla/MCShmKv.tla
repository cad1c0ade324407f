------------------------------ MODULE MCShmKv ------------------------------
(***************************************************************************)
(* The store with two pages of 8 bytes and chunks of 2 and 4: a value of   *)
(* each chunk size, one that takes a page and one that never fits.  Three  *)
(* keys are enough for a full zone, a page of mixed use, evictions of      *)
(* several entries and of other sizes; versions wrap after 2 writes.       *)
(***************************************************************************)
EXTENDS ShmKv, TLC

CONSTANTS small, middle, large, huge

MCValues == {small, middle, large, huge}
MCValLen == (small :> 1) @@ (middle :> 3) @@ (large :> 7)
            @@ (huge :> 16)
Symmetry == Permutations(Keys) \cup Permutations(Workers)
============================================================================
