----------------------------- MODULE MCShmQueue -----------------------------
(***************************************************************************)
(* The queue with a ring of 7 bytes and a header of 2: one entry of each   *)
(* length from 0 to 3, several entries at once, an entry that fills the    *)
(* ring to the last byte, and every offset at which a header or a message  *)
(* can wrap.  Two messages of the same length differ in their bytes.       *)
(***************************************************************************)
EXTENDS ShmQueue

MCMessages == {<<>>, <<1>>, <<2>>, <<1, 2>>, <<2, 2, 1>>}
============================================================================
