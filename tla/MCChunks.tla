------------------------------ MODULE MCChunks ------------------------------
(***************************************************************************)
(* UcpdChunks with chunks of two bytes, a buffer of five and counters of   *)
(* eight values: one message of one chunk, one whose last chunk is full,   *)
(* one that fills the buffer with a last chunk that is not full, one that  *)
(* the counters can count but the buffer has no room for, and two that the *)
(* counters cannot count.                                                  *)
(***************************************************************************)
EXTENDS UcpdChunks

MCMessages == {"one", "full", "filling", "outside", "over", "wraps"}
MCSize == [m \in MCMessages |->
             CASE m = "one"     -> 1
               [] m = "full"    -> 4
               [] m = "filling" -> 5
               [] m = "outside" -> 7
               [] m = "over"    -> 9
               [] m = "wraps"   -> 12]
=============================================================================
