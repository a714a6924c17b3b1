--------------------------- MODULE MCExtentAlloc ---------------------------
(* ExtentAlloc for TLC.  Requests that are not multiples of LS_ALIGN make   *)
(* round_up visible; FlCap0 = 1 lets the hole array run out of slots.       *)
EXTENDS ExtentAlloc
============================================================================
