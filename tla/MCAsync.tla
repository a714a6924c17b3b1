------------------------------ MODULE MCAsync ------------------------------
(* Async for TLC.  Three requests for two workers: one waits in the queue   *)
(* while both are busy.                                                     *)
EXTENDS Async
============================================================================
