----------------------------- MODULE MCRecovery -----------------------------
(* One document shows the races of its id: edits, the flush of the worker,  *)
(* the flush of a blur, discards and clears meet in every order.            *)
EXTENDS Recovery
=============================================================================
