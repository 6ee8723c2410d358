-------------------------- MODULE MCCompileWorker --------------------------
(* Three edits and four more signals: enough for a signal to arrive          *)
(* before, inside and after a drain, and for a Shutdown to be drained        *)
(* between Recompile messages.                                               *)
EXTENDS CompileWorker
=============================================================================
