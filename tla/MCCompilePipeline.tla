------------------------- MODULE MCCompilePipeline -------------------------
(* The pipeline alone, for its liveness properties.  The documents are not   *)
(* interchangeable where only some of them may panic, and symmetry is not    *)
(* sound under a liveness property, so that none is declared.                *)
EXTENDS CompilePipeline, TLC
=============================================================================
