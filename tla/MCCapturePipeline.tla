-------------------------- MODULE MCCapturePipeline --------------------------
(* CapturePipeline on a small instance: two finalize calls of one upload.  *)
EXTENDS CapturePipeline

CONSTANTS k1, k2, f1, f2, m1, o1, w1, w2
=============================================================================
