--------------------------- MODULE MCGPUCollector ---------------------------
(* The calls and the processes TLC explores GPUCollector with. *)
EXTENDS GPUCollector

CONSTANTS r1, r2, p1, p2
=============================================================================
