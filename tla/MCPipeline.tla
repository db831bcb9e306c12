----------------------------- MODULE MCPipeline -----------------------------
(* Four frames, a two-slot ring and a reorder buffer of two: the ring      *)
(* fills, a held frame is overtaken by fewer, as many and more frames than *)
(* the buffer holds, and at most one frame does not parse.                 *)
EXTENDS Pipeline

const_Capacity == 2
const_reorder_capacity == 2
const_NumFrames == 4
const_MaxBad == 1
const_MaxDistance == 3
=============================================================================
