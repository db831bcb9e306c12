------------------------- MODULE MCLatencyHistogram -------------------------
(* An eight-bit word: shapes with and without sub-buckets, at the end of   *)
(* the word, on a power of two and below it, and inputs around each power. *)
EXTENDS LatencyHistogram

const_Bits == 8
const_Shapes == {<<0, 0>>, <<64, 0>>, <<255, 0>>, <<128, 1>>, <<255, 1>>}
const_Inputs == {0, 1, 3, 32, 33, 64, 127, 128, 255}
const_Percentiles == {0, 2000, 2500, 10000}
const_MaxSamples == 5
=============================================================================
