---------------------------- MODULE MCOrderBook ----------------------------
(* Two slots of two ticks each, prices below, in and above the band, and   *)
(* three references, so that a level holds a front, a middle and a back    *)
(* order and the pool (two nodes a chunk) grows twice.                     *)
EXTENDS Publisher, TLC

CONSTANTS r1, r2, r3

const_min_price_ticks == 1
const_max_price_ticks == 4
const_tick == 2
const_Prices == {0, 2, 3}
const_Sizes == {1, 2}
const_pool_chunk == 2
const_FeedSide == {"Buy", "Sell"}
const_Ref == {r1, r2, r3}
RefSymmetry == Permutations(const_Ref)
=============================================================================
