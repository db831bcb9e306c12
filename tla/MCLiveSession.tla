--------------------------- MODULE MCLiveSession ---------------------------
(* A symbol switch and a shutdown, two messages of up to two levels or a   *)
(* trade each, and a ring of two slots, which the third level may find     *)
(* full.                                                                   *)
EXTENDS LiveSession

CONSTANTS btc, eth, h1

const_NumFeeds == 1
const_Catalog == {btc, eth}
const_FirstSymbol == btc
const_Handlers == {h1}
const_OneAtATime == TRUE
const_MaxRequests == 1
const_Capacity == 2
const_TapeRows == 1
const_MaxOps == 2
const_MaxMsgs == 2
const_MaxOverrun == 1
=============================================================================
