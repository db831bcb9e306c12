------------------------------ MODULE MCL2Book ------------------------------
(* Three one-tick levels; two exchange prices round to each of them and    *)
(* one to a tick on either side of the band.  A quantity may round to one  *)
(* or two, be clamped to two, be zero or not be a number.                  *)
EXTENDS L2Book

const_min_price_ticks == 1
const_max_price_ticks == 3
const_tick == 1
const_QuoteUnit == 2
const_Quotes == 0..7 \cup {Malformed}
const_SizeUnit == 2
const_Quantities == {0, 1, 3, 5, Malformed}
const_MaxSize == 2
=============================================================================
