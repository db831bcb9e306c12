---------------------------- MODULE PriceLevels ----------------------------
(***************************************************************************)
(* The tick-indexed level array shared by the two ways of driving an       *)
(* OrderBook (src/order_book.cpp): the price band, the mapping between     *)
(* prices and slots, the best-pointer rescans and the read-only queries.   *)
(***************************************************************************)
EXTENDS Integers, Sequences

CONSTANTS min_price_ticks, max_price_ticks, tick   \* OrderBookConfig

ASSUME PriceBandAssumption == /\ min_price_ticks \in Int /\ max_price_ticks \in Int
                              /\ tick \in Int

(* The constructor repairs a bad configuration.                            *)
Tick == IF tick < 1 THEN 1 ELSE tick
MaxPrice == IF max_price_ticks < min_price_ticks THEN min_price_ticks ELSE max_price_ticks

NumLevels == (MaxPrice - min_price_ticks) \div Tick + 1
Levels == 0..(NumLevels - 1)

None == -1   \* "no level": an unset best pointer, an out-of-band price

to_index(p) == IF p < min_price_ticks \/ p > MaxPrice THEN None
               ELSE (p - min_price_ticks) \div Tick
to_price(idx) == min_price_ticks + idx * Tick

Highest(S) == IF S = {} THEN None ELSE CHOOSE i \in S : \A j \in S : j <= i
Lowest(S)  == IF S = {} THEN None ELSE CHOOSE i \in S : \A j \in S : i <= j

(* The slots that hold something for a side.                               *)
Owned(levels, side) == {i \in Levels : levels[i].order_count > 0 /\ levels[i].side = side}

(* Scanning down from idx for a bid, up from idx for an ask.               *)
rescan_best_bid_from(levels, idx) == Highest({i \in Owned(levels, "Buy") : i <= idx})
rescan_best_ask_from(levels, idx) == Lowest({i \in Owned(levels, "Sell") : i >= idx})

(* Adding at idx moves the best pointer of its side when it improves it.   *)
improve_bid(side, idx, bid) ==
  IF side = "Buy" /\ (bid = None \/ idx > bid) THEN idx ELSE bid
improve_ask(side, idx, ask) ==
  IF side = "Sell" /\ (ask = None \/ idx < ask) THEN idx ELSE ask

(* Emptying or losing slot idx, whose side was `old`, moves the best       *)
(* pointer that stood on it; in the fault it stays.                        *)
retreat_bid_stays(levels, old, idx, bid) == bid
retreat_bid(levels, old, idx, bid) ==
  IF old = "Buy" /\ idx = bid THEN rescan_best_bid_from(levels, idx - 1) ELSE bid
retreat_ask(levels, old, idx, ask) ==
  IF old = "Sell" /\ idx = ask THEN rescan_best_ask_from(levels, idx + 1) ELSE ask

is_crossed(bid, ask) == bid >= 0 /\ ask >= 0 /\ bid >= ask

-----------------------------------------------------------------------------
(* What the book shows: BookLevel, its top and its ladders.                *)

NoLevel == [price_ticks |-> 0, aggregate_size |-> 0, order_count |-> 0, valid |-> FALSE]
BookLevel(levels, i) == [price_ticks |-> to_price(i), valid |-> TRUE,
                         aggregate_size |-> levels[i].aggregate_size,
                         order_count |-> levels[i].order_count]

best_bid(levels, bid) == IF bid = None THEN NoLevel ELSE BookLevel(levels, bid)
best_ask(levels, ask) == IF ask = None THEN NoLevel ELSE BookLevel(levels, ask)

(* depth_bids() walks down from the best bid and depth_asks() up from the  *)
(* best ask, past empty levels and those of the other side, until n levels *)
(* are written.  In the fault the walk ends at the first it would skip.    *)
depth_bids_gap(levels, bid, n) ==
  LET walk[i \in Levels \cup {None}] == [c \in 0..n |->
        IF i = None \/ c = n \/ i \notin Owned(levels, "Buy") THEN <<>>
        ELSE <<BookLevel(levels, i)>> \o walk[i - 1][c + 1]]
  IN walk[bid][0]
depth_bids(levels, bid, n) ==
  LET walk[i \in Levels \cup {None}] == [c \in 0..n |->
        IF i = None \/ c = n THEN <<>>
        ELSE IF i \in Owned(levels, "Buy")
             THEN <<BookLevel(levels, i)>> \o walk[i - 1][c + 1]
             ELSE walk[i - 1][c]]
  IN walk[bid][0]
depth_asks(levels, ask, n) ==
  LET walk[i \in Levels \cup {None, NumLevels}] == [c \in 0..n |->
        IF i \notin Levels \/ c = n THEN <<>>
        ELSE IF i \in Owned(levels, "Sell")
             THEN <<BookLevel(levels, i)>> \o walk[i + 1][c + 1]
             ELSE walk[i + 1][c]]
  IN walk[ask][0]
=============================================================================
