------------------------------- MODULE L2Book -------------------------------
(***************************************************************************)
(* An OrderBook driven by an aggregated depth feed: set_level() sets the   *)
(* absolute size resting at a price, observe_event_boundary() looks for a  *)
(* crossed book once per exchange event, reset() precedes a new snapshot.  *)
(* Side by side with it the model keeps what the feed has said, per side   *)
(* and level.                                                              *)
(*                                                                         *)
(* The feed's decimal strings are numbers in a unit finer than a tick (or  *)
(* than a size unit); apps/live_feed.cpp rounds them, so that exchange     *)
(* prices less than a tick apart share a level.                            *)
(***************************************************************************)
EXTENDS PriceLevels, FiniteSets

CONSTANTS Quotes,      \* the prices the feed mentions, in and out of the band
          QuoteUnit,   \* how many units of theirs make one tick
          Quantities,  \* the quantities it mentions
          SizeUnit,    \* how many units of theirs make one size unit
          MaxSize      \* the largest size: 2^32 - 1 in the code

Malformed == -1   \* a string that is not a number

ASSUME L2Assumption == /\ Quotes \cup Quantities \subseteq Nat \cup {Malformed}
                       /\ {QuoteUnit, SizeUnit, MaxSize} \subseteq Nat \ {0}

VARIABLES
  levels,         \* slot -> [aggregate_size, order_count, side]
  best_bid_idx, best_ask_idx,
  live_orders,    \* here: the number of populated levels
  crossed_at_last_boundary,
  bumped,         \* the conditional counters the last call incremented
  feed,           \* history: <<side, slot>> -> the size the feed last gave
  contested       \* history: slots that one side's update found owned by the other

vars == <<levels, best_bid_idx, best_ask_idx, live_orders, crossed_at_last_boundary,
          bumped, feed, contested>>

Sides == {"Buy", "Sell"}
EmptyLevel == [aggregate_size |-> 0, order_count |-> 0, side |-> "None"]

Init == /\ levels = [i \in Levels |-> EmptyLevel]
        /\ best_bid_idx = None /\ best_ask_idx = None
        /\ live_orders = 0 /\ crossed_at_last_boundary = FALSE
        /\ bumped = {}
        /\ feed = [s \in Sides \X Levels |-> 0]
        /\ contested = {}

Populated(i) == levels[i].order_count > 0

(* llround() of a number that is not negative.                             *)
Round(x, unit) == (2 * x + unit) \div (2 * unit)

px_to_ticks(s) == IF s = Malformed THEN -1 ELSE Round(s, QuoteUnit)

(* What is malformed or rounds to zero removes the level; what does not    *)
(* fit the transport is clamped and counted.                               *)
scaled_qty(s) == IF s = Malformed THEN 0
                 ELSE IF Round(s, SizeUnit) > MaxSize THEN MaxSize ELSE Round(s, SizeUnit)
Saturated(s) == IF Round(s, SizeUnit) > MaxSize THEN {"saturated"} ELSE {}

-----------------------------------------------------------------------------
(* set_level(side, price, total_size), by the branch it takes.  Two faults:*)
(* a resize that adds instead of sets, and a side flip that counts a new   *)
(* level.                                                                  *)

Hears(side, idx, size) ==
  /\ feed' = [feed EXCEPT ![<<side, idx>>] = size]
  /\ contested' = IF Populated(idx) /\ levels[idx].side # side
                  THEN contested \cup {idx} ELSE contested

SetOutOfBand(p, sat) ==
  /\ to_index(p) = None
  /\ bumped' = sat \cup {"rejected_out_of_band"}
  /\ UNCHANGED <<levels, best_bid_idx, best_ask_idx, live_orders,
                 crossed_at_last_boundary, feed, contested>>

SetRemove(side, idx) ==
  /\ Populated(idx)
  /\ levels' = [levels EXCEPT ![idx] = EmptyLevel]
  /\ live_orders' = live_orders - 1
  /\ best_bid_idx' = retreat_bid(levels', levels[idx].side, idx, best_bid_idx)
  /\ best_ask_idx' = retreat_ask(levels', levels[idx].side, idx, best_ask_idx)
  /\ bumped' = {}
  /\ Hears(side, idx, 0)
  /\ UNCHANGED crossed_at_last_boundary

SetRemoveEmpty(side, idx) ==
  /\ ~Populated(idx)
  /\ bumped' = {}
  /\ Hears(side, idx, 0)
  /\ UNCHANGED <<levels, best_bid_idx, best_ask_idx, live_orders, crossed_at_last_boundary>>

(* The first size at an empty level.                                       *)
SetFirst(side, idx, size, sat) ==
  /\ ~Populated(idx)
  /\ levels' = [levels EXCEPT ![idx] = [aggregate_size |-> size, order_count |-> 1,
                                        side |-> side]]
  /\ live_orders' = live_orders + 1
  /\ best_bid_idx' = improve_bid(side, idx, best_bid_idx)
  /\ best_ask_idx' = improve_ask(side, idx, best_ask_idx)
  /\ bumped' = sat
  /\ Hears(side, idx, size)
  /\ UNCHANGED crossed_at_last_boundary

SetResizeAdds(side, idx, size, sat) ==
  /\ Populated(idx) /\ levels[idx].side = side
  /\ levels' = [levels EXCEPT ![idx].aggregate_size = @ + size]
  /\ best_bid_idx' = improve_bid(side, idx, best_bid_idx)
  /\ best_ask_idx' = improve_ask(side, idx, best_ask_idx)
  /\ bumped' = sat
  /\ Hears(side, idx, size)
  /\ UNCHANGED <<live_orders, crossed_at_last_boundary>>
SetResize(side, idx, size, sat) ==
  /\ Populated(idx) /\ levels[idx].side = side
  /\ levels' = [levels EXCEPT ![idx].aggregate_size = size]
  /\ best_bid_idx' = improve_bid(side, idx, best_bid_idx)
  /\ best_ask_idx' = improve_ask(side, idx, best_ask_idx)
  /\ bumped' = sat
  /\ Hears(side, idx, size)
  /\ UNCHANGED <<live_orders, crossed_at_last_boundary>>

(* A size for one side at a level the other side owns: the level changes   *)
(* hands, and the pointer that stood on it retreats before the new side's  *)
(* pointer may advance.                                                    *)
SetFlipCounts(side, idx, size, sat) ==
  /\ Populated(idx) /\ levels[idx].side # side
  /\ levels' = [levels EXCEPT ![idx].aggregate_size = size, ![idx].side = side]
  /\ live_orders' = live_orders + 1
  /\ best_bid_idx' = improve_bid(side, idx,
                       retreat_bid(levels', levels[idx].side, idx, best_bid_idx))
  /\ best_ask_idx' = improve_ask(side, idx,
                       retreat_ask(levels', levels[idx].side, idx, best_ask_idx))
  /\ bumped' = sat
  /\ Hears(side, idx, size)
  /\ UNCHANGED crossed_at_last_boundary
SetFlip(side, idx, size, sat) ==
  /\ Populated(idx) /\ levels[idx].side # side
  /\ levels' = [levels EXCEPT ![idx].aggregate_size = size, ![idx].side = side]
  /\ best_bid_idx' = improve_bid(side, idx,
                       retreat_bid(levels', levels[idx].side, idx, best_bid_idx))
  /\ best_ask_idx' = improve_ask(side, idx,
                       retreat_ask(levels', levels[idx].side, idx, best_ask_idx))
  /\ bumped' = sat
  /\ Hears(side, idx, size)
  /\ UNCHANGED <<live_orders, crossed_at_last_boundary>>

SetLevel(side, p, size, sat) ==
  LET idx == to_index(p)
  IN \/ SetOutOfBand(p, sat)
     \/ /\ idx # None /\ size = 0
        /\ SetRemove(side, idx) \/ SetRemoveEmpty(side, idx)
     \/ /\ idx # None /\ size # 0
        /\ \/ SetFirst(side, idx, size, sat)
           \/ SetResize(side, idx, size, sat)
           \/ SetFlip(side, idx, size, sat)

(* One [price, quantity] pair of the feed; a bad price is passed over.  A  *)
(* snapshot's pairs go the same way, but for zeros, which it leaves out.   *)
push_op(side, s, q) == /\ px_to_ticks(s) >= 0
                       /\ SetLevel(side, px_to_ticks(s), scaled_qty(q), Saturated(q))

observe_event_boundary ==
  LET crossed == is_crossed(best_bid_idx, best_ask_idx)
  IN /\ bumped' = IF crossed /\ ~crossed_at_last_boundary THEN {"crossed_observed"} ELSE {}
     /\ crossed_at_last_boundary' = crossed
     /\ UNCHANGED <<levels, best_bid_idx, best_ask_idx, live_orders, feed, contested>>

reset == /\ levels' = [i \in Levels |-> EmptyLevel]
         /\ best_bid_idx' = None /\ best_ask_idx' = None
         /\ live_orders' = 0 /\ crossed_at_last_boundary' = FALSE
         /\ bumped' = {}
         /\ feed' = [s \in Sides \X Levels |-> 0]
         /\ contested' = {}

Next == \/ \E side \in Sides, s \in Quotes, q \in Quantities : push_op(side, s, q)
        \/ observe_event_boundary
        \/ reset

Spec == Init /\ [][Next]_vars

-----------------------------------------------------------------------------
TypeOK == /\ levels \in [Levels -> [aggregate_size : 0..MaxSize, order_count : {0, 1},
                                    side : {"None", "Buy", "Sell"}]]
          /\ best_bid_idx \in Levels \cup {None} /\ best_ask_idx \in Levels \cup {None}
          /\ live_orders \in Nat /\ crossed_at_last_boundary \in BOOLEAN
          /\ bumped \subseteq {"rejected_out_of_band", "saturated", "crossed_observed"}
          /\ feed \in [Sides \X Levels -> 0..MaxSize]
          /\ contested \subseteq Levels

(* The cached pointers are the real top of book after every update, also   *)
(* across crossed books, side flips and removals: best_bid() is the        *)
(* highest Buy level, best_ask() the lowest Sell level, and each is unset  *)
(* exactly when its side is empty.                                         *)
BestExact == /\ best_bid_idx = Highest(Owned(levels, "Buy"))
             /\ best_ask_idx = Lowest(Owned(levels, "Sell"))

(* An empty level has no owner and no size, a populated one has both, and  *)
(* live_orders() is the number of populated levels.                        *)
LevelsConsistent ==
  /\ TypeOK
  /\ \A i \in Levels : /\ ~Populated(i) <=> levels[i].side = "None"
                       /\ ~Populated(i) <=> levels[i].aggregate_size = 0
  /\ live_orders = Cardinality({i \in Levels : Populated(i)})

(* Where the two sides never met at a level, the book is the feed: each    *)
(* side's size at each level is what the feed last said, also when it was  *)
(* said of another exchange price that rounds to the same tick.            *)
SizeOn(side, i) == IF levels[i].side = side THEN levels[i].aggregate_size ELSE 0
MirrorsFeed == \A i \in Levels \ contested : \A s \in Sides : SizeOn(s, i) = feed[<<s, i>>]

(* A ladder of n levels is the n best of its side: what depth_bids() and   *)
(* depth_asks() write, whatever gaps, flipped levels and crossed prices    *)
(* lie on the way, has as its k-th level the one with k-1 better ones      *)
(* ahead of it, by its price, with the size that rests there.              *)
Ranked(ladder, side, n, Better(_, _)) ==
  LET own == Owned(levels, side)
  IN /\ Len(ladder) = IF n < Cardinality(own) THEN n ELSE Cardinality(own)
     /\ \A k \in 1..Len(ladder) :
          \E i \in own : /\ Cardinality({j \in own : Better(j, i)}) = k - 1
                        /\ to_index(ladder[k].price_ticks) = i
                        /\ ladder[k].aggregate_size = SizeOn(side, i)
DepthExact ==
  \A n \in 0..NumLevels :
    /\ Ranked(depth_bids(levels, best_bid_idx, n), "Buy", n, LAMBDA j, i : j > i)
    /\ Ranked(depth_asks(levels, best_ask_idx, n), "Sell", n, LAMBDA j, i : j < i)
=============================================================================
