----------------------------- MODULE Publisher -----------------------------
(***************************************************************************)
(* The top-of-book publisher (publisher.hpp) on the order-by-order book,   *)
(* as the book thread drives the pair: every apply() is followed by        *)
(* on_update() (apply_ev in src/pipeline.cpp); a snapshot reload resets    *)
(* the book alone, so the publisher keeps the top of the book it replaces. *)
(* The counts of updates and of L1 deltas are left out: nothing reads them *)
(* but the report.                                                         *)
(***************************************************************************)
EXTENDS OrderBook

VARIABLES
  last_bid, last_ask,   \* the retained L1 levels
  fresh                 \* history: an update since the book was last reset?

pubVars == <<vars, last_bid, last_ask, fresh>>

PubInit == /\ Init
           /\ last_bid = NoLevel /\ last_ask = NoLevel
           /\ fresh = FALSE

(* The L1 comparison, and the fault that looks at prices alone.            *)
samePrice(a, b) == a.valid = b.valid /\ a.price_ticks = b.price_ticks
same(a, b) == /\ a.valid = b.valid /\ a.price_ticks = b.price_ticks
              /\ a.aggregate_size = b.aggregate_size

on_update ==
  LET bid == best_bid(book'.levels, book'.bid)
      ask == best_ask(book'.levels, book'.ask)
      changed == ~same(bid, last_bid) \/ ~same(ask, last_ask)
  IN /\ last_bid' = IF changed THEN bid ELSE last_bid
     /\ last_ask' = IF changed THEN ask ELSE last_ask

apply_ev == apply /\ on_update /\ fresh' = TRUE

Reload == /\ reset
          /\ fresh' = FALSE
          /\ UNCHANGED <<last_bid, last_ask>>

PubNext == apply_ev \/ Reload

PubSpec == PubInit /\ [][PubNext]_pubVars

-----------------------------------------------------------------------------
(* What is published is the top of the reference book: after any update,   *)
(* as long as no order joined a level of the other side, the retained bid  *)
(* is valid exactly when a Buy order rests, its price is that of the       *)
(* highest slot with one and its size the sum of the orders there, and     *)
(* likewise for the ask: through crossed books, partial fills, replaces,   *)
(* reloads and the retreats of the cached pointers.                        *)
Shows(level, slot) == /\ level.valid <=> slot # None
                      /\ level.valid => /\ to_index(level.price_ticks) = slot
                                        /\ AddUpTo(orders[slot], level.aggregate_size)
TopPublished ==
  fresh /\ ~mixed => /\ Shows(last_bid, Highest(SlotsOf(orders, "Buy")))
                     /\ Shows(last_ask, Lowest(SlotsOf(orders, "Sell")))

(* Why it holds: what is retained shows what the book's cached pointers    *)
(* do, in all that the comparison looks at.                                *)
PubInv == /\ BookInv
          /\ fresh => /\ same(best_bid(book.levels, book.bid), last_bid)
                      /\ same(best_ask(book.levels, book.ask), last_ask)
=============================================================================
