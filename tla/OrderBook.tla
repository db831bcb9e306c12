----------------------------- MODULE OrderBook -----------------------------
(***************************************************************************)
(* The order-by-order book (src/order_book.cpp): price levels with         *)
(* intrusive doubly-linked FIFO lists of orders, an index from order       *)
(* reference to node, a free-list node pool and cached best pointers.      *)
(*                                                                         *)
(* A node is a number, 0 is nullptr.  apply() is a sequence of calls that  *)
(* edit one book, so the book is a record and each helper of the class is  *)
(* an operator from book to book.  A released node's payload is dead and   *)
(* is blanked; only its `next`, the free-list link, is kept.  Of the       *)
(* cumulative OrderBookStats the model keeps which of the counters that    *)
(* not every event increments the last call did.                           *)
(***************************************************************************)
EXTENDS PriceLevels, LimitBook, FiniteSets

CONSTANTS Ref,         \* order references
          Prices,      \* prices the feed mentions, in and out of the band
          FeedSide,    \* the sides it mentions: a bad side code decodes to None
          Sizes,       \* sizes it mentions
          pool_chunk   \* nodes per pool growth

ASSUME OrderBookAssumption == /\ Prices \subseteq Int /\ Sizes \subseteq Nat
                              /\ FeedSide \subseteq {"None", "Buy", "Sell"}
                              /\ pool_chunk \in Nat \ {0}

VARIABLES
  book,     \* [levels, nodes, free_head, index, bid, ask, live_orders]
  bumped,   \* the conditional counters the last call incremented
  orders,   \* the reference: slot -> its queue of orders
  mixed     \* history: has an order joined a level the other side owned
            \* since the book was last reset?

vars == <<book, bumped, orders, mixed>>

Side == {"None", "Buy", "Sell"}
null == 0

EmptyLevel == [aggregate_size |-> 0, order_count |-> 0, side |-> "None",
               head |-> null, tail |-> null]
FreeNode(next) == [order_ref |-> null, size |-> 0, level_idx |-> null, side |-> "None",
                   prev |-> null, next |-> next]

NewBook == [levels |-> [i \in Levels |-> EmptyLevel], nodes |-> <<>>, free_head |-> null,
            index |-> [r \in {} |-> null], bid |-> None, ask |-> None, live_orders |-> 0]

Init == book = NewBook /\ bumped = {} /\ orders = NoOrders(Levels) /\ mixed = FALSE

-----------------------------------------------------------------------------
(* OrderPool.                                                              *)

grow(b) ==
  LET n == Len(b.nodes)
  IN [b EXCEPT !.nodes = @ \o [k \in 1..pool_chunk |->
                                 FreeNode(IF k = 1 THEN b.free_head ELSE n + k - 1)],
               !.free_head = n + pool_chunk]

(* The book with a node at the head of the free list.                      *)
ready(b) == IF b.free_head = null THEN grow(b) ELSE b

(* release(), and the fault that forgets to put the node on the list.      *)
releaseLeaks(b, o) == [b EXCEPT !.nodes[o] = FreeNode(null)]
release(b, o) == [b EXCEPT !.nodes[o] = FreeNode(b.free_head), !.free_head = o]

reset_all(b) == [b EXCEPT !.nodes = [k \in DOMAIN b.nodes |-> FreeNode(k - 1)],
                          !.free_head = Len(b.nodes)]

-----------------------------------------------------------------------------
(* The lists.                                                              *)

(* A fault: a new order goes to the front of the queue.                    *)
link_front(b, i, o) ==
  LET first == b.levels[i].head
      c == [b EXCEPT !.nodes[o].prev = null, !.nodes[o].next = first, !.levels[i].head = o]
  IN IF first # null THEN [c EXCEPT !.nodes[first].prev = o]
                     ELSE [c EXCEPT !.levels[i].tail = o]
link_back(b, i, o) ==
  LET last == b.levels[i].tail
      c == [b EXCEPT !.nodes[o].prev = last, !.nodes[o].next = null, !.levels[i].tail = o]
  IN IF last # null THEN [c EXCEPT !.nodes[last].next = o]
                    ELSE [c EXCEPT !.levels[i].head = o]

(* unlink(), and the fault that forgets the back pointer of the order      *)
(* behind.                                                                 *)
unlinkOneWay(b, i, o) ==
  LET p == b.nodes[o].prev
      n == b.nodes[o].next
      c == IF p # null THEN [b EXCEPT !.nodes[p].next = n] ELSE [b EXCEPT !.levels[i].head = n]
  IN IF n # null THEN c ELSE [c EXCEPT !.levels[i].tail = p]
unlink(b, i, o) ==
  LET p == b.nodes[o].prev
      n == b.nodes[o].next
      c == IF p # null THEN [b EXCEPT !.nodes[p].next = n] ELSE [b EXCEPT !.levels[i].head = n]
  IN IF n # null THEN [c EXCEPT !.nodes[n].prev = p] ELSE [c EXCEPT !.levels[i].tail = p]

-----------------------------------------------------------------------------
(* on_add(): refused when out of band or when the reference is live.       *)
Admits(b, ref, p) == to_index(p) # None /\ ref \notin DOMAIN b.index
AddCounters(p) == IF to_index(p) = None THEN {"rejected_out_of_band"} ELSE {}

insert(b, ref, side, p, size) ==
  LET i == to_index(p)
      r == ready(b)
      o == r.free_head
      alloc == [r EXCEPT !.free_head = r.nodes[o].next,
                         !.nodes[o] = [order_ref |-> ref, size |-> size, level_idx |-> i,
                                       side |-> side, prev |-> null, next |-> null],
                         !.levels[i].side = IF r.levels[i].order_count = 0
                                            THEN side ELSE @]
      linked == link_back(alloc, i, o)
  IN [linked EXCEPT
        !.levels[i].aggregate_size = @ + size,
        !.levels[i].order_count = @ + 1,
        !.index = [x \in DOMAIN @ \cup {ref} |-> IF x = ref THEN o ELSE @[x]],
        !.live_orders = @ + 1,
        !.bid = improve_bid(side, i, @),
        !.ask = improve_ask(side, i, @)]

on_add(b, ref, side, p, size) == IF Admits(b, ref, p) THEN insert(b, ref, side, p, size) ELSE b

remove_order(b, o) ==
  LET n == b.nodes[o]
      i == n.level_idx
      u == unlink(b, i, o)
      d == [u EXCEPT !.levels[i].aggregate_size = @ - n.size,
                     !.levels[i].order_count = @ - 1,
                     !.index = [x \in DOMAIN @ \ {n.order_ref} |-> @[x]],
                     !.live_orders = @ - 1]
      f == release(d, o)
      e == [f EXCEPT !.levels[i].side = "None", !.levels[i].aggregate_size = 0]
  IN IF f.levels[i].order_count > 0 THEN f
     ELSE [e EXCEPT !.bid = retreat_bid(e.levels, n.side, i, @),
                    !.ask = retreat_ask(e.levels, n.side, i, @)]

reduce_order(b, o, shares) ==
  LET dec == IF shares < b.nodes[o].size THEN shares ELSE b.nodes[o].size
      c == [b EXCEPT !.levels[b.nodes[o].level_idx].aggregate_size = @ - dec,
                     !.nodes[o].size = @ - dec]
  IN IF c.nodes[o].size = 0 THEN remove_order(c, o) ELSE c

-----------------------------------------------------------------------------
(* apply(ev): the dispatch, then the crossed check.                        *)

Known(ref) == ref \in DOMAIN book.index
Counters(S) == S \cup
                 (IF is_crossed(book'.bid, book'.ask) THEN {"crossed_observed"} ELSE {})

(* Does putting an order of this side at price p join the other side?      *)
Joins(b, ref, side, p) == /\ Admits(b, ref, p)
                          /\ b.levels[to_index(p)].order_count > 0
                          /\ b.levels[to_index(p)].side # side

(* The reference's answer to on_add().                                     *)
Queued(q, ref, side, p, size) ==
  IF to_index(p) = None \/ ref \in Refs(q) THEN q
  ELSE Enqueue(q, to_index(p), [ref |-> ref, side |-> side, size |-> size])

ApplyAdd(ref, side, p, size) ==
  /\ book' = on_add(book, ref, side, p, size)
  /\ bumped' = Counters(AddCounters(p))
  /\ orders' = Queued(orders, ref, side, p, size)
  /\ mixed' = (mixed \/ Joins(book, ref, side, p))

(* Cancel, Execute, Delete and Replace of a reference that is not live.    *)
ApplyUnknown(ref) == /\ ~Known(ref)
                     /\ UNCHANGED <<book, orders, mixed>>
                     /\ bumped' = Counters({"unknown_ref"})

(* Cancel, Execute and ExecuteWithPrice do the same to the book.           *)
ApplyReduce(ref, size) == /\ Known(ref)
                          /\ book' = reduce_order(book, book.index[ref], size)
                          /\ bumped' = Counters({})
                          /\ orders' = Reduce(orders, ref, size)
                          /\ UNCHANGED mixed

ApplyDelete(ref) == /\ Known(ref)
                    /\ book' = remove_order(book, book.index[ref])
                    /\ bumped' = Counters({})
                    /\ orders' = Without(orders, ref)
                    /\ UNCHANGED mixed

ApplyReplace(ref, new_ref, p, size) ==
  /\ Known(ref)
  /\ LET side == book.nodes[book.index[ref]].side
         b == remove_order(book, book.index[ref])
     IN /\ book' = on_add(b, new_ref, side, p, size)
        /\ bumped' = Counters(AddCounters(p))
        /\ mixed' = (mixed \/ Joins(b, new_ref, side, p))
  /\ orders' = Queued(Without(orders, ref), new_ref, TheOrder(orders, ref).side, p, size)

(* Trade, SystemEvent and Unknown leave the book alone.                    *)
ApplyTapeOnly == /\ UNCHANGED <<book, orders, mixed>>
                 /\ bumped' = Counters({})

reset == /\ book' = [reset_all(book) EXCEPT !.levels = NewBook.levels, !.index = NewBook.index,
                                            !.bid = None, !.ask = None, !.live_orders = 0]
         /\ bumped' = {}
         /\ orders' = NoOrders(Levels)
         /\ mixed' = FALSE

apply == \/ \E r \in Ref, s \in FeedSide, p \in Prices, z \in Sizes : ApplyAdd(r, s, p, z)
         \/ \E r \in Ref : \/ ApplyUnknown(r)
                           \/ ApplyDelete(r)
                           \/ \E z \in Sizes : ApplyReduce(r, z)
                           \/ \E q \in Ref, p \in Prices, z \in Sizes : ApplyReplace(r, q, p, z)
         \/ ApplyTapeOnly

Next == apply \/ reset

Spec == Init /\ [][Next]_vars

-----------------------------------------------------------------------------
Level == [aggregate_size : Nat, order_count : Nat, side : Side, head : Nat, tail : Nat]
Node == [order_ref : Ref \cup {null}, size : Nat, level_idx : Nat, side : Side,
         prev : Nat, next : Nat]
Books(n) == [levels : [Levels -> Level], nodes : Seq(Node), free_head : 0..n,
             index : UNION {[S -> 1..n] : S \in SUBSET Ref},
             bid : Levels \cup {None}, ask : Levels \cup {None}, live_orders : Nat]
Order == [ref : Ref, side : Side, size : Nat]
TypeOK == /\ book \in Books(Len(book.nodes)) /\ orders \in [Levels -> Seq(Order)] /\ mixed \in BOOLEAN
          /\ bumped \subseteq {"rejected_out_of_band", "unknown_ref", "crossed_observed"}

(* The node of the k-th order the reference has at slot i, null beyond     *)
(* either end of the queue.                                                *)
NodeAt(b, q, i, k) == IF k \in 1..Len(q[i]) THEN b.index[q[i][k].ref] ELSE null

(* The book holds exactly the orders of the reference, at each slot in     *)
(* time priority: from `head' on, `next' leads through the nodes of those  *)
(* orders, and no further.  No event loses, duplicates or reorders one, a  *)
(* partial reduction keeps its place and a replace goes to the back.       *)
Holds(b, q) ==
  /\ DOMAIN b.index = Refs(q)
  /\ \A i \in Levels :
       /\ b.levels[i].head = NodeAt(b, q, i, 1)
       /\ \A k \in 1..Len(q[i]) :
            LET n == b.nodes[NodeAt(b, q, i, k)]
            IN /\ n.order_ref = q[i][k].ref /\ n.side = q[i][k].side /\ n.size = q[i][k].size
               /\ n.next = NodeAt(b, q, i, k + 1)
MatchesReference == Holds(book, orders)

(* Every level's list is sound backwards too: `prev' leads from `tail'     *)
(* through the same nodes to the front, each knows its level, order_count  *)
(* is their number and the cached aggregate the sum of their sizes.        *)
Backed(b, q) ==
  \A i \in Levels :
    LET l == b.levels[i]
    IN /\ l.order_count = Len(q[i]) /\ AddUpTo(q[i], l.aggregate_size)
       /\ l.tail = NodeAt(b, q, i, Len(q[i]))
       /\ \A k \in 1..Len(q[i]) :
            LET n == b.nodes[NodeAt(b, q, i, k)]
            IN n.level_idx = i /\ n.prev = NodeAt(b, q, i, k - 1)
ListsSound == TypeOK /\ Backed(book, orders)

(* No node is leaked, shared or dangling: each one is either the index's   *)
(* node of one live reference, or once on the free list, which leads from  *)
(* `free_head' through all others; live_orders() counts the live ones.     *)
Live(b) == {b.index[r] : r \in DOMAIN b.index}
FreeList(b, f, n) ==
  /\ f \in [1..n -> 1..Len(b.nodes)]
  /\ {f[k] : k \in 1..n} = 1..Len(b.nodes) \ Live(b)
  /\ \A j, k \in 1..n : f[j] = f[k] => j = k
  /\ b.free_head = IF n = 0 THEN null ELSE f[1]
  /\ \A k \in 1..n : b.nodes[f[k]].next = IF k = n THEN null ELSE f[k + 1]
Partitioned(b) ==
  /\ \A r, s \in DOMAIN b.index : b.index[r] = b.index[s] => r = s
  /\ b.live_orders = Cardinality(DOMAIN b.index)
  /\ \E n \in 0..Len(b.nodes) : \E f \in [1..n -> 1..Len(b.nodes)] : FreeList(b, f, n)
PoolPartitioned == Partitioned(book)

(* Why they hold.  A reference is in one place of one queue, and as long   *)
(* as no order has joined a level of the other side, all orders of a level *)
(* are of the level's side, so that the cached pointers are the best of    *)
(* the reference.                                                          *)
Distinct(q) ==
  \A i, j \in Levels : \A k \in 1..Len(q[i]), l \in 1..Len(q[j]) :
    q[i][k].ref = q[j][l].ref => i = j /\ k = l
OneSided(b, q) == \A i \in Levels : \A k \in 1..Len(q[i]) : q[i][k].side = b.levels[i].side
BestCached(b, q) == /\ b.bid = Highest(SlotsOf(q, "Buy"))
                    /\ b.ask = Lowest(SlotsOf(q, "Sell"))

(* The inductive invariant of the book.                                    *)
BookInv == /\ TypeOK /\ Distinct(orders) /\ IsFiniteSet(DOMAIN book.index)
           /\ Holds(book, orders) /\ Backed(book, orders) /\ Partitioned(book)
           /\ ~mixed => OneSided(book, orders) /\ BestCached(book, orders)
=============================================================================
