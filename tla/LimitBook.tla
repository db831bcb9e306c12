----------------------------- MODULE LimitBook -----------------------------
(***************************************************************************)
(* What an order-by-order book promises, as operators on a function from   *)
(* price slot to the queue of its orders [ref, side, size] in time         *)
(* priority: a reduction keeps an order's place, a replace gives it up.    *)
(* OrderBook, with its node pool, linked lists and index, is compared with *)
(* it after every event.                                                   *)
(***************************************************************************)
EXTENDS Integers, SequencesExt

NoOrders(slots) == [i \in slots |-> <<>>]

Refs(q) == UNION {{q[i][k].ref : k \in 1..Len(q[i])} : i \in DOMAIN q}

TheOrder(q, r) == CHOOSE o \in UNION {{q[i][k] : k \in 1..Len(q[i])} : i \in DOMAIN q} : o.ref = r

Enqueue(q, i, o) == [q EXCEPT ![i] = Append(@, o)]

Without(q, r) ==
  [i \in DOMAIN q |-> IF \E k \in 1..Len(q[i]) : q[i][k].ref = r
                      THEN RemoveAt(q[i], CHOOSE k \in 1..Len(q[i]) : q[i][k].ref = r)
                      ELSE q[i]]

(* n shares of the order go; an order with none left goes with them.       *)
Reduce(q, r, n) ==
  IF TheOrder(q, r).size <= n THEN Without(q, r)
  ELSE [i \in DOMAIN q |-> [k \in 1..Len(q[i]) |->
          IF q[i][k].ref = r THEN [q[i][k] EXCEPT !.size = @ - n] ELSE q[i][k]]]

(* The slots where a side has an order.                                    *)
SlotsOf(q, side) == {i \in DOMAIN q : \E k \in 1..Len(q[i]) : q[i][k].side = side}

(* The sizes of the orders add up to `total`: their running totals lead    *)
(* from 0 to it.                                                           *)
AddUpTo(orders, total) ==
  \E run \in [0..Len(orders) -> 0..total] :
    /\ run[0] = 0 /\ run[Len(orders)] = total
    /\ \A k \in 1..Len(orders) : run[k] = run[k - 1] + orders[k].size
=============================================================================
