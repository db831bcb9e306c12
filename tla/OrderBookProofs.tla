-------------------------- MODULE OrderBookProofs --------------------------
(***************************************************************************)
(* Proofs about the order-by-order book and its publisher, for any price   *)
(* band, tick, set of references, prices, sizes and sides of the feed, and *)
(* any pool chunk: the linked lists hold the orders of the reference in    *)
(* time priority, the node pool is partitioned, the cached sums and best   *)
(* pointers are exact, and what is published is the top of the reference.  *)
(*                                                                         *)
(* The helpers of the class are operators from book to book, so the facts  *)
(* about them speak of any book b and any queues q; a replace is a removal *)
(* followed by an insertion.                                               *)
(***************************************************************************)
EXTENDS Publisher, FiniteSetTheorems, SequenceTheorems, TLAPS

(* The facts about the price band and the best of a set of levels are      *)
(* those of L2BookProofs; the depth feed's own state plays no part.        *)
Band == INSTANCE L2BookProofs
        WITH Quotes <- {}, QuoteUnit <- 1, Quantities <- {}, SizeUnit <- 1, MaxSize <- 1,
             levels <- {}, best_bid_idx <- 0, best_ask_idx <- 0, live_orders <- 0,
             crossed_at_last_boundary <- FALSE, bumped <- {}, feed <- {}, contested <- {}

LEMMA BandConstants ==
  /\ {} \cup {} \subseteq Nat \cup {-1} /\ {1, 1, 1} \subseteq Nat \ {0}
  /\ min_price_ticks \in Int /\ max_price_ticks \in Int /\ tick \in Int
BY PriceBandAssumption

(* Both names of the band mean the same.                                   *)
LEMMA SameBand == /\ Levels = Band!Levels /\ None = Band!None /\ NumLevels = Band!NumLevels
                  /\ Tick = Band!Tick /\ MaxPrice = Band!MaxPrice
                  /\ \A p : to_index(p) = Band!to_index(p) /\ to_price(p) = Band!to_price(p)
                  /\ \A S : Highest(S) = Band!Highest(S) /\ Lowest(S) = Band!Lowest(S)
BY Zenon DEF Levels, Band!Levels, None, Band!None, NumLevels, Band!NumLevels, Tick, Band!Tick,
       MaxPrice, Band!MaxPrice, to_index, Band!to_index, to_price, Band!to_price,
       Highest, Band!Highest, Lowest, Band!Lowest

LEMMA LeastNat == ASSUME NEW T, T \subseteq Nat, T # {}
                  PROVE  \E x \in T : \A y \in T : x <= y
BY BandConstants, Band!LeastNat DEF Band!Malformed

LEMMA LevelNumbers == /\ Levels \subseteq Nat /\ None \notin Levels
                      /\ min_price_ticks \in Int /\ MaxPrice \in Int /\ min_price_ticks <= MaxPrice
                      /\ Tick \in Nat \ {0} /\ NumLevels \in Nat \ {0}
BY BandConstants, SameBand, Band!LevelsFinite, Band!BandType DEF Band!Malformed

LEMMA IndexType == ASSUME NEW p \in Int, to_index(p) # None PROVE to_index(p) \in Levels
BY BandConstants, SameBand, Band!IndexType DEF Band!Malformed

(* The price of a level is in the band and leads back to it.               *)
LEMMA PriceOfLevel == ASSUME NEW i \in Levels PROVE to_index(to_price(i)) = i
BY BandConstants, SameBand, Band!PriceOfLevel DEF Band!Malformed

LEMMA BestTypes == ASSUME NEW S \in SUBSET Levels
                   PROVE  Highest(S) \in Levels \cup {None} /\ Lowest(S) \in Levels \cup {None}
<1>1. CASE S = {}
  BY <1>1 DEF Highest, Lowest
<1>2. CASE S # {}
  BY <1>2, BandConstants, SameBand, Band!HighestExists, Band!LowestExists DEF Band!Malformed
<1>. QED BY <1>1, <1>2

LEMMA HighestAdds ==
  ASSUME NEW B \in SUBSET Levels, NEW i \in Levels
  PROVE  Highest(B \cup {i}) = IF Highest(B) = None \/ i > Highest(B) THEN i ELSE Highest(B)
BY BandConstants, SameBand, Band!HighestAdds DEF Band!Malformed

LEMMA LowestAdds ==
  ASSUME NEW B \in SUBSET Levels, NEW i \in Levels
  PROVE  Lowest(B \cup {i}) = IF Lowest(B) = None \/ i < Lowest(B) THEN i ELSE Lowest(B)
BY BandConstants, SameBand, Band!LowestAdds DEF Band!Malformed

LEMMA HighestRemoves ==
  ASSUME NEW B \in SUBSET Levels, NEW i \in B
  PROVE  Highest(B \ {i}) = IF i = Highest(B) THEN Highest({j \in B \ {i} : j <= i - 1})
                                              ELSE Highest(B)
BY BandConstants, SameBand, Band!HighestRemoves DEF Band!Malformed

LEMMA LowestRemoves ==
  ASSUME NEW B \in SUBSET Levels, NEW i \in B
  PROVE  Lowest(B \ {i}) = IF i = Lowest(B) THEN Lowest({j \in B \ {i} : j >= i + 1})
                                            ELSE Lowest(B)
BY BandConstants, SameBand, Band!LowestRemoves DEF Band!Malformed

-----------------------------------------------------------------------------
(* Queues as sequences.                                                    *)

(* Removing the k-th element moves those behind it up by one.              *)
LEMMA RemoveAtFacts ==
  ASSUME NEW S, NEW s \in Seq(S), NEW k \in 1..Len(s)
  PROVE  /\ RemoveAt(s, k) \in Seq(S) /\ Len(RemoveAt(s, k)) = Len(s) - 1
         /\ \A j \in 1..(Len(s) - 1) : RemoveAt(s, k)[j] = IF j < k THEN s[j] ELSE s[j + 1]
<1>. DEFINE u == SubSeq(s, 1, k - 1)
            v == SubSeq(s, k + 1, Len(s))
<1>1. Len(s) \in Nat /\ \A j \in 1..Len(s) : s[j] \in S
  BY LenProperties
<1>2. /\ 1 \in Int /\ k - 1 \in Int /\ k + 1 \in Int /\ Len(s) \in Int
      /\ \A j \in 1..(k - 1) : s[j] \in S
      /\ \A j \in (k + 1)..Len(s) : s[j] \in S
  BY <1>1, SMT
<1>3. /\ u \in Seq(S) /\ Len(u) = (IF 1 <= k - 1 THEN k - 1 - 1 + 1 ELSE 0)
      /\ \A j \in 1..(k - 1 - 1 + 1) : u[j] = s[1 + j - 1]
  BY <1>2, SubSeqProperties
<1>4. /\ v \in Seq(S) /\ Len(v) = (IF k + 1 <= Len(s) THEN Len(s) - (k + 1) + 1 ELSE 0)
      /\ \A j \in 1..(Len(s) - (k + 1) + 1) : v[j] = s[k + 1 + j - 1]
  BY <1>2, SubSeqProperties
<1>5. /\ Len(u) = k - 1 /\ \A j \in 1..(k - 1) : u[j] = s[j]
      /\ Len(v) = Len(s) - k /\ \A j \in 1..(Len(s) - k) : v[j] = s[j + k]
  BY <1>1, <1>3, <1>4, SMT
<1>6. /\ u \o v \in Seq(S) /\ Len(u \o v) = Len(u) + Len(v)
      /\ \A j \in 1..(Len(u) + Len(v)) :
           (u \o v)[j] = IF j <= Len(u) THEN u[j] ELSE v[j - Len(u)]
  BY <1>3, <1>4, ConcatProperties, Zenon
<1>. HIDE DEF u, v
<1>7. Len(u \o v) = Len(s) - 1
  BY <1>1, <1>5, <1>6, SMT
<1>8. ASSUME NEW j \in 1..(Len(s) - 1) PROVE (u \o v)[j] = IF j < k THEN s[j] ELSE s[j + 1]
  <2>1. (u \o v)[j] = IF j <= k - 1 THEN u[j] ELSE v[j - (k - 1)]
    BY <1>1, <1>5, <1>6, SMTT(40)
  <2>2. CASE j < k
    BY <1>5, <2>1, <2>2, SMT
  <2>3. CASE ~(j < k)
    <3>1. j - (k - 1) \in 1..(Len(s) - k) /\ j - (k - 1) + k = j + 1
      BY <1>1, <2>3, SMT
    <3>2. (u \o v)[j] = v[j - (k - 1)]
      BY <2>1, <2>3, SMT
    <3>. QED BY <1>5, <2>3, <3>1, <3>2
  <2>. QED BY <2>2, <2>3
<1>9. RemoveAt(s, k) = u \o v
  BY DEF RemoveAt, u, v
<1>. QED BY <1>6, <1>7, <1>8, <1>9

LEMMA AppendFacts ==
  ASSUME NEW S, NEW s \in Seq(S), NEW x \in S
  PROVE  /\ Append(s, x) \in Seq(S) /\ Len(Append(s, x)) = Len(s) + 1
         /\ \A j \in 1..(Len(s) + 1) : Append(s, x)[j] = IF j = Len(s) + 1 THEN x ELSE s[j]
<1>1. Len(s) \in Nat
  BY LenProperties
<1>. QED BY <1>1, AppendProperties

-----------------------------------------------------------------------------
(* The sizes of a queue and their sum.                                     *)

LEMMA RunsRise ==
  ASSUME NEW n \in Nat, NEW run \in [0..n -> Nat], \A x \in 1..n : run[x - 1] <= run[x],
         NEW j \in 0..n, NEW k \in j..n
  PROVE  run[j] <= run[k]
<1>. DEFINE T == {x \in j..n : run[x] < run[j]}
<1>. SUFFICES ASSUME ~(run[j] <= run[k]) PROVE FALSE
  OBVIOUS
<1>0. \A x \in j..n : run[x] \in Nat /\ x \in Nat
  BY SMT
<1>1. k \in T /\ T \subseteq Nat
  BY <1>0, SMT
<1>2. PICK x \in T : \A y \in T : x <= y
  BY <1>1, LeastNat
<1>3. x # j /\ x \in j..n
  BY <1>0, <1>2, SMT
<1>4. x - 1 \in j..n /\ x \in 1..n /\ ~(x <= x - 1)
  BY <1>3, SMT
<1>5. x - 1 \notin T
  BY <1>2, <1>4
<1>6. run[x - 1] \in Nat /\ run[x] \in Nat /\ run[j] \in Nat /\ run[x] < run[j]
      /\ ~(run[x - 1] < run[j]) /\ run[x - 1] <= run[x]
  BY <1>0, <1>2, <1>4, <1>5, SMT
<1>. QED BY <1>6, SMT

(* The running totals of a queue, and how they grow.                       *)
LEMMA RunningTotals ==
  ASSUME NEW s \in Seq(Order), NEW total \in Nat, NEW run \in [0..Len(s) -> 0..total],
         \A k \in 1..Len(s) : run[k] = run[k - 1] + s[k].size
  PROVE  /\ Len(s) \in Nat /\ run \in [0..Len(s) -> Nat]
         /\ \A k \in 1..Len(s) : s[k].size \in Nat /\ run[k - 1] \in Nat /\ run[k] \in Nat
         /\ \A j \in 0..Len(s) : \A k \in j..Len(s) : run[j] <= run[k]
<1>1. Len(s) \in Nat /\ \A k \in 1..Len(s) : s[k] \in Order
  BY LenProperties
<1>2. \A k \in 1..Len(s) : s[k].size \in Nat
  BY <1>1 DEF Order
<1>3. run \in [0..Len(s) -> Nat]
  <2>1. 0..total \subseteq Nat
    BY SMT
  <2>. QED BY <2>1
<1>4. \A k \in 1..Len(s) : k - 1 \in 0..Len(s) /\ k \in 0..Len(s)
  BY <1>1, SMT
<1>5. \A k \in 1..Len(s) : run[k - 1] \in Nat /\ run[k] \in Nat /\ run[k - 1] <= run[k]
  <2>. TAKE k \in 1..Len(s)
  <2>1. run[k - 1] \in Nat /\ run[k] \in Nat /\ s[k].size \in Nat
    BY <1>2, <1>3, <1>4
  <2>. QED BY <2>1, SMT
<1>6. \A j \in 0..Len(s) : \A k \in j..Len(s) : run[j] <= run[k]
  BY <1>1, <1>3, <1>5, RunsRise
<1>. QED BY <1>1, <1>2, <1>3, <1>5, <1>6

LEMMA SumOfNone == ASSUME NEW s, Len(s) = 0 PROVE AddUpTo(s, 0)
<1>. DEFINE run == [x \in 0..0 |-> 0]
<1>1. run \in [0..0 -> 0..0] /\ run[0] = 0
  BY SMT
<1>2. 1..0 = {}
  BY SMT
<1>. HIDE DEF run
<1>. QED BY <1>1, <1>2, Zenon DEF AddUpTo

(* An order joins the queue.                                               *)
LEMMA SumAppends ==
  ASSUME NEW s \in Seq(Order), NEW o \in Order, NEW total \in Nat, AddUpTo(s, total)
  PROVE  AddUpTo(Append(s, o), total + o.size)
<1>. DEFINE t == Append(s, o)
            n == Len(s)
<1>1. PICK run \in [0..n -> 0..total] :
        /\ run[0] = 0 /\ run[n] = total
        /\ \A k \in 1..n : run[k] = run[k - 1] + s[k].size
  BY DEF AddUpTo
<1>2. /\ n \in Nat /\ run \in [0..n -> Nat]
      /\ \A j \in 0..n : \A k \in j..n : run[j] <= run[k]
  BY <1>1, RunningTotals
<1>3. o.size \in Nat
  BY DEF Order
<1>. DEFINE z == o.size
            more == [x \in 0..(n + 1) |-> IF x = n + 1 THEN total + z ELSE run[x]]
<1>4. /\ Len(t) = n + 1
      /\ \A j \in 1..(n + 1) : t[j] = IF j = n + 1 THEN o ELSE s[j]
  BY AppendFacts
<1>. HIDE DEF t, n, z
<1>5. more \in [0..(n + 1) -> 0..(total + z)]
  <2>. SUFFICES ASSUME NEW x \in 0..(n + 1) PROVE more[x] \in 0..(total + z)
    OBVIOUS
  <2>1. CASE x = n + 1
    BY <1>3, <2>1, SMT DEF z
  <2>2. CASE x # n + 1
    <3>1. x \in 0..n
      BY <1>2, <2>2, SMT
    <3>2. run[x] \in 0..total
      BY <1>1, <3>1
    <3>. QED BY <1>3, <2>2, <3>2, SMT DEF z
  <2>. QED BY <2>1, <2>2
<1>6. more[0] = 0 /\ more[n + 1] = total + z
  BY <1>1, <1>2, SMT
<1>7. ASSUME NEW k \in 1..(n + 1) PROVE more[k] = more[k - 1] + t[k].size
  <2>1. CASE k = n + 1
    <3>1. t[k] = o /\ more[k - 1] = run[n] /\ more[k] = total + z
      BY <1>2, <1>4, <2>1, SMT
    <3>. QED BY <1>1, <3>1 DEF z
  <2>2. CASE k # n + 1
    <3>1. t[k] = s[k] /\ more[k - 1] = run[k - 1] /\ more[k] = run[k] /\ k \in 1..n
      BY <1>2, <1>4, <2>2, SMT
    <3>. QED BY <1>1, <3>1
  <2>. QED BY <2>1, <2>2
<1>. HIDE DEF more
<1>8. AddUpTo(t, total + z)
  BY <1>4, <1>5, <1>6, <1>7, Zenon DEF AddUpTo
<1>. QED BY <1>8 DEF t, z

(* An order leaves it.                                                     *)
LEMMA SumRemoves ==
  ASSUME NEW s \in Seq(Order), NEW total \in Nat, AddUpTo(s, total), NEW k \in 1..Len(s)
  PROVE  s[k].size <= total /\ AddUpTo(RemoveAt(s, k), total - s[k].size)
<1>. DEFINE t == RemoveAt(s, k)
            n == Len(s)
            z == s[k].size
<1>1. PICK run \in [0..n -> 0..total] :
        /\ run[0] = 0 /\ run[n] = total
        /\ \A j \in 1..n : run[j] = run[j - 1] + s[j].size
  BY DEF AddUpTo
<1>2. /\ n \in Nat /\ run \in [0..n -> Nat]
      /\ \A j \in 1..n : s[j].size \in Nat /\ run[j - 1] \in Nat /\ run[j] \in Nat
      /\ \A j \in 0..n : \A l \in j..n : run[j] <= run[l]
  BY <1>1, RunningTotals
<1>3. /\ Len(t) = n - 1
      /\ \A j \in 1..(n - 1) : t[j] = IF j < k THEN s[j] ELSE s[j + 1]
  BY RemoveAtFacts
<1>. DEFINE less == [x \in 0..(n - 1) |-> IF x < k THEN run[x] ELSE run[x + 1] - z]
<1>. HIDE DEF t, n, z
<1>4. k \in 1..n /\ z \in Nat /\ run[k] = run[k - 1] + z
  BY <1>1, <1>2 DEF z, n
<1>5. \A x \in 0..n : run[x] \in Nat /\ run[x] <= total
  BY <1>1, SMT
<1>6. \A x \in 0..(k - 1) : run[x] <= run[k - 1]
  <2>1. \A x \in 0..(k - 1) : x \in 0..n /\ k - 1 \in x..n
    BY <1>2, <1>4, SMT
  <2>. QED BY <1>2, <2>1
<1>7. \A x \in k..n : run[k] <= run[x]
  <2>1. k \in 0..n
    BY <1>2, <1>4, SMT
  <2>. QED BY <1>2, <2>1
<1>8. run[k - 1] \in Nat /\ run[k] \in Nat /\ run[k] <= total
  BY <1>2, <1>4, <1>5, SMT
<1>9. less \in [0..(n - 1) -> 0..(total - z)]
  <2>. SUFFICES ASSUME NEW x \in 0..(n - 1) PROVE less[x] \in 0..(total - z)
    OBVIOUS
  <2>1. CASE x < k
    <3>1. x \in 0..(k - 1) /\ x \in 0..n /\ less[x] = run[x]
      BY <1>2, <1>4, <2>1, SMT
    <3>2. run[x] \in Nat /\ run[x] <= run[k - 1]
      BY <1>5, <1>6, <3>1
    <3>. QED BY <1>4, <1>8, <3>1, <3>2, SMT
  <2>2. CASE ~(x < k)
    <3>1. x + 1 \in k..n /\ x + 1 \in 0..n /\ less[x] = run[x + 1] - z
      BY <1>2, <1>4, <2>2, SMT
    <3>2. run[x + 1] \in Nat /\ run[k] <= run[x + 1] /\ run[x + 1] <= total
      BY <1>5, <1>7, <3>1
    <3>. QED BY <1>4, <1>8, <3>1, <3>2, SMTT(40)
  <2>. QED BY <2>1, <2>2
<1>10. less[0] = 0 /\ less[n - 1] = total - z
  <2>1. less[0] = 0
    BY <1>1, <1>2, <1>4, SMT
  <2>2. CASE n - 1 < k
    <3>1. k = n /\ less[n - 1] = run[k - 1]
      BY <1>2, <1>4, <2>2, SMT
    <3>2. run[k] = total
      BY <1>1, <3>1
    <3>. QED BY <1>4, <1>8, <2>1, <3>1, <3>2, SMTT(40)
  <2>3. CASE ~(n - 1 < k)
    <3>1. less[n - 1] = run[n] - z
      BY <1>2, <1>4, <2>3, SMT
    <3>. QED BY <1>1, <2>1, <3>1
  <2>. QED BY <2>2, <2>3
<1>11. ASSUME NEW j \in 1..(n - 1) PROVE less[j] = less[j - 1] + t[j].size
  <2>1. CASE j < k
    <3>0. j \in 1..n /\ j \in 0..(n - 1) /\ j - 1 \in 0..(n - 1) /\ j - 1 < k
      BY <1>2, <1>4, <2>1, SMT
    <3>1. t[j] = s[j] /\ less[j - 1] = run[j - 1] /\ less[j] = run[j] /\ j \in 1..n
      BY <1>3, <2>1, <3>0
    <3>. QED BY <1>1, <3>1
  <2>2. CASE j = k
    <3>1. t[j] = s[j + 1] /\ less[j - 1] = run[k - 1] /\ less[j] = run[j + 1] - z
          /\ j + 1 \in 1..n /\ j + 1 - 1 = k
      BY <1>2, <1>3, <1>4, <2>2, SMT
    <3>2. run[j + 1] = run[k] + s[j + 1].size /\ s[j + 1].size \in Nat /\ run[j + 1] \in Nat
      BY <1>1, <1>2, <3>1
    <3>3. t[j].size = s[j + 1].size
      BY <3>1
    <3>. DEFINE a == run[k - 1]
                b == run[k]
                c == run[j + 1]
                e == s[j + 1].size
    <3>4. a \in Nat /\ b \in Nat /\ c \in Nat /\ e \in Nat /\ b = a + z /\ c = b + e
      BY <1>4, <1>8, <3>2
    <3>. HIDE DEF a, b, c, e
    <3>5. c - z = a + e
      BY <1>4, <3>4, SMTT(30)
    <3>. QED BY <3>1, <3>3, <3>5 DEF a, c, e
  <2>3. CASE j > k
    <3>0. /\ j \in 0..(n - 1) /\ j - 1 \in 0..(n - 1) /\ ~(j < k) /\ ~(j - 1 < k)
          /\ j + 1 \in 1..n /\ j + 1 - 1 = j /\ j - 1 + 1 = j
      BY <1>2, <1>4, <2>3, SMT
    <3>1. t[j] = s[j + 1] /\ less[j - 1] = run[j] - z /\ less[j] = run[j + 1] - z
          /\ j + 1 \in 1..n /\ j + 1 - 1 = j
      BY <1>3, <3>0
    <3>2. run[j + 1] = run[j] + s[j + 1].size /\ s[j + 1].size \in Nat /\ run[j + 1] \in Nat
          /\ run[j] \in Nat
      BY <1>1, <1>2, <3>1
    <3>. QED BY <1>4, <3>1, <3>2, SMTT(40)
  <2>. QED BY <1>2, <1>4, <2>1, <2>2, <2>3, SMT
<1>. HIDE DEF less
<1>12. AddUpTo(t, total - z)
  BY <1>3, <1>9, <1>10, <1>11, Zenon DEF AddUpTo
<1>13. z <= total
  BY <1>4, <1>8, SMT
<1>. QED BY <1>12, <1>13 DEF t, z

(* An order shrinks in its place.                                          *)
LEMMA SumShrinks ==
  ASSUME NEW s \in Seq(Order), NEW total \in Nat, AddUpTo(s, total), NEW k \in 1..Len(s),
         NEW d \in 0..s[k].size, NEW t, Len(t) = Len(s), t[k].size = s[k].size - d,
         \A j \in 1..Len(s) : j # k => t[j].size = s[j].size
  PROVE  d <= total /\ AddUpTo(t, total - d)
<1>. DEFINE n == Len(s)
            z == s[k].size
<1>1. PICK run \in [0..n -> 0..total] :
        /\ run[0] = 0 /\ run[n] = total
        /\ \A j \in 1..n : run[j] = run[j - 1] + s[j].size
  BY DEF AddUpTo
<1>2. /\ n \in Nat /\ run \in [0..n -> Nat]
      /\ \A j \in 1..n : s[j].size \in Nat /\ run[j - 1] \in Nat /\ run[j] \in Nat
      /\ \A j \in 0..n : \A l \in j..n : run[j] <= run[l]
  BY <1>1, RunningTotals
<1>. DEFINE less == [x \in 0..n |-> IF x < k THEN run[x] ELSE run[x] - d]
<1>3. d \in 0..z /\ t[k].size = z - d /\ Len(t) = n
      /\ \A j \in 1..n : j # k => t[j].size = s[j].size
  OBVIOUS
<1>. HIDE DEF n, z
<1>4. k \in 1..n /\ z \in Nat /\ run[k] = run[k - 1] + z /\ d \in Nat /\ d <= z
  <2>1. k \in 1..n /\ z \in Nat /\ run[k] = run[k - 1] + z
    BY <1>1, <1>2 DEF z, n
  <2>. QED BY <1>3, <2>1, SMT
<1>5. \A x \in 0..n : run[x] \in Nat /\ run[x] <= total
  BY <1>1, SMT
<1>6. \A x \in 0..(k - 1) : run[x] <= run[k - 1]
  <2>1. \A x \in 0..(k - 1) : x \in 0..n /\ k - 1 \in x..n
    BY <1>2, <1>4, SMT
  <2>. QED BY <1>2, <2>1
<1>7. \A x \in k..n : run[k] <= run[x]
  <2>1. k \in 0..n
    BY <1>2, <1>4, SMT
  <2>. QED BY <1>2, <2>1
<1>8. run[k - 1] \in Nat /\ run[k] \in Nat /\ run[k] <= total
  BY <1>2, <1>4, <1>5, SMT
<1>9. less \in [0..n -> 0..(total - d)]
  <2>. SUFFICES ASSUME NEW x \in 0..n PROVE less[x] \in 0..(total - d)
    OBVIOUS
  <2>1. CASE x < k
    <3>1. x \in 0..(k - 1) /\ less[x] = run[x]
      BY <1>2, <1>4, <2>1, SMT
    <3>2. run[x] \in Nat /\ run[x] <= run[k - 1]
      BY <1>5, <1>6, <3>1
    <3>. QED BY <1>4, <1>8, <3>1, <3>2, SMTT(40)
  <2>2. CASE ~(x < k)
    <3>1. x \in k..n /\ less[x] = run[x] - d
      BY <1>2, <1>4, <2>2, SMT
    <3>2. run[x] \in Nat /\ run[k] <= run[x] /\ run[x] <= total
      BY <1>5, <1>7, <3>1
    <3>. QED BY <1>4, <1>8, <3>1, <3>2, SMTT(40)
  <2>. QED BY <2>1, <2>2
<1>10. less[0] = 0 /\ less[n] = total - d
  BY <1>1, <1>2, <1>4, SMT
<1>11. ASSUME NEW j \in 1..n PROVE less[j] = less[j - 1] + t[j].size
  <2>1. CASE j < k
    <3>0. j \in 0..n /\ j - 1 \in 0..n /\ j - 1 < k /\ j # k
      BY <1>2, <1>4, <2>1, SMT
    <3>1. t[j].size = s[j].size /\ less[j - 1] = run[j - 1] /\ less[j] = run[j]
      BY <1>3, <2>1, <3>0
    <3>. QED BY <1>1, <3>1
  <2>2. CASE j = k
    <3>1. t[j].size = z - d /\ less[j - 1] = run[k - 1] /\ less[j] = run[k] - d
      BY <1>2, <1>3, <1>4, <2>2, SMT
    <3>. QED BY <1>4, <1>8, <3>1, SMT
  <2>3. CASE j > k
    <3>0. j \in 0..n /\ j - 1 \in 0..n /\ ~(j < k) /\ ~(j - 1 < k) /\ j # k
      BY <1>2, <1>4, <2>3, SMT
    <3>1. t[j].size = s[j].size /\ less[j - 1] = run[j - 1] - d /\ less[j] = run[j] - d
      BY <1>3, <3>0
    <3>2. run[j] = run[j - 1] + s[j].size /\ s[j].size \in Nat /\ run[j - 1] \in Nat
          /\ run[j] \in Nat
      BY <1>1, <1>2
    <3>. QED BY <1>4, <3>1, <3>2, SMTT(40)
  <2>. QED BY <1>2, <1>4, <2>1, <2>2, <2>3, SMT
<1>. HIDE DEF less
<1>12. AddUpTo(t, total - d)
  BY <1>3, <1>9, <1>10, <1>11, Zenon DEF AddUpTo
<1>13. d <= total
  BY <1>4, <1>8, SMT
<1>. QED BY <1>12, <1>13

-----------------------------------------------------------------------------
(* The reference: one queue of orders for each level.                      *)

Queues == [Levels -> Seq(Order)]

LEMMA QueueFacts ==
  ASSUME NEW q \in Queues, NEW i \in Levels
  PROVE  /\ q[i] \in Seq(Order) /\ Len(q[i]) \in Nat
         /\ \A k \in 1..Len(q[i]) : /\ q[i][k] \in Order /\ q[i][k].ref \in Ref
                                    /\ q[i][k].side \in Side /\ q[i][k].size \in Nat
<1>1. q[i] \in Seq(Order)
  BY DEF Queues
<1>2. Len(q[i]) \in Nat /\ \A k \in 1..Len(q[i]) : q[i][k] \in Order
  BY <1>1, LenProperties
<1>. QED BY <1>1, <1>2 DEF Order

LEMMA RefsAre ==
  ASSUME NEW q \in Queues, NEW r
  PROVE  r \in Refs(q) <=> \E i \in Levels : \E k \in 1..Len(q[i]) : q[i][k].ref = r
<1>1. DOMAIN q = Levels
  BY DEF Queues
<1>. QED BY <1>1 DEF Refs

LEMMA OnePlace ==
  ASSUME NEW q, Distinct(q), NEW i \in Levels, NEW j \in Levels,
         NEW k \in 1..Len(q[i]), NEW l \in 1..Len(q[j]), q[i][k].ref = q[j][l].ref
  PROVE  i = j /\ k = l
BY DEF Distinct

(* The order with a reference is the one where the reference is.           *)
LEMMA OrderThere ==
  ASSUME NEW q \in Queues, Distinct(q), NEW i \in Levels, NEW k \in 1..Len(q[i])
  PROVE  TheOrder(q, q[i][k].ref) = q[i][k]
<1>. DEFINE All == UNION {{q[j][l] : l \in 1..Len(q[j])} : j \in DOMAIN q}
<1>1. DOMAIN q = Levels
  BY DEF Queues
<1>2. q[i][k] \in All
  BY <1>1
<1>3. \A o \in All : o.ref = q[i][k].ref => o = q[i][k]
  <2>. SUFFICES ASSUME NEW o \in All, o.ref = q[i][k].ref PROVE o = q[i][k]
    OBVIOUS
  <2>1. PICK j \in Levels : o \in {q[j][l] : l \in 1..Len(q[j])}
    BY <1>1
  <2>2. PICK l \in 1..Len(q[j]) : o = q[j][l]
    BY <2>1
  <2>3. j = i /\ l = k
    BY <2>2 DEF Distinct
  <2>. QED BY <2>2, <2>3
<1>. HIDE DEF All
<1>4. (CHOOSE o \in All : o.ref = q[i][k].ref) = q[i][k]
  BY <1>2, <1>3
<1>. QED BY <1>4 DEF TheOrder, All

(* Queues w are queues q with an order o at the end of level i, without    *)
(* the k-th order of level i, or with fewer shares in it.                  *)
Appended(q, w, i, o) ==
  /\ w \in Queues /\ \A j \in Levels \ {i} : w[j] = q[j]
  /\ Len(w[i]) = Len(q[i]) + 1
  /\ \A l \in 1..(Len(q[i]) + 1) : w[i][l] = IF l = Len(q[i]) + 1 THEN o ELSE q[i][l]
Removed(q, w, i, k) ==
  /\ w \in Queues /\ \A j \in Levels \ {i} : w[j] = q[j]
  /\ Len(w[i]) = Len(q[i]) - 1
  /\ \A l \in 1..(Len(q[i]) - 1) : w[i][l] = IF l < k THEN q[i][l] ELSE q[i][l + 1]
Shrunk(q, w, i, k, d) ==
  /\ w \in Queues /\ \A j \in Levels \ {i} : w[j] = q[j]
  /\ Len(w[i]) = Len(q[i])
  /\ \A l \in 1..Len(q[i]) : w[i][l] = IF l = k THEN [q[i][k] EXCEPT !.size = @ - d] ELSE q[i][l]

LEMMA EnqueueIs ==
  ASSUME NEW q \in Queues, NEW i \in Levels, NEW o \in Order
  PROVE  Appended(q, Enqueue(q, i, o), i, o)
<1>. DEFINE w == Enqueue(q, i, o)
<1>1. /\ q[i] \in Seq(Order) /\ Append(q[i], o) \in Seq(Order)
      /\ Len(Append(q[i], o)) = Len(q[i]) + 1
      /\ \A l \in 1..(Len(q[i]) + 1) : Append(q[i], o)[l] = IF l = Len(q[i]) + 1 THEN o ELSE q[i][l]
  BY QueueFacts, AppendFacts
<1>2. w = [q EXCEPT ![i] = Append(q[i], o)]
  BY DEF Enqueue
<1>3. w \in Queues /\ w[i] = Append(q[i], o) /\ \A j \in Levels \ {i} : w[j] = q[j]
  BY <1>1, <1>2 DEF Queues
<1>. HIDE DEF w
<1>4. Appended(q, w, i, o)
  BY <1>1, <1>3 DEF Appended
<1>. QED BY <1>4 DEF w

LEMMA WithoutIs ==
  ASSUME NEW q \in Queues, Distinct(q), NEW i \in Levels, NEW k \in 1..Len(q[i])
  PROVE  Removed(q, Without(q, q[i][k].ref), i, k) /\ Without(q, q[i][k].ref)[i] = RemoveAt(q[i], k)
<1>. DEFINE r == q[i][k].ref
            w == Without(q, r)
<1>1. DOMAIN q = Levels
  BY DEF Queues
<1>2. ASSUME NEW j \in Levels \ {i} PROVE w[j] = q[j]
  <2>1. ~ \E l \in 1..Len(q[j]) : q[j][l].ref = r
    BY DEF Distinct
  <2>. QED BY <1>1, <2>1 DEF Without
<1>3. w[i] = RemoveAt(q[i], k)
  <2>1. \A l \in 1..Len(q[i]) : q[i][l].ref = r => l = k
    BY DEF Distinct
  <2>2. (CHOOSE l \in 1..Len(q[i]) : q[i][l].ref = r) = k
    BY <2>1
  <2>. QED BY <1>1, <2>2 DEF Without
<1>4. /\ RemoveAt(q[i], k) \in Seq(Order) /\ Len(RemoveAt(q[i], k)) = Len(q[i]) - 1
      /\ \A l \in 1..(Len(q[i]) - 1) :
           RemoveAt(q[i], k)[l] = IF l < k THEN q[i][l] ELSE q[i][l + 1]
  BY QueueFacts, RemoveAtFacts
<1>5. w \in Queues
  <2>1. w = [j \in Levels |-> w[j]]
    BY <1>1 DEF Without
  <2>2. \A j \in Levels : w[j] \in Seq(Order)
    BY <1>2, <1>3, <1>4, QueueFacts
  <2>. HIDE DEF w
  <2>. QED BY <2>1, <2>2 DEF Queues
<1>. HIDE DEF w
<1>6. Removed(q, w, i, k)
  BY <1>2, <1>3, <1>4, <1>5 DEF Removed
<1>. QED BY <1>3, <1>6 DEF w

LEMMA ReduceIs ==
  ASSUME NEW q \in Queues, Distinct(q), NEW i \in Levels, NEW k \in 1..Len(q[i]),
         NEW d \in Nat, d < q[i][k].size
  PROVE  Shrunk(q, Reduce(q, q[i][k].ref, d), i, k, d)
<1>. DEFINE r == q[i][k].ref
            w == Reduce(q, r, d)
<1>1. DOMAIN q = Levels
  BY DEF Queues
<1>2. q[i][k].size \in Nat /\ ~(TheOrder(q, r).size <= d)
  BY OrderThere, QueueFacts, SMT
<1>3. w = [j \in Levels |-> [l \in 1..Len(q[j]) |->
             IF q[j][l].ref = r THEN [q[j][l] EXCEPT !.size = @ - d] ELSE q[j][l]]]
  BY <1>1, <1>2 DEF Reduce
<1>4. \A j \in Levels : \A l \in 1..Len(q[j]) : q[j][l].ref = r <=> (j = i /\ l = k)
  BY DEF Distinct
<1>. HIDE DEF w
<1>5. \A j \in Levels \ {i} : w[j] = q[j]
  <2>. TAKE j \in Levels \ {i}
  <2>1. w[j] = [l \in 1..Len(q[j]) |-> q[j][l]]
    BY <1>3, <1>4
  <2>2. q[j] = [l \in 1..Len(q[j]) |-> q[j][l]]
    BY QueueFacts, LenProperties
  <2>. QED BY <2>1, <2>2
<1>6. w[i] = [l \in 1..Len(q[i]) |-> IF l = k THEN [q[i][k] EXCEPT !.size = @ - d] ELSE q[i][l]]
  BY <1>3, <1>4
<1>7. [q[i][k] EXCEPT !.size = @ - d] \in Order
  <2>1. q[i][k] \in Order /\ q[i][k].size - d \in Nat
    BY <1>2, QueueFacts, SMT
  <2>. QED BY <2>1 DEF Order
<1>8. w[i] \in Seq(Order) /\ Len(w[i]) = Len(q[i])
  <2>1. Len(q[i]) \in Nat /\ w[i] \in [1..Len(q[i]) -> Order]
    BY <1>6, <1>7, QueueFacts
  <2>. QED BY <2>1, SMT
<1>9. w \in Queues
  <2>1. \A j \in Levels : w[j] \in Seq(Order)
    BY <1>5, <1>8, QueueFacts
  <2>2. w = [j \in Levels |-> w[j]]
    BY <1>3
  <2>. QED BY <2>1, <2>2 DEF Queues
<1>10. Shrunk(q, w, i, k, d)
  BY <1>5, <1>6, <1>8, <1>9 DEF Shrunk
<1>. QED BY <1>10 DEF w

(* What the three do to the references.                                    *)
LEMMA AppendedRefs ==
  ASSUME NEW q \in Queues, Distinct(q), NEW i \in Levels, NEW o \in Order, o.ref \notin Refs(q),
         NEW w, Appended(q, w, i, o)
  PROVE  Distinct(w) /\ Refs(w) = Refs(q) \cup {o.ref}
<1>. DEFINE n == Len(q[i])
<1>0. n \in Nat /\ n + 1 \in 1..(n + 1) /\ \A l \in 1..(n + 1) : l # n + 1 => l \in 1..n
  BY QueueFacts, SMT
<1>1. /\ w \in Queues /\ Len(w[i]) = n + 1 /\ w[i][n + 1] = o
      /\ \A l \in 1..(n + 1) : l # n + 1 => w[i][l] = q[i][l]
      /\ \A j \in Levels \ {i} : w[j] = q[j]
  BY <1>0 DEF Appended
<1>. HIDE DEF n
<1>2. \A j \in Levels : \A l \in 1..Len(w[j]) :
        \/ j = i /\ l = n + 1 /\ w[j][l].ref = o.ref
        \/ l \in 1..Len(q[j]) /\ w[j][l] = q[j][l] /\ w[j][l].ref # o.ref
  BY <1>0, <1>1, RefsAre DEF n
<1>3. \A j \in Levels : \A l \in 1..Len(q[j]) : l \in 1..Len(w[j]) /\ w[j][l] = q[j][l]
  <2>1. \A l \in 1..n : l \in 1..(n + 1) /\ l # n + 1
    BY <1>0, SMT
  <2>. QED BY <1>1, <2>1 DEF n
<1>4. Distinct(w)
  <2>. SUFFICES ASSUME NEW j \in Levels, NEW m \in Levels, NEW l \in 1..Len(w[j]),
                       NEW p \in 1..Len(w[m]), w[j][l].ref = w[m][p].ref
                PROVE  j = m /\ l = p
    BY DEF Distinct
  <2>1. \/ j = i /\ l = n + 1 /\ w[j][l].ref = o.ref
        \/ l \in 1..Len(q[j]) /\ w[j][l] = q[j][l] /\ w[j][l].ref # o.ref
    BY <1>2
  <2>2. \/ m = i /\ p = n + 1 /\ w[m][p].ref = o.ref
        \/ p \in 1..Len(q[m]) /\ w[m][p] = q[m][p] /\ w[m][p].ref # o.ref
    BY <1>2
  <2>3. ASSUME l \in 1..Len(q[j]), p \in 1..Len(q[m]), q[j][l].ref = q[m][p].ref
        PROVE  j = m /\ l = p
    BY <2>3, OnePlace, SMTT(30)
  <2>. QED BY <2>1, <2>2, <2>3, Zenon
<1>5. \A r : r \in Refs(w) <=> r \in Refs(q) \/ r = o.ref
  <2>. TAKE r
  <2>1. ASSUME r \in Refs(w) PROVE r \in Refs(q) \/ r = o.ref
    BY <1>1, <1>2, <2>1, RefsAre
  <2>2. ASSUME r \in Refs(q) PROVE r \in Refs(w)
    BY <1>1, <1>3, <2>2, RefsAre
  <2>3. o.ref \in Refs(w)
    BY <1>0, <1>1, RefsAre
  <2>. QED BY <2>1, <2>2, <2>3
<1>. QED BY <1>4, <1>5

(* Where an order of w was in q, and where one of q is in w.               *)
LEMMA RemovedRefs ==
  ASSUME NEW q \in Queues, Distinct(q), NEW i \in Levels, NEW k \in 1..Len(q[i]),
         NEW w, Removed(q, w, i, k)
  PROVE  Distinct(w) /\ Refs(w) = Refs(q) \ {q[i][k].ref}
<1>. DEFINE n == Len(q[i])
            Was(j, l) == IF j = i /\ ~(l < k) THEN l + 1 ELSE l
            Is(j, l) == IF j = i /\ l > k THEN l - 1 ELSE l
<1>0. n \in Nat /\ k \in 1..n
  BY QueueFacts
<1>1. /\ w \in Queues /\ Len(w[i]) = n - 1
      /\ \A l \in 1..(n - 1) : w[i][l] = IF l < k THEN q[i][l] ELSE q[i][l + 1]
      /\ \A j \in Levels \ {i} : w[j] = q[j]
  BY DEF Removed
<1>. HIDE DEF n
<1>2. \A j \in Levels : \A l \in 1..Len(w[j]) :
        /\ Was(j, l) \in 1..Len(q[j]) /\ w[j][l] = q[j][Was(j, l)]
        /\ ~(j = i /\ Was(j, l) = k)
  <2>1. \A l \in 1..(n - 1) : (l < k => l \in 1..n) /\ (~(l < k) => l + 1 \in 1..n /\ l + 1 # k)
    BY <1>0, SMT
  <2>2. \A l \in 1..(n - 1) : l < k => l # k
    BY <1>0, SMT
  <2>. QED BY <1>1, <2>1, <2>2 DEF n
<1>3. \A j \in Levels : \A l \in 1..Len(q[j]) : ~(j = i /\ l = k) =>
        Is(j, l) \in 1..Len(w[j]) /\ w[j][Is(j, l)] = q[j][l]
  <2>1. \A l \in 1..n : l # k =>
          /\ l > k => l - 1 \in 1..(n - 1) /\ ~(l - 1 < k) /\ l - 1 + 1 = l
          /\ ~(l > k) => l \in 1..(n - 1) /\ l < k
    BY <1>0, SMT
  <2>. QED BY <1>1, <2>1 DEF n
<1>4. Distinct(w)
  <2>. SUFFICES ASSUME NEW j \in Levels, NEW m \in Levels, NEW l \in 1..Len(w[j]),
                       NEW p \in 1..Len(w[m]), w[j][l].ref = w[m][p].ref
                PROVE  j = m /\ l = p
    BY DEF Distinct
  <2>1. j = m /\ Was(j, l) = Was(m, p)
    <3>1. Was(j, l) \in 1..Len(q[j]) /\ w[j][l] = q[j][Was(j, l)]
      BY <1>2
    <3>2. Was(m, p) \in 1..Len(q[m]) /\ w[m][p] = q[m][Was(m, p)]
      BY <1>2
    <3>. HIDE DEF Was
    <3>3. q[j][Was(j, l)].ref = q[m][Was(m, p)].ref
      BY <3>1, <3>2
    <3>. QED BY <3>1, <3>2, <3>3, OnePlace, SMTT(30)
  <2>2. Len(w[j]) \in Nat
    BY <1>1, QueueFacts
  <2>. QED BY <1>0, <2>1, <2>2, SMT
<1>5. \A r : r \in Refs(w) <=> r \in Refs(q) /\ r # q[i][k].ref
  <2>. TAKE r
  <2>1. ASSUME r \in Refs(w) PROVE r \in Refs(q) /\ r # q[i][k].ref
    <3>0. PICK j \in Levels : \E l \in 1..Len(w[j]) : w[j][l].ref = r
      BY <1>1, <2>1, RefsAre
    <3>1. PICK l \in 1..Len(w[j]) : w[j][l].ref = r
      BY <3>0
    <3>2. Was(j, l) \in 1..Len(q[j]) /\ q[j][Was(j, l)].ref = r /\ ~(j = i /\ Was(j, l) = k)
      BY <1>2, <3>1
    <3>. HIDE DEF Was
    <3>. QED BY <3>2, RefsAre DEF Distinct
  <2>2. ASSUME r \in Refs(q), r # q[i][k].ref PROVE r \in Refs(w)
    <3>0. PICK j \in Levels : \E l \in 1..Len(q[j]) : q[j][l].ref = r
      BY <2>2, RefsAre
    <3>1. PICK l \in 1..Len(q[j]) : q[j][l].ref = r
      BY <3>0
    <3>2. Is(j, l) \in 1..Len(w[j]) /\ w[j][Is(j, l)].ref = r
      BY <1>3, <2>2, <3>1
    <3>. HIDE DEF Is
    <3>. QED BY <1>1, <3>2, RefsAre
  <2>. QED BY <2>1, <2>2
<1>. QED BY <1>4, <1>5

LEMMA ShrunkRefs ==
  ASSUME NEW q \in Queues, Distinct(q), NEW i \in Levels, NEW k \in 1..Len(q[i]), NEW d,
         NEW w, Shrunk(q, w, i, k, d)
  PROVE  /\ Distinct(w) /\ Refs(w) = Refs(q)
         /\ \A j \in Levels : /\ Len(w[j]) = Len(q[j])
                              /\ \A l \in 1..Len(q[j]) : /\ w[j][l].ref = q[j][l].ref
                                                         /\ w[j][l].side = q[j][l].side
<1>1. w \in Queues
  BY DEF Shrunk
<1>2. \A j \in Levels : /\ Len(w[j]) = Len(q[j])
                        /\ \A l \in 1..Len(q[j]) : /\ w[j][l].ref = q[j][l].ref
                                                   /\ w[j][l].side = q[j][l].side
  <2>. TAKE j \in Levels
  <2>1. CASE j # i
    BY <2>1 DEF Shrunk
  <2>2. CASE j = i
    <3>1. q[i][k] \in Order
      BY QueueFacts
    <3>2. LET o == [q[i][k] EXCEPT !.size = @ - d] IN o.ref = q[i][k].ref /\ o.side = q[i][k].side
      BY <3>1 DEF Order
    <3>. QED BY <2>2, <3>2 DEF Shrunk
  <2>. QED BY <2>1, <2>2
<1>3. Distinct(w)
  BY <1>2 DEF Distinct
<1>4. \A r : r \in Refs(w) <=> r \in Refs(q)
  <2>. TAKE r
  <2>1. r \in Refs(w) <=> \E j \in Levels : \E l \in 1..Len(w[j]) : w[j][l].ref = r
    BY <1>1, RefsAre
  <2>2. r \in Refs(q) <=> \E j \in Levels : \E l \in 1..Len(q[j]) : q[j][l].ref = r
    BY RefsAre
  <2>3. ASSUME NEW j \in Levels, NEW l \in 1..Len(q[j])
        PROVE  l \in 1..Len(w[j]) /\ w[j][l].ref = q[j][l].ref
    BY <1>2
  <2>4. ASSUME NEW j \in Levels, NEW l \in 1..Len(w[j])
        PROVE  l \in 1..Len(q[j]) /\ w[j][l].ref = q[j][l].ref
    BY <1>2
  <2>5. r \in Refs(q) => r \in Refs(w)
    BY <2>1, <2>2, <2>3
  <2>6. r \in Refs(w) => r \in Refs(q)
    BY <2>1, <2>2, <2>4
  <2>. QED BY <2>5, <2>6
<1>. QED BY <1>2, <1>3, <1>4

-----------------------------------------------------------------------------
(* Any book and its nodes.                                                 *)

IsBook(b) == b \in Books(Len(b.nodes))

LEMMA BookFacts ==
  ASSUME NEW b, IsBook(b)
  PROVE  /\ b.levels \in [Levels -> Level] /\ b.nodes \in Seq(Node)
         /\ Len(b.nodes) \in Nat /\ \A o \in 1..Len(b.nodes) : b.nodes[o] \in Node
         /\ b.free_head \in 0..Len(b.nodes)
         /\ DOMAIN b.index \subseteq Ref
         /\ \A r \in DOMAIN b.index : b.index[r] \in 1..Len(b.nodes)
         /\ b.bid \in Levels \cup {None} /\ b.ask \in Levels \cup {None} /\ b.live_orders \in Nat
<1>1. /\ b.levels \in [Levels -> Level] /\ b.nodes \in Seq(Node)
      /\ b.free_head \in 0..Len(b.nodes)
      /\ b.index \in UNION {[S -> 1..Len(b.nodes)] : S \in SUBSET Ref}
      /\ b.bid \in Levels \cup {None} /\ b.ask \in Levels \cup {None} /\ b.live_orders \in Nat
  BY DEF IsBook, Books
<1>2. PICK S \in SUBSET Ref : b.index \in [S -> 1..Len(b.nodes)]
  BY <1>1
<1>3. Len(b.nodes) \in Nat /\ \A o \in 1..Len(b.nodes) : b.nodes[o] \in Node
  BY <1>1, LenProperties
<1>. QED BY <1>1, <1>2, <1>3

(* A live node is its order with its neighbours, all of it.                *)
Rec(o, i, p, n) == [order_ref |-> o.ref, size |-> o.size, level_idx |-> i, side |-> o.side,
                    prev |-> p, next |-> n]
LEMMA RecChanges ==
  ASSUME NEW o, NEW i, NEW p, NEW n, NEW x
  PROVE  /\ [Rec(o, i, p, n) EXCEPT !.next = x] = Rec(o, i, p, x)
         /\ [Rec(o, i, p, n) EXCEPT !.prev = x] = Rec(o, i, x, n)
BY DEF Rec

Chained(b, q) == \A i \in Levels : \A k \in 1..Len(q[i]) :
                   b.nodes[NodeAt(b, q, i, k)] = Rec(q[i][k], i, NodeAt(b, q, i, k - 1),
                                                                 NodeAt(b, q, i, k + 1))
Ended(b, q) == \A i \in Levels : /\ b.levels[i].head = NodeAt(b, q, i, 1)
                                 /\ b.levels[i].tail = NodeAt(b, q, i, Len(q[i]))
                                 /\ b.levels[i].order_count = Len(q[i])
Summed(b, q) == \A i \in Levels : AddUpTo(q[i], b.levels[i].aggregate_size)

(* The index leads each reference to a node of its own.                    *)
Indexed(b, q) == /\ IsBook(b) /\ q \in Queues /\ Distinct(q) /\ DOMAIN b.index = Refs(q)
                 /\ \A r, s \in DOMAIN b.index : b.index[r] = b.index[s] => r = s

LEMMA NodesOfOrders ==
  ASSUME NEW b, NEW q, Indexed(b, q), NEW i \in Levels, NEW k \in 1..Len(q[i])
  PROVE  /\ q[i][k].ref \in DOMAIN b.index
         /\ NodeAt(b, q, i, k) = b.index[q[i][k].ref]
         /\ NodeAt(b, q, i, k) \in 1..Len(b.nodes) /\ NodeAt(b, q, i, k) \in Live(b)
         /\ NodeAt(b, q, i, k) # null
         /\ \A j \in Levels : \A l \in 1..Len(q[j]) :
              NodeAt(b, q, i, k) = NodeAt(b, q, j, l) => i = j /\ k = l
<1>1. \A j \in Levels : \A l \in 1..Len(q[j]) : q[j][l].ref \in DOMAIN b.index
  BY RefsAre DEF Indexed
<1>2. \A j \in Levels : \A l \in 1..Len(q[j]) : NodeAt(b, q, j, l) = b.index[q[j][l].ref]
  BY DEF NodeAt
<1>3. NodeAt(b, q, i, k) \in 1..Len(b.nodes) /\ NodeAt(b, q, i, k) \in Live(b)
  BY <1>1, <1>2, BookFacts DEF Indexed, Live
<1>4. NodeAt(b, q, i, k) # null
  <2>1. Len(b.nodes) \in Nat
    BY BookFacts DEF Indexed
  <2>. QED BY <1>3, <2>1, SMT DEF null
<1>5. ASSUME NEW j \in Levels, NEW l \in 1..Len(q[j]), NodeAt(b, q, i, k) = NodeAt(b, q, j, l)
      PROVE  i = j /\ k = l
  <2>1. q[i][k].ref = q[j][l].ref
    BY <1>1, <1>2, <1>5 DEF Indexed
  <2>. QED BY <2>1, OnePlace, SMTT(30) DEF Indexed
<1>. QED BY <1>1, <1>2, <1>3, <1>4, <1>5

LEMMA NodesBeyond ==
  ASSUME NEW b, NEW q, NEW i, NEW k, k \notin 1..Len(q[i])
  PROVE  NodeAt(b, q, i, k) = null
BY DEF NodeAt

LEMMA ChainedAt ==
  ASSUME NEW b, NEW q, Chained(b, q), NEW i \in Levels, NEW k \in 1..Len(q[i])
  PROVE  LET n == b.nodes[NodeAt(b, q, i, k)]
         IN /\ n.order_ref = q[i][k].ref /\ n.side = q[i][k].side /\ n.size = q[i][k].size
            /\ n.next = NodeAt(b, q, i, k + 1)
            /\ n.level_idx = i /\ n.prev = NodeAt(b, q, i, k - 1)
<1>1. b.nodes[NodeAt(b, q, i, k)] = Rec(q[i][k], i, NodeAt(b, q, i, k - 1),
                                                    NodeAt(b, q, i, k + 1))
  BY DEF Chained
<1>. QED BY <1>1 DEF Rec

(* The two properties of the lists, in this form.                          *)
LEMMA ListsAre ==
  ASSUME NEW b, NEW q, Indexed(b, q)
  PROVE  Holds(b, q) /\ Backed(b, q) <=> Chained(b, q) /\ Ended(b, q) /\ Summed(b, q)
<1>1. ASSUME Holds(b, q), Backed(b, q) PROVE Chained(b, q)
  <2>. SUFFICES ASSUME NEW i \in Levels, NEW k \in 1..Len(q[i])
                PROVE  b.nodes[NodeAt(b, q, i, k)] = Rec(q[i][k], i, NodeAt(b, q, i, k - 1),
                                                                     NodeAt(b, q, i, k + 1))
    BY DEF Chained
  <2>. DEFINE n == b.nodes[NodeAt(b, q, i, k)]
  <2>1. n \in Node
    BY NodesOfOrders, BookFacts DEF Indexed
  <2>2. /\ n.order_ref = q[i][k].ref /\ n.side = q[i][k].side /\ n.size = q[i][k].size
        /\ n.next = NodeAt(b, q, i, k + 1)
    BY <1>1 DEF Holds
  <2>3. n.level_idx = i /\ n.prev = NodeAt(b, q, i, k - 1)
    BY <1>1 DEF Backed
  <2>. HIDE DEF n
  <2>4. n = Rec(q[i][k], i, NodeAt(b, q, i, k - 1), NodeAt(b, q, i, k + 1))
    BY <2>1, <2>2, <2>3 DEF Node, Rec
  <2>. QED BY <2>4 DEF n
<1>2. ASSUME Holds(b, q), Backed(b, q) PROVE Ended(b, q) /\ Summed(b, q)
  BY <1>2 DEF Holds, Backed, Ended, Summed
<1>3. ASSUME Chained(b, q), Ended(b, q), Summed(b, q) PROVE Holds(b, q) /\ Backed(b, q)
  <2>1. \A i \in Levels : \A k \in 1..Len(q[i]) :
          LET n == b.nodes[NodeAt(b, q, i, k)]
          IN /\ n.order_ref = q[i][k].ref /\ n.side = q[i][k].side /\ n.size = q[i][k].size
             /\ n.next = NodeAt(b, q, i, k + 1)
             /\ n.level_idx = i /\ n.prev = NodeAt(b, q, i, k - 1)
    BY <1>3, ChainedAt
  <2>2. Holds(b, q)
    BY <1>3, <2>1 DEF Holds, Ended, Indexed
  <2>3. Backed(b, q)
    BY <1>3, <2>1 DEF Backed, Ended, Summed
  <2>. QED BY <2>2, <2>3
<1>. QED BY <1>1, <1>2, <1>3

-----------------------------------------------------------------------------
(* An insertion: node x, off the lists, becomes the last of level i.       *)

Inserts(b, c, i, o, x) ==
  /\ Len(c.nodes) = Len(b.nodes)
  /\ \A y \in 1..Len(b.nodes) :
       c.nodes[y] = IF y = x THEN Rec(o, i, b.levels[i].tail, null)
                    ELSE IF y = b.levels[i].tail THEN [b.nodes[y] EXCEPT !.next = x]
                    ELSE b.nodes[y]
  /\ DOMAIN c.index = DOMAIN b.index \cup {o.ref} /\ c.index[o.ref] = x
  /\ \A r \in DOMAIN b.index : c.index[r] = b.index[r]
  /\ \A j \in Levels \ {i} : c.levels[j] = b.levels[j]
  /\ c.levels[i].head = (IF b.levels[i].tail = null THEN x ELSE b.levels[i].head)
  /\ c.levels[i].tail = x
  /\ c.levels[i].order_count = b.levels[i].order_count + 1
  /\ c.levels[i].aggregate_size = b.levels[i].aggregate_size + o.size

LEMMA InsertIndexed ==
  ASSUME NEW b, NEW q, Indexed(b, q), NEW i \in Levels, NEW o \in Order, o.ref \notin DOMAIN b.index,
         NEW x \in 1..Len(b.nodes) \ Live(b), NEW c, IsBook(c), Inserts(b, c, i, o, x),
         NEW w, Appended(q, w, i, o)
  PROVE  Indexed(c, w)
<1>1. w \in Queues /\ Distinct(w) /\ Refs(w) = Refs(q) \cup {o.ref}
  BY AppendedRefs DEF Appended, Indexed
<1>2. DOMAIN c.index = Refs(w)
  BY <1>1 DEF Inserts, Indexed
<1>3. \A r \in DOMAIN b.index : b.index[r] # x
  BY DEF Live
<1>4. ASSUME NEW r \in DOMAIN c.index, NEW s \in DOMAIN c.index, c.index[r] = c.index[s]
      PROVE  r = s
  BY <1>3, <1>4 DEF Inserts, Indexed
<1>. QED BY <1>1, <1>2, <1>4 DEF Indexed

LEMMA InsertNodes ==
  ASSUME NEW b, NEW q, Indexed(b, q), NEW i \in Levels, NEW o \in Order, o.ref \notin DOMAIN b.index,
         NEW x \in 1..Len(b.nodes) \ Live(b), NEW c, Inserts(b, c, i, o, x),
         NEW w, Appended(q, w, i, o)
  PROVE  \A j \in Levels, l \in Int :
           NodeAt(c, w, j, l) = IF j = i /\ l = Len(q[i]) + 1 THEN x ELSE NodeAt(b, q, j, l)
<1>. TAKE j \in Levels, l \in Int
<1>0. q \in Queues /\ Len(q[i]) \in Nat
  BY QueueFacts DEF Indexed
<1>1. CASE j # i
  <2>1. w[j] = q[j]
    BY <1>1 DEF Appended
  <2>2. CASE l \in 1..Len(q[j])
    <3>1. q[j][l].ref \in DOMAIN b.index
      BY <2>2, NodesOfOrders
    <3>. QED BY <1>1, <2>1, <2>2, <3>1 DEF NodeAt, Inserts
  <2>3. CASE l \notin 1..Len(q[j])
    BY <1>1, <2>1, <2>3 DEF NodeAt
  <2>. QED BY <2>2, <2>3
<1>2. CASE j = i
  <2>1. /\ Len(w[i]) = Len(q[i]) + 1
        /\ \A k \in 1..(Len(q[i]) + 1) : w[i][k] = IF k = Len(q[i]) + 1 THEN o ELSE q[i][k]
    BY DEF Appended
  <2>2. CASE l = Len(q[i]) + 1
    <3>1. l \in 1..Len(w[i]) /\ w[i][l] = o
      BY <1>0, <2>1, <2>2, SMT
    <3>. QED BY <1>2, <2>2, <3>1 DEF NodeAt, Inserts
  <2>3. CASE l \in 1..Len(q[i])
    <3>1. l \in 1..Len(w[i]) /\ w[i][l] = q[i][l] /\ l # Len(q[i]) + 1
      BY <1>0, <2>1, <2>3, SMT
    <3>2. q[i][l].ref \in DOMAIN b.index
      BY <2>3, NodesOfOrders
    <3>. QED BY <1>2, <2>3, <3>1, <3>2 DEF NodeAt, Inserts
  <2>4. CASE l \notin 1..Len(q[i]) /\ l # Len(q[i]) + 1
    <3>1. l \notin 1..Len(w[i])
      BY <1>0, <2>1, <2>4, SMT
    <3>. QED BY <1>2, <2>4, <3>1 DEF NodeAt
  <2>. QED BY <2>2, <2>3, <2>4
<1>. QED BY <1>1, <1>2

LEMMA InsertLists ==
  ASSUME NEW b, NEW q, Indexed(b, q), NEW i \in Levels, NEW o \in Order, o.ref \notin DOMAIN b.index,
         NEW x \in 1..Len(b.nodes) \ Live(b), NEW c, IsBook(c), Inserts(b, c, i, o, x),
         NEW w, Appended(q, w, i, o), Chained(b, q), Ended(b, q), Summed(b, q),
         w[i] = Append(q[i], o)
  PROVE  Chained(c, w) /\ Ended(c, w) /\ Summed(c, w)
<1>. DEFINE n == Len(q[i])
            t == b.levels[i].tail
<1>0. q \in Queues /\ w \in Queues /\ n \in Nat /\ n \in Int /\ n + 1 \in Int
  BY QueueFacts, SMT DEF Indexed, Appended
<1>1. \A j \in Levels, l \in Int :
        NodeAt(c, w, j, l) = IF j = i /\ l = n + 1 THEN x ELSE NodeAt(b, q, j, l)
  BY InsertNodes
<1>2. t = NodeAt(b, q, i, n) /\ b.levels[i].head = NodeAt(b, q, i, 1)
      /\ b.levels[i].order_count = n
  BY DEF Ended
<1>3. /\ Len(w[i]) = n + 1 /\ \A j \in Levels \ {i} : w[j] = q[j]
      /\ \A l \in 1..(n + 1) : w[i][l] = IF l = n + 1 THEN o ELSE q[i][l]
  BY DEF Appended
<1>4. /\ \A y \in 1..Len(b.nodes) :
           c.nodes[y] = IF y = x THEN Rec(o, i, t, null)
                        ELSE IF y = t THEN [b.nodes[y] EXCEPT !.next = x] ELSE b.nodes[y]
      /\ \A j \in Levels \ {i} : c.levels[j] = b.levels[j]
      /\ c.levels[i].head = (IF t = null THEN x ELSE b.levels[i].head)
      /\ c.levels[i].tail = x /\ c.levels[i].order_count = b.levels[i].order_count + 1
      /\ c.levels[i].aggregate_size = b.levels[i].aggregate_size + o.size
  BY DEF Inserts
<1>. HIDE DEF n, t
<1>5. ASSUME NEW j \in Levels, NEW l \in 1..Len(w[j])
      PROVE  c.nodes[NodeAt(c, w, j, l)] = Rec(w[j][l], j, NodeAt(c, w, j, l - 1),
                                                           NodeAt(c, w, j, l + 1))
  <2>0. Len(w[j]) \in Nat
    BY <1>0, QueueFacts
  <2>1. l \in Int /\ l - 1 \in Int /\ l + 1 \in Int
    BY <2>0, SMT
  <2>2. CASE j = i /\ l = n + 1
    <3>1. /\ l - 1 = n /\ l + 1 \notin 1..n /\ l - 1 # n + 1 /\ l + 1 # n + 1
      BY <1>0, <2>2, SMT
    <3>2. NodeAt(c, w, j, l) = x /\ NodeAt(c, w, j, l - 1) = t
      BY <1>1, <1>2, <2>1, <2>2, <3>1
    <3>3. NodeAt(c, w, j, l + 1) = null
      BY <1>1, <2>1, <2>2, <3>1, NodesBeyond DEF n
    <3>4. w[j][l] = o
      BY <1>3, <2>2
    <3>. QED BY <1>4, <2>2, <3>2, <3>3, <3>4
  <2>3. CASE ~(j = i /\ l = n + 1)
    <3>1. l \in 1..Len(q[j]) /\ w[j][l] = q[j][l]
      <4>1. CASE j # i
        BY <1>3, <4>1
      <4>2. CASE j = i
        <5>1. l \in 1..(n + 1) /\ l # n + 1 /\ l \in 1..n
          BY <1>0, <1>3, <2>3, <4>2, SMT
        <5>. QED BY <1>3, <4>2, <5>1 DEF n
      <4>. QED BY <4>1, <4>2
    <3>. DEFINE y == NodeAt(b, q, j, l)
    <3>2. y \in 1..Len(b.nodes) /\ y # x /\ y # null
          /\ \A m \in Levels : \A p \in 1..Len(q[m]) : y = NodeAt(b, q, m, p) => j = m /\ l = p
      BY <3>1, NodesOfOrders
    <3>3. b.nodes[y] = Rec(q[j][l], j, NodeAt(b, q, j, l - 1), NodeAt(b, q, j, l + 1))
      BY <3>1 DEF Chained
    <3>4. NodeAt(c, w, j, l) = y
      BY <1>1, <2>1, <2>3
    <3>5. NodeAt(c, w, j, l - 1) = NodeAt(b, q, j, l - 1)
      <4>1. ~(j = i /\ l - 1 = n + 1)
        BY <1>0, <3>1, SMT DEF n
      <4>. QED BY <1>1, <2>1, <4>1
    <3>. HIDE DEF y
    <3>6. CASE y = t
      <4>1. j = i /\ l = n
        <5>1. n \in 1..Len(q[i])
          BY <1>2, <3>2, <3>6, NodesBeyond DEF n
        <5>. QED BY <1>2, <3>2, <3>6, <5>1
      <4>2. NodeAt(c, w, j, l + 1) = x
        BY <1>1, <2>1, <4>1
      <4>3. c.nodes[y] = [b.nodes[y] EXCEPT !.next = x]
        BY <1>4, <3>2, <3>6
      <4>4. c.nodes[y] = Rec(q[j][l], j, NodeAt(b, q, j, l - 1), x)
        BY <3>3, <4>3, RecChanges
      <4>. QED BY <3>1, <3>4, <3>5, <4>2, <4>4
    <3>7. CASE y # t
      <4>1. ~(j = i /\ l + 1 = n + 1)
        <5>1. ~(j = i /\ l = n)
          BY <1>2, <3>7 DEF y
        <5>. QED BY <1>0, <2>1, <5>1, SMT
      <4>2. NodeAt(c, w, j, l + 1) = NodeAt(b, q, j, l + 1)
        BY <1>1, <2>1, <4>1
      <4>. QED BY <1>4, <3>1, <3>2, <3>3, <3>4, <3>5, <3>7, <4>2
    <3>. QED BY <3>6, <3>7
  <2>. QED BY <2>2, <2>3
<1>6. ASSUME NEW j \in Levels
      PROVE  /\ c.levels[j].head = NodeAt(c, w, j, 1)
             /\ c.levels[j].tail = NodeAt(c, w, j, Len(w[j]))
             /\ c.levels[j].order_count = Len(w[j])
             /\ AddUpTo(w[j], c.levels[j].aggregate_size)
  <2>1. CASE j # i
    <3>1. /\ c.levels[j] = b.levels[j] /\ w[j] = q[j] /\ Len(q[j]) \in Int /\ 1 \in Int
      BY <1>0, <1>3, <1>4, <2>1, QueueFacts, SMT
    <3>. QED BY <1>1, <2>1, <3>1 DEF Ended, Summed
  <2>2. CASE j = i
    <3>1. NodeAt(c, w, i, n + 1) = x
      BY <1>0, <1>1
    <3>2. c.levels[i].head = NodeAt(c, w, i, 1)
      <4>1. CASE n = 0
        <5>1. n + 1 = 1 /\ n \notin 1..n
          BY <4>1, SMT
        <5>2. t = null
          BY <1>2, <5>1, NodesBeyond DEF n
        <5>. QED BY <1>4, <3>1, <5>1, <5>2
      <4>2. CASE n # 0
        <5>1. n \in 1..n /\ 1 # n + 1 /\ 1 \in Int
          BY <1>0, <4>2, SMT
        <5>2. t # null
          BY <1>2, <5>1, NodesOfOrders DEF n
        <5>. QED BY <1>1, <1>2, <1>4, <5>1, <5>2
      <4>. QED BY <4>1, <4>2
    <3>3. AddUpTo(w[i], c.levels[i].aggregate_size)
      <4>1. /\ q[i] \in Seq(Order) /\ b.levels[i].aggregate_size \in Nat
            /\ AddUpTo(q[i], b.levels[i].aggregate_size)
        BY <1>0, QueueFacts, BookFacts DEF Summed, Indexed, Level
      <4>. QED BY <1>4, <4>1, SumAppends
    <3>. QED BY <1>2, <1>3, <1>4, <2>2, <3>1, <3>2, <3>3
  <2>. QED BY <2>1, <2>2
<1>. QED BY <1>5, <1>6 DEF Chained, Ended, Summed

-----------------------------------------------------------------------------
(* A removal: node x, the k-th of level i, leaves the list between its     *)
(* neighbours and goes to the front of the free list.                      *)

Removes(b, c, i, x) ==
  LET p == b.nodes[x].prev
      n == b.nodes[x].next
      l == b.levels[i]
  IN /\ Len(c.nodes) = Len(b.nodes)
     /\ \A y \in 1..Len(b.nodes) :
          c.nodes[y] = IF y = x THEN FreeNode(b.free_head)
                       ELSE IF y = p THEN [b.nodes[y] EXCEPT !.next = n]
                       ELSE IF y = n THEN [b.nodes[y] EXCEPT !.prev = p]
                       ELSE b.nodes[y]
     /\ c.free_head = x
     /\ DOMAIN c.index = DOMAIN b.index \ {b.nodes[x].order_ref}
     /\ \A r \in DOMAIN c.index : c.index[r] = b.index[r]
     /\ \A j \in Levels \ {i} : c.levels[j] = b.levels[j]
     /\ c.levels[i].head = (IF p = null THEN n ELSE l.head)
     /\ c.levels[i].tail = (IF n = null THEN p ELSE l.tail)
     /\ c.levels[i].order_count = l.order_count - 1
     /\ c.levels[i].aggregate_size = (IF l.order_count - 1 > 0
                                      THEN l.aggregate_size - b.nodes[x].size ELSE 0)

LEMMA RemoveIndexed ==
  ASSUME NEW b, NEW q, Indexed(b, q), NEW i \in Levels, NEW k \in 1..Len(q[i]), Chained(b, q),
         NEW c, IsBook(c), Removes(b, c, i, NodeAt(b, q, i, k)), NEW w, Removed(q, w, i, k)
  PROVE  Indexed(c, w) /\ DOMAIN c.index = DOMAIN b.index \ {q[i][k].ref}
<1>1. w \in Queues /\ Distinct(w) /\ Refs(w) = Refs(q) \ {q[i][k].ref}
  BY RemovedRefs DEF Removed, Indexed
<1>2. b.nodes[NodeAt(b, q, i, k)].order_ref = q[i][k].ref
  BY ChainedAt
<1>3. DOMAIN c.index = DOMAIN b.index \ {q[i][k].ref} /\ \A r \in DOMAIN c.index : c.index[r] = b.index[r]
  BY <1>2 DEF Removes
<1>. QED BY <1>1, <1>3 DEF Indexed

LEMMA RemoveNodes ==
  ASSUME NEW b, NEW q, Indexed(b, q), NEW i \in Levels, NEW k \in 1..Len(q[i]), Chained(b, q),
         NEW c, IsBook(c), Removes(b, c, i, NodeAt(b, q, i, k)), NEW w, Removed(q, w, i, k)
  PROVE  \A j \in Levels, l \in Int :
           NodeAt(c, w, j, l) = IF j = i /\ l >= k THEN NodeAt(b, q, i, l + 1) ELSE NodeAt(b, q, j, l)
<1>. TAKE j \in Levels, l \in Int
<1>0. q \in Queues /\ Len(q[i]) \in Nat
  BY QueueFacts DEF Indexed
<1>1. Indexed(c, w) /\ \A r \in DOMAIN c.index : c.index[r] = b.index[r]
  <2>1. Indexed(c, w)
    BY RemoveIndexed
  <2>2. \A r \in DOMAIN c.index : c.index[r] = b.index[r]
    BY DEF Removes
  <2>. QED BY <2>1, <2>2
<1>2. \A m \in Levels : \A n \in 1..Len(w[m]) : w[m][n].ref \in DOMAIN c.index
  BY <1>1, NodesOfOrders
<1>3. CASE j # i
  <2>1. w[j] = q[j]
    BY <1>3 DEF Removed
  <2>. QED BY <1>1, <1>2, <1>3, <2>1 DEF NodeAt
<1>4. CASE j = i
  <2>1. /\ Len(w[i]) = Len(q[i]) - 1
        /\ \A m \in 1..(Len(q[i]) - 1) : w[i][m] = IF m < k THEN q[i][m] ELSE q[i][m + 1]
    BY DEF Removed
  <2>2. CASE l \in 1..Len(w[i])
    <3>1. NodeAt(c, w, i, l) = b.index[w[i][l].ref]
      BY <1>1, <1>2, <2>2 DEF NodeAt
    <3>2. CASE l >= k
      <4>1. w[i][l] = q[i][l + 1] /\ l + 1 \in 1..Len(q[i])
        BY <1>0, <2>1, <2>2, <3>2, SMT
      <4>. QED BY <1>4, <3>1, <3>2, <4>1 DEF NodeAt
    <3>3. CASE ~(l >= k)
      <4>1. w[i][l] = q[i][l] /\ l \in 1..Len(q[i])
        BY <1>0, <2>1, <2>2, <3>3, SMT
      <4>. QED BY <1>4, <3>1, <3>3, <4>1 DEF NodeAt
    <3>. QED BY <3>2, <3>3
  <2>3. CASE l \notin 1..Len(w[i])
    <3>1. NodeAt(c, w, i, l) = null
      BY <2>3 DEF NodeAt
    <3>2. IF l >= k THEN l + 1 \notin 1..Len(q[i]) ELSE l \notin 1..Len(q[i])
      BY <1>0, <2>1, <2>3, SMT
    <3>. QED BY <1>4, <3>1, <3>2 DEF NodeAt
  <2>. QED BY <2>2, <2>3
<1>. QED BY <1>3, <1>4

LEMMA RemoveLists ==
  ASSUME NEW b, NEW q, Indexed(b, q), NEW i \in Levels, NEW k \in 1..Len(q[i]),
         Chained(b, q), Ended(b, q), Summed(b, q),
         NEW c, IsBook(c), Removes(b, c, i, NodeAt(b, q, i, k)),
         NEW w, Removed(q, w, i, k), w[i] = RemoveAt(q[i], k)
  PROVE  Chained(c, w) /\ Ended(c, w) /\ Summed(c, w)
<1>. DEFINE N == Len(q[i])
            x == NodeAt(b, q, i, k)
            p == NodeAt(b, q, i, k - 1)
            n == NodeAt(b, q, i, k + 1)
<1>0. q \in Queues /\ w \in Queues /\ N \in Nat /\ k \in 1..N /\ k \in Int
      /\ k - 1 \in Int /\ k + 1 \in Int /\ N - 1 \in Int /\ 1 \in Int
  BY QueueFacts, SMT DEF Indexed, Removed
<1>1. \A j \in Levels, l \in Int :
        NodeAt(c, w, j, l) = IF j = i /\ l >= k THEN NodeAt(b, q, i, l + 1) ELSE NodeAt(b, q, j, l)
  BY RemoveNodes
<1>2. /\ b.nodes[x].prev = p /\ b.nodes[x].next = n /\ b.nodes[x].size = q[i][k].size
  BY ChainedAt
<1>3. /\ Len(w[i]) = N - 1 /\ \A j \in Levels \ {i} : w[j] = q[j]
      /\ \A l \in 1..(N - 1) : w[i][l] = IF l < k THEN q[i][l] ELSE q[i][l + 1]
  BY DEF Removed
<1>4. /\ \A y \in 1..Len(b.nodes) :
          c.nodes[y] = IF y = x THEN FreeNode(b.free_head)
                       ELSE IF y = p THEN [b.nodes[y] EXCEPT !.next = n]
                       ELSE IF y = n THEN [b.nodes[y] EXCEPT !.prev = p]
                       ELSE b.nodes[y]
      /\ \A j \in Levels \ {i} : c.levels[j] = b.levels[j]
      /\ c.levels[i].head = (IF p = null THEN n ELSE b.levels[i].head)
      /\ c.levels[i].tail = (IF n = null THEN p ELSE b.levels[i].tail)
      /\ c.levels[i].order_count = b.levels[i].order_count - 1
      /\ c.levels[i].aggregate_size = (IF b.levels[i].order_count - 1 > 0
                                       THEN b.levels[i].aggregate_size - q[i][k].size ELSE 0)
  BY <1>2 DEF Removes
<1>5. /\ b.levels[i].head = NodeAt(b, q, i, 1) /\ b.levels[i].tail = NodeAt(b, q, i, N)
      /\ b.levels[i].order_count = N
  BY DEF Ended
<1>. HIDE DEF N
(* Which nodes are the neighbours.                                         *)
<1>6. ASSUME NEW j \in Levels, NEW m \in 1..Len(q[j])
      PROVE  /\ NodeAt(b, q, j, m) \in 1..Len(b.nodes)
             /\ NodeAt(b, q, j, m) = x => j = i /\ m = k
             /\ NodeAt(b, q, j, m) = p => j = i /\ m = k - 1
             /\ NodeAt(b, q, j, m) = n => j = i /\ m = k + 1
  <2>1. /\ NodeAt(b, q, j, m) \in 1..Len(b.nodes) /\ NodeAt(b, q, j, m) # null
        /\ \A g \in Levels : \A h \in 1..Len(q[g]) :
             NodeAt(b, q, j, m) = NodeAt(b, q, g, h) => j = g /\ m = h
    BY NodesOfOrders
  <2>2. k - 1 \in 1..Len(q[i]) \/ p = null
    BY NodesBeyond
  <2>3. k + 1 \in 1..Len(q[i]) \/ n = null
    BY NodesBeyond
  <2>. QED BY <2>1, <2>2, <2>3
<1>7. ASSUME NEW j \in Levels, NEW l \in 1..Len(w[j])
      PROVE  c.nodes[NodeAt(c, w, j, l)] = Rec(w[j][l], j, NodeAt(c, w, j, l - 1),
                                                           NodeAt(c, w, j, l + 1))
  <2>0. Len(w[j]) \in Nat
    BY <1>0, QueueFacts
  <2>1. l \in Int /\ l - 1 \in Int /\ l + 1 \in Int
    BY <2>0, SMT
  <2>. DEFINE m == IF j = i /\ l >= k THEN l + 1 ELSE l
              y == NodeAt(b, q, j, m)
  <2>2. m \in 1..Len(q[j]) /\ w[j][l] = q[j][m] /\ ~(j = i /\ m = k) /\ m \in Int
    <3>1. CASE j # i
      BY <1>3, <2>1, <3>1
    <3>2. CASE j = i /\ l >= k
      <4>1. l \in 1..(N - 1) /\ ~(l < k) /\ m = l + 1 /\ m \in 1..N /\ m # k
        BY <1>0, <1>3, <3>2, SMT
      <4>. QED BY <1>3, <2>1, <3>2, <4>1 DEF N
    <3>3. CASE j = i /\ ~(l >= k)
      <4>1. l \in 1..(N - 1) /\ l < k /\ m = l /\ m \in 1..N /\ m # k
        BY <1>0, <1>3, <3>3, SMT
      <4>. QED BY <1>3, <2>1, <3>3, <4>1 DEF N
    <3>. QED BY <3>1, <3>2, <3>3
  <2>3. NodeAt(c, w, j, l) = y
    BY <1>1, <2>1
  <2>4. b.nodes[y] = Rec(q[j][m], j, NodeAt(b, q, j, m - 1), NodeAt(b, q, j, m + 1))
    <3>. HIDE DEF m
    <3>. QED BY <2>2 DEF Chained
  <2>5. /\ y \in 1..Len(b.nodes) /\ y # x
        /\ y = p => j = i /\ m = k - 1
        /\ y = n => j = i /\ m = k + 1
    <3>. HIDE DEF m
    <3>. QED BY <1>6, <2>2
  <2>6. CASE j = i /\ m = k - 1
    <3>1. l = k - 1 /\ ~(l >= k) /\ ~(l - 1 >= k) /\ l + 1 = k /\ k - 1 # k + 1
      BY <1>0, <2>1, <2>6, SMT
    <3>2. NodeAt(c, w, j, l - 1) = NodeAt(b, q, j, m - 1)
      BY <1>1, <2>1, <2>6, <3>1
    <3>3. NodeAt(c, w, j, l + 1) = n
      <4>1. k >= k
        BY <1>0, SMT
      <4>. QED BY <1>1, <2>1, <2>6, <3>1, <4>1
    <3>4. c.nodes[y] = [b.nodes[y] EXCEPT !.next = n]
      BY <1>4, <2>5, <2>6
    <3>5. c.nodes[y] = Rec(q[j][m], j, NodeAt(b, q, j, m - 1), n)
      <4>. HIDE DEF m, y, p, n
      <4>1. [Rec(q[j][m], j, NodeAt(b, q, j, m - 1), NodeAt(b, q, j, m + 1)) EXCEPT !.next = n]
              = Rec(q[j][m], j, NodeAt(b, q, j, m - 1), n)
        BY DEF Rec
      <4>. QED BY <2>4, <3>4, <4>1, Zenon
    <3>. QED BY <2>2, <2>3, <3>2, <3>3, <3>5
  <2>7. CASE j = i /\ m = k + 1
    <3>1. l = k /\ l + 1 >= k /\ ~(l - 1 >= k) /\ m = l + 1 /\ k - 1 # k + 1
      BY <1>0, <2>1, <2>7, SMT
    <3>2. NodeAt(c, w, j, l - 1) = p
      BY <1>1, <2>1, <2>7, <3>1
    <3>3. NodeAt(c, w, j, l + 1) = NodeAt(b, q, j, m + 1)
      BY <1>1, <2>1, <2>7, <3>1
    <3>4. y # p /\ y = n
      BY <2>5, <2>7, <3>1
    <3>5. c.nodes[y] = [b.nodes[y] EXCEPT !.prev = p]
      BY <1>4, <2>5, <3>4
    <3>6. c.nodes[y] = Rec(q[j][m], j, p, NodeAt(b, q, j, m + 1))
      <4>. HIDE DEF m, y, p, n
      <4>1. [Rec(q[j][m], j, NodeAt(b, q, j, m - 1), NodeAt(b, q, j, m + 1)) EXCEPT !.prev = p]
              = Rec(q[j][m], j, p, NodeAt(b, q, j, m + 1))
        BY DEF Rec
      <4>. QED BY <2>4, <3>5, <4>1, Zenon
    <3>. QED BY <2>2, <2>3, <3>2, <3>3, <3>6
  <2>8. CASE ~(j = i /\ m = k - 1) /\ ~(j = i /\ m = k + 1)
    <3>1. c.nodes[y] = b.nodes[y]
      BY <1>4, <2>5, <2>8
    <3>2. /\ NodeAt(c, w, j, l - 1) = NodeAt(b, q, j, m - 1)
          /\ NodeAt(c, w, j, l + 1) = NodeAt(b, q, j, m + 1)
      <4>1. CASE j # i
        BY <1>1, <2>1, <4>1
      <4>2. CASE j = i /\ l >= k
        <5>1. m = l + 1 /\ l - 1 >= k /\ l + 1 >= k /\ l - 1 + 1 = m - 1
          BY <1>0, <2>1, <2>2, <2>8, <4>2, SMT
        <5>. QED BY <1>1, <2>1, <4>2, <5>1
      <4>3. CASE j = i /\ ~(l >= k)
        <5>1. m = l /\ ~(l - 1 >= k) /\ ~(l + 1 >= k)
          BY <1>0, <2>1, <2>2, <2>8, <4>3, SMT
        <5>. QED BY <1>1, <2>1, <4>3, <5>1
      <4>. QED BY <4>1, <4>2, <4>3
    <3>. QED BY <2>2, <2>3, <2>4, <3>1, <3>2
  <2>. QED BY <2>6, <2>7, <2>8
<1>8. ASSUME NEW j \in Levels
      PROVE  /\ c.levels[j].head = NodeAt(c, w, j, 1)
             /\ c.levels[j].tail = NodeAt(c, w, j, Len(w[j]))
             /\ c.levels[j].order_count = Len(w[j])
             /\ AddUpTo(w[j], c.levels[j].aggregate_size)
  <2>1. CASE j # i
    <3>1. /\ c.levels[j] = b.levels[j] /\ w[j] = q[j] /\ Len(q[j]) \in Int /\ 1 \in Int
      BY <1>0, <1>3, <1>4, <2>1, QueueFacts, SMT
    <3>. QED BY <1>1, <2>1, <3>1 DEF Ended, Summed
  <2>2. CASE j = i
    <3>1. c.levels[i].head = NodeAt(c, w, i, 1)
      <4>1. CASE k = 1
        <5>1. k - 1 \notin 1..N /\ 1 >= k /\ 1 + 1 = k + 1
          BY <4>1, SMT
        <5>2. p = null
          BY <5>1, NodesBeyond DEF N
        <5>. QED BY <1>0, <1>1, <1>4, <5>1, <5>2
      <4>2. CASE k # 1
        <5>1. k - 1 \in 1..N /\ ~(1 >= k)
          BY <1>0, <4>2, SMT
        <5>2. p # null
          BY <5>1, NodesOfOrders DEF N
        <5>. QED BY <1>0, <1>1, <1>4, <1>5, <5>1, <5>2
      <4>. QED BY <4>1, <4>2
    <3>2. c.levels[i].tail = NodeAt(c, w, i, N - 1)
      <4>1. CASE k = N
        <5>1. k + 1 \notin 1..N /\ ~(N - 1 >= k) /\ N - 1 = k - 1
          BY <1>0, <4>1, SMT
        <5>2. n = null
          BY <5>1, NodesBeyond DEF N
        <5>. QED BY <1>0, <1>1, <1>4, <5>1, <5>2
      <4>2. CASE k # N
        <5>1. k + 1 \in 1..N /\ N - 1 >= k /\ N - 1 + 1 = N
          BY <1>0, <4>2, SMT
        <5>2. n # null
          BY <5>1, NodesOfOrders DEF N
        <5>. QED BY <1>0, <1>1, <1>4, <1>5, <5>1, <5>2
      <4>. QED BY <4>1, <4>2
    <3>3. AddUpTo(w[i], c.levels[i].aggregate_size)
      <4>1. CASE N - 1 > 0
        <5>1. /\ q[i] \in Seq(Order) /\ b.levels[i].aggregate_size \in Nat
              /\ AddUpTo(q[i], b.levels[i].aggregate_size)
          BY <1>0, QueueFacts, BookFacts DEF Summed, Indexed, Level
        <5>. QED BY <1>4, <1>5, <4>1, <5>1, SumRemoves
      <4>2. CASE ~(N - 1 > 0)
        <5>1. Len(w[i]) = 0
          BY <1>0, <1>3, <4>2, SMT
        <5>. QED BY <1>4, <1>5, <4>2, <5>1, SumOfNone
      <4>. QED BY <4>1, <4>2
    <3>. QED BY <1>3, <1>4, <1>5, <2>2, <3>1, <3>2, <3>3
  <2>. QED BY <2>1, <2>2
<1>. QED BY <1>7, <1>8 DEF Chained, Ended, Summed

-----------------------------------------------------------------------------
(* A partial reduction: node x, the k-th of level i, loses d shares.       *)

Shrinks(b, c, i, x, d) ==
  /\ Len(c.nodes) = Len(b.nodes)
  /\ \A y \in 1..Len(b.nodes) :
       c.nodes[y] = IF y = x THEN [b.nodes[y] EXCEPT !.size = @ - d] ELSE b.nodes[y]
  /\ c.index = b.index /\ c.free_head = b.free_head
  /\ \A j \in Levels \ {i} : c.levels[j] = b.levels[j]
  /\ c.levels[i] = [b.levels[i] EXCEPT !.aggregate_size = @ - d]

LEMMA ShrinkIndexed ==
  ASSUME NEW b, NEW q, Indexed(b, q), NEW i \in Levels, NEW k \in 1..Len(q[i]), NEW d, NEW x,
         NEW c, IsBook(c), Shrinks(b, c, i, x, d), NEW w, Shrunk(q, w, i, k, d)
  PROVE  Indexed(c, w) /\ \A j \in Levels, l \in Int : NodeAt(c, w, j, l) = NodeAt(b, q, j, l)
<1>1. /\ w \in Queues /\ Distinct(w) /\ Refs(w) = Refs(q)
      /\ \A j \in Levels : /\ Len(w[j]) = Len(q[j])
                           /\ \A l \in 1..Len(q[j]) : w[j][l].ref = q[j][l].ref
  <2>1. q \in Queues /\ Distinct(q) /\ w \in Queues
    BY DEF Shrunk, Indexed
  <2>. QED BY <2>1, ShrunkRefs
<1>2. c.index = b.index
  BY DEF Shrinks
<1>3. Indexed(c, w)
  BY <1>1, <1>2 DEF Indexed
<1>. QED BY <1>1, <1>2, <1>3 DEF NodeAt

LEMMA ShrinkLists ==
  ASSUME NEW b, NEW q, Indexed(b, q), NEW i \in Levels, NEW k \in 1..Len(q[i]),
         Chained(b, q), Ended(b, q), Summed(b, q), NEW d \in 0..q[i][k].size,
         NEW c, IsBook(c), Shrinks(b, c, i, NodeAt(b, q, i, k), d), NEW w, Shrunk(q, w, i, k, d)
  PROVE  Chained(c, w) /\ Ended(c, w) /\ Summed(c, w)
<1>. DEFINE x == NodeAt(b, q, i, k)
<1>0. q \in Queues /\ w \in Queues
  BY DEF Indexed, Shrunk
<1>1. \A j \in Levels, l \in Int : NodeAt(c, w, j, l) = NodeAt(b, q, j, l)
  BY ShrinkIndexed
<1>2. \A j \in Levels : Len(w[j]) = Len(q[j])
  BY ShrunkRefs DEF Indexed
<1>3. \A j \in Levels : \A l \in 1..Len(q[j]) :
        w[j][l] = IF j = i /\ l = k THEN [q[i][k] EXCEPT !.size = @ - d] ELSE q[j][l]
  BY DEF Shrunk
<1>4. ASSUME NEW j \in Levels, NEW l \in 1..Len(w[j])
      PROVE  c.nodes[NodeAt(c, w, j, l)] = Rec(w[j][l], j, NodeAt(c, w, j, l - 1),
                                                           NodeAt(c, w, j, l + 1))
  <2>0. l \in 1..Len(q[j]) /\ Len(q[j]) \in Nat
    BY <1>0, <1>2, QueueFacts
  <2>1. l \in Int /\ l - 1 \in Int /\ l + 1 \in Int
    BY <2>0, SMT
  <2>. DEFINE y == NodeAt(b, q, j, l)
              p == NodeAt(b, q, j, l - 1)
              n == NodeAt(b, q, j, l + 1)
  <2>2. NodeAt(c, w, j, l) = y /\ NodeAt(c, w, j, l - 1) = p /\ NodeAt(c, w, j, l + 1) = n
    BY <1>1, <2>1
  <2>3. b.nodes[y] = Rec(q[j][l], j, p, n)
    BY <2>0 DEF Chained
  <2>4. y \in 1..Len(b.nodes) /\ (y = x => j = i /\ l = k)
    BY <2>0, NodesOfOrders
  <2>5. c.nodes[y] = IF y = x THEN [b.nodes[y] EXCEPT !.size = @ - d] ELSE b.nodes[y]
    BY <2>4 DEF Shrinks
  <2>6. CASE j = i /\ l = k
    <3>1. y = x /\ w[j][l] = [q[j][l] EXCEPT !.size = @ - d]
      BY <1>3, <2>0, <2>6
    <3>2. q[j][l] \in Order
      BY <1>0, <2>0, QueueFacts
    <3>. HIDE DEF y, p, n, x
    <3>3. [Rec(q[j][l], j, p, n) EXCEPT !.size = @ - d] = Rec([q[j][l] EXCEPT !.size = @ - d], j, p, n)
      BY <3>2 DEF Rec, Order
    <3>. QED BY <2>2, <2>3, <2>5, <3>1, <3>3
  <2>7. CASE ~(j = i /\ l = k)
    BY <1>3, <2>0, <2>2, <2>3, <2>4, <2>5, <2>7
  <2>. QED BY <2>6, <2>7
<1>5. ASSUME NEW j \in Levels
      PROVE  /\ c.levels[j].head = NodeAt(c, w, j, 1)
             /\ c.levels[j].tail = NodeAt(c, w, j, Len(w[j]))
             /\ c.levels[j].order_count = Len(w[j])
  <2>1. Len(w[j]) = Len(q[j]) /\ Len(q[j]) \in Int /\ 1 \in Int
    BY <1>0, <1>2, QueueFacts, SMT
  <2>2. /\ c.levels[j].head = b.levels[j].head /\ c.levels[j].tail = b.levels[j].tail
        /\ c.levels[j].order_count = b.levels[j].order_count
    <3>1. b.levels[j] \in Level
      BY BookFacts DEF Indexed
    <3>2. c.levels[j] = b.levels[j] \/ c.levels[j] = [b.levels[j] EXCEPT !.aggregate_size = @ - d]
      BY DEF Shrinks
    <3>. QED BY <3>1, <3>2 DEF Level
  <2>. QED BY <1>1, <2>1, <2>2 DEF Ended
<1>6. ASSUME NEW j \in Levels PROVE AddUpTo(w[j], c.levels[j].aggregate_size)
  <2>1. CASE j # i
    <3>1. w[j] = q[j] /\ c.levels[j] = b.levels[j]
      BY <2>1 DEF Shrunk, Shrinks
    <3>. QED BY <3>1 DEF Summed
  <2>2. CASE j = i
    <3>1. /\ q[i] \in Seq(Order) /\ b.levels[i].aggregate_size \in Nat
          /\ AddUpTo(q[i], b.levels[i].aggregate_size) /\ q[i][k] \in Order
      BY <1>0, QueueFacts, BookFacts DEF Summed, Indexed, Level
    <3>2. /\ w[i][k].size = q[i][k].size - d
          /\ \A l \in 1..Len(q[i]) : l # k => w[i][l].size = q[i][l].size
      BY <1>3, <3>1 DEF Order
    <3>3. b.levels[i] \in Level /\ c.levels[i] = [b.levels[i] EXCEPT !.aggregate_size = @ - d]
      BY BookFacts DEF Indexed, Shrinks
    <3>4. c.levels[i].aggregate_size = b.levels[i].aggregate_size - d
      BY <3>3 DEF Level
    <3>. QED BY <1>2, <2>2, <3>1, <3>2, <3>4, SumShrinks
  <2>. QED BY <2>1, <2>2
<1>. QED BY <1>4, <1>5, <1>6 DEF Chained, Ended, Summed

-----------------------------------------------------------------------------
(* The pool.                                                               *)

Pooled(b) == \E n \in 0..Len(b.nodes) : \E f \in [1..n -> 1..Len(b.nodes)] : FreeList(b, f, n)

LEMMA PoolIs ==
  ASSUME NEW b, NEW q, Indexed(b, q)
  PROVE  Partitioned(b) <=> Pooled(b) /\ b.live_orders = Cardinality(DOMAIN b.index)
BY DEF Partitioned, Pooled, Indexed

(* The free list is never longer than the pool without a live node.        *)
LEMMA FreeListFits ==
  ASSUME NEW L \in Nat, NEW n \in Nat, NEW x \in 1..L, NEW f \in [1..n -> 1..L],
         \A k \in 1..n : f[k] # x, \A j, k \in 1..n : f[j] = f[k] => j = k
  PROVE  n + 1 <= L
<1>. DEFINE T == (1..L) \ {x}
<1>1. f \in Injection(1..n, T)
  BY DEF Injection, IsInjective
<1>2. IsFiniteSet(1..L) /\ Cardinality(1..L) = (IF 1 > L THEN 0 ELSE L - 1 + 1)
  BY FS_Interval
<1>3. IsFiniteSet(T) /\ Cardinality(T) = Cardinality(1..L) - 1
  BY <1>2, FS_RemoveElement
<1>4. Cardinality(1..n) <= Cardinality(T)
  BY <1>1, <1>3, FS_Injection
<1>5. Cardinality(1..n) = IF 1 > n THEN 0 ELSE n - 1 + 1
  BY FS_Interval
<1>. QED BY <1>2, <1>3, <1>4, <1>5, SMT

(* Allocating takes the first node off the free list.                      *)
LEMMA PoolInsert ==
  ASSUME NEW b, NEW q, Indexed(b, q), Pooled(b), NEW i \in Levels, NEW o, Ended(b, q),
         b.free_head # null, NEW c, Inserts(b, c, i, o, b.free_head), o.ref \notin DOMAIN b.index,
         c.free_head = b.nodes[b.free_head].next
  PROVE  Pooled(c) /\ b.free_head \in 1..Len(b.nodes) \ Live(b)
<1>. DEFINE L == Len(b.nodes)
            x == b.free_head
            t == b.levels[i].tail
<1>1. PICK n \in 0..L : \E f \in [1..n -> 1..L] : FreeList(b, f, n)
  BY DEF Pooled
<1>2. PICK f \in [1..n -> 1..L] : FreeList(b, f, n)
  BY <1>1
<1>3. L \in Nat
  BY BookFacts DEF Indexed
<1>4. /\ {f[k] : k \in 1..n} = (1..L) \ Live(b)
      /\ \A j, k \in 1..n : f[j] = f[k] => j = k
      /\ x = IF n = 0 THEN null ELSE f[1]
      /\ \A k \in 1..n : b.nodes[f[k]].next = IF k = n THEN null ELSE f[k + 1]
  BY <1>2 DEF FreeList
<1>5. n # 0 /\ n \in Nat /\ n - 1 \in 0..L /\ 1 \in 1..n /\ x = f[1]
  BY <1>3, <1>4, SMT
<1>6. x \in (1..L) \ Live(b)
  BY <1>4, <1>5
<1>7. t \notin {f[k] : k \in 1..n}
  <2>1. t = NodeAt(b, q, i, Len(q[i]))
    BY DEF Ended
  <2>2. CASE Len(q[i]) \in 1..Len(q[i])
    BY <1>4, <2>1, <2>2, NodesOfOrders
  <2>3. CASE Len(q[i]) \notin 1..Len(q[i])
    <3>1. t = null
      BY <2>1, <2>3, NodesBeyond
    <3>2. t \notin 1..L
      BY <1>3, <3>1, SMT DEF null
    <3>. QED BY <1>4, <3>2
  <2>. QED BY <2>2, <2>3
<1>. DEFINE g == [m \in 1..(n - 1) |-> f[m + 1]]
<1>8. /\ \A m \in 1..(n - 1) : m + 1 \in 1..n /\ m + 1 # 1 /\ (m = n - 1 <=> m + 1 = n)
      /\ \A m \in 1..(n - 1) : m # n - 1 => m + 1 \in 1..(n - 1)
      /\ \A k \in 1..n : k # 1 => k - 1 \in 1..(n - 1) /\ k - 1 + 1 = k
      /\ \A l, m \in 1..(n - 1) : l + 1 = m + 1 => l = m
      /\ n - 1 = 0 <=> 1 = n
      /\ n - 1 # 0 => 1 \in 1..(n - 1) /\ 1 + 1 \in 1..n
  BY <1>5, SMT
<1>9. g \in [1..(n - 1) -> 1..L]
  BY <1>8
<1>10. Live(c) = Live(b) \cup {x}
  BY DEF Live, Inserts
<1>11. {g[m] : m \in 1..(n - 1)} = (1..L) \ Live(c)
  <2>. DEFINE F == {f[k] : k \in 1..n}
              G == {g[m] : m \in 1..(n - 1)}
  <2>1. \A m \in 1..(n - 1) : g[m] \in F /\ g[m] # x
    BY <1>4, <1>5, <1>8
  <2>2. ASSUME NEW y \in F, y # x PROVE y \in G
    <3>1. PICK k \in 1..n : y = f[k]
      OBVIOUS
    <3>2. k - 1 \in 1..(n - 1) /\ k - 1 + 1 = k
      BY <1>5, <1>8, <2>2, <3>1
    <3>3. g[k - 1] = y
      BY <3>1, <3>2
    <3>. HIDE DEF g
    <3>. QED BY <3>2, <3>3
  <2>3. \A y \in G : y \in F /\ y # x
    <3>. HIDE DEF g, F
    <3>. QED BY <2>1
  <2>4. F = (1..L) \ Live(b)
    BY <1>4
  <2>. HIDE DEF F, G
  <2>5. G = (1..L) \ Live(c)
    BY <1>10, <2>2, <2>3, <2>4
  <2>. QED BY <2>5 DEF G
<1>12. \A l, m \in 1..(n - 1) : g[l] = g[m] => l = m
  BY <1>4, <1>8
<1>13. c.free_head = IF n - 1 = 0 THEN null ELSE g[1]
  <2>1. c.free_head = IF 1 = n THEN null ELSE f[1 + 1]
    BY <1>4, <1>5
  <2>. QED BY <1>8, <2>1
<1>14. ASSUME NEW m \in 1..(n - 1)
       PROVE  c.nodes[g[m]].next = IF m = n - 1 THEN null ELSE g[m + 1]
  <2>1. g[m] \in 1..L /\ g[m] # x /\ g[m] # t
    BY <1>4, <1>5, <1>7, <1>8
  <2>2. c.nodes[g[m]] = b.nodes[g[m]]
    BY <2>1 DEF Inserts
  <2>3. b.nodes[g[m]].next = IF m + 1 = n THEN null ELSE f[m + 1 + 1]
    BY <1>4, <1>8
  <2>4. m # n - 1 => g[m + 1] = f[m + 1 + 1]
    BY <1>8
  <2>. QED BY <1>8, <2>2, <2>3, <2>4
<1>15. Len(c.nodes) = L
  BY DEF Inserts
<1>. HIDE DEF g, L
<1>16. FreeList(c, g, n - 1)
  BY <1>9, <1>11, <1>12, <1>13, <1>14, <1>15 DEF FreeList
<1>17. Pooled(c)
  BY <1>5, <1>9, <1>15, <1>16 DEF Pooled
<1>. QED BY <1>6, <1>17 DEF L

(* Releasing puts the node in front of it.                                 *)
LEMMA PoolRemove ==
  ASSUME NEW b, NEW q, Indexed(b, q), Pooled(b), Chained(b, q), NEW i \in Levels,
         NEW k \in 1..Len(q[i]), NEW c, IsBook(c), Removes(b, c, i, NodeAt(b, q, i, k)),
         NEW w, Removed(q, w, i, k)
  PROVE  Pooled(c)
<1>. DEFINE L == Len(b.nodes)
            x == NodeAt(b, q, i, k)
            r == q[i][k].ref
            a == b.nodes[x].prev
            z == b.nodes[x].next
<1>1. PICK n \in 0..L : \E f \in [1..n -> 1..L] : FreeList(b, f, n)
  BY DEF Pooled
<1>2. PICK f \in [1..n -> 1..L] : FreeList(b, f, n)
  BY <1>1
<1>3. L \in Nat /\ n \in Nat
  BY BookFacts, SMT DEF Indexed
<1>4. /\ {f[l] : l \in 1..n} = (1..L) \ Live(b)
      /\ \A j, l \in 1..n : f[j] = f[l] => j = l
      /\ b.free_head = IF n = 0 THEN null ELSE f[1]
      /\ \A l \in 1..n : b.nodes[f[l]].next = IF l = n THEN null ELSE f[l + 1]
  BY <1>2 DEF FreeList
<1>5. x \in 1..L /\ x \in Live(b) /\ r \in DOMAIN b.index /\ x = b.index[r]
  BY NodesOfOrders
<1>6. \A l \in 1..n : f[l] \in 1..L /\ f[l] \notin Live(b) /\ f[l] # x
  BY <1>4, <1>5
<1>7. a \notin (1..L) \ Live(b) /\ z \notin (1..L) \ Live(b)
  <2>1. a = NodeAt(b, q, i, k - 1) /\ z = NodeAt(b, q, i, k + 1)
    BY ChainedAt
  <2>2. ASSUME NEW l PROVE NodeAt(b, q, i, l) \notin (1..L) \ Live(b)
    <3>1. CASE l \in 1..Len(q[i])
      BY <3>1, NodesOfOrders
    <3>2. CASE l \notin 1..Len(q[i])
      <4>1. NodeAt(b, q, i, l) = null
        BY <3>2, NodesBeyond
      <4>. QED BY <1>3, <4>1, SMT DEF null
    <3>. QED BY <3>1, <3>2
  <2>. QED BY <2>1, <2>2
<1>8. Live(c) = Live(b) \ {x}
  <2>1. DOMAIN c.index = DOMAIN b.index \ {r} /\ \A s \in DOMAIN c.index : c.index[s] = b.index[s]
    <3>1. DOMAIN c.index = DOMAIN b.index \ {r}
      BY RemoveIndexed
    <3>2. \A s \in DOMAIN c.index : c.index[s] = b.index[s]
      BY DEF Removes
    <3>. QED BY <3>1, <3>2
  <2>2. \A s \in DOMAIN b.index : b.index[s] = x => s = r
    BY <1>5 DEF Indexed
  <2>. QED BY <1>5, <2>1, <2>2 DEF Live
<1>9. n + 1 <= L
  <2>. HIDE DEF L, x
  <2>1. L \in Nat /\ n \in Nat /\ x \in 1..L /\ f \in [1..n -> 1..L]
    BY <1>2, <1>3, <1>5
  <2>2. (\A l \in 1..n : f[l] # x) /\ \A j, l \in 1..n : f[j] = f[l] => j = l
    BY <1>4, <1>6
  <2>. QED BY <2>1, <2>2, FreeListFits
<1>. DEFINE g == [m \in 1..(n + 1) |-> IF m = 1 THEN x ELSE f[m - 1]]
<1>. HIDE DEF L, x, a, z
<1>10. /\ n + 1 \in 0..L /\ 1 \in 1..(n + 1) /\ n + 1 # 0 /\ (1 = n + 1 <=> n = 0)
       /\ \A m \in 1..(n + 1) : m # 1 => m - 1 \in 1..n /\ (m = n + 1 <=> m - 1 = n)
       /\ \A m \in 1..(n + 1) : m # n + 1 => m + 1 \in 1..(n + 1) /\ m + 1 # 1 /\ m + 1 - 1 = m
       /\ \A m \in 1..(n + 1) : m # 1 => m - 1 + 1 = m
       /\ \A l \in 1..n : l + 1 \in 1..(n + 1) /\ l + 1 # 1 /\ l + 1 - 1 = l
       /\ \A l, m \in 1..(n + 1) : l - 1 = m - 1 => l = m
  BY <1>3, <1>9, SMT
<1>11. g \in [1..(n + 1) -> 1..L]
  BY <1>5, <1>10
<1>12. {g[m] : m \in 1..(n + 1)} = (1..L) \ Live(c)
  <2>. DEFINE F == {f[l] : l \in 1..n}
              G == {g[m] : m \in 1..(n + 1)}
  <2>1. \A m \in 1..(n + 1) : g[m] \in F \cup {x}
    BY <1>10
  <2>2. ASSUME NEW y \in F PROVE y \in G
    <3>1. PICK l \in 1..n : y = f[l]
      OBVIOUS
    <3>2. l + 1 \in 1..(n + 1) /\ g[l + 1] = y
      BY <1>10, <3>1
    <3>. HIDE DEF g
    <3>. QED BY <3>2
  <2>3. x \in G
    <3>1. g[1] = x
      BY <1>10
    <3>. HIDE DEF g
    <3>. QED BY <1>10, <3>1
  <2>4. \A y \in G : y \in F \cup {x}
    <3>. HIDE DEF g, F
    <3>. QED BY <2>1
  <2>5. F = (1..L) \ Live(b)
    BY <1>4
  <2>. HIDE DEF F, G
  <2>6. G = (1..L) \ Live(c)
    BY <1>5, <1>8, <2>2, <2>3, <2>4, <2>5
  <2>. QED BY <2>6 DEF G
<1>13. \A l, m \in 1..(n + 1) : g[l] = g[m] => l = m
  <2>. TAKE l, m \in 1..(n + 1)
  <2>1. CASE l = 1 \/ m = 1
    BY <1>6, <1>10, <2>1
  <2>2. CASE l # 1 /\ m # 1
    <3>1. g[l] = f[l - 1] /\ g[m] = f[m - 1] /\ l - 1 \in 1..n /\ m - 1 \in 1..n
      BY <1>10, <2>2
    <3>2. ASSUME f[l - 1] = f[m - 1] PROVE l = m
      <4>1. l - 1 = m - 1
        BY <1>4, <3>1, <3>2, SMTT(40)
      <4>. QED BY <4>1, SMT
    <3>. HIDE DEF g
    <3>. QED BY <3>1, <3>2
  <2>. QED BY <2>1, <2>2
<1>14. /\ Len(c.nodes) = L /\ c.free_head = x
       /\ \A y \in 1..L : y # x /\ y # a /\ y # z => c.nodes[y] = b.nodes[y]
       /\ c.nodes[x] = FreeNode(b.free_head)
  BY <1>5, ZenonT(30) DEF Removes, L, x, a, z
<1>15. ASSUME NEW m \in 1..(n + 1)
       PROVE  c.nodes[g[m]].next = IF m = n + 1 THEN null ELSE g[m + 1]
  <2>1. CASE m = 1
    <3>1. c.nodes[g[m]].next = b.free_head
      BY <1>14, <2>1 DEF FreeNode
    <3>2. CASE n = 0
      BY <1>4, <1>10, <2>1, <3>1, <3>2
    <3>3. CASE n # 0
      <4>1. m # n + 1 /\ g[m + 1] = f[1]
        BY <1>10, <2>1, <3>3
      <4>. QED BY <1>4, <3>1, <3>3, <4>1
    <3>. QED BY <3>2, <3>3
  <2>2. CASE m # 1
    <3>1. g[m] = f[m - 1] /\ m - 1 \in 1..n
      BY <1>10, <2>2
    <3>2. c.nodes[g[m]] = b.nodes[f[m - 1]]
      <4>1. f[m - 1] \in 1..L /\ f[m - 1] # x /\ f[m - 1] # a /\ f[m - 1] # z
        BY <1>6, <1>7, <3>1
      <4>. QED BY <1>14, <3>1, <4>1
    <3>3. b.nodes[f[m - 1]].next = IF m - 1 = n THEN null ELSE f[m - 1 + 1]
      BY <1>4, <3>1
    <3>4. m # n + 1 => g[m + 1] = f[m - 1 + 1]
      BY <1>10, <2>2
    <3>. QED BY <1>10, <2>2, <3>2, <3>3, <3>4
  <2>. QED BY <2>1, <2>2
<1>16. c.free_head = IF n + 1 = 0 THEN null ELSE g[1]
  BY <1>10, <1>14
<1>. HIDE DEF g
<1>17. FreeList(c, g, n + 1)
  BY <1>11, <1>12, <1>13, <1>14, <1>15, <1>16 DEF FreeList
<1>18. n + 1 \in 0..Len(c.nodes) /\ g \in [1..(n + 1) -> 1..Len(c.nodes)]
  BY <1>10, <1>11, <1>14
<1>. QED BY <1>17, <1>18 DEF Pooled

(* A change of size leaves it alone.                                       *)
LEMMA PoolShrink ==
  ASSUME NEW b, IsBook(b), Pooled(b), NEW i, NEW x, NEW d, NEW c, Shrinks(b, c, i, x, d)
  PROVE  Pooled(c)
<1>. DEFINE L == Len(b.nodes)
<1>1. PICK n \in 0..L : \E f \in [1..n -> 1..L] : FreeList(b, f, n)
  BY DEF Pooled
<1>2. PICK f \in [1..n -> 1..L] : FreeList(b, f, n)
  BY <1>1
<1>3. \A y \in 1..L : c.nodes[y].next = b.nodes[y].next
  <2>. TAKE y \in 1..L
  <2>1. b.nodes[y] \in Node
    BY BookFacts
  <2>2. c.nodes[y] = b.nodes[y] \/ c.nodes[y] = [b.nodes[y] EXCEPT !.size = @ - d]
    BY DEF Shrinks
  <2>. QED BY <2>1, <2>2 DEF Node
<1>4. Len(c.nodes) = L /\ c.index = b.index /\ c.free_head = b.free_head
  BY DEF Shrinks
<1>5. Live(c) = Live(b)
  BY <1>4 DEF Live
<1>6. /\ {f[l] : l \in 1..n} = (1..L) \ Live(b)
      /\ \A j, l \in 1..n : f[j] = f[l] => j = l
      /\ b.free_head = IF n = 0 THEN null ELSE f[1]
      /\ \A l \in 1..n : b.nodes[f[l]].next = IF l = n THEN null ELSE f[l + 1]
  BY <1>2 DEF FreeList
<1>. HIDE DEF L
<1>7. \A l \in 1..n : c.nodes[f[l]].next = IF l = n THEN null ELSE f[l + 1]
  BY <1>3, <1>6
<1>8. FreeList(c, f, n)
  BY <1>4, <1>5, <1>6, <1>7 DEF FreeList
<1>9. n \in 0..Len(c.nodes) /\ f \in [1..n -> 1..Len(c.nodes)]
  BY <1>4
<1>. QED BY <1>8, <1>9 DEF Pooled

(* Growing an exhausted pool: the new nodes, last to first, are the free   *)
(* list, and nothing else changes.                                         *)
Kept(b, c) == /\ c.levels = b.levels /\ c.index = b.index /\ c.bid = b.bid /\ c.ask = b.ask
              /\ c.live_orders = b.live_orders

LEMMA GrowIs ==
  ASSUME NEW b, IsBook(b), b.free_head = null
  PROVE  LET c == grow(b)
             n == Len(b.nodes)
         IN /\ IsBook(c) /\ Kept(b, c) /\ c.free_head = n + pool_chunk
            /\ Len(c.nodes) = n + pool_chunk
            /\ \A y \in 1..n : c.nodes[y] = b.nodes[y]
            /\ \A y \in (n + 1)..(n + pool_chunk) :
                 c.nodes[y] = FreeNode(IF y = n + 1 THEN null ELSE y - 1)
<1>. DEFINE c == grow(b)
            n == Len(b.nodes)
            new == [k \in 1..pool_chunk |-> FreeNode(IF k = 1 THEN b.free_head ELSE n + k - 1)]
<1>1. n \in Nat /\ b.nodes \in Seq(Node) /\ pool_chunk \in Nat /\ pool_chunk > 0
  BY BookFacts, OrderBookAssumption, SMT
<1>2. \A m \in Nat : FreeNode(m) \in Node
  BY DEF FreeNode, Node, Side, null
<1>3. new \in Seq(Node) /\ Len(new) = pool_chunk
  <2>1. \A k \in 1..pool_chunk : (IF k = 1 THEN b.free_head ELSE n + k - 1) \in Nat
    BY <1>1, SMT DEF null
  <2>2. new \in [1..pool_chunk -> Node]
    <3>. HIDE DEF n
    <3>. QED BY <1>2, <2>1
  <2>. HIDE DEF new
  <2>. QED BY <1>1, <2>2
<1>4. /\ c.nodes = b.nodes \o new /\ c.free_head = n + pool_chunk /\ Kept(b, c)
  BY DEF IsBook, Books, grow, Kept
<1>5. /\ c.nodes \in Seq(Node) /\ Len(c.nodes) = n + Len(new)
      /\ \A y \in 1..(n + Len(new)) : c.nodes[y] = IF y <= n THEN b.nodes[y] ELSE new[y - n]
  <2>1. c.nodes = b.nodes \o new
    BY <1>4
  <2>. HIDE DEF new, c
  <2>2. /\ b.nodes \o new \in Seq(Node) /\ Len(b.nodes \o new) = Len(b.nodes) + Len(new)
        /\ \A y \in 1..(Len(b.nodes) + Len(new)) :
             (b.nodes \o new)[y] = IF y <= Len(b.nodes) THEN b.nodes[y] ELSE new[y - Len(b.nodes)]
    BY <1>1, <1>3, ConcatProperties, Zenon
  <2>. QED BY <2>1, <2>2
<1>6. IsBook(c)
  <2>1. c \in [levels : [Levels -> Level], nodes : Seq(Node), free_head : 0..(n + pool_chunk),
               index : UNION {[S -> 1..n] : S \in SUBSET Ref},
               bid : Levels \cup {None}, ask : Levels \cup {None}, live_orders : Nat]
    <3>1. c.nodes \in Seq(Node) /\ n + pool_chunk \in 0..(n + pool_chunk)
      BY <1>1, <1>5, SMT
    <3>2. c = [b EXCEPT !.nodes = b.nodes \o new, !.free_head = n + pool_chunk]
      BY DEF grow
    <3>3. b \in [levels : [Levels -> Level], nodes : Seq(Node), free_head : 0..n,
                 index : UNION {[S -> 1..n] : S \in SUBSET Ref},
                 bid : Levels \cup {None}, ask : Levels \cup {None}, live_orders : Nat]
      BY DEF IsBook, Books
    <3>4. b.nodes \o new \in Seq(Node)
      BY <1>4, <3>1
    <3>. HIDE DEF c, new, n
    <3>. QED BY <3>1, <3>2, <3>3, <3>4
  <2>2. c.index \in UNION {[S -> 1..(n + pool_chunk)] : S \in SUBSET Ref}
    <3>. HIDE DEF c
    <3>1. PICK S \in SUBSET Ref : c.index \in [S -> 1..n]
      BY <2>1
    <3>2. 1..n \subseteq 1..(n + pool_chunk)
      BY <1>1, SMT
    <3>3. c.index \in [S -> 1..(n + pool_chunk)]
      <4>. HIDE DEF n
      <4>. QED BY <3>1, <3>2
    <3>. QED BY <3>3
  <2>3. Len(c.nodes) = n + pool_chunk
    BY <1>3, <1>5
  <2>. HIDE DEF c, n
  <2>. QED BY <2>1, <2>2, <2>3 DEF IsBook, Books
<1>7. \A y \in 1..n : c.nodes[y] = b.nodes[y]
  <2>. HIDE DEF c, new
  <2>. QED BY <1>1, <1>3, <1>5, SMT
<1>8. ASSUME NEW y \in (n + 1)..(n + pool_chunk)
      PROVE  c.nodes[y] = FreeNode(IF y = n + 1 THEN null ELSE y - 1)
  <2>1. y - n \in 1..pool_chunk /\ y \in 1..(n + pool_chunk) /\ ~(y <= n)
        /\ (y - n = 1 <=> y = n + 1) /\ n + (y - n) - 1 = y - 1
    BY <1>1, SMT
  <2>2. c.nodes[y] = new[y - n]
    <3>. HIDE DEF c, new, n
    <3>. QED BY <1>3, <1>5, <2>1
  <2>3. new[y - n] = FreeNode(IF y - n = 1 THEN b.free_head ELSE n + (y - n) - 1)
    <3>. HIDE DEF n
    <3>. QED BY <2>1
  <2>. HIDE DEF c, new, n
  <2>. QED BY <2>1, <2>2, <2>3
<1>. QED BY <1>3, <1>4, <1>5, <1>6, <1>7, <1>8

LEMMA KeptLists ==
  ASSUME NEW b, NEW q, Indexed(b, q), Chained(b, q), Ended(b, q), Summed(b, q), NEW c, IsBook(c),
         Kept(b, c), \A y \in 1..Len(b.nodes) : c.nodes[y] = b.nodes[y]
  PROVE  Indexed(c, q) /\ Chained(c, q) /\ Ended(c, q) /\ Summed(c, q)
<1>1. \A i, k : NodeAt(c, q, i, k) = NodeAt(b, q, i, k)
  BY DEF NodeAt, Kept
<1>2. Indexed(c, q)
  BY DEF Indexed, Kept
<1>3. Ended(c, q) /\ Summed(c, q)
  BY <1>1 DEF Ended, Summed, Kept
<1>4. ASSUME NEW i \in Levels, NEW k \in 1..Len(q[i])
      PROVE  c.nodes[NodeAt(b, q, i, k)] = b.nodes[NodeAt(b, q, i, k)]
  BY NodesOfOrders
<1>5. Chained(c, q)
  BY <1>1, <1>4 DEF Chained
<1>. QED BY <1>2, <1>3, <1>5

LEMMA PoolGrow ==
  ASSUME NEW b, IsBook(b), Pooled(b), b.free_head = null
  PROVE  Pooled(grow(b)) /\ grow(b).free_head # null
<1>. DEFINE c == grow(b)
            L == Len(b.nodes)
            M == L + pool_chunk
            f == [m \in 1..pool_chunk |-> M + 1 - m]
<1>1. L \in Nat /\ pool_chunk \in Nat /\ pool_chunk > 0 /\ M \in Nat
  BY BookFacts, OrderBookAssumption, SMT
<1>2. /\ Kept(b, c) /\ c.free_head = M /\ Len(c.nodes) = M
      /\ \A y \in (L + 1)..M : c.nodes[y] = FreeNode(IF y = L + 1 THEN null ELSE y - 1)
  BY GrowIs
<1>3. Live(b) = 1..L
  <2>1. PICK n \in 0..L : \E h \in [1..n -> 1..L] : FreeList(b, h, n)
    BY DEF Pooled
  <2>2. PICK h \in [1..n -> 1..L] : FreeList(b, h, n)
    BY <2>1
  <2>3. /\ {h[l] : l \in 1..n} = (1..L) \ Live(b)
        /\ b.free_head = IF n = 0 THEN null ELSE h[1]
    BY <2>2 DEF FreeList
  <2>4. n = 0
    <3>1. n # 0 => 1 \in 1..n
      BY <1>1, SMT
    <3>. QED BY <1>1, <2>3, <3>1, SMT DEF null
  <2>5. 1..n = {}
    BY <2>4, SMT
  <2>6. (1..L) \ Live(b) = {}
    BY <2>3, <2>5
  <2>7. Live(b) \subseteq 1..L
    BY BookFacts DEF Live
  <2>. HIDE DEF L
  <2>. QED BY <2>6, <2>7
<1>4. Live(c) = 1..L
  BY <1>2, <1>3 DEF Live, Kept
<1>. HIDE DEF c, L
<1>5. f \in [1..pool_chunk -> 1..M]
  <2>1. \A m \in 1..pool_chunk : M + 1 - m \in 1..M
    BY <1>1, SMT
  <2>. QED BY <2>1
<1>6. \A m \in 1..pool_chunk : /\ f[m] \in (L + 1)..M /\ M + 1 - f[m] = m
                               /\ (m = pool_chunk <=> f[m] = L + 1)
                               /\ m # pool_chunk => m + 1 \in 1..pool_chunk /\ f[m + 1] = f[m] - 1
  BY <1>1, SMT
<1>7. {f[m] : m \in 1..pool_chunk} = (1..M) \ Live(c)
  <2>1. \A y \in (L + 1)..M : M + 1 - y \in 1..pool_chunk /\ f[M + 1 - y] = y
    BY <1>1, SMT
  <2>2. (1..M) \ (1..L) = (L + 1)..M
    BY <1>1, SMT
  <2>. HIDE DEF f, M
  <2>. QED BY <1>4, <1>6, <2>1, <2>2
<1>8. \A j, k \in 1..pool_chunk : f[j] = f[k] => j = k
  <2>. HIDE DEF f
  <2>. QED BY <1>6
<1>9. f[1] = M /\ pool_chunk # 0
  BY <1>1, SMT
<1>10. ASSUME NEW k \in 1..pool_chunk
       PROVE  c.nodes[f[k]].next = IF k = pool_chunk THEN null ELSE f[k + 1]
  <2>1. c.nodes[f[k]].next = IF f[k] = L + 1 THEN null ELSE f[k] - 1
    <3>. HIDE DEF f, M
    <3>1. \A m : FreeNode(m).next = m
      BY DEF FreeNode
    <3>2. c.nodes[f[k]] = FreeNode(IF f[k] = L + 1 THEN null ELSE f[k] - 1)
      BY <1>2, <1>6
    <3>. QED BY <3>1, <3>2
  <2>. HIDE DEF f, M
  <2>. QED BY <1>6, <2>1
<1>. HIDE DEF f
<1>11. FreeList(c, f, pool_chunk)
  BY <1>2, <1>5, <1>7, <1>8, <1>9, <1>10 DEF FreeList
<1>12. pool_chunk \in 0..Len(c.nodes) /\ f \in [1..pool_chunk -> 1..Len(c.nodes)]
  <2>1. pool_chunk \in 0..M
    BY <1>1, SMT
  <2>. HIDE DEF M
  <2>. QED BY <1>2, <1>5, <2>1
<1>13. c.free_head # null
  BY <1>1, <1>2, SMT DEF null
<1>14. Pooled(c)
  BY <1>11, <1>12 DEF Pooled
<1>. QED BY <1>13, <1>14 DEF c

(* The book an order is put in.                                            *)
LEMMA ReadyIs ==
  ASSUME NEW b, NEW q, Indexed(b, q), Chained(b, q), Ended(b, q), Summed(b, q), Pooled(b)
  PROVE  LET c == ready(b)
         IN /\ Indexed(c, q) /\ Chained(c, q) /\ Ended(c, q) /\ Summed(c, q) /\ Pooled(c)
            /\ Kept(b, c) /\ c.free_head # null
<1>1. CASE b.free_head = null
  <2>1. ready(b) = grow(b)
    BY <1>1 DEF ready
  <2>2. IsBook(b)
    BY DEF Indexed
  <2>3. /\ IsBook(grow(b)) /\ Kept(b, grow(b))
        /\ \A y \in 1..Len(b.nodes) : grow(b).nodes[y] = b.nodes[y]
    BY <1>1, <2>2, GrowIs
  <2>4. Pooled(grow(b)) /\ grow(b).free_head # null
    BY <1>1, <2>2, PoolGrow
  <2>5. Indexed(grow(b), q) /\ Chained(grow(b), q) /\ Ended(grow(b), q) /\ Summed(grow(b), q)
    BY <2>3, KeptLists
  <2>. QED BY <2>1, <2>3, <2>4, <2>5
<1>2. CASE b.free_head # null
  BY <1>2 DEF ready, Kept
<1>. QED BY <1>1, <1>2

-----------------------------------------------------------------------------
(* The class's own operations, as such changes.                            *)

Whole(levels, nodes, free_head, index, bid, ask, live) ==
  [levels |-> levels, nodes |-> nodes, free_head |-> free_head, index |-> index,
   bid |-> bid, ask |-> ask, live_orders |-> live]

LEMMA BookIs ==
  ASSUME NEW b, IsBook(b)
  PROVE  b = Whole(b.levels, b.nodes, b.free_head, b.index, b.bid, b.ask, b.live_orders)
BY DEF IsBook, Books, Whole

LEMMA BookMade ==
  ASSUME NEW l \in [Levels -> Level], NEW n \in Seq(Node), NEW f \in 0..Len(n),
         NEW x, DOMAIN x \subseteq Ref, x \in [DOMAIN x -> 1..Len(n)],
         NEW bd \in Levels \cup {None}, NEW ak \in Levels \cup {None}, NEW v \in Nat
  PROVE  IsBook(Whole(l, n, f, x, bd, ak, v))
<1>1. x \in UNION {[S -> 1..Len(n)] : S \in SUBSET Ref}
  OBVIOUS
<1>2. Whole(l, n, f, x, bd, ak, v).nodes = n
  BY DEF Whole
<1>3. Whole(l, n, f, x, bd, ak, v) \in Books(Len(n))
  BY <1>1 DEF Whole, Books
<1>. QED BY <1>2, <1>3 DEF IsBook

(* A book with a pool of N nodes, of which a node or a level is replaced.  *)
Shaped(b, N) ==
  /\ b = Whole(b.levels, b.nodes, b.free_head, b.index, b.bid, b.ask, b.live_orders)
  /\ b.levels \in [Levels -> Level] /\ b.nodes \in [1..N -> Node]
Rest(b, c) == /\ c.free_head = b.free_head /\ c.index = b.index /\ c.bid = b.bid /\ c.ask = b.ask
              /\ c.live_orders = b.live_orders
PutNode(b, x, e) == [b EXCEPT !.nodes = [b.nodes EXCEPT ![x] = e]]
PutLevel(b, i, e) == [b EXCEPT !.levels = [b.levels EXCEPT ![i] = e]]

LEMMA PoolIsSeq ==
  ASSUME NEW S, NEW N \in Nat, NEW v \in [1..N -> S]
  PROVE  v \in Seq(S) /\ Len(v) = N
OBVIOUS

LEMMA BookShaped ==
  ASSUME NEW b, IsBook(b)
  PROVE  Shaped(b, Len(b.nodes))
<1>1. b.nodes \in [1..Len(b.nodes) -> Node]
  BY BookFacts
<1>. QED BY <1>1, BookIs, BookFacts DEF Shaped

LEMMA PutNodeIs ==
  ASSUME NEW b, NEW N, Shaped(b, N), NEW x \in 1..N, NEW e \in Node
  PROVE  LET c == PutNode(b, x, e)
         IN /\ Shaped(c, N) /\ Rest(b, c) /\ c.levels = b.levels
            /\ c.nodes[x] = e /\ \A y \in 1..N : y # x => c.nodes[y] = b.nodes[y]
<1>. DEFINE n == [b.nodes EXCEPT ![x] = e]
<1>1. n \in [1..N -> Node] /\ n[x] = e /\ \A y \in 1..N : y # x => n[y] = b.nodes[y]
  BY DEF Shaped
<1>. HIDE DEF n
<1>2. PutNode(b, x, e) = Whole(b.levels, n, b.free_head, b.index, b.bid, b.ask, b.live_orders)
  BY DEF PutNode, Shaped, Whole, n
<1>. QED BY <1>1, <1>2 DEF Shaped, Whole, Rest

LEMMA PutLevelIs ==
  ASSUME NEW b, NEW N, Shaped(b, N), NEW i \in Levels, NEW e \in Level
  PROVE  LET c == PutLevel(b, i, e)
         IN /\ Shaped(c, N) /\ Rest(b, c) /\ c.nodes = b.nodes
            /\ c.levels[i] = e /\ \A j \in Levels : j # i => c.levels[j] = b.levels[j]
<1>. DEFINE l == [b.levels EXCEPT ![i] = e]
<1>1. l \in [Levels -> Level] /\ l[i] = e /\ \A j \in Levels : j # i => l[j] = b.levels[j]
  BY DEF Shaped
<1>. HIDE DEF l
<1>2. PutLevel(b, i, e) = Whole(l, b.nodes, b.free_head, b.index, b.bid, b.ask, b.live_orders)
  BY DEF PutLevel, Shaped, Whole, l
<1>. QED BY <1>1, <1>2 DEF Shaped, Whole, Rest

(* A level, all of it.                                                     *)
Lev(a, n, s, h, t) == [aggregate_size |-> a, order_count |-> n, side |-> s, head |-> h, tail |-> t]
LEMMA LevelIs ==
  ASSUME NEW l \in Level
  PROVE  /\ l = Lev(l.aggregate_size, l.order_count, l.side, l.head, l.tail)
         /\ l.aggregate_size \in Nat /\ l.order_count \in Nat /\ l.side \in Side
         /\ l.head \in Nat /\ l.tail \in Nat
BY DEF Level, Lev
LEMMA LevelMade ==
  ASSUME NEW a \in Nat, NEW n \in Nat, NEW s \in Side, NEW h \in Nat, NEW t \in Nat
  PROVE  Lev(a, n, s, h, t) \in Level
BY DEF Level, Lev
LEMMA LevelChanges ==
  ASSUME NEW a, NEW n, NEW s, NEW h, NEW t, NEW x
  PROVE  LET l == Lev(a, n, s, h, t)
         IN /\ [l EXCEPT !.aggregate_size = x] = Lev(x, n, s, h, t)
            /\ [l EXCEPT !.order_count = x] = Lev(a, x, s, h, t)
            /\ [l EXCEPT !.side = x] = Lev(a, n, x, h, t)
            /\ [l EXCEPT !.head = x] = Lev(a, n, s, x, t)
            /\ [l EXCEPT !.tail = x] = Lev(a, n, s, h, x)
            /\ l.aggregate_size = a /\ l.order_count = n /\ l.side = s /\ l.head = h /\ l.tail = t
BY DEF Lev
LEMMA NodeMade ==
  ASSUME NEW o \in Order, NEW i \in Nat, NEW p \in Nat, NEW n \in Nat
  PROVE  Rec(o, i, p, n) \in Node
BY DEF Rec, Node, Order

(* A new order goes to the back of its level.                              *)
Linked(b, c, N, i, x, o) ==
  LET l == b.levels[i]
  IN /\ Shaped(c, N) /\ Rest(b, c)
     /\ \A y \in 1..N : c.nodes[y] = IF y = x THEN Rec(o, i, l.tail, null)
                                     ELSE IF y = l.tail THEN [b.nodes[y] EXCEPT !.next = x]
                                     ELSE b.nodes[y]
     /\ \A j \in Levels : j # i => c.levels[j] = b.levels[j]
     /\ c.levels[i] = Lev(l.aggregate_size, l.order_count, l.side,
                          IF l.tail = null THEN x ELSE l.head, x)

LEMMA LinkBackIs ==
  ASSUME NEW b, NEW N \in Nat, Shaped(b, N), NEW i \in Levels, NEW x \in 1..N, NEW o \in Order,
         b.levels[i].tail \in 0..N, b.levels[i].tail # x, b.nodes[x] = Rec(o, i, null, null)
  PROVE  Linked(b, link_back(b, i, x), N, i, x, o)
<1>. DEFINE l == b.levels[i]
            t == l.tail
            c1 == [b EXCEPT !.nodes[x].prev = t]
            c2 == [c1 EXCEPT !.nodes[x].next = null]
            c3 == [c2 EXCEPT !.levels[i].tail = x]
<1>1. link_back(b, i, x) = IF t # null THEN [c3 EXCEPT !.nodes[t].next = x]
                                       ELSE [c3 EXCEPT !.levels[i].head = x]
  BY Zenon DEF link_back
<1>2. /\ i \in Nat /\ null \in Nat /\ x \in Nat /\ t \in Nat /\ l \in Level
      /\ l = Lev(l.aggregate_size, l.order_count, l.side, l.head, t)
      /\ l.aggregate_size \in Nat /\ l.order_count \in Nat /\ l.side \in Side /\ l.head \in Nat
  <2>1. l \in Level /\ i \in Nat /\ null \in Nat /\ x \in Nat
    BY LevelNumbers, SMT DEF Shaped, null
  <2>. QED BY <2>1, LevelIs
<1>3. c1 = PutNode(b, x, Rec(o, i, t, null))
  <2>1. c1 = PutNode(b, x, [b.nodes[x] EXCEPT !.prev = t])
    <3>. HIDE DEF t
    <3>. QED BY DEF PutNode
  <2>. HIDE DEF c1, t
  <2>2. [b.nodes[x] EXCEPT !.prev = t] = Rec(o, i, t, null)
    BY DEF Rec
  <2>. QED BY <2>1, <2>2
<1>4. c2 = PutNode(c1, x, [c1.nodes[x] EXCEPT !.next = null])
  <2>. HIDE DEF c1
  <2>. QED BY DEF PutNode
<1>5. c3 = PutLevel(c2, i, [c2.levels[i] EXCEPT !.tail = x])
  <2>. HIDE DEF c2
  <2>. QED BY DEF PutLevel
<1>6. [c3 EXCEPT !.nodes[t].next = x] = PutNode(c3, t, [c3.nodes[t] EXCEPT !.next = x])
  <2>. HIDE DEF c3, t
  <2>. QED BY DEF PutNode
<1>7. [c3 EXCEPT !.levels[i].head = x] = PutLevel(c3, i, [c3.levels[i] EXCEPT !.head = x])
  <2>. HIDE DEF c3
  <2>. QED BY DEF PutLevel
<1>. HIDE DEF c1, c2, c3, t, l
<1>8. Rec(o, i, t, null) \in Node
  BY <1>2, NodeMade
<1>9. /\ Shaped(c1, N) /\ Rest(b, c1) /\ c1.levels = b.levels /\ c1.nodes[x] = Rec(o, i, t, null)
      /\ \A y \in 1..N : y # x => c1.nodes[y] = b.nodes[y]
  BY <1>3, <1>8, PutNodeIs
<1>10. c2 = PutNode(c1, x, Rec(o, i, t, null))
  BY <1>4, <1>9, RecChanges
<1>11. /\ Shaped(c2, N) /\ Rest(c1, c2) /\ c2.levels = b.levels /\ c2.nodes[x] = Rec(o, i, t, null)
       /\ \A y \in 1..N : y # x => c2.nodes[y] = b.nodes[y]
  BY <1>8, <1>9, <1>10, PutNodeIs
<1>. DEFINE l3 == Lev(l.aggregate_size, l.order_count, l.side, l.head, x)
            l4 == Lev(l.aggregate_size, l.order_count, l.side, x, x)
<1>12. l3 \in Level /\ l4 \in Level
  BY <1>2, LevelMade
<1>13. c3 = PutLevel(c2, i, l3)
  <2>1. c2.levels[i] = l
    BY <1>11 DEF l
  <2>2. [l EXCEPT !.tail = x] = l3
    BY <1>2 DEF Lev
  <2>. QED BY <1>5, <2>1, <2>2
<1>. HIDE DEF l3, l4
<1>14. /\ Shaped(c3, N) /\ Rest(c2, c3) /\ c3.nodes = c2.nodes /\ c3.levels[i] = l3
       /\ \A j \in Levels : j # i => c3.levels[j] = b.levels[j]
  BY <1>11, <1>12, <1>13, PutLevelIs, SMTT(30)
<1>15. Rest(b, c3)
  BY <1>9, <1>11, <1>14 DEF Rest
<1>16. CASE t = null
  <2>. DEFINE c == PutLevel(c3, i, l4)
  <2>1. link_back(b, i, x) = c
    <3>1. [c3.levels[i] EXCEPT !.head = x] = l4
      BY <1>14, LevelChanges DEF l3, l4
    <3>. QED BY <1>1, <1>7, <1>16, <3>1
  <2>2. /\ Shaped(c, N) /\ Rest(c3, c) /\ c.nodes = c3.nodes /\ c.levels[i] = l4
        /\ \A j \in Levels : j # i => c.levels[j] = c3.levels[j]
    BY <1>12, <1>14, PutLevelIs
  <2>. HIDE DEF c
  <2>3. Rest(b, c)
    BY <1>15, <2>2 DEF Rest
  <2>4. \A y \in 1..N : y # t
    BY <1>16, SMT DEF null
  <2>5. \A y \in 1..N : c.nodes[y] = IF y = x THEN Rec(o, i, t, null)
                                     ELSE IF y = t THEN [b.nodes[y] EXCEPT !.next = x]
                                     ELSE b.nodes[y]
    BY <1>11, <1>14, <2>2, <2>4
  <2>6. c.levels[i] = Lev(l.aggregate_size, l.order_count, l.side, IF t = null THEN x ELSE l.head, x)
    BY <1>16, <2>2 DEF l4
  <2>. QED BY <1>14, <2>1, <2>2, <2>3, <2>5, <2>6 DEF t, l, Linked
<1>17. CASE t # null
  <2>. DEFINE e == [b.nodes[t] EXCEPT !.next = x]
              c == PutNode(c3, t, e)
  <2>1. t \in 1..N /\ t # x
    BY <1>2, <1>17, SMT DEF null, t, l
  <2>2. b.nodes[t] \in Node
    BY <2>1 DEF Shaped
  <2>3. e \in Node
    <3>1. b.nodes[t] = [order_ref |-> b.nodes[t].order_ref, size |-> b.nodes[t].size,
                        level_idx |-> b.nodes[t].level_idx, side |-> b.nodes[t].side,
                        prev |-> b.nodes[t].prev, next |-> b.nodes[t].next]
      BY <2>2 DEF Node
    <3>. QED BY <1>2, <2>2, SMT DEF Node
  <2>4. c3.nodes[t] = b.nodes[t]
    BY <1>11, <1>14, <2>1
  <2>5. link_back(b, i, x) = c
    BY <1>1, <1>6, <1>17, <2>4
  <2>. HIDE DEF e
  <2>6. /\ Shaped(c, N) /\ Rest(c3, c) /\ c.levels = c3.levels /\ c.nodes[t] = e
        /\ \A y \in 1..N : y # t => c.nodes[y] = c3.nodes[y]
    BY <1>14, <2>1, <2>3, PutNodeIs, SMTT(30)
  <2>. HIDE DEF c
  <2>7. Rest(b, c)
    BY <1>15, <2>6 DEF Rest
  <2>8. \A y \in 1..N : c.nodes[y] = IF y = x THEN Rec(o, i, t, null)
                                     ELSE IF y = t THEN e ELSE b.nodes[y]
    BY <1>11, <1>14, <2>1, <2>6
  <2>9. \A y \in 1..N : c.nodes[y] = IF y = x THEN Rec(o, i, t, null)
                                     ELSE IF y = t THEN [b.nodes[y] EXCEPT !.next = x]
                                     ELSE b.nodes[y]
    BY <2>8 DEF e
  <2>10. c.levels[i] = Lev(l.aggregate_size, l.order_count, l.side, IF t = null THEN x ELSE l.head, x)
    BY <1>14, <1>17, <2>6 DEF l3
  <2>11. \A j \in Levels : j # i => c.levels[j] = b.levels[j]
    BY <1>14, <2>6
  <2>. QED BY <2>5, <2>6, <2>7, <2>9, <2>10, <2>11 DEF t, l, Linked
<1>. QED BY <1>16, <1>17

(* insert(): allocation, the link, then the sums, the index and the best.  *)
Alloc(r, x, i, o) ==
  [r EXCEPT !.free_head = r.nodes[x].next,
            !.nodes[x] = [order_ref |-> o.ref, size |-> o.size, level_idx |-> i,
                          side |-> o.side, prev |-> null, next |-> null],
            !.levels[i].side = IF r.levels[i].order_count = 0 THEN o.side ELSE @]
Count(k, i, o, x) ==
  [k EXCEPT !.levels[i].aggregate_size = @ + o.size,
            !.levels[i].order_count = @ + 1,
            !.index = [y \in DOMAIN @ \cup {o.ref} |-> IF y = o.ref THEN x ELSE @[y]],
            !.live_orders = @ + 1,
            !.bid = improve_bid(o.side, i, @), !.ask = improve_ask(o.side, i, @)]

LEMMA AllocIs ==
  ASSUME NEW r, NEW N, Shaped(r, N), NEW x \in 1..N, NEW i \in Levels, NEW o \in Order
  PROVE  LET s == IF r.levels[i].order_count = 0 THEN o.side ELSE r.levels[i].side
         IN Alloc(r, x, i, o) =
                Whole([r.levels EXCEPT ![i].side = s], [r.nodes EXCEPT ![x] = Rec(o, i, null, null)],
                      r.nodes[x].next, r.index, r.bid, r.ask, r.live_orders)
<1>. DEFINE s == IF r.levels[i].order_count = 0 THEN o.side ELSE r.levels[i].side
            nd == [order_ref |-> o.ref, size |-> o.size, level_idx |-> i, side |-> o.side,
                   prev |-> null, next |-> null]
            a == [r EXCEPT !.free_head = r.nodes[x].next, !.nodes[x] = nd,
                           !.levels[i].side = IF r.levels[i].order_count = 0 THEN o.side ELSE @]
            a1 == [r EXCEPT !.free_head = r.nodes[x].next]
            a2 == [a1 EXCEPT !.nodes[x] = nd]
            f == r.nodes[x].next
<1>1. a1 = Whole(r.levels, r.nodes, f, r.index, r.bid, r.ask, r.live_orders)
  <2>. HIDE DEF f
  <2>1. a1 = [r EXCEPT !.free_head = f]
    BY DEF f
  <2>. QED BY <2>1 DEF Shaped, Whole
<1>2. a2 = Whole(r.levels, [r.nodes EXCEPT ![x] = nd], f, r.index, r.bid, r.ask, r.live_orders)
  <2>. HIDE DEF f, nd, a1
  <2>. QED BY <1>1 DEF Whole
<1>3. a = [a2 EXCEPT !.levels[i].side = IF r.levels[i].order_count = 0 THEN o.side ELSE @]
  <2>. HIDE DEF nd
  <2>. QED OBVIOUS
<1>4. nd = Rec(o, i, null, null) /\ a = Alloc(r, x, i, o)
  BY Zenon DEF Rec, Alloc
<1>5. a = Whole([r.levels EXCEPT ![i].side = s], [r.nodes EXCEPT ![x] = nd],
                f, r.index, r.bid, r.ask, r.live_orders)
  <2>1. a2.levels = r.levels
    <3>. HIDE DEF a2
    <3>. QED BY <1>2 DEF Whole
  <2>2. a = [a2 EXCEPT !.levels[i].side = s]
    <3>. HIDE DEF a, a2
    <3>. QED BY <1>3, <2>1
  <2>. HIDE DEF a, a2, nd, s
  <2>. QED BY <1>2, <2>2 DEF Whole
<1>. QED BY <1>4, <1>5

Counted(k, c, i, o, x) ==
  LET l == k.levels[i]
  IN c = Whole([k.levels EXCEPT ![i] = Lev(l.aggregate_size + o.size, l.order_count + 1, l.side,
                                           l.head, l.tail)],
               k.nodes, k.free_head,
               [y \in DOMAIN k.index \cup {o.ref} |-> IF y = o.ref THEN x ELSE k.index[y]],
               improve_bid(o.side, i, k.bid), improve_ask(o.side, i, k.ask), k.live_orders + 1)

LEMMA CountIs ==
  ASSUME NEW k, NEW N, Shaped(k, N), NEW i \in Levels, NEW o, NEW x
  PROVE  Counted(k, Count(k, i, o, x), i, o, x)
<1>. DEFINE z == o.size
            ref == o.ref
            side == o.side
            c == [k EXCEPT !.levels[i].aggregate_size = @ + z,
                           !.levels[i].order_count = @ + 1,
                           !.index = [y \in DOMAIN @ \cup {ref} |-> IF y = ref THEN x ELSE @[y]],
                           !.live_orders = @ + 1,
                           !.bid = improve_bid(side, i, @), !.ask = improve_ask(side, i, @)]
            l == k.levels[i]
            m == [k.levels EXCEPT ![i].aggregate_size = @ + z, ![i].order_count = @ + 1]
            dx == [y \in DOMAIN k.index \cup {ref} |-> IF y = ref THEN x ELSE k.index[y]]
<1>0. Count(k, i, o, x) = c
  BY Zenon DEF Count
<1>. HIDE DEF z, ref, side
<1>1. k = Whole(k.levels, k.nodes, k.free_head, k.index, k.bid, k.ask, k.live_orders)
  BY DEF Shaped
<1>2. c.levels = m
  BY <1>1 DEF Whole
<1>3. c.nodes = k.nodes /\ c.free_head = k.free_head
  BY <1>1 DEF Whole
<1>4. c.index = dx
  BY <1>1 DEF Whole
<1>5. /\ c.live_orders = k.live_orders + 1 /\ c.bid = improve_bid(side, i, k.bid)
      /\ c.ask = improve_ask(side, i, k.ask)
  BY <1>1 DEF Whole
<1>6. c = Whole(c.levels, c.nodes, c.free_head, c.index, c.bid, c.ask, c.live_orders)
  <2>1. DOMAIN k = {"levels", "nodes", "free_head", "index", "bid", "ask", "live_orders"}
    BY <1>1 DEF Whole
  <2>2. DOMAIN c = DOMAIN k /\ c = [y \in DOMAIN c |-> c[y]]
    BY ZenonT(60)
  <2>. HIDE DEF c
  <2>. QED BY <2>1, <2>2 DEF Whole
<1>7. m = [k.levels EXCEPT ![i] = Lev(l.aggregate_size + z, l.order_count + 1, l.side,
                                      l.head, l.tail)]
  <2>. DEFINE h == k.levels
  <2>1. h \in [Levels -> Level]
    BY DEF Shaped
  <2>2. l = Lev(l.aggregate_size, l.order_count, l.side, l.head, l.tail)
    BY <2>1, LevelIs
  <2>3. m = [h EXCEPT ![i] = [[l EXCEPT !.aggregate_size = @ + z] EXCEPT !.order_count = @ + 1]]
    <3>. HIDE DEF h
    <3>. QED BY <2>1 DEF h
  <2>. HIDE DEF h, l
  <2>4. [[l EXCEPT !.aggregate_size = @ + z] EXCEPT !.order_count = @ + 1]
        = Lev(l.aggregate_size + z, l.order_count + 1, l.side, l.head, l.tail)
    <3>1. PICK a, n, s, d, t : l = Lev(a, n, s, d, t)
      BY <2>2
    <3>2. /\ l.aggregate_size = a /\ l.order_count = n /\ l.side = s /\ l.head = d /\ l.tail = t
      BY <3>1 DEF Lev
    <3>3. [l EXCEPT !.aggregate_size = @ + z] = Lev(a + z, n, s, d, t)
      BY <3>1, <3>2 DEF Lev
    <3>4. [Lev(a + z, n, s, d, t) EXCEPT !.order_count = @ + 1] = Lev(a + z, n + 1, s, d, t)
      BY DEF Lev
    <3>. QED BY <3>2, <3>3, <3>4
  <2>. QED BY <2>3, <2>4 DEF h
<1>. HIDE DEF c, m
<1>. QED BY <1>0, <1>2, <1>3, <1>4, <1>5, <1>6, <1>7 DEF z, ref, side, Counted

LEMMA InsertSteps ==
  ASSUME NEW b, NEW p, NEW o
  PROVE  LET r == ready(b)
             i == to_index(p)
             x == r.free_head
         IN insert(b, o.ref, o.side, p, o.size) = Count(link_back(Alloc(r, x, i, o), i, x), i, o, x)
BY Zenon DEF insert, Count, Alloc

Entered(r, c, i, o, x) ==
  /\ Inserts(r, c, i, o, x) /\ c.free_head = r.nodes[x].next
  /\ c.live_orders = r.live_orders + 1
  /\ c.bid = improve_bid(o.side, i, r.bid) /\ c.ask = improve_ask(o.side, i, r.ask)
  /\ c.levels[i].side = (IF r.levels[i].order_count = 0 THEN o.side ELSE r.levels[i].side)
  /\ c.free_head \in 0..Len(r.nodes) => IsBook(c)

LEMMA InsertIs ==
  ASSUME NEW b, NEW r, r = ready(b), IsBook(r), NEW x \in 1..Len(r.nodes), x = r.free_head,
         NEW p, NEW i \in Levels, i = to_index(p), NEW o \in Order, o.ref \notin DOMAIN r.index,
         r.levels[i].tail \in 0..Len(r.nodes), r.levels[i].tail # x
  PROVE  Entered(r, insert(b, o.ref, o.side, p, o.size), i, o, x)
<1>. DEFINE N == Len(r.nodes)
            l == r.levels[i]
            s == IF l.order_count = 0 THEN o.side ELSE l.side
            a == Alloc(r, x, i, o)
            k == link_back(a, i, x)
            c == Count(k, i, o, x)
            al == [r.levels EXCEPT ![i].side = s]
            an == [r.nodes EXCEPT ![x] = Rec(o, i, null, null)]
<1>1. insert(b, o.ref, o.side, p, o.size) = c
  BY InsertSteps
<1>2. /\ Shaped(r, N) /\ N \in Nat /\ i \in Nat /\ x \in Nat /\ null \in Nat
      /\ r.levels \in [Levels -> Level] /\ r.nodes \in [1..N -> Node] /\ l \in Level
  <2>1. Shaped(r, N) /\ N \in Nat
    BY BookFacts, BookShaped
  <2>2. i \in Nat /\ x \in Nat /\ null \in Nat
    BY <2>1, LevelNumbers, SMT DEF null
  <2>. QED BY <2>1, <2>2 DEF Shaped
<1>3. o.ref \in Ref /\ o.side \in Side /\ o.size \in Nat
  BY DEF Order
<1>4. /\ l = Lev(l.aggregate_size, l.order_count, l.side, l.head, l.tail)
      /\ l.aggregate_size \in Nat /\ l.order_count \in Nat /\ l.side \in Side
      /\ l.head \in Nat /\ l.tail \in Nat
  BY <1>2, LevelIs
<1>5. a = Whole(al, an, r.nodes[x].next, r.index, r.bid, r.ask, r.live_orders)
  BY <1>2, AllocIs, SMTT(30)
<1>6. Rec(o, i, null, null) \in Node
  BY <1>2, NodeMade
<1>7. an \in [1..N -> Node] /\ an[x] = Rec(o, i, null, null)
      /\ \A y \in 1..N : y # x => an[y] = r.nodes[y]
  <2>. HIDE DEF N
  <2>. QED BY <1>2, <1>6 DEF N
<1>. DEFINE l1 == Lev(l.aggregate_size, l.order_count, s, l.head, l.tail)
<1>8. l1 \in Level
  BY <1>3, <1>4, LevelMade
<1>9. al \in [Levels -> Level] /\ al[i] = l1 /\ \A j \in Levels : j # i => al[j] = r.levels[j]
  <2>1. [l EXCEPT !.side = s] = l1
    <3>. HIDE DEF l, s
    <3>1. PICK a1, n1, s1, h1, t1 : l = Lev(a1, n1, s1, h1, t1)
      BY <1>4
    <3>. QED BY <3>1 DEF Lev
  <2>2. al = [r.levels EXCEPT ![i] = [l EXCEPT !.side = s]]
    <3>. HIDE DEF s
    <3>. QED OBVIOUS
  <2>. HIDE DEF l1, s, l, al
  <2>. QED BY <1>2, <1>8, <2>1, <2>2
<1>. HIDE DEF a, al, an, l1, l, s, N
<1>10. /\ Shaped(a, N) /\ a.levels = al /\ a.nodes = an /\ a.free_head = r.nodes[x].next
       /\ a.index = r.index /\ a.bid = r.bid /\ a.ask = r.ask /\ a.live_orders = r.live_orders
  BY <1>5, <1>7, <1>9 DEF Shaped, Whole
<1>11. /\ l1.aggregate_size = l.aggregate_size /\ l1.order_count = l.order_count /\ l1.side = s
       /\ l1.head = l.head /\ l1.tail = l.tail
  BY DEF l1, Lev
<1>12. l.tail \in 0..N /\ l.tail # x /\ x \in 1..N
  BY DEF l, N
<1>. DEFINE hd == IF l.tail = null THEN x ELSE l.head
            l2 == Lev(l.aggregate_size, l.order_count, s, hd, x)
            l3 == Lev(l.aggregate_size + o.size, l.order_count + 1, s, hd, x)
<1>13. /\ Shaped(k, N) /\ Rest(a, k)
       /\ \A y \in 1..N : k.nodes[y] = IF y = x THEN Rec(o, i, l.tail, null)
                                       ELSE IF y = l.tail THEN [a.nodes[y] EXCEPT !.next = x]
                                       ELSE a.nodes[y]
       /\ \A j \in Levels : j # i => k.levels[j] = a.levels[j]
       /\ k.levels[i] = l2
  <2>1. a.nodes[x] = Rec(o, i, null, null) /\ a.levels[i] = l1
    BY <1>7, <1>9, <1>10
  <2>2. a.levels[i].tail \in 0..N /\ a.levels[i].tail # x
    BY <1>11, <1>12, <2>1
  <2>. HIDE DEF k
  <2>3. Linked(a, k, N, i, x, o)
    BY <1>2, <1>10, <1>12, <2>1, <2>2, LinkBackIs DEF k
  <2>. QED BY <1>11, <2>1, <2>3 DEF Linked
<1>14. l2.aggregate_size = l.aggregate_size /\ l2.order_count = l.order_count /\ l2.side = s
       /\ l2.head = hd /\ l2.tail = x
  <2>. HIDE DEF hd
  <2>. QED BY DEF Lev
<1>. DEFINE dx == [y \in DOMAIN k.index \cup {o.ref} |-> IF y = o.ref THEN x ELSE k.index[y]]
            cl == [k.levels EXCEPT ![i] = l3]
<1>. HIDE DEF hd, l2, k
<1>15. c = Whole(cl, k.nodes, k.free_head, dx, improve_bid(o.side, i, k.bid),
                 improve_ask(o.side, i, k.ask), k.live_orders + 1)
  <2>1. Counted(k, c, i, o, x)
    BY <1>13, CountIs
  <2>. HIDE DEF c
  <2>. QED BY <1>13, <1>14, <2>1 DEF Counted
<1>16. k.index = r.index /\ k.bid = r.bid /\ k.ask = r.ask /\ k.live_orders = r.live_orders
       /\ k.free_head = r.nodes[x].next
  BY <1>10, <1>13 DEF Rest
<1>17. DOMAIN dx = DOMAIN r.index \cup {o.ref} /\ dx[o.ref] = x
       /\ \A y \in DOMAIN r.index \cup {o.ref} : dx[y] = IF y = o.ref THEN x ELSE r.index[y]
  BY <1>16
<1>18. hd \in Nat /\ l3 \in Level
  <2>1. hd \in Nat
    BY <1>2, <1>4 DEF hd
  <2>2. s \in Side
    BY <1>3, <1>4 DEF s
  <2>3. l.aggregate_size + o.size \in Nat /\ l.order_count + 1 \in Nat
    BY <1>3, <1>4
  <2>. QED BY <1>2, <2>1, <2>2, <2>3, LevelMade
<1>19. l3.aggregate_size = l.aggregate_size + o.size /\ l3.order_count = l.order_count + 1
       /\ l3.side = s /\ l3.head = hd /\ l3.tail = x
  BY DEF Lev
<1>. HIDE DEF l3
<1>20. cl \in [Levels -> Level] /\ cl[i] = l3 /\ \A j \in Levels : j # i => cl[j] = r.levels[j]
  <2>1. k.levels \in [Levels -> Level] /\ \A j \in Levels : j # i => k.levels[j] = r.levels[j]
    BY <1>9, <1>10, <1>13 DEF Shaped
  <2>. QED BY <1>18, <2>1
<1>. HIDE DEF c, cl, dx
<1>21. /\ c.levels = cl /\ c.nodes = k.nodes /\ c.free_head = r.nodes[x].next /\ c.index = dx
       /\ c.live_orders = r.live_orders + 1
       /\ c.bid = improve_bid(o.side, i, r.bid) /\ c.ask = improve_ask(o.side, i, r.ask)
  BY <1>15, <1>16 DEF Whole
<1>22. /\ c.nodes \in [1..N -> Node]
       /\ \A y \in 1..N : c.nodes[y] = IF y = x THEN Rec(o, i, l.tail, null)
                                       ELSE IF y = l.tail THEN [r.nodes[y] EXCEPT !.next = x]
                                       ELSE r.nodes[y]
  <2>1. c.nodes \in [1..N -> Node]
    BY <1>13, <1>21 DEF Shaped
  <2>2. \A y \in 1..N : y # x => a.nodes[y] = r.nodes[y]
    BY <1>7, <1>10
  <2>3. ASSUME NEW y \in 1..N
        PROVE  c.nodes[y] = IF y = x THEN Rec(o, i, l.tail, null)
                                       ELSE IF y = l.tail THEN [r.nodes[y] EXCEPT !.next = x]
                                       ELSE r.nodes[y]
    <3>1. c.nodes[y] = IF y = x THEN Rec(o, i, l.tail, null)
                       ELSE IF y = l.tail THEN [a.nodes[y] EXCEPT !.next = x]
                       ELSE a.nodes[y]
      BY <1>13, <1>21
    <3>2. CASE y = x
      BY <3>1, <3>2
    <3>3. CASE y # x
      BY <2>2, <3>1, <3>3
    <3>. QED BY <3>2, <3>3
  <2>. QED BY <2>1, <2>3
<1>23. Len(c.nodes) = N /\ c.nodes \in Seq(Node)
  <2>1. N \in Nat /\ c.nodes \in [1..N -> Node]
    BY <1>2, <1>22
  <2>. QED BY <2>1, PoolIsSeq
<1>24. Inserts(r, c, i, o, x)
  <2>1. /\ DOMAIN c.index = DOMAIN r.index \cup {o.ref} /\ c.index[o.ref] = x
        /\ \A y \in DOMAIN r.index : c.index[y] = r.index[y]
    BY <1>17, <1>21
  <2>2. /\ \A j \in Levels \ {i} : c.levels[j] = r.levels[j]
        /\ c.levels[i].head = hd /\ c.levels[i].tail = x
        /\ c.levels[i].order_count = l.order_count + 1
        /\ c.levels[i].aggregate_size = l.aggregate_size + o.size
    BY <1>19, <1>20, <1>21
  <2>. QED BY <1>22, <1>23, <2>1, <2>2 DEF Inserts, hd, l, N
<1>25. c.levels[i].side = s
  BY <1>19, <1>20, <1>21
<1>26. ASSUME c.free_head \in 0..N
       PROVE  IsBook(c)
  <2>1. DOMAIN c.index \subseteq Ref /\ c.index \in [DOMAIN c.index -> 1..N]
    <3>1. DOMAIN r.index \subseteq Ref /\ \A y \in DOMAIN r.index : r.index[y] \in 1..N
      BY BookFacts DEF N
    <3>2. \A y \in DOMAIN dx : y \in Ref /\ dx[y] \in 1..N
      BY <1>3, <1>12, <1>17, <3>1
    <3>3. dx = [y \in DOMAIN dx |-> dx[y]]
      BY DEF dx
    <3>4. dx \in [DOMAIN dx -> 1..N]
      BY <3>2, <3>3
    <3>. QED BY <1>21, <3>2, <3>4
  <2>2. c.live_orders \in Nat /\ c.bid \in Levels \cup {None} /\ c.ask \in Levels \cup {None}
    <3>1. r.live_orders \in Nat /\ r.bid \in Levels \cup {None} /\ r.ask \in Levels \cup {None}
      BY BookFacts
    <3>2. c.bid \in {i, r.bid} /\ c.ask \in {i, r.ask}
      BY <1>21 DEF improve_bid, improve_ask
    <3>. QED BY <1>21, <3>1, <3>2
  <2>3. c.levels \in [Levels -> Level]
    BY <1>20, <1>21
  <2>4. c = Whole(c.levels, c.nodes, c.free_head, c.index, c.bid, c.ask, c.live_orders)
    BY <1>15, <1>16, <1>21
  <2>5. IsBook(Whole(c.levels, c.nodes, c.free_head, c.index, c.bid, c.ask, c.live_orders))
    BY <1>23, <1>26, <2>1, <2>2, <2>3, BookMade
  <2>. QED BY <2>4, <2>5
<1>. QED BY <1>1, <1>21, <1>24, <1>25, <1>26 DEF s, l, N, Entered

(* An order leaves the list of its level.                                  *)
Unlinked(b, c, N, i, x) ==
  LET l == b.levels[i]
      p == b.nodes[x].prev
      n == b.nodes[x].next
  IN /\ Shaped(c, N) /\ Rest(b, c)
     /\ \A y \in 1..N : c.nodes[y] = IF y = p THEN [b.nodes[y] EXCEPT !.next = n]
                                     ELSE IF y = n THEN [b.nodes[y] EXCEPT !.prev = p]
                                     ELSE b.nodes[y]
     /\ \A j \in Levels : j # i => c.levels[j] = b.levels[j]
     /\ c.levels[i] = Lev(l.aggregate_size, l.order_count, l.side,
                          IF p = null THEN n ELSE l.head, IF n = null THEN p ELSE l.tail)

LEMMA NodeEdits ==
  ASSUME NEW e \in Node, NEW x \in Nat
  PROVE  [e EXCEPT !.prev = x] \in Node /\ [e EXCEPT !.next = x] \in Node
BY DEF Node

LEMMA UnlinkIs ==
  ASSUME NEW b, NEW N \in Nat, Shaped(b, N), NEW i \in Levels, NEW x \in 1..N,
         b.nodes[x].prev \in 0..N, b.nodes[x].next \in 0..N,
         b.nodes[x].prev = b.nodes[x].next => b.nodes[x].prev = null
  PROVE  Unlinked(b, unlink(b, i, x), N, i, x)
<1>. DEFINE l == b.levels[i]
            p == b.nodes[x].prev
            n == b.nodes[x].next
            c == IF p # null THEN [b EXCEPT !.nodes[p].next = n] ELSE [b EXCEPT !.levels[i].head = n]
            hd == IF p = null THEN n ELSE l.head
            tl == IF n = null THEN p ELSE l.tail
            u == unlink(b, i, x)
<1>1. u = IF n # null THEN [c EXCEPT !.nodes[n].prev = p] ELSE [c EXCEPT !.levels[i].tail = p]
  BY Zenon DEF unlink
<1>2. p \in Nat /\ n \in Nat /\ (p # null => p \in 1..N) /\ (n # null => n \in 1..N)
      /\ (p # null => p # n) /\ \A y \in 1..N : y # null
  BY SMT DEF null
<1>3. l \in Level /\ b.levels \in [Levels -> Level] /\ \A y \in 1..N : b.nodes[y] \in Node
  BY DEF Shaped
<1>4. /\ l = Lev(l.aggregate_size, l.order_count, l.side, l.head, l.tail)
      /\ l.aggregate_size \in Nat /\ l.order_count \in Nat /\ l.side \in Side
      /\ l.head \in Nat /\ l.tail \in Nat
  BY <1>3, LevelIs
<1>. DEFINE pn == [b.nodes[p] EXCEPT !.next = n]
            l1 == Lev(l.aggregate_size, l.order_count, l.side, hd, l.tail)
            l2 == Lev(l.aggregate_size, l.order_count, l.side, hd, tl)
<1>5. [b EXCEPT !.nodes[p].next = n] = PutNode(b, p, pn)
  <2>. HIDE DEF p, n
  <2>. QED BY DEF PutNode
<1>6. [b EXCEPT !.levels[i].head = n] = PutLevel(b, i, [l EXCEPT !.head = n])
  <2>. HIDE DEF n
  <2>. QED BY DEF PutLevel
<1>7. [c EXCEPT !.nodes[n].prev = p] = PutNode(c, n, [c.nodes[n] EXCEPT !.prev = p])
  <2>. HIDE DEF c, p, n
  <2>. QED BY DEF PutNode
<1>8. [c EXCEPT !.levels[i].tail = p] = PutLevel(c, i, [c.levels[i] EXCEPT !.tail = p])
  <2>. HIDE DEF c, p
  <2>. QED BY DEF PutLevel
<1>9. c = IF p # null THEN PutNode(b, p, pn) ELSE PutLevel(b, i, [l EXCEPT !.head = n])
  <2>. HIDE DEF p, n, l, pn
  <2>. QED BY <1>5, <1>6 DEF p, n, l, pn
<1>. HIDE DEF l, p, n, c, pn, u
<1>10. hd \in Nat /\ tl \in Nat
  BY <1>2, <1>4
<1>11. l1 \in Level /\ l2 \in Level
  <2>. HIDE DEF hd, tl
  <2>. QED BY <1>4, <1>10, LevelMade
<1>12. /\ Shaped(c, N) /\ Rest(b, c)
       /\ \A y \in 1..N : c.nodes[y] = IF y = p THEN pn ELSE b.nodes[y]
       /\ \A j \in Levels : j # i => c.levels[j] = b.levels[j]
       /\ c.levels[i] = l1
  <2>1. CASE p # null
    <3>1. pn \in Node
      BY <1>2, <1>3, <2>1, NodeEdits DEF pn
    <3>2. c = PutNode(b, p, pn)
      BY <1>9, <2>1
    <3>3. /\ Shaped(c, N) /\ Rest(b, c) /\ c.levels = b.levels
          /\ c.nodes[p] = pn /\ \A y \in 1..N : y # p => c.nodes[y] = b.nodes[y]
      BY <1>2, <2>1, <3>1, <3>2, PutNodeIs
    <3>4. c.levels[i] = l1
      <4>1. hd = l.head
        BY <2>1
      <4>2. c.levels[i] = l
        BY <3>3 DEF l
      <4>. HIDE DEF hd
      <4>. QED BY <1>4, <4>1, <4>2
    <3>. QED BY <3>3, <3>4
  <2>2. CASE p = null
    <3>1. [l EXCEPT !.head = n] = l1
      <4>1. hd = n
        BY <2>2
      <4>. HIDE DEF hd
      <4>2. PICK a1, n1, s1, h1, t1 : l = Lev(a1, n1, s1, h1, t1)
        BY <1>4
      <4>. QED BY <4>1, <4>2 DEF Lev
    <3>2. c = PutLevel(b, i, l1)
      BY <1>9, <2>2, <3>1
    <3>. HIDE DEF l1
    <3>3. /\ Shaped(c, N) /\ Rest(b, c) /\ c.nodes = b.nodes
          /\ c.levels[i] = l1 /\ \A j \in Levels : j # i => c.levels[j] = b.levels[j]
      BY <1>11, <3>2, PutLevelIs
    <3>. QED BY <1>2, <2>2, <3>3
  <2>. QED BY <2>1, <2>2
<1>. DEFINE nn == [b.nodes[n] EXCEPT !.prev = p]
<1>13. /\ Shaped(u, N) /\ Rest(b, u)
       /\ \A y \in 1..N : u.nodes[y] = IF y = p THEN pn ELSE IF y = n THEN nn ELSE b.nodes[y]
       /\ \A j \in Levels : j # i => u.levels[j] = b.levels[j]
       /\ u.levels[i] = l2
  <2>1. CASE n # null
    <3>1. nn \in Node
      BY <1>2, <1>3, <2>1, NodeEdits
    <3>2. c.nodes[n] = b.nodes[n]
      BY <1>2, <1>12, <2>1
    <3>3. u = PutNode(c, n, nn)
      BY <1>1, <1>7, <2>1, <3>2
    <3>. HIDE DEF nn
    <3>4. /\ Shaped(u, N) /\ Rest(c, u) /\ u.levels = c.levels
          /\ u.nodes[n] = nn /\ \A y \in 1..N : y # n => u.nodes[y] = c.nodes[y]
      <4>1. n \in 1..N /\ Shaped(c, N)
        BY <1>2, <1>12, <2>1
      <4>2. /\ Shaped(PutNode(c, n, nn), N) /\ Rest(c, PutNode(c, n, nn))
            /\ PutNode(c, n, nn).levels = c.levels /\ PutNode(c, n, nn).nodes[n] = nn
            /\ \A y \in 1..N : y # n => PutNode(c, n, nn).nodes[y] = c.nodes[y]
        BY <3>1, <4>1, PutNodeIs
      <4>. QED BY <3>3, <4>2
    <3>5. Rest(b, u)
      BY <1>12, <3>4 DEF Rest
    <3>6. u.levels[i] = l2
      <4>1. tl = l.tail
        BY <2>1
      <4>. HIDE DEF tl
      <4>. QED BY <1>12, <3>4, <4>1
    <3>7. \A y \in 1..N : u.nodes[y] = IF y = p THEN pn ELSE IF y = n THEN nn ELSE b.nodes[y]
      BY <1>2, <1>12, <3>4
    <3>. QED BY <1>12, <3>4, <3>5, <3>6, <3>7
  <2>2. CASE n = null
    <3>1. [c.levels[i] EXCEPT !.tail = p] = l2
      <4>1. tl = p
        BY <2>2
      <4>. HIDE DEF hd, tl
      <4>. QED BY <1>12, <4>1 DEF Lev
    <3>2. u = PutLevel(c, i, l2)
      BY <1>1, <1>8, <2>2, <3>1
    <3>. HIDE DEF l1, l2
    <3>3. /\ Shaped(u, N) /\ Rest(c, u) /\ u.nodes = c.nodes
          /\ u.levels[i] = l2 /\ \A j \in Levels : j # i => u.levels[j] = c.levels[j]
      BY <1>11, <1>12, <3>2, PutLevelIs
    <3>4. Rest(b, u)
      BY <1>12, <3>3 DEF Rest
    <3>. HIDE DEF nn
    <3>. QED BY <1>2, <1>12, <2>2, <3>3, <3>4
  <2>. QED BY <2>1, <2>2
<1>14. \A y \in 1..N : u.nodes[y] = IF y = p THEN [b.nodes[y] EXCEPT !.next = n]
                                    ELSE IF y = n THEN [b.nodes[y] EXCEPT !.prev = p]
                                    ELSE b.nodes[y]
  BY <1>13 DEF pn
<1>. QED BY <1>13, <1>14 DEF Unlinked, u, p, n, l

(* remove_order(): off the list, off the counts, back to the pool, and the *)
(* best pointers when the level is empty.                                  *)
Discount(u, i, z, ref) ==
  [u EXCEPT !.levels[i].aggregate_size = @ - z,
            !.levels[i].order_count = @ - 1,
            !.index = [y \in DOMAIN @ \ {ref} |-> @[y]],
            !.live_orders = @ - 1]
Discounted(u, c, i, z, ref) ==
  LET l == u.levels[i]
  IN c = Whole([u.levels EXCEPT ![i] = Lev(l.aggregate_size - z, l.order_count - 1, l.side,
                                           l.head, l.tail)],
               u.nodes, u.free_head, [y \in DOMAIN u.index \ {ref} |-> u.index[y]],
               u.bid, u.ask, u.live_orders - 1)

LEMMA DiscountIs ==
  ASSUME NEW u, NEW N, Shaped(u, N), NEW i \in Levels, NEW z, NEW ref
  PROVE  Discounted(u, Discount(u, i, z, ref), i, z, ref)
<1>. DEFINE c == Discount(u, i, z, ref)
            l == u.levels[i]
            m == [u.levels EXCEPT ![i].aggregate_size = @ - z, ![i].order_count = @ - 1]
            dx == [y \in DOMAIN u.index \ {ref} |-> u.index[y]]
<1>1. u = Whole(u.levels, u.nodes, u.free_head, u.index, u.bid, u.ask, u.live_orders)
  BY DEF Shaped
<1>2. c.levels = m
  BY <1>1 DEF Whole, Discount
<1>3. c.nodes = u.nodes /\ c.free_head = u.free_head /\ c.bid = u.bid /\ c.ask = u.ask
  BY <1>1 DEF Whole, Discount
<1>4. c.index = dx
  BY <1>1 DEF Whole, Discount
<1>5. c.live_orders = u.live_orders - 1
  BY <1>1 DEF Whole, Discount
<1>6. c = Whole(c.levels, c.nodes, c.free_head, c.index, c.bid, c.ask, c.live_orders)
  <2>1. DOMAIN u = {"levels", "nodes", "free_head", "index", "bid", "ask", "live_orders"}
    BY <1>1 DEF Whole
  <2>2. DOMAIN c = DOMAIN u /\ c = [y \in DOMAIN c |-> c[y]]
    BY ZenonT(60) DEF Discount
  <2>. HIDE DEF c
  <2>. QED BY <2>1, <2>2 DEF Whole
<1>7. m = [u.levels EXCEPT ![i] = Lev(l.aggregate_size - z, l.order_count - 1, l.side,
                                      l.head, l.tail)]
  <2>. DEFINE h == u.levels
  <2>1. h \in [Levels -> Level]
    BY DEF Shaped
  <2>2. l = Lev(l.aggregate_size, l.order_count, l.side, l.head, l.tail)
    BY <2>1, LevelIs
  <2>3. m = [h EXCEPT ![i] = [[l EXCEPT !.aggregate_size = @ - z] EXCEPT !.order_count = @ - 1]]
    <3>. HIDE DEF h
    <3>. QED BY <2>1 DEF h
  <2>. HIDE DEF h, l
  <2>4. [[l EXCEPT !.aggregate_size = @ - z] EXCEPT !.order_count = @ - 1]
        = Lev(l.aggregate_size - z, l.order_count - 1, l.side, l.head, l.tail)
    <3>1. PICK a, n, s, d, t : l = Lev(a, n, s, d, t)
      BY <2>2
    <3>2. /\ l.aggregate_size = a /\ l.order_count = n /\ l.side = s /\ l.head = d /\ l.tail = t
      BY <3>1 DEF Lev
    <3>3. [l EXCEPT !.aggregate_size = @ - z] = Lev(a - z, n, s, d, t)
      BY <3>1, <3>2 DEF Lev
    <3>4. [Lev(a - z, n, s, d, t) EXCEPT !.order_count = @ - 1] = Lev(a - z, n - 1, s, d, t)
      BY DEF Lev
    <3>. QED BY <3>2, <3>3, <3>4
  <2>. QED BY <2>3, <2>4 DEF h
<1>. HIDE DEF c, m
<1>. QED BY <1>2, <1>3, <1>4, <1>5, <1>6, <1>7 DEF c, Discounted

Released(d, c, x) ==
  c = Whole(d.levels, [d.nodes EXCEPT ![x] = FreeNode(d.free_head)], x, d.index, d.bid, d.ask,
            d.live_orders)
LEMMA ReleaseIs ==
  ASSUME NEW d, NEW N, Shaped(d, N), NEW x
  PROVE  Released(d, release(d, x), x)
<1>. DEFINE h == FreeNode(d.free_head)
            a == [d EXCEPT !.nodes[x] = h]
<1>1. d = Whole(d.levels, d.nodes, d.free_head, d.index, d.bid, d.ask, d.live_orders)
  BY DEF Shaped
<1>2. release(d, x) = [a EXCEPT !.free_head = x]
  <2>1. release(d, x) = [d EXCEPT !.nodes[x] = h, !.free_head = x]
    BY Zenon DEF release
  <2>. HIDE DEF h
  <2>. QED BY <2>1
<1>3. a = Whole(d.levels, [d.nodes EXCEPT ![x] = h], d.free_head, d.index, d.bid, d.ask,
                d.live_orders)
  <2>. HIDE DEF h
  <2>. QED BY <1>1 DEF Whole
<1>. HIDE DEF a, h
<1>4. release(d, x) = Whole(d.levels, [d.nodes EXCEPT ![x] = h], x, d.index, d.bid, d.ask,
                            d.live_orders)
  BY <1>2, <1>3 DEF Whole
<1>. QED BY <1>4 DEF Released, h

Cleared(f, c, i) ==
  LET l == f.levels[i]
  IN c = Whole([f.levels EXCEPT ![i] = Lev(0, l.order_count, "None", l.head, l.tail)],
               f.nodes, f.free_head, f.index, f.bid, f.ask, f.live_orders)
Clear(f, i) == [f EXCEPT !.levels[i].side = "None", !.levels[i].aggregate_size = 0]
LEMMA ClearIs ==
  ASSUME NEW f, NEW N, Shaped(f, N), NEW i \in Levels
  PROVE  Cleared(f, Clear(f, i), i)
<1>. DEFINE l == f.levels[i]
            h == f.levels
            l1 == [l EXCEPT !.side = "None"]
            l2 == [l1 EXCEPT !.aggregate_size = 0]
            h1 == [h EXCEPT ![i] = l1]
            h2 == [h EXCEPT ![i] = l2]
            g == [f EXCEPT !.levels[i].side = "None"]
<1>1. f = Whole(h, f.nodes, f.free_head, f.index, f.bid, f.ask, f.live_orders) /\ h \in [Levels -> Level]
  BY DEF Shaped
<1>2. Clear(f, i) = [g EXCEPT !.levels[i].aggregate_size = 0]
  BY DEF Clear
<1>3. g = [f EXCEPT !.levels = h1]
  OBVIOUS
<1>4. g = Whole(h1, f.nodes, f.free_head, f.index, f.bid, f.ask, f.live_orders)
  <2>. HIDE DEF g, h, h1
  <2>. QED BY <1>1, <1>3 DEF Whole
<1>5. Clear(f, i) = [g EXCEPT !.levels = [g.levels EXCEPT ![i] = [g.levels[i] EXCEPT !.aggregate_size = 0]]]
  <2>. HIDE DEF g
  <2>. QED BY <1>2
<1>6. g.levels = h1
  <2>. HIDE DEF g, h1
  <2>. QED BY <1>4 DEF Whole
<1>7. h1[i] = l1 /\ [h1 EXCEPT ![i] = l2] = h2
  <2>. HIDE DEF h, l1, l2
  <2>. QED BY <1>1
<1>8. Clear(f, i) = [g EXCEPT !.levels = h2]
  <2>1. [h1[i] EXCEPT !.aggregate_size = 0] = l2
    <3>. HIDE DEF h1, l1
    <3>. QED BY <1>7 DEF l1
  <2>. HIDE DEF g, h1, h2, l2
  <2>. QED BY <1>5, <1>6, <1>7, <2>1
<1>9. Clear(f, i) = Whole(h2, f.nodes, f.free_head, f.index, f.bid, f.ask, f.live_orders)
  <2>. HIDE DEF g, h1, h2
  <2>. QED BY <1>4, <1>8 DEF Whole
<1>10. l2 = Lev(0, l.order_count, "None", l.head, l.tail)
  <2>1. l = Lev(l.aggregate_size, l.order_count, l.side, l.head, l.tail)
    BY <1>1, LevelIs
  <2>. HIDE DEF l
  <2>2. PICK a, n, s, d, t : l = Lev(a, n, s, d, t)
    BY <2>1
  <2>3. l.order_count = n /\ l.head = d /\ l.tail = t
    BY <2>2 DEF Lev
  <2>4. l1 = Lev(a, n, "None", d, t)
    BY <2>2 DEF Lev
  <2>. HIDE DEF l1
  <2>5. l2 = Lev(0, n, "None", d, t)
    BY <2>4 DEF Lev
  <2>. QED BY <2>3, <2>5
<1>. HIDE DEF l2
<1>. QED BY <1>9, <1>10 DEF Cleared

Retreat(e, s, i) == [e EXCEPT !.bid = retreat_bid(e.levels, s, i, @),
                              !.ask = retreat_ask(e.levels, s, i, @)]
LEMMA RetreatIs ==
  ASSUME NEW e, NEW N, Shaped(e, N), NEW i, NEW s
  PROVE  Retreat(e, s, i) = Whole(e.levels, e.nodes, e.free_head, e.index,
                                  retreat_bid(e.levels, s, i, e.bid),
                                  retreat_ask(e.levels, s, i, e.ask), e.live_orders)
<1>. DEFINE B == retreat_bid(e.levels, s, i, e.bid)
            A == retreat_ask(e.levels, s, i, e.ask)
            g == [e EXCEPT !.bid = B]
<1>1. e = Whole(e.levels, e.nodes, e.free_head, e.index, e.bid, e.ask, e.live_orders)
  BY DEF Shaped
<1>2. g = Whole(e.levels, e.nodes, e.free_head, e.index, B, e.ask, e.live_orders)
  <2>. HIDE DEF B
  <2>. QED BY <1>1 DEF Whole
<1>3. Retreat(e, s, i) = [g EXCEPT !.ask = retreat_ask(e.levels, s, i, @)]
  BY DEF Retreat
<1>4. g.ask = e.ask
  <2>. HIDE DEF B, g
  <2>. QED BY <1>2 DEF Whole
<1>5. Retreat(e, s, i) = [g EXCEPT !.ask = A]
  <2>. HIDE DEF g
  <2>. QED BY <1>3, <1>4
<1>. HIDE DEF A, B, g
<1>6. Retreat(e, s, i) = Whole(e.levels, e.nodes, e.free_head, e.index, B, A, e.live_orders)
  BY <1>2, <1>5 DEF Whole
<1>. QED BY <1>6 DEF A, B

LEMMA RemoveSteps ==
  ASSUME NEW b, NEW x
  PROVE  LET n == b.nodes[x]
             i == n.level_idx
             f == release(Discount(unlink(b, i, x), i, n.size, n.order_ref), x)
         IN remove_order(b, x) = IF f.levels[i].order_count > 0 THEN f
                                 ELSE Retreat(Clear(f, i), n.side, i)
BY Zenon DEF remove_order, Discount, Clear, Retreat

(* What is left of a removed order's level.                                *)
Left(b, c, i, x) ==
  LET l == b.levels[i]
      s == b.nodes[x].side
  IN /\ c.live_orders = b.live_orders - 1
     /\ IF l.order_count - 1 > 0
        THEN c.levels[i].side = l.side /\ c.bid = b.bid /\ c.ask = b.ask
        ELSE /\ c.levels[i].side = "None"
             /\ c.bid = retreat_bid(c.levels, s, i, b.bid)
             /\ c.ask = retreat_ask(c.levels, s, i, b.ask)

LEMMA RescanTypes ==
  ASSUME NEW levels, NEW s, NEW i, NEW bid \in Levels \cup {None}, NEW ask \in Levels \cup {None}
  PROVE  /\ retreat_bid(levels, s, i, bid) \in Levels \cup {None}
         /\ retreat_ask(levels, s, i, ask) \in Levels \cup {None}
<1>1. {j \in Owned(levels, "Buy") : j <= i - 1} \in SUBSET Levels
  BY DEF Owned
<1>2. {j \in Owned(levels, "Sell") : j >= i + 1} \in SUBSET Levels
  BY DEF Owned
<1>3. rescan_best_bid_from(levels, i - 1) \in Levels \cup {None}
  BY <1>1, BestTypes DEF rescan_best_bid_from
<1>4. rescan_best_ask_from(levels, i + 1) \in Levels \cup {None}
  BY <1>2, BestTypes DEF rescan_best_ask_from
<1>. QED BY <1>3, <1>4 DEF retreat_bid, retreat_ask

LEMMA RemoveIs ==
  ASSUME NEW b, IsBook(b), NEW i \in Levels, NEW x \in 1..Len(b.nodes), b.nodes[x].level_idx = i,
         b.nodes[x].prev \in 0..Len(b.nodes), b.nodes[x].next \in 0..Len(b.nodes),
         b.nodes[x].prev = b.nodes[x].next => b.nodes[x].prev = null,
         b.nodes[x].prev # x, b.nodes[x].next # x,
         b.levels[i].order_count >= 1, b.live_orders >= 1,
         b.nodes[x].size <= b.levels[i].aggregate_size
  PROVE  LET c == remove_order(b, x)
         IN IsBook(c) /\ Removes(b, c, i, x) /\ Left(b, c, i, x)
<1>. DEFINE N == Len(b.nodes)
            nd == b.nodes[x]
            l == b.levels[i]
            p == nd.prev
            n == nd.next
            z == nd.size
            ref == nd.order_ref
            hd == IF p = null THEN n ELSE l.head
            tl == IF n = null THEN p ELSE l.tail
            u == unlink(b, i, x)
            d == Discount(u, i, z, ref)
            f == release(d, x)
            e == Clear(f, i)
            dx == [y \in DOMAIN u.index \ {ref} |-> u.index[y]]
            ag == l.aggregate_size - z
            ct == l.order_count - 1
            l1 == Lev(l.aggregate_size, l.order_count, l.side, hd, tl)
            l2 == Lev(ag, ct, l.side, hd, tl)
            l3 == Lev(0, ct, "None", hd, tl)
<1>1. remove_order(b, x) = IF f.levels[i].order_count > 0 THEN f ELSE Retreat(e, nd.side, i)
  BY RemoveSteps
<1>2. /\ Shaped(b, N) /\ N \in Nat /\ l \in Level /\ nd \in Node /\ null \in Nat
      /\ p \in Nat /\ n \in Nat /\ z \in Nat /\ b.levels \in [Levels -> Level]
      /\ b.free_head \in Nat /\ b.free_head \in 0..N /\ b.live_orders \in Nat
  <2>1. Shaped(b, N) /\ N \in Nat /\ b.free_head \in 0..N /\ nd \in Node /\ b.live_orders \in Nat
    BY BookFacts, BookShaped
  <2>2. l \in Level /\ b.levels \in [Levels -> Level]
    BY <2>1 DEF Shaped
  <2>3. b.free_head \in Nat
    BY <2>1, SMT
  <2>4. p \in Nat /\ n \in Nat /\ z \in Nat /\ null \in Nat
    BY <2>1 DEF Node, null
  <2>. QED BY <2>1, <2>2, <2>3, <2>4
<1>3. /\ l.aggregate_size \in Nat /\ l.order_count \in Nat /\ l.side \in Side
      /\ l.head \in Nat /\ l.tail \in Nat
  BY <1>2, LevelIs
<1>4. ag \in Nat /\ ct \in Nat /\ hd \in Nat /\ tl \in Nat /\ b.live_orders - 1 \in Nat
  <2>1. z <= l.aggregate_size /\ l.order_count >= 1 /\ b.live_orders >= 1
    OBVIOUS
  <2>. HIDE DEF l, z, p, n
  <2>2. hd \in Nat /\ tl \in Nat
    BY <1>2, <1>3
  <2>. DEFINE g == l.aggregate_size
              o == l.order_count
              v == b.live_orders
  <2>. HIDE DEF g, o, v
  <2>3. g \in Nat /\ o \in Nat /\ v \in Nat /\ z \in Nat /\ z <= g /\ o >= 1 /\ v >= 1
    BY <1>2, <1>3, <2>1 DEF g, o, v
  <2>4. g - z \in Nat /\ o - 1 \in Nat /\ v - 1 \in Nat
    BY <2>3, SMT
  <2>. QED BY <2>2, <2>4 DEF g, o, v
<1>5. Unlinked(b, u, N, i, x)
  BY <1>2, UnlinkIs
<1>. HIDE DEF u, N
<1>6. /\ Shaped(u, N) /\ Rest(b, u)
      /\ \A y \in 1..N : u.nodes[y] = IF y = p THEN [b.nodes[y] EXCEPT !.next = n]
                                     ELSE IF y = n THEN [b.nodes[y] EXCEPT !.prev = p]
                                     ELSE b.nodes[y]
      /\ \A j \in Levels : j # i => u.levels[j] = b.levels[j]
      /\ u.levels[i] = l1
  BY <1>5 DEF Unlinked
<1>7. u.nodes[x] = nd /\ x \in 1..N
  BY <1>6 DEF N
<1>. HIDE DEF nd, l, p, n, z, ref, hd, tl, ag, ct
<1>8. Discounted(u, d, i, z, ref)
  BY <1>6, DiscountIs
<1>. HIDE DEF d, dx
<1>9. d = Whole([u.levels EXCEPT ![i] = l2], u.nodes, u.free_head, dx, u.bid, u.ask, u.live_orders - 1)
  <2>1. /\ l1.aggregate_size - z = ag /\ l1.order_count - 1 = ct /\ l1.side = l.side
        /\ l1.head = hd /\ l1.tail = tl
    BY DEF Lev, ag, ct
  <2>. HIDE DEF l1
  <2>. QED BY <1>6, <1>8, <2>1 DEF Discounted, dx
<1>10. l2 \in Level /\ l3 \in Level
  <2>1. "None" \in Side /\ 0 \in Nat
    BY DEF Side
  <2>. QED BY <1>3, <1>4, <2>1, LevelMade
<1>11. /\ l2.order_count = ct /\ l2.aggregate_size = ag /\ l2.side = l.side
       /\ l2.head = hd /\ l2.tail = tl
       /\ l3.order_count = ct /\ l3.aggregate_size = 0 /\ l3.side = "None"
       /\ l3.head = hd /\ l3.tail = tl
  BY DEF Lev
<1>12. l3 = Lev(0, l2.order_count, "None", l2.head, l2.tail)
  BY <1>11
<1>. HIDE DEF l1, l2, l3
<1>. DEFINE ul == [u.levels EXCEPT ![i] = l2]
            el == [ul EXCEPT ![i] = l3]
            un == [u.nodes EXCEPT ![x] = FreeNode(b.free_head)]
<1>13. /\ ul \in [Levels -> Level] /\ ul[i] = l2 /\ \A j \in Levels : j # i => ul[j] = b.levels[j]
       /\ el \in [Levels -> Level] /\ el[i] = l3 /\ \A j \in Levels : j # i => el[j] = b.levels[j]
  <2>1. u.levels \in [Levels -> Level]
    BY <1>6 DEF Shaped
  <2>. QED BY <1>6, <1>10, <2>1
<1>14. FreeNode(b.free_head) \in Node
  BY <1>2 DEF FreeNode, Node, Side, null
<1>15. /\ un \in [1..N -> Node] /\ un[x] = FreeNode(b.free_head)
       /\ \A y \in 1..N : y # x => un[y] = u.nodes[y]
  <2>1. u.nodes \in [1..N -> Node]
    BY <1>6 DEF Shaped
  <2>. QED BY <1>7, <1>14, <2>1
<1>16. Shaped(d, N) /\ d.free_head = b.free_head /\ d.levels = ul /\ d.nodes = u.nodes
       /\ d.index = dx /\ d.bid = b.bid /\ d.ask = b.ask /\ d.live_orders = b.live_orders - 1
  <2>. HIDE DEF ul
  <2>1. u.free_head = b.free_head /\ u.bid = b.bid /\ u.ask = b.ask /\ u.live_orders = b.live_orders
    BY <1>6 DEF Rest
  <2>2. d = Whole(ul, u.nodes, u.free_head, dx, u.bid, u.ask, u.live_orders - 1)
    BY <1>9 DEF ul
  <2>3. u.nodes \in [1..N -> Node]
    BY <1>6 DEF Shaped
  <2>. QED BY <1>13, <2>1, <2>2, <2>3 DEF Shaped, Whole
<1>17. Released(d, f, x)
  BY <1>16, ReleaseIs
<1>. HIDE DEF f, ul, el, un
<1>18. f = Whole(ul, un, x, dx, b.bid, b.ask, b.live_orders - 1)
  BY <1>16, <1>17 DEF Released, un
<1>19. /\ Shaped(f, N) /\ f.levels = ul /\ f.nodes = un /\ f.free_head = x /\ f.index = dx
       /\ f.bid = b.bid /\ f.ask = b.ask /\ f.live_orders = b.live_orders - 1
  BY <1>13, <1>15, <1>18 DEF Shaped, Whole
<1>20. Cleared(f, e, i)
  BY <1>19, ClearIs
<1>. HIDE DEF e
<1>21. e = Whole(el, un, x, dx, b.bid, b.ask, b.live_orders - 1)
  <2>1. f.levels[i] = l2
    BY <1>13, <1>19
  <2>. QED BY <1>12, <1>19, <1>20, <2>1 DEF Cleared, el
<1>22. /\ Shaped(e, N) /\ e.levels = el /\ e.nodes = un /\ e.free_head = x /\ e.index = dx
       /\ e.bid = b.bid /\ e.ask = b.ask /\ e.live_orders = b.live_orders - 1
  BY <1>13, <1>15, <1>21 DEF Shaped, Whole
<1>. DEFINE B == IF ct > 0 THEN b.bid ELSE retreat_bid(el, nd.side, i, b.bid)
            A == IF ct > 0 THEN b.ask ELSE retreat_ask(el, nd.side, i, b.ask)
            cl == IF ct > 0 THEN ul ELSE el
            c == remove_order(b, x)
<1>23. f.levels[i].order_count = ct
  BY <1>11, <1>13, <1>19
<1>. HIDE DEF c
<1>24. c = Whole(cl, un, x, dx, B, A, b.live_orders - 1)
  <2>1. CASE ct > 0
    BY <1>1, <1>18, <1>23, <2>1 DEF c
  <2>2. CASE ~(ct > 0)
    <3>1. c = Retreat(e, nd.side, i)
      BY <1>1, <1>23, <2>2 DEF c
    <3>2. Retreat(e, nd.side, i) = Whole(e.levels, e.nodes, e.free_head, e.index,
                                  retreat_bid(e.levels, nd.side, i, e.bid),
                                  retreat_ask(e.levels, nd.side, i, e.ask), e.live_orders)
      BY <1>22, RetreatIs
    <3>. QED BY <1>22, <2>2, <3>1, <3>2
  <2>. QED BY <2>1, <2>2
<1>25. B \in Levels \cup {None} /\ A \in Levels \cup {None}
  <2>1. b.bid \in Levels \cup {None} /\ b.ask \in Levels \cup {None}
    BY BookFacts
  <2>. QED BY <2>1, RescanTypes
<1>26. /\ cl \in [Levels -> Level] /\ \A j \in Levels : j # i => cl[j] = b.levels[j]
       /\ cl[i].head = hd /\ cl[i].tail = tl /\ cl[i].order_count = ct
       /\ cl[i].aggregate_size = (IF ct > 0 THEN ag ELSE 0)
       /\ cl[i].side = (IF ct > 0 THEN l.side ELSE "None")
  BY <1>11, <1>13
<1>27. (ct > 0 => B = b.bid /\ A = b.ask)
       /\ (~(ct > 0) => B = retreat_bid(cl, nd.side, i, b.bid) /\ A = retreat_ask(cl, nd.side, i, b.ask))
  OBVIOUS
<1>. HIDE DEF A, B, cl
<1>28. /\ c.levels = cl /\ c.nodes = un /\ c.free_head = x /\ c.index = dx /\ c.bid = B /\ c.ask = A
       /\ c.live_orders = b.live_orders - 1
  BY <1>24 DEF Whole
<1>29. u.index = b.index
  BY <1>6 DEF Rest
<1>30. DOMAIN dx = DOMAIN b.index \ {ref} /\ (\A y \in DOMAIN dx : dx[y] = b.index[y])
       /\ dx = [y \in DOMAIN dx |-> dx[y]]
  BY <1>29 DEF dx
<1>31. un \in Seq(Node) /\ Len(un) = N
  BY <1>2, <1>15, PoolIsSeq
<1>32. IsBook(c)
  <2>1. DOMAIN b.index \subseteq Ref /\ \A y \in DOMAIN b.index : b.index[y] \in 1..N
    BY BookFacts DEF N
  <2>2. DOMAIN dx \subseteq Ref /\ \A y \in DOMAIN dx : dx[y] \in 1..N
    BY <1>30, <2>1
  <2>3. dx \in [DOMAIN dx -> 1..N]
    BY <1>30, <2>2
  <2>4. x \in 0..N
    BY <1>2, <1>7
  <2>5. IsBook(Whole(cl, un, x, dx, B, A, b.live_orders - 1))
    BY <1>4, <1>25, <1>26, <1>31, <2>2, <2>3, <2>4, BookMade
  <2>. QED BY <1>24, <2>5
<1>33. \A y \in 1..N : un[y] = IF y = x THEN FreeNode(b.free_head)
                       ELSE IF y = p THEN [b.nodes[y] EXCEPT !.next = n]
                       ELSE IF y = n THEN [b.nodes[y] EXCEPT !.prev = p]
                       ELSE b.nodes[y]
  BY <1>6, <1>15
<1>34. Removes(b, c, i, x)
  <2>1. \A j \in Levels \ {i} : c.levels[j] = b.levels[j]
    BY <1>26, <1>28
  <2>2. /\ Len(c.nodes) = N /\ c.free_head = x
        /\ \A y \in 1..N : c.nodes[y] = IF y = x THEN FreeNode(b.free_head)
                       ELSE IF y = p THEN [b.nodes[y] EXCEPT !.next = n]
                       ELSE IF y = n THEN [b.nodes[y] EXCEPT !.prev = p]
                       ELSE b.nodes[y]
    BY <1>28, <1>31, <1>33
  <2>3. DOMAIN c.index = DOMAIN b.index \ {ref} /\ \A y \in DOMAIN c.index : c.index[y] = b.index[y]
    BY <1>28, <1>30
  <2>4. /\ c.levels[i].head = hd /\ c.levels[i].tail = tl /\ c.levels[i].order_count = ct
        /\ c.levels[i].aggregate_size = (IF ct > 0 THEN ag ELSE 0)
    BY <1>26, <1>28
  <2>. QED BY <2>1, <2>2, <2>3, <2>4 DEF Removes, N, nd, l, p, n, z, ref, hd, tl, ag, ct
<1>35. Left(b, c, i, x)
  <2>1. c.levels[i].side = (IF ct > 0 THEN l.side ELSE "None")
    BY <1>26, <1>28
  <2>. QED BY <1>27, <1>28, <2>1 DEF Left, ct, l, nd
<1>. QED BY <1>32, <1>34, <1>35 DEF c

(* reduce_order(): fewer shares in the node and in the sum of its level.   *)
Take(b, i, x, d) == [b EXCEPT !.levels[i].aggregate_size = @ - d, !.nodes[x].size = @ - d]

LEMMA ReduceSteps ==
  ASSUME NEW b, NEW x, NEW shares
  PROVE  LET d == IF shares < b.nodes[x].size THEN shares ELSE b.nodes[x].size
             c == Take(b, b.nodes[x].level_idx, x, d)
         IN reduce_order(b, x, shares) = IF c.nodes[x].size = 0 THEN remove_order(c, x) ELSE c
BY Zenon DEF reduce_order, Take

LEMMA TakeIs ==
  ASSUME NEW b, IsBook(b), NEW i \in Levels, NEW x \in 1..Len(b.nodes), NEW d \in Nat,
         d <= b.nodes[x].size, d <= b.levels[i].aggregate_size
  PROVE  LET c == Take(b, i, x, d)
         IN /\ IsBook(c) /\ Shrinks(b, c, i, x, d)
            /\ c.bid = b.bid /\ c.ask = b.ask /\ c.live_orders = b.live_orders
<1>. DEFINE N == Len(b.nodes)
            nd == b.nodes[x]
            l == b.levels[i]
            nd1 == [nd EXCEPT !.size = @ - d]
            l1 == [l EXCEPT !.aggregate_size = @ - d]
            a == [b EXCEPT !.levels[i].aggregate_size = @ - d]
            c == [a EXCEPT !.nodes[x].size = @ - d]
<1>1. Shaped(b, N) /\ N \in Nat /\ nd \in Node /\ l \in Level
  <2>1. Shaped(b, N) /\ N \in Nat /\ nd \in Node
    BY BookFacts, BookShaped
  <2>. QED BY <2>1 DEF Shaped
<1>2. Take(b, i, x, d) = c
  BY DEF Take
<1>3. nd.size - d \in Nat /\ l.aggregate_size - d \in Nat
  <2>1. nd.size \in Nat /\ l.aggregate_size \in Nat
    BY <1>1 DEF Node, Level
  <2>. DEFINE g == nd.size
              h == l.aggregate_size
  <2>2. d <= g /\ d <= h /\ g \in Nat /\ h \in Nat
    BY <2>1
  <2>. HIDE DEF g, h
  <2>3. g - d \in Nat /\ h - d \in Nat
    BY <2>2, SMT
  <2>. QED BY <2>3 DEF g, h
<1>4. nd1 \in Node /\ l1 \in Level
  <2>. HIDE DEF nd, l
  <2>. QED BY <1>1, <1>3 DEF Node, Level
<1>5. a = PutLevel(b, i, l1)
  BY DEF PutLevel
<1>6. c = PutNode(a, x, [a.nodes[x] EXCEPT !.size = @ - d])
  <2>. HIDE DEF a
  <2>. QED BY DEF PutNode
<1>7. x \in 1..N
  OBVIOUS
<1>. HIDE DEF a, c, l1, N
<1>8. /\ Shaped(a, N) /\ Rest(b, a) /\ a.nodes = b.nodes
      /\ a.levels[i] = l1 /\ \A j \in Levels : j # i => a.levels[j] = b.levels[j]
  <2>. HIDE DEF l
  <2>. QED BY <1>1, <1>4, <1>5, PutLevelIs
<1>9. c = PutNode(a, x, nd1)
  <2>1. a.nodes[x] = nd
    BY <1>8
  <2>. HIDE DEF nd
  <2>. QED BY <1>6, <2>1
<1>. HIDE DEF nd1
<1>10. /\ Shaped(c, N) /\ Rest(a, c) /\ c.levels = a.levels
       /\ c.nodes[x] = nd1 /\ \A y \in 1..N : y # x => c.nodes[y] = b.nodes[y]
  <2>1. /\ Shaped(PutNode(a, x, nd1), N) /\ Rest(a, PutNode(a, x, nd1))
        /\ PutNode(a, x, nd1).levels = a.levels
        /\ PutNode(a, x, nd1).nodes[x] = nd1
        /\ \A y \in 1..N : y # x => PutNode(a, x, nd1).nodes[y] = a.nodes[y]
    BY <1>4, <1>7, <1>8, PutNodeIs
  <2>. QED BY <1>8, <1>9, <2>1
<1>11. Rest(b, c)
  BY <1>8, <1>10 DEF Rest
<1>12. c.nodes \in Seq(Node) /\ Len(c.nodes) = N
  <2>1. c.nodes \in [1..N -> Node]
    BY <1>10 DEF Shaped
  <2>. QED BY <1>1, <2>1, PoolIsSeq
<1>13. Shrinks(b, c, i, x, d)
  <2>1. \A y \in 1..N : c.nodes[y] = IF y = x THEN [b.nodes[y] EXCEPT !.size = @ - d] ELSE b.nodes[y]
    BY <1>10 DEF nd1
  <2>2. \A j \in Levels \ {i} : c.levels[j] = b.levels[j]
    BY <1>8, <1>10
  <2>3. c.levels[i] = [b.levels[i] EXCEPT !.aggregate_size = @ - d]
    BY <1>8, <1>10 DEF l1
  <2>4. c.index = b.index /\ c.free_head = b.free_head
    BY <1>11 DEF Rest
  <2>. QED BY <1>12, <2>1, <2>2, <2>3, <2>4 DEF Shrinks, N
<1>14. IsBook(c)
  <2>1. /\ c = Whole(c.levels, c.nodes, c.free_head, c.index, c.bid, c.ask, c.live_orders)
        /\ c.levels \in [Levels -> Level]
    BY <1>10 DEF Shaped
  <2>2. /\ DOMAIN c.index \subseteq Ref /\ c.index \in [DOMAIN c.index -> 1..N]
        /\ c.free_head \in 0..N
        /\ c.bid \in Levels \cup {None} /\ c.ask \in Levels \cup {None} /\ c.live_orders \in Nat
    <3>1. b.index \in UNION {[S -> 1..N] : S \in SUBSET Ref}
      BY DEF IsBook, Books, N
    <3>2. DOMAIN b.index \subseteq Ref /\ b.index \in [DOMAIN b.index -> 1..N]
      BY <3>1
    <3>3. b.free_head \in 0..N /\ b.live_orders \in Nat
          /\ b.bid \in Levels \cup {None} /\ b.ask \in Levels \cup {None}
      BY BookFacts DEF N
    <3>. QED BY <1>11, <3>2, <3>3 DEF Rest
  <2>3. IsBook(Whole(c.levels, c.nodes, c.free_head, c.index, c.bid, c.ask, c.live_orders))
    BY <1>12, <2>1, <2>2, BookMade
  <2>. QED BY <2>1, <2>3
<1>. QED BY <1>2, <1>11, <1>13, <1>14 DEF Rest

-----------------------------------------------------------------------------
(* What holds of a book and its reference after every event, and the best  *)
(* pointers as long as no order joined the other side.                     *)

Sound(b, q) == /\ Indexed(b, q) /\ Chained(b, q) /\ Ended(b, q) /\ Summed(b, q) /\ Pooled(b)
               /\ IsFiniteSet(DOMAIN b.index) /\ b.live_orders = Cardinality(DOMAIN b.index)
Best(b, q) == OneSided(b, q) /\ BestCached(b, q)

LEMMA SoundIs ==
  BookInv <=> TypeOK /\ Sound(book, orders) /\ (~mixed => Best(book, orders))
<1>1. ASSUME TypeOK
      PROVE  /\ Distinct(orders) /\ IsFiniteSet(DOMAIN book.index)
             /\ Holds(book, orders) /\ Backed(book, orders) /\ Partitioned(book)
             <=> Sound(book, orders)
  <2>1. IsBook(book) /\ orders \in Queues
    BY <1>1 DEF TypeOK, IsBook, Queues
  <2>2. ASSUME Distinct(orders), IsFiniteSet(DOMAIN book.index), Holds(book, orders),
               Backed(book, orders), Partitioned(book)
        PROVE  Sound(book, orders)
    <3>1. Indexed(book, orders)
      BY <2>1, <2>2 DEF Indexed, Holds, Partitioned
    <3>2. Chained(book, orders) /\ Ended(book, orders) /\ Summed(book, orders)
      BY <2>2, <3>1, ListsAre
    <3>3. Pooled(book) /\ book.live_orders = Cardinality(DOMAIN book.index)
      BY <2>2, <3>1, PoolIs
    <3>. QED BY <2>2, <3>1, <3>2, <3>3 DEF Sound
  <2>3. ASSUME Sound(book, orders)
        PROVE  /\ Distinct(orders) /\ IsFiniteSet(DOMAIN book.index)
               /\ Holds(book, orders) /\ Backed(book, orders) /\ Partitioned(book)
    <3>1. Indexed(book, orders) /\ IsFiniteSet(DOMAIN book.index)
      BY <2>3 DEF Sound
    <3>2. Holds(book, orders) /\ Backed(book, orders)
      BY <2>3, <3>1, ListsAre DEF Sound
    <3>3. Partitioned(book)
      BY <2>3, <3>1, PoolIs DEF Sound
    <3>4. Distinct(orders)
      BY <3>1 DEF Indexed
    <3>. QED BY <3>1, <3>2, <3>3, <3>4
  <2>. QED BY <2>2, <2>3
<1>. QED BY <1>1 DEF BookInv, Best

LEMMA FreeHead ==
  ASSUME NEW b, IsBook(b), Pooled(b)
  PROVE  /\ b.free_head \in 0..Len(b.nodes)
         /\ b.free_head # null => b.free_head \in 1..Len(b.nodes) \ Live(b)
<1>. DEFINE L == Len(b.nodes)
<1>1. PICK n \in 0..L : \E f \in [1..n -> 1..L] : FreeList(b, f, n)
  BY DEF Pooled
<1>2. PICK f \in [1..n -> 1..L] : FreeList(b, f, n)
  BY <1>1
<1>3. {f[l] : l \in 1..n} = (1..L) \ Live(b) /\ b.free_head = IF n = 0 THEN null ELSE f[1]
  BY <1>2 DEF FreeList
<1>4. b.free_head \in 0..L
  BY BookFacts
<1>5. L \in Nat
  BY BookFacts
<1>6. n # 0 => 1 \in 1..n
  BY <1>5, SMT
<1>. HIDE DEF L
<1>7. n # 0 => b.free_head \in (1..L) \ Live(b)
  BY <1>3, <1>6
<1>. QED BY <1>3, <1>4, <1>7 DEF L

LEMMA PoolHead ==
  ASSUME NEW c, Pooled(c), Len(c.nodes) \in Nat
  PROVE  c.free_head \in 0..Len(c.nodes)
<1>. DEFINE L == Len(c.nodes)
<1>1. PICK n \in 0..L : \E f \in [1..n -> 1..L] : FreeList(c, f, n)
  BY DEF Pooled
<1>2. PICK f \in [1..n -> 1..L] : FreeList(c, f, n)
  BY <1>1
<1>3. c.free_head = IF n = 0 THEN null ELSE f[1]
  BY <1>2 DEF FreeList
<1>4. n # 0 => 1 \in 1..n
  BY SMT
<1>5. n # 0 => f[1] \in 1..L
  BY <1>4
<1>. QED BY <1>3, <1>5, SMT DEF null

LEMMA TailIs ==
  ASSUME NEW b, NEW q, Indexed(b, q), Ended(b, q), NEW i \in Levels
  PROVE  b.levels[i].tail \in 0..Len(b.nodes) /\ b.levels[i].tail \in Live(b) \cup {null}
<1>1. b.levels[i].tail = NodeAt(b, q, i, Len(q[i]))
  BY DEF Ended
<1>2. Len(b.nodes) \in Nat
  BY BookFacts DEF Indexed
<1>3. CASE Len(q[i]) \in 1..Len(q[i])
  <2>1. NodeAt(b, q, i, Len(q[i])) \in 1..Len(b.nodes) /\ NodeAt(b, q, i, Len(q[i])) \in Live(b)
    BY <1>3, NodesOfOrders
  <2>. QED BY <1>1, <1>2, <2>1
<1>4. CASE Len(q[i]) \notin 1..Len(q[i])
  <2>1. NodeAt(b, q, i, Len(q[i])) = null
    BY <1>4, NodesBeyond
  <2>. QED BY <1>1, <1>2, <2>1 DEF null
<1>. QED BY <1>3, <1>4

(* on_add().                                                               *)
LEMMA AddSound ==
  ASSUME NEW b, NEW q, Sound(b, q), NEW ref \in Ref, NEW side \in Side, NEW p \in Int, NEW size \in Nat,
         Admits(b, ref, p)
  PROVE  LET c == insert(b, ref, side, p, size)
             o == [ref |-> ref, side |-> side, size |-> size]
             i == to_index(p)
             w == Enqueue(q, i, o)
         IN /\ Sound(c, w) /\ Queued(q, ref, side, p, size) = w /\ i \in Levels /\ o \in Order
            /\ Appended(q, w, i, o)
            /\ c.bid = improve_bid(side, i, b.bid) /\ c.ask = improve_ask(side, i, b.ask)
            /\ c.levels[i].side = (IF b.levels[i].order_count = 0 THEN side ELSE b.levels[i].side)
            /\ \A j \in Levels : j # i => c.levels[j] = b.levels[j]
<1>. DEFINE c == insert(b, ref, side, p, size)
            o == [ref |-> ref, side |-> side, size |-> size]
            i == to_index(p)
            w == Enqueue(q, i, o)
            r == ready(b)
            x == r.free_head
<1>1. Indexed(b, q) /\ Chained(b, q) /\ Ended(b, q) /\ Summed(b, q) /\ Pooled(b)
      /\ IsFiniteSet(DOMAIN b.index) /\ b.live_orders = Cardinality(DOMAIN b.index)
  BY DEF Sound
<1>2. i \in Levels /\ ref \notin DOMAIN b.index
  BY IndexType DEF Admits
<1>3. o \in Order /\ o.ref = ref /\ o.side = side /\ o.size = size
  BY DEF Order
<1>4. /\ Indexed(r, q) /\ Chained(r, q) /\ Ended(r, q) /\ Summed(r, q) /\ Pooled(r)
      /\ Kept(b, r) /\ r.free_head # null
  BY <1>1, ReadyIs
<1>5. q \in Queues /\ DOMAIN b.index = Refs(q)
  BY <1>1 DEF Indexed
<1>6. Queued(q, ref, side, p, size) = w
  BY <1>2, <1>5 DEF Queued, Admits
<1>. HIDE DEF w, o, i
<1>7. Appended(q, w, i, o) /\ w[i] = Append(q[i], o)
  <2>1. Appended(q, w, i, o)
    BY <1>2, <1>3, <1>5, EnqueueIs DEF w
  <2>2. w[i] = Append(q[i], o)
    BY <1>2, <1>5 DEF w, Enqueue, Queues
  <2>. QED BY <2>1, <2>2
<1>8. IsBook(r) /\ r.index = b.index /\ r.levels = b.levels /\ r.bid = b.bid /\ r.ask = b.ask
      /\ r.live_orders = b.live_orders
  BY <1>4 DEF Indexed, Kept
<1>9. x \in 1..Len(r.nodes) \ Live(r)
  BY <1>4, <1>8, FreeHead
<1>10. r.levels[i].tail \in 0..Len(r.nodes) /\ r.levels[i].tail # x
  <2>1. r.levels[i].tail \in 0..Len(r.nodes) /\ r.levels[i].tail \in Live(r) \cup {null}
    BY <1>2, <1>4, TailIs
  <2>. QED BY <1>4, <1>9, <2>1
<1>. HIDE DEF r
<1>11. /\ Inserts(r, c, i, o, x) /\ c.free_head = r.nodes[x].next
       /\ c.live_orders = r.live_orders + 1
       /\ c.bid = improve_bid(o.side, i, r.bid) /\ c.ask = improve_ask(o.side, i, r.ask)
       /\ c.levels[i].side = (IF r.levels[i].order_count = 0 THEN o.side ELSE r.levels[i].side)
       /\ c.free_head \in 0..Len(r.nodes) => IsBook(c)
  <2>1. /\ x \in 1..Len(r.nodes) /\ x = r.free_head /\ i = to_index(p) /\ r = ready(b)
        /\ o.ref \notin DOMAIN r.index
    BY <1>2, <1>3, <1>8, <1>9 DEF i, r
  <2>2. c = insert(b, o.ref, o.side, p, o.size)
    BY <1>3
  <2>. HIDE DEF x, c
  <2>3. Entered(r, insert(b, o.ref, o.side, p, o.size), i, o, x)
    BY <1>2, <1>3, <1>8, <1>10, <2>1, InsertIs
  <2>. QED BY <2>2, <2>3 DEF Entered
<1>. HIDE DEF c
<1>12. Pooled(c)
  <2>1. o.ref \notin DOMAIN r.index
    BY <1>2, <1>3, <1>8
  <2>. QED BY <1>2, <1>4, <1>11, <2>1, PoolInsert
<1>13. IsBook(c)
  <2>1. Len(c.nodes) = Len(r.nodes)
    BY <1>11 DEF Inserts
  <2>2. Len(c.nodes) \in Nat
    BY <1>8, <2>1, BookFacts
  <2>. QED BY <1>11, <1>12, <2>1, <2>2, PoolHead
<1>14. Indexed(c, w)
  BY <1>2, <1>3, <1>4, <1>7, <1>8, <1>9, <1>11, <1>13, InsertIndexed
<1>15. Chained(c, w) /\ Ended(c, w) /\ Summed(c, w)
  BY <1>2, <1>3, <1>4, <1>7, <1>8, <1>9, <1>11, <1>13, InsertLists
<1>16. DOMAIN c.index = DOMAIN b.index \cup {ref}
  BY <1>3, <1>8, <1>11 DEF Inserts
<1>17. IsFiniteSet(DOMAIN c.index) /\ c.live_orders = Cardinality(DOMAIN c.index)
  <2>1. IsFiniteSet(DOMAIN b.index \cup {ref})
        /\ Cardinality(DOMAIN b.index \cup {ref}) = Cardinality(DOMAIN b.index) + 1
    BY <1>1, <1>2, FS_AddElement
  <2>. QED BY <1>1, <1>8, <1>11, <1>16, <2>1
<1>18. Sound(c, w)
  BY <1>12, <1>14, <1>15, <1>17 DEF Sound
<1>19. \A j \in Levels : j # i => c.levels[j] = b.levels[j]
  BY <1>8, <1>11 DEF Inserts
<1>. QED BY <1>2, <1>3, <1>6, <1>7, <1>8, <1>11, <1>18, <1>19 DEF c, w, i, o

(* remove_order() of the k-th order of a level.                            *)
LEMMA NeighboursAre ==
  ASSUME NEW b, NEW q, Indexed(b, q), Chained(b, q), NEW i \in Levels, NEW k \in 1..Len(q[i])
  PROVE  LET x == NodeAt(b, q, i, k)
             n == b.nodes[x]
         IN /\ x \in 1..Len(b.nodes) /\ n.level_idx = i
            /\ n.prev \in 0..Len(b.nodes) /\ n.next \in 0..Len(b.nodes)
            /\ n.prev = n.next => n.prev = null
            /\ n.prev # x /\ n.next # x
            /\ n.size = q[i][k].size /\ n.side = q[i][k].side /\ n.order_ref = q[i][k].ref
<1>. DEFINE x == NodeAt(b, q, i, k)
            n == b.nodes[x]
            a == NodeAt(b, q, i, k - 1)
            z == NodeAt(b, q, i, k + 1)
<1>1. /\ n.order_ref = q[i][k].ref /\ n.side = q[i][k].side /\ n.size = q[i][k].size
      /\ n.next = z /\ n.level_idx = i /\ n.prev = a
  BY ChainedAt
<1>2. x \in 1..Len(b.nodes) /\ x # null
  BY NodesOfOrders
<1>3. Len(b.nodes) \in Nat /\ Len(q[i]) \in Nat
  BY BookFacts, QueueFacts DEF Indexed
<1>4. k - 1 # k /\ k + 1 # k /\ k - 1 # k + 1
  BY <1>3, SMT
<1>5. ASSUME NEW l, l # k
      PROVE  /\ NodeAt(b, q, i, l) \in 0..Len(b.nodes) /\ NodeAt(b, q, i, l) # x
             /\ NodeAt(b, q, i, l) # null => l \in 1..Len(q[i])
  <2>1. CASE l \in 1..Len(q[i])
    <3>1. NodeAt(b, q, i, l) \in 1..Len(b.nodes) /\ (NodeAt(b, q, i, l) = NodeAt(b, q, i, k) => l = k)
      BY <2>1, NodesOfOrders
    <3>. QED BY <1>3, <1>5, <2>1, <3>1
  <2>2. CASE l \notin 1..Len(q[i])
    <3>1. NodeAt(b, q, i, l) = null
      BY <2>2, NodesBeyond
    <3>. QED BY <1>2, <1>3, <3>1 DEF null
  <2>. QED BY <2>1, <2>2
<1>6. a \in 0..Len(b.nodes) /\ a # x /\ (a # null => k - 1 \in 1..Len(q[i]))
  BY <1>4, <1>5
<1>7. z \in 0..Len(b.nodes) /\ z # x /\ (z # null => k + 1 \in 1..Len(q[i]))
  BY <1>4, <1>5
<1>8. a = z => a = null
  <2>. SUFFICES ASSUME a = z, a # null PROVE FALSE
    OBVIOUS
  <2>1. k - 1 \in 1..Len(q[i]) /\ k + 1 \in 1..Len(q[i])
    BY <1>6, <1>7
  <2>2. k - 1 = k + 1
    BY <2>1, NodesOfOrders
  <2>. QED BY <1>4, <2>2
<1>. HIDE DEF x, n, a, z
<1>. QED BY <1>1, <1>2, <1>6, <1>7, <1>8 DEF x, n

LEMMA RemoveSound ==
  ASSUME NEW b, NEW q, Sound(b, q), NEW i \in Levels, NEW k \in 1..Len(q[i]),
         NEW w, Removed(q, w, i, k), w[i] = RemoveAt(q[i], k)
  PROVE  LET x == NodeAt(b, q, i, k)
             c == remove_order(b, x)
         IN Sound(c, w) /\ Removes(b, c, i, x) /\ Left(b, c, i, x)
<1>. DEFINE x == NodeAt(b, q, i, k)
            c == remove_order(b, x)
            ref == q[i][k].ref
            l == b.levels[i]
<1>1. Indexed(b, q) /\ Chained(b, q) /\ Ended(b, q) /\ Summed(b, q) /\ Pooled(b)
      /\ IsFiniteSet(DOMAIN b.index) /\ b.live_orders = Cardinality(DOMAIN b.index)
  BY DEF Sound
<1>2. /\ x \in 1..Len(b.nodes) /\ b.nodes[x].level_idx = i
      /\ b.nodes[x].prev \in 0..Len(b.nodes) /\ b.nodes[x].next \in 0..Len(b.nodes)
      /\ b.nodes[x].prev = b.nodes[x].next => b.nodes[x].prev = null
      /\ b.nodes[x].prev # x /\ b.nodes[x].next # x
      /\ b.nodes[x].size = q[i][k].size
  BY <1>1, NeighboursAre
<1>3. IsBook(b) /\ q \in Queues /\ ref \in DOMAIN b.index
  BY <1>1, NodesOfOrders DEF Indexed
<1>4. l.order_count >= 1
  <2>1. l.order_count = Len(q[i]) /\ Len(q[i]) \in Nat
    BY <1>1, <1>3, QueueFacts DEF Ended
  <2>. HIDE DEF l
  <2>. QED BY <2>1, SMT
<1>5. b.live_orders >= 1
  <2>1. Cardinality(DOMAIN b.index) \in Nat /\ Cardinality(DOMAIN b.index) # 0
    BY <1>1, <1>3, FS_CardinalityType, FS_EmptySet
  <2>. QED BY <1>1, <2>1, SMT
<1>6. b.nodes[x].size <= l.aggregate_size
  <2>1. q[i] \in Seq(Order) /\ l.aggregate_size \in Nat /\ AddUpTo(q[i], l.aggregate_size)
    <3>1. l \in Level
      BY <1>3, BookFacts
    <3>. QED BY <1>1, <1>3, <3>1, QueueFacts, LevelIs DEF Summed
  <2>. HIDE DEF l, x
  <2>2. q[i][k].size <= l.aggregate_size
    BY <2>1, SumRemoves
  <2>. QED BY <1>2, <2>2
<1>7. IsBook(c) /\ Removes(b, c, i, x) /\ Left(b, c, i, x)
  <2>. HIDE DEF x
  <2>. QED BY <1>2, <1>3, <1>4, <1>5, <1>6, RemoveIs
<1>. HIDE DEF c
<1>8. Indexed(c, w) /\ DOMAIN c.index = DOMAIN b.index \ {ref}
  BY <1>1, <1>7, RemoveIndexed
<1>9. Chained(c, w) /\ Ended(c, w) /\ Summed(c, w)
  BY <1>1, <1>7, RemoveLists
<1>10. Pooled(c)
  BY <1>1, <1>7, PoolRemove
<1>11. IsFiniteSet(DOMAIN c.index) /\ c.live_orders = Cardinality(DOMAIN c.index)
  <2>1. IsFiniteSet(DOMAIN b.index \ {ref})
        /\ Cardinality(DOMAIN b.index \ {ref}) = Cardinality(DOMAIN b.index) - 1
    <3>. DEFINE D == DOMAIN b.index
    <3>1. IsFiniteSet(D) /\ ref \in D
      BY <1>1, <1>3
    <3>. HIDE DEF D, ref
    <3>2. IsFiniteSet(D \ {ref}) /\ Cardinality(D \ {ref}) = Cardinality(D) - 1
      BY <3>1, FS_RemoveElement
    <3>. QED BY <3>2 DEF D
  <2>2. c.live_orders = b.live_orders - 1
    BY <1>7 DEF Left
  <2>. QED BY <1>1, <1>8, <2>1, <2>2
<1>12. Sound(c, w)
  BY <1>8, <1>9, <1>10, <1>11 DEF Sound
<1>. QED BY <1>7, <1>12 DEF c

(* The decrement of reduce_order().                                        *)
LEMMA TakeSound ==
  ASSUME NEW b, NEW q, Sound(b, q), NEW i \in Levels, NEW k \in 1..Len(q[i]),
         NEW d \in 0..q[i][k].size, NEW w, Shrunk(q, w, i, k, d)
  PROVE  LET x == NodeAt(b, q, i, k)
             c == Take(b, i, x, d)
         IN /\ Sound(c, w) /\ Shrinks(b, c, i, x, d) /\ NodeAt(c, w, i, k) = x
            /\ c.bid = b.bid /\ c.ask = b.ask
<1>. DEFINE x == NodeAt(b, q, i, k)
            c == Take(b, i, x, d)
            l == b.levels[i]
<1>1. Indexed(b, q) /\ Chained(b, q) /\ Ended(b, q) /\ Summed(b, q) /\ Pooled(b)
      /\ IsFiniteSet(DOMAIN b.index) /\ b.live_orders = Cardinality(DOMAIN b.index)
  BY DEF Sound
<1>2. x \in 1..Len(b.nodes) /\ b.nodes[x].size = q[i][k].size
  BY <1>1, NeighboursAre
<1>3. IsBook(b) /\ q \in Queues
  BY <1>1 DEF Indexed
<1>4. q[i][k].size \in Nat
  BY <1>3, QueueFacts
<1>5. q[i][k].size <= l.aggregate_size /\ l.aggregate_size \in Nat
  <2>1. q[i] \in Seq(Order) /\ l.aggregate_size \in Nat /\ AddUpTo(q[i], l.aggregate_size)
    <3>1. l \in Level
      BY <1>3, BookFacts
    <3>. QED BY <1>1, <1>3, <3>1, QueueFacts, LevelIs DEF Summed
  <2>. HIDE DEF l
  <2>. QED BY <2>1, SumRemoves
<1>6. d \in Nat /\ d <= b.nodes[x].size /\ d <= l.aggregate_size
  <2>. DEFINE z == q[i][k].size
              g == l.aggregate_size
  <2>1. z \in Nat /\ g \in Nat /\ z <= g /\ d \in 0..z
    BY <1>4, <1>5
  <2>. HIDE DEF z, g
  <2>2. d \in Nat /\ d <= z /\ d <= g
    BY <2>1, SMT
  <2>. QED BY <1>2, <2>2 DEF z, g
<1>. HIDE DEF x
<1>7. IsBook(c) /\ Shrinks(b, c, i, x, d)
      /\ c.bid = b.bid /\ c.ask = b.ask /\ c.live_orders = b.live_orders
  BY <1>2, <1>3, <1>6, TakeIs
<1>. HIDE DEF c
<1>8. Indexed(c, w) /\ NodeAt(c, w, i, k) = x
  <2>1. Indexed(c, w) /\ \A j \in Levels, m \in Int : NodeAt(c, w, j, m) = NodeAt(b, q, j, m)
    BY <1>1, <1>7, ShrinkIndexed
  <2>2. k \in Int
    OBVIOUS
  <2>. QED BY <2>1, <2>2 DEF x
<1>9. Chained(c, w) /\ Ended(c, w) /\ Summed(c, w)
  BY <1>1, <1>7, ShrinkLists DEF x
<1>10. Pooled(c)
  BY <1>1, <1>3, <1>7, PoolShrink
<1>11. c.index = b.index
  BY <1>7 DEF Shrinks
<1>12. Sound(c, w)
  BY <1>1, <1>7, <1>8, <1>9, <1>10, <1>11 DEF Sound
<1>. QED BY <1>7, <1>8, <1>12 DEF c, x

-----------------------------------------------------------------------------
(* The best pointers, on one-sided levels.                                 *)

LEMMA SlotsAre ==
  ASSUME NEW b, NEW q \in Queues, OneSided(b, q), NEW s
  PROVE  /\ SlotsOf(q, s) \in SUBSET Levels
         /\ \A j \in Levels : j \in SlotsOf(q, s) <=> Len(q[j]) > 0 /\ b.levels[j].side = s
<1>1. DOMAIN q = Levels
  BY DEF Queues
<1>2. \A j \in Levels : j \in SlotsOf(q, s) <=> \E k \in 1..Len(q[j]) : q[j][k].side = s
  BY <1>1 DEF SlotsOf
<1>3. SlotsOf(q, s) \in SUBSET Levels
  BY <1>1 DEF SlotsOf
<1>4. ASSUME NEW j \in Levels
      PROVE  j \in SlotsOf(q, s) <=> Len(q[j]) > 0 /\ b.levels[j].side = s
  <2>1. \A k \in 1..Len(q[j]) : q[j][k].side = b.levels[j].side
    BY DEF OneSided
  <2>2. Len(q[j]) \in Nat
    BY QueueFacts
  <2>3. Len(q[j]) > 0 <=> 1 \in 1..Len(q[j])
    BY <2>2, SMT
  <2>4. \A k \in 1..Len(q[j]) : 1 \in 1..Len(q[j])
    BY <2>2, SMT
  <2>. QED BY <1>2, <2>1, <2>3, <2>4
<1>. QED BY <1>3, <1>4

LEMMA OwnedAre ==
  ASSUME NEW b, NEW q \in Queues, OneSided(b, q), Ended(b, q), NEW s
  PROVE  Owned(b.levels, s) = SlotsOf(q, s)
<1>1. /\ SlotsOf(q, s) \in SUBSET Levels
      /\ \A j \in Levels : j \in SlotsOf(q, s) <=> Len(q[j]) > 0 /\ b.levels[j].side = s
  BY SlotsAre
<1>2. \A j \in Levels : b.levels[j].order_count = Len(q[j])
  BY DEF Ended
<1>3. /\ Owned(b.levels, s) \in SUBSET Levels
      /\ \A j \in Levels : j \in Owned(b.levels, s) <=> b.levels[j].order_count > 0 /\ b.levels[j].side = s
  BY DEF Owned
<1>. QED BY <1>1, <1>2, <1>3

(* An order joins a level of its own side, or an empty one.                *)
LEMMA BestInsert ==
  ASSUME NEW b, NEW c, NEW q \in Queues, NEW i \in Levels, NEW o \in Order, NEW w,
         Appended(q, w, i, o), Ended(b, q), Best(b, q),
         b.levels[i].order_count = 0 \/ b.levels[i].side = o.side,
         c.levels[i].side = (IF b.levels[i].order_count = 0 THEN o.side ELSE b.levels[i].side),
         \A j \in Levels : j # i => c.levels[j] = b.levels[j],
         c.bid = improve_bid(o.side, i, b.bid), c.ask = improve_ask(o.side, i, b.ask)
  PROVE  Best(c, w)
<1>1. /\ w \in Queues /\ \A j \in Levels \ {i} : w[j] = q[j]
      /\ Len(w[i]) = Len(q[i]) + 1
      /\ \A l \in 1..(Len(q[i]) + 1) : w[i][l] = IF l = Len(q[i]) + 1 THEN o ELSE q[i][l]
  BY DEF Appended
<1>2. OneSided(b, q) /\ BestCached(b, q)
  BY DEF Best
<1>3. c.levels[i].side = o.side
  OBVIOUS
<1>4. Len(q[i]) \in Nat /\ b.levels[i].order_count = Len(q[i])
  BY QueueFacts DEF Ended
<1>5. ASSUME NEW l \in 1..Len(w[i]) PROVE w[i][l].side = o.side
  <2>1. CASE l = Len(q[i]) + 1
    BY <1>1, <2>1
  <2>2. CASE l # Len(q[i]) + 1
    <3>1. l \in 1..Len(q[i]) /\ l \in 1..(Len(q[i]) + 1) /\ Len(q[i]) # 0
      BY <1>1, <1>4, <2>2, SMT
    <3>2. w[i][l] = q[i][l] /\ q[i][l].side = b.levels[i].side
      BY <1>1, <1>2, <2>2, <3>1 DEF OneSided
    <3>. QED BY <1>4, <3>1, <3>2
  <2>. QED BY <2>1, <2>2
<1>6. OneSided(c, w)
  <2>. SUFFICES ASSUME NEW j \in Levels, NEW l \in 1..Len(w[j]) PROVE w[j][l].side = c.levels[j].side
    BY DEF OneSided
  <2>1. CASE j = i
    BY <1>3, <1>5, <2>1
  <2>2. CASE j # i
    <3>1. w[j] = q[j] /\ c.levels[j] = b.levels[j]
      BY <1>1, <2>2
    <3>. QED BY <1>2, <3>1 DEF OneSided
  <2>. QED BY <2>1, <2>2
<1>7. ASSUME NEW s
      PROVE  SlotsOf(w, s) = IF s = o.side THEN SlotsOf(q, s) \cup {i} ELSE SlotsOf(q, s)
  <2>1. /\ SlotsOf(q, s) \in SUBSET Levels
        /\ \A j \in Levels : j \in SlotsOf(q, s) <=> Len(q[j]) > 0 /\ b.levels[j].side = s
    BY <1>2, SlotsAre
  <2>2. /\ SlotsOf(w, s) \in SUBSET Levels
        /\ \A j \in Levels : j \in SlotsOf(w, s) <=> Len(w[j]) > 0 /\ c.levels[j].side = s
    BY <1>1, <1>6, SlotsAre
  <2>3. \A j \in Levels : j # i => (j \in SlotsOf(w, s) <=> j \in SlotsOf(q, s))
    BY <1>1, <2>1, <2>2
  <2>4. Len(w[i]) > 0 /\ (Len(q[i]) > 0 <=> Len(q[i]) # 0)
    BY <1>1, <1>4, SMT
  <2>5. i \in SlotsOf(w, s) <=> s = o.side
    BY <1>3, <2>2, <2>4
  <2>6. i \in SlotsOf(q, s) => s = o.side
    BY <1>4, <2>1, <2>4
  <2>. QED BY <2>1, <2>2, <2>3, <2>5, <2>6
<1>8. b.bid = Highest(SlotsOf(q, "Buy")) /\ b.ask = Lowest(SlotsOf(q, "Sell"))
      /\ SlotsOf(q, "Buy") \in SUBSET Levels /\ SlotsOf(q, "Sell") \in SUBSET Levels
  BY <1>2, SlotsAre DEF BestCached
<1>9. c.bid = Highest(SlotsOf(w, "Buy"))
  <2>1. CASE o.side = "Buy"
    <3>1. SlotsOf(w, "Buy") = SlotsOf(q, "Buy") \cup {i}
      BY <1>7, <2>1
    <3>. QED BY <1>8, <2>1, <3>1, HighestAdds DEF improve_bid
  <2>2. CASE o.side # "Buy"
    BY <1>7, <1>8, <2>2 DEF improve_bid
  <2>. QED BY <2>1, <2>2
<1>10. c.ask = Lowest(SlotsOf(w, "Sell"))
  <2>1. CASE o.side = "Sell"
    <3>1. SlotsOf(w, "Sell") = SlotsOf(q, "Sell") \cup {i}
      BY <1>7, <2>1
    <3>. QED BY <1>8, <2>1, <3>1, LowestAdds DEF improve_ask
  <2>2. CASE o.side # "Sell"
    BY <1>7, <1>8, <2>2 DEF improve_ask
  <2>. QED BY <2>1, <2>2
<1>. QED BY <1>6, <1>9, <1>10 DEF Best, BestCached

(* An order leaves its level.                                              *)
LEMMA BestRemove ==
  ASSUME NEW b, NEW c, NEW q \in Queues, NEW i \in Levels, NEW k \in 1..Len(q[i]), NEW w,
         Removed(q, w, i, k), NEW x, Removes(b, c, i, x), Left(b, c, i, x),
         b.nodes[x].side = q[i][k].side, Ended(b, q), Ended(c, w), Best(b, q)
  PROVE  Best(c, w)
<1>1. /\ w \in Queues /\ \A j \in Levels \ {i} : w[j] = q[j]
      /\ Len(w[i]) = Len(q[i]) - 1
      /\ \A l \in 1..(Len(q[i]) - 1) : w[i][l] = IF l < k THEN q[i][l] ELSE q[i][l + 1]
  BY DEF Removed
<1>2. OneSided(b, q) /\ BestCached(b, q)
  BY DEF Best
<1>3. \A j \in Levels \ {i} : c.levels[j] = b.levels[j]
  BY DEF Removes
<1>4. Len(q[i]) \in Nat /\ b.levels[i].order_count = Len(q[i]) /\ Len(w[i]) \in Nat
  BY <1>1, QueueFacts DEF Ended
<1>. DEFINE s == q[i][k].side
<1>5. b.levels[i].side = s
  BY <1>2 DEF OneSided
<1>6. ASSUME NEW l \in 1..Len(w[i]) PROVE w[i][l].side = s
  <2>1. l \in 1..Len(q[i]) /\ l + 1 \in 1..Len(q[i]) /\ l \in 1..(Len(q[i]) - 1)
    BY <1>1, <1>4, SMT
  <2>2. w[i][l] \in {q[i][l], q[i][l + 1]}
    BY <1>1, <2>1
  <2>. QED BY <1>2, <1>5, <2>1, <2>2 DEF OneSided
<1>. HIDE DEF s
<1>7. OneSided(c, w)
  <2>. SUFFICES ASSUME NEW j \in Levels, NEW l \in 1..Len(w[j]) PROVE w[j][l].side = c.levels[j].side
    BY DEF OneSided
  <2>1. CASE j = i
    <3>1. Len(q[i]) - 1 > 0
      BY <1>1, <1>4, <2>1, SMT
    <3>2. c.levels[i].side = s
      BY <1>4, <1>5, <3>1 DEF Left
    <3>. QED BY <1>6, <2>1, <3>2
  <2>2. CASE j # i
    <3>1. w[j] = q[j] /\ c.levels[j] = b.levels[j]
      BY <1>1, <1>3, <2>2
    <3>. QED BY <1>2, <3>1 DEF OneSided
  <2>. QED BY <2>1, <2>2
<1>8. b.bid = Highest(SlotsOf(q, "Buy")) /\ b.ask = Lowest(SlotsOf(q, "Sell"))
      /\ SlotsOf(q, "Buy") \in SUBSET Levels /\ SlotsOf(q, "Sell") \in SUBSET Levels
  BY <1>2, SlotsAre DEF BestCached
<1>9. Len(q[i]) > 0 /\ (Len(w[i]) > 0 <=> Len(q[i]) - 1 > 0)
  BY <1>1, <1>4, SMT
<1>10. ASSUME NEW t
       PROVE  /\ i \in SlotsOf(q, t) <=> t = s
              /\ SlotsOf(w, t) = IF Len(q[i]) - 1 > 0 THEN SlotsOf(q, t) ELSE SlotsOf(q, t) \ {i}
  <2>1. /\ SlotsOf(q, t) \in SUBSET Levels
        /\ \A j \in Levels : j \in SlotsOf(q, t) <=> Len(q[j]) > 0 /\ b.levels[j].side = t
    BY <1>2, SlotsAre
  <2>2. /\ SlotsOf(w, t) \in SUBSET Levels
        /\ \A j \in Levels : j \in SlotsOf(w, t) <=> Len(w[j]) > 0 /\ c.levels[j].side = t
    BY <1>1, <1>7, SlotsAre
  <2>3. \A j \in Levels : j # i => (j \in SlotsOf(w, t) <=> j \in SlotsOf(q, t))
    BY <1>1, <1>3, <2>1, <2>2
  <2>4. i \in SlotsOf(q, t) <=> t = s
    BY <1>5, <1>9, <2>1
  <2>5. CASE Len(q[i]) - 1 > 0
    <3>1. c.levels[i].side = s
      BY <1>4, <1>5, <2>5 DEF Left
    <3>2. i \in SlotsOf(w, t) <=> t = s
      BY <1>9, <2>2, <2>5, <3>1
    <3>. QED BY <2>1, <2>2, <2>3, <2>4, <2>5, <3>2
  <2>6. CASE ~(Len(q[i]) - 1 > 0)
    <3>1. i \notin SlotsOf(w, t)
      BY <1>9, <2>2, <2>6
    <3>. QED BY <2>1, <2>2, <2>3, <2>4, <2>6, <3>1
  <2>. QED BY <2>5, <2>6
<1>11. CASE Len(q[i]) - 1 > 0
  <2>1. c.bid = b.bid /\ c.ask = b.ask
    BY <1>4, <1>11 DEF Left
  <2>2. SlotsOf(w, "Buy") = SlotsOf(q, "Buy") /\ SlotsOf(w, "Sell") = SlotsOf(q, "Sell")
    BY <1>10, <1>11
  <2>. QED BY <1>7, <1>8, <2>1, <2>2 DEF Best, BestCached
<1>12. CASE ~(Len(q[i]) - 1 > 0)
  <2>1. c.bid = retreat_bid(c.levels, s, i, b.bid) /\ c.ask = retreat_ask(c.levels, s, i, b.ask)
    BY <1>4, <1>12 DEF Left, s
  <2>2. SlotsOf(w, "Buy") = SlotsOf(q, "Buy") \ {i} /\ SlotsOf(w, "Sell") = SlotsOf(q, "Sell") \ {i}
    BY <1>10, <1>12
  <2>3. Owned(c.levels, "Buy") = SlotsOf(w, "Buy") /\ Owned(c.levels, "Sell") = SlotsOf(w, "Sell")
    BY <1>1, <1>7, OwnedAre
  <2>4. c.bid = Highest(SlotsOf(w, "Buy"))
    <3>. DEFINE B == SlotsOf(q, "Buy")
    <3>1. CASE s = "Buy"
      <4>1. i \in B
        BY <1>10, <3>1
      <4>2. rescan_best_bid_from(c.levels, i - 1) = Highest({j \in B \ {i} : j <= i - 1})
        BY <2>2, <2>3 DEF rescan_best_bid_from
      <4>3. Highest(B \ {i}) = IF i = Highest(B) THEN Highest({j \in B \ {i} : j <= i - 1})
                                                 ELSE Highest(B)
        <5>1. B \in SUBSET Levels
          BY <1>8
        <5>. HIDE DEF B
        <5>. QED BY <4>1, <5>1, HighestRemoves
      <4>. QED BY <1>8, <2>1, <2>2, <3>1, <4>2, <4>3 DEF retreat_bid
    <3>2. CASE s # "Buy"
      <4>1. i \notin B
        BY <1>10, <3>2
      <4>2. B \ {i} = B
        BY <4>1
      <4>. QED BY <1>8, <2>1, <2>2, <3>2, <4>2 DEF retreat_bid
    <3>. QED BY <3>1, <3>2
  <2>5. c.ask = Lowest(SlotsOf(w, "Sell"))
    <3>. DEFINE A == SlotsOf(q, "Sell")
    <3>1. CASE s = "Sell"
      <4>1. i \in A
        BY <1>10, <3>1
      <4>2. rescan_best_ask_from(c.levels, i + 1) = Lowest({j \in A \ {i} : j >= i + 1})
        BY <2>2, <2>3 DEF rescan_best_ask_from
      <4>3. Lowest(A \ {i}) = IF i = Lowest(A) THEN Lowest({j \in A \ {i} : j >= i + 1})
                                               ELSE Lowest(A)
        <5>1. A \in SUBSET Levels
          BY <1>8
        <5>. HIDE DEF A
        <5>. QED BY <4>1, <5>1, LowestRemoves
      <4>. QED BY <1>8, <2>1, <2>2, <3>1, <4>2, <4>3 DEF retreat_ask
    <3>2. CASE s # "Sell"
      <4>1. i \notin A
        BY <1>10, <3>2
      <4>2. A \ {i} = A
        BY <4>1
      <4>. QED BY <1>8, <2>1, <2>2, <3>2, <4>2 DEF retreat_ask
    <3>. QED BY <3>1, <3>2
  <2>. QED BY <1>7, <2>4, <2>5 DEF Best, BestCached
<1>. QED BY <1>11, <1>12

LEMMA BestShrink ==
  ASSUME NEW b, NEW c, NEW q \in Queues, NEW w \in Queues, Best(b, q), c.bid = b.bid, c.ask = b.ask,
         \A j \in Levels : /\ Len(w[j]) = Len(q[j]) /\ c.levels[j].side = b.levels[j].side
                           /\ \A l \in 1..Len(q[j]) : w[j][l].side = q[j][l].side
  PROVE  Best(c, w)
<1>1. OneSided(b, q) /\ BestCached(b, q)
  BY DEF Best
<1>2. OneSided(c, w)
  BY <1>1 DEF OneSided
<1>3. \A s : SlotsOf(w, s) = SlotsOf(q, s)
  BY DEF SlotsOf, Queues
<1>. QED BY <1>1, <1>2, <1>3 DEF Best, BestCached

-----------------------------------------------------------------------------
(* The operations on the book and the reference together.                  *)

LEMMA AddKeeps ==
  ASSUME NEW b, NEW q, Sound(b, q), NEW ref \in Ref, NEW side \in Side, NEW p \in Int, NEW size \in Nat
  PROVE  LET c == on_add(b, ref, side, p, size)
             w == Queued(q, ref, side, p, size)
         IN Sound(c, w) /\ (Best(b, q) /\ ~Joins(b, ref, side, p) => Best(c, w))
<1>. DEFINE c == on_add(b, ref, side, p, size)
            w == Queued(q, ref, side, p, size)
<1>1. CASE ~Admits(b, ref, p)
  <2>1. DOMAIN b.index = Refs(q)
    BY DEF Sound, Indexed
  <2>2. c = b
    BY <1>1 DEF on_add
  <2>3. w = q
    BY <1>1, <2>1 DEF Queued, Admits
  <2>. HIDE DEF c, w
  <2>. QED BY <2>2, <2>3 DEF c, w
<1>2. CASE Admits(b, ref, p)
  <2>. DEFINE o == [ref |-> ref, side |-> side, size |-> size]
              i == to_index(p)
  <2>1. c = insert(b, ref, side, p, size)
    BY <1>2 DEF on_add
  <2>2. /\ Sound(c, w) /\ i \in Levels /\ o \in Order /\ Appended(q, w, i, o)
        /\ c.bid = improve_bid(side, i, b.bid) /\ c.ask = improve_ask(side, i, b.ask)
        /\ c.levels[i].side = (IF b.levels[i].order_count = 0 THEN side ELSE b.levels[i].side)
        /\ \A j \in Levels : j # i => c.levels[j] = b.levels[j]
    BY <1>2, <2>1, AddSound
  <2>3. o.side = side
    OBVIOUS
  <2>4. q \in Queues /\ Ended(b, q) /\ IsBook(b)
    BY DEF Sound, Indexed
  <2>5. ~Joins(b, ref, side, p) => b.levels[i].order_count = 0 \/ b.levels[i].side = side
    <3>1. b.levels[i].order_count \in Nat
      BY <2>2, <2>4, BookFacts, LevelIs
    <3>2. b.levels[i].order_count > 0 \/ b.levels[i].order_count = 0
      BY <3>1, SMT
    <3>. QED BY <1>2, <3>2 DEF Joins
  <2>. HIDE DEF c, w, o, i
  <2>6. Best(b, q) /\ ~Joins(b, ref, side, p) => Best(c, w)
    BY <2>2, <2>3, <2>4, <2>5, BestInsert
  <2>. QED BY <2>2, <2>6 DEF c, w
<1>. QED BY <1>1, <1>2

LEMMA PlaceOf ==
  ASSUME NEW b, NEW q, Sound(b, q), NEW ref \in DOMAIN b.index
  PROVE  \E i \in Levels : \E k \in 1..Len(q[i]) :
           q[i][k].ref = ref /\ b.index[ref] = NodeAt(b, q, i, k)
<1>1. Indexed(b, q) /\ q \in Queues /\ ref \in Refs(q)
  BY DEF Sound, Indexed
<1>2. PICK i \in Levels : \E k \in 1..Len(q[i]) : q[i][k].ref = ref
  BY <1>1, RefsAre
<1>3. PICK k \in 1..Len(q[i]) : q[i][k].ref = ref
  BY <1>2
<1>4. NodeAt(b, q, i, k) = b.index[ref]
  BY <1>1, <1>3, NodesOfOrders
<1>. QED BY <1>3, <1>4

LEMMA RemoveKeeps ==
  ASSUME NEW b, NEW q, Sound(b, q), NEW i \in Levels, NEW k \in 1..Len(q[i]),
         NEW w, Removed(q, w, i, k), w[i] = RemoveAt(q[i], k)
  PROVE  LET c == remove_order(b, NodeAt(b, q, i, k))
         IN Sound(c, w) /\ (Best(b, q) => Best(c, w))
<1>. DEFINE x == NodeAt(b, q, i, k)
            c == remove_order(b, x)
<1>1. Sound(c, w) /\ Removes(b, c, i, x) /\ Left(b, c, i, x)
  BY RemoveSound
<1>2. b.nodes[x].side = q[i][k].side /\ q \in Queues /\ Ended(b, q)
  <2>1. Indexed(b, q) /\ Chained(b, q) /\ Ended(b, q) /\ q \in Queues
    BY DEF Sound, Indexed
  <2>. QED BY <2>1, NeighboursAre
<1>. HIDE DEF x, c
<1>3. Ended(c, w)
  BY <1>1 DEF Sound
<1>4. Best(b, q) => Best(c, w)
  BY <1>1, <1>2, <1>3, BestRemove
<1>. QED BY <1>1, <1>4 DEF x, c

LEMMA DeleteKeeps ==
  ASSUME NEW b, NEW q, Sound(b, q), NEW ref \in DOMAIN b.index
  PROVE  LET c == remove_order(b, b.index[ref])
             w == Without(q, ref)
         IN Sound(c, w) /\ (Best(b, q) => Best(c, w))
<1>1. PICK i \in Levels : \E k \in 1..Len(q[i]) : q[i][k].ref = ref /\ b.index[ref] = NodeAt(b, q, i, k)
  BY PlaceOf
<1>2. PICK k \in 1..Len(q[i]) : q[i][k].ref = ref /\ b.index[ref] = NodeAt(b, q, i, k)
  BY <1>1
<1>3. q \in Queues /\ Distinct(q)
  BY DEF Sound, Indexed
<1>4. Removed(q, Without(q, ref), i, k) /\ Without(q, ref)[i] = RemoveAt(q[i], k)
  BY <1>2, <1>3, WithoutIs
<1>. QED BY <1>2, <1>4, RemoveKeeps

(* An order may shrink to nothing on the way out.                          *)
LEMMA Emptied ==
  ASSUME NEW q \in Queues, NEW i \in Levels, NEW k \in 1..Len(q[i]), NEW w, Removed(q, w, i, k),
         w[i] = RemoveAt(q[i], k)
  PROVE  \E v : /\ Shrunk(q, v, i, k, q[i][k].size) /\ v[i][k].size = 0
                /\ Removed(v, w, i, k) /\ w[i] = RemoveAt(v[i], k)
<1>. DEFINE z == q[i][k].size
            e == [q[i][k] EXCEPT !.size = @ - z]
            s == [q[i] EXCEPT ![k] = e]
            v == [q EXCEPT ![i] = s]
<1>1. /\ q[i] \in Seq(Order) /\ Len(q[i]) \in Nat /\ q[i][k] \in Order /\ z \in Nat
  BY QueueFacts
<1>2. e \in Order /\ e.size = 0
  <2>1. z - z = 0
    BY <1>1, SMT
  <2>2. e = [q[i][k] EXCEPT !.size = z - z]
    OBVIOUS
  <2>. HIDE DEF e, z
  <2>3. e.size = 0
    BY <1>1, <2>1, <2>2 DEF Order
  <2>4. e \in Order
    BY <1>1, <2>1, <2>2 DEF Order
  <2>. QED BY <2>3, <2>4
<1>. HIDE DEF e, z
<1>3. s \in Seq(Order) /\ Len(s) = Len(q[i])
      /\ \A l \in 1..Len(q[i]) : s[l] = IF l = k THEN e ELSE q[i][l]
  <2>1. q[i] \in [1..Len(q[i]) -> Order]
    BY <1>1
  <2>2. s \in [1..Len(q[i]) -> Order] /\ \A l \in 1..Len(q[i]) : s[l] = IF l = k THEN e ELSE q[i][l]
    BY <1>2, <2>1
  <2>. HIDE DEF s
  <2>3. s \in Seq(Order) /\ Len(s) = Len(q[i])
    BY <1>1, <2>2, PoolIsSeq
  <2>. QED BY <2>2, <2>3
<1>. HIDE DEF s
<1>4. v \in Queues /\ v[i] = s /\ \A j \in Levels \ {i} : v[j] = q[j]
  BY <1>3 DEF Queues
<1>. HIDE DEF v
<1>5. Shrunk(q, v, i, k, q[i][k].size)
  BY <1>3, <1>4 DEF Shrunk, e, z
<1>6. v[i][k].size = 0
  BY <1>2, <1>3, <1>4
<1>7. /\ w \in Queues /\ \A j \in Levels \ {i} : w[j] = q[j]
      /\ Len(w[i]) = Len(q[i]) - 1
      /\ \A l \in 1..(Len(q[i]) - 1) : w[i][l] = IF l < k THEN q[i][l] ELSE q[i][l + 1]
  BY DEF Removed
<1>8. ASSUME NEW l \in 1..(Len(q[i]) - 1)
      PROVE  w[i][l] = IF l < k THEN s[l] ELSE s[l + 1]
  <2>1. CASE l < k
    <3>1. l \in 1..Len(q[i]) /\ l # k
      BY <1>1, <2>1, SMT
    <3>2. s[l] = q[i][l]
      BY <1>3, <3>1
    <3>. QED BY <1>7, <2>1, <3>2
  <2>2. CASE ~(l < k)
    <3>1. l + 1 \in 1..Len(q[i]) /\ l + 1 # k
      BY <1>1, <2>2, SMT
    <3>2. s[l + 1] = q[i][l + 1]
      BY <1>3, <3>1
    <3>. QED BY <1>7, <2>2, <3>2
  <2>. QED BY <2>1, <2>2
<1>9. Removed(v, w, i, k)
  BY <1>3, <1>4, <1>7, <1>8 DEF Removed
<1>10. w[i] = RemoveAt(s, k)
  <2>. DEFINE t == RemoveAt(s, k)
              u == w[i]
              n == Len(q[i]) - 1
  <2>1. t \in Seq(Order) /\ Len(t) = n /\ \A l \in 1..n : t[l] = IF l < k THEN s[l] ELSE s[l + 1]
    <3>1. k \in 1..Len(s)
      BY <1>3
    <3>2. /\ RemoveAt(s, k) \in Seq(Order) /\ Len(RemoveAt(s, k)) = Len(s) - 1
          /\ \A l \in 1..(Len(s) - 1) : RemoveAt(s, k)[l] = IF l < k THEN s[l] ELSE s[l + 1]
      BY <1>3, <3>1, RemoveAtFacts
    <3>. QED BY <1>3, <3>2
  <2>2. u \in Seq(Order) /\ Len(u) = n /\ \A l \in 1..n : u[l] = IF l < k THEN s[l] ELSE s[l + 1]
    BY <1>7, <1>8, QueueFacts
  <2>. HIDE DEF t, u, n
  <2>3. \A l \in 1..n : t[l] = u[l]
    BY <2>1, <2>2
  <2>4. t = u
    BY <2>1, <2>2, <2>3, SeqEqual
  <2>. QED BY <2>4 DEF t, u
<1>. QED BY <1>4, <1>5, <1>6, <1>9, <1>10

LEMMA TakeKeeps ==
  ASSUME NEW b, NEW q, Sound(b, q), NEW i \in Levels, NEW k \in 1..Len(q[i]),
         NEW d \in 0..q[i][k].size, NEW w, Shrunk(q, w, i, k, d)
  PROVE  LET x == NodeAt(b, q, i, k)
             c == Take(b, i, x, d)
         IN /\ Sound(c, w) /\ (Best(b, q) => Best(c, w))
            /\ NodeAt(c, w, i, k) = x /\ c.nodes[x].size = q[i][k].size - d
<1>. DEFINE x == NodeAt(b, q, i, k)
            c == Take(b, i, x, d)
<1>1. /\ Sound(c, w) /\ Shrinks(b, c, i, x, d) /\ NodeAt(c, w, i, k) = x
      /\ c.bid = b.bid /\ c.ask = b.ask
  BY TakeSound
<1>2. Indexed(b, q) /\ Chained(b, q) /\ q \in Queues /\ Distinct(q) /\ w \in Queues /\ IsBook(b)
  BY DEF Sound, Indexed, Shrunk
<1>3. x \in 1..Len(b.nodes) /\ b.nodes[x].size = q[i][k].size /\ b.nodes[x] \in Node
  BY <1>2, NeighboursAre, BookFacts
<1>. HIDE DEF c, x
<1>4. c.nodes[x].size = q[i][k].size - d
  <2>1. c.nodes[x] = [b.nodes[x] EXCEPT !.size = @ - d]
    BY <1>1, <1>3 DEF Shrinks
  <2>. DEFINE e == b.nodes[x]
  <2>2. e \in Node /\ c.nodes[x] = [e EXCEPT !.size = @ - d] /\ e.size = q[i][k].size
    BY <1>3, <2>1
  <2>. HIDE DEF e
  <2>3. [e EXCEPT !.size = @ - d].size = e.size - d
    BY <2>2 DEF Node
  <2>. QED BY <2>2, <2>3
<1>5. ASSUME NEW j \in Levels
      PROVE  /\ Len(w[j]) = Len(q[j]) /\ c.levels[j].side = b.levels[j].side
             /\ \A l \in 1..Len(q[j]) : w[j][l].side = q[j][l].side
  <2>1. Len(w[j]) = Len(q[j]) /\ \A l \in 1..Len(q[j]) : w[j][l].side = q[j][l].side
    BY <1>2, ShrunkRefs
  <2>2. CASE j # i
    <3>1. c.levels[j] = b.levels[j]
      BY <1>1, <2>2 DEF Shrinks
    <3>. QED BY <2>1, <3>1
  <2>3. CASE j = i
    <3>. DEFINE l == b.levels[i]
    <3>1. l \in Level /\ c.levels[i] = [l EXCEPT !.aggregate_size = @ - d]
      BY <1>1, <1>2, BookFacts DEF Shrinks
    <3>. HIDE DEF l
    <3>2. [l EXCEPT !.aggregate_size = @ - d].side = l.side
      BY <3>1 DEF Level
    <3>. QED BY <2>1, <2>3, <3>1, <3>2 DEF l
  <2>. QED BY <2>2, <2>3
<1>6. Best(b, q) => Best(c, w)
  BY <1>1, <1>2, <1>5, BestShrink
<1>. QED BY <1>1, <1>4, <1>6 DEF c, x

LEMMA ReduceKeeps ==
  ASSUME NEW b, NEW q, Sound(b, q), NEW ref \in DOMAIN b.index, NEW shares \in Nat
  PROVE  LET c == reduce_order(b, b.index[ref], shares)
             w == Reduce(q, ref, shares)
         IN Sound(c, w) /\ (Best(b, q) => Best(c, w))
<1>. DEFINE c == reduce_order(b, b.index[ref], shares)
            w == Reduce(q, ref, shares)
<1>1. PICK i \in Levels : \E k \in 1..Len(q[i]) : q[i][k].ref = ref /\ b.index[ref] = NodeAt(b, q, i, k)
  BY PlaceOf
<1>2. PICK k \in 1..Len(q[i]) : q[i][k].ref = ref /\ b.index[ref] = NodeAt(b, q, i, k)
  BY <1>1
<1>3. Indexed(b, q) /\ Chained(b, q) /\ q \in Queues /\ Distinct(q)
  BY DEF Sound, Indexed
<1>. DEFINE x == NodeAt(b, q, i, k)
            z == q[i][k].size
            d == IF shares < z THEN shares ELSE z
            t == Take(b, i, x, d)
<1>4. b.nodes[x].size = z /\ b.nodes[x].level_idx = i
  BY <1>3, NeighboursAre
<1>5. z \in Nat /\ d \in 0..z
  <2>1. z \in Nat
    BY <1>3, QueueFacts
  <2>. HIDE DEF z
  <2>. QED BY <2>1, SMT
<1>6. c = IF t.nodes[x].size = 0 THEN remove_order(t, x) ELSE t
  <2>1. c = reduce_order(b, x, shares)
    BY <1>2
  <2>. HIDE DEF c, x
  <2>. QED BY <1>4, <2>1, ReduceSteps
<1>7. CASE shares < z
  <2>1. Shrunk(q, w, i, k, shares)
    BY <1>2, <1>3, <1>7, ReduceIs
  <2>2. d = shares
    BY <1>7
  <2>. HIDE DEF d
  <2>3. /\ Sound(t, w) /\ (Best(b, q) => Best(t, w)) /\ t.nodes[x].size = z - d
    BY <1>5, <2>1, <2>2, TakeKeeps
  <2>4. z - d # 0
    BY <1>5, <1>7, <2>2, SMT
  <2>. HIDE DEF t, c, w
  <2>5. c = t
    BY <1>6, <2>3, <2>4
  <2>. QED BY <2>3, <2>5 DEF c, w
<1>8. CASE ~(shares < z)
  <2>1. w = Without(q, ref)
    <3>1. TheOrder(q, ref) = q[i][k]
      BY <1>2, <1>3, OrderThere
    <3>2. z <= shares
      BY <1>5, <1>8, SMT
    <3>. QED BY <3>1, <3>2 DEF Reduce
  <2>2. Removed(q, w, i, k) /\ w[i] = RemoveAt(q[i], k)
    BY <1>2, <1>3, <2>1, WithoutIs
  <2>. HIDE DEF w
  <2>3. PICK v : /\ Shrunk(q, v, i, k, z) /\ v[i][k].size = 0
                 /\ Removed(v, w, i, k) /\ w[i] = RemoveAt(v[i], k)
    BY <1>3, <2>2, Emptied
  <2>4. d = z
    BY <1>8
  <2>. HIDE DEF d
  <2>5. /\ Sound(t, v) /\ (Best(b, q) => Best(t, v))
        /\ NodeAt(t, v, i, k) = x /\ t.nodes[x].size = z - d
    BY <1>5, <2>3, <2>4, TakeKeeps
  <2>6. z - d = 0
    BY <1>5, <2>4, SMT
  <2>7. k \in 1..Len(v[i])
    BY <2>3 DEF Shrunk
  <2>. HIDE DEF t, c, x
  <2>8. c = remove_order(t, NodeAt(t, v, i, k))
    BY <1>6, <2>5, <2>6
  <2>9. Sound(c, w) /\ (Best(t, v) => Best(c, w))
    BY <2>3, <2>5, <2>7, <2>8, RemoveKeeps
  <2>. QED BY <2>5, <2>9 DEF c, w
<1>. QED BY <1>7, <1>8

(* The empty book, new or reset.                                           *)
LEMMA EmptySound ==
  ASSUME NEW c, IsBook(c), c.levels = [i \in Levels |-> EmptyLevel], DOMAIN c.index = {},
         c.bid = None, c.ask = None, c.live_orders = 0, Pooled(c)
  PROVE  Sound(c, NoOrders(Levels)) /\ Best(c, NoOrders(Levels))
<1>. DEFINE q == NoOrders(Levels)
<1>1. q \in Queues /\ \A i \in Levels : q[i] = <<>> /\ Len(q[i]) = 0 /\ 1..Len(q[i]) = {}
  <2>1. \A i \in Levels : q[i] = <<>>
    BY DEF NoOrders
  <2>2. q = [i \in Levels |-> <<>>]
    BY DEF NoOrders
  <2>3. <<>> \in Seq(Order) /\ Len(<<>>) = 0 /\ 1..0 = {}
    BY SMT
  <2>. HIDE DEF q
  <2>. QED BY <2>1, <2>2, <2>3 DEF Queues
<1>. HIDE DEF q
<1>2. Refs(q) = {} /\ Distinct(q)
  <2>1. \A r : r \notin Refs(q)
    BY <1>1, RefsAre
  <2>. QED BY <1>1, <2>1 DEF Distinct
<1>3. Indexed(c, q)
  BY <1>1, <1>2 DEF Indexed
<1>4. Chained(c, q)
  BY <1>1 DEF Chained
<1>5. \A i \in Levels : c.levels[i] = EmptyLevel
  OBVIOUS
<1>6. Ended(c, q)
  <2>1. \A i \in Levels : \A k : NodeAt(c, q, i, k) = null
    BY <1>1, NodesBeyond
  <2>. QED BY <1>1, <1>5, <2>1 DEF Ended, EmptyLevel
<1>7. Summed(c, q)
  <2>1. \A i \in Levels : AddUpTo(q[i], 0)
    BY <1>1, SumOfNone
  <2>. QED BY <1>5, <2>1 DEF Summed, EmptyLevel
<1>8. IsFiniteSet(DOMAIN c.index) /\ c.live_orders = Cardinality(DOMAIN c.index)
  BY FS_EmptySet
<1>9. Sound(c, q)
  BY <1>3, <1>4, <1>6, <1>7, <1>8 DEF Sound
<1>10. Best(c, q)
  <2>1. OneSided(c, q)
    BY <1>1 DEF OneSided
  <2>2. \A s : SlotsOf(q, s) = {}
    <3>1. DOMAIN q = Levels
      BY <1>1 DEF Queues
    <3>. QED BY <1>1, <3>1 DEF SlotsOf
  <2>. QED BY <2>1, <2>2 DEF Best, BestCached, Highest, Lowest
<1>. QED BY <1>9, <1>10 DEF q

(* The book with N free nodes, chained as reset_all() does.                *)
Blank(N) == Whole([i \in Levels |-> EmptyLevel], [k \in 1..N |-> FreeNode(k - 1)], N,
                  [r \in {} |-> null], None, None, 0)

LEMMA BlankIs ==
  ASSUME NEW N \in Nat
  PROVE  Sound(Blank(N), NoOrders(Levels)) /\ Best(Blank(N), NoOrders(Levels))
<1>. DEFINE c == Blank(N)
            l == [i \in Levels |-> EmptyLevel]
            n == [k \in 1..N |-> FreeNode(k - 1)]
            x == [r \in {} |-> null]
            f == [m \in 1..N |-> N + 1 - m]
<1>1. l \in [Levels -> Level]
  <2>1. EmptyLevel \in Level
    BY DEF EmptyLevel, Level, Side, null
  <2>. QED BY <2>1
<1>2. n \in Seq(Node) /\ Len(n) = N /\ \A k \in 1..N : n[k].next = k - 1
  <2>1. \A k \in Nat : FreeNode(k) \in Node /\ FreeNode(k).next = k
    BY DEF FreeNode, Node, Side, null
  <2>2. \A k \in 1..N : k - 1 \in Nat
    BY SMT
  <2>3. n \in [1..N -> Node] /\ \A k \in 1..N : n[k].next = k - 1
    BY <2>1, <2>2
  <2>. HIDE DEF n
  <2>. QED BY <2>3, PoolIsSeq
<1>3. DOMAIN x = {} /\ x \in [DOMAIN x -> 1..Len(n)]
  OBVIOUS
<1>4. /\ c = Whole(l, n, N, x, None, None, 0)
      /\ c.levels = l /\ c.nodes = n /\ c.free_head = N /\ c.index = x
      /\ c.bid = None /\ c.ask = None /\ c.live_orders = 0
  BY DEF Blank, Whole
<1>. HIDE DEF c, l, n, x
<1>5. IsBook(c)
  <2>1. N \in 0..Len(n) /\ 0 \in Nat
    BY <1>2, SMT
  <2>2. DOMAIN x \subseteq Ref
    BY <1>3
  <2>. QED BY <1>1, <1>2, <1>3, <1>4, <2>1, <2>2, BookMade
<1>6. Live(c) = {}
  BY <1>3, <1>4 DEF Live
<1>7. f \in [1..N -> 1..N]
  <2>1. \A m \in 1..N : N + 1 - m \in 1..N
    BY SMT
  <2>. QED BY <2>1
<1>8. \A m \in 1..N : /\ f[m] \in 1..N /\ N + 1 - f[m] = m
                      /\ m = N => f[m] - 1 = 0
                      /\ m # N => f[m + 1] = f[m] - 1
  BY SMT
<1>9. {f[m] : m \in 1..N} = (1..N) \ Live(c)
  <2>1. \A y \in 1..N : N + 1 - y \in 1..N /\ f[N + 1 - y] = y
    BY SMT
  <2>. HIDE DEF f
  <2>. QED BY <1>6, <1>8, <2>1
<1>10. N = 0 \/ f[1] = N
  BY SMT
<1>. HIDE DEF f
<1>11. \A j, k \in 1..N : f[j] = f[k] => j = k
  BY <1>8
<1>12. \A k \in 1..N : n[f[k]].next = IF k = N THEN null ELSE f[k + 1]
  BY <1>2, <1>8 DEF null
<1>13. FreeList(c, f, N)
  BY <1>2, <1>4, <1>7, <1>9, <1>10, <1>11, <1>12 DEF FreeList, null
<1>14. Pooled(c)
  <2>1. N \in 0..N
    BY SMT
  <2>. QED BY <1>2, <1>4, <1>7, <1>13, <2>1 DEF Pooled
<1>. QED BY <1>3, <1>4, <1>5, <1>14, EmptySound DEF l, c

LEMMA InitIs == Init => Sound(book, orders) /\ Best(book, orders)
<1>1. NewBook = Blank(0)
  <2>1. [k \in 1..0 |-> FreeNode(k - 1)] = <<>>
    BY SMT
  <2>. QED BY <2>1 DEF NewBook, Blank, Whole, null
<1>. QED BY <1>1, BlankIs DEF Init

Reset(k, e, y) == [k EXCEPT !.levels = e, !.index = y, !.bid = None, !.ask = None,
                            !.live_orders = 0]
LEMMA ResetFields ==
  ASSUME NEW k, NEW l, NEW n, NEW f, NEW x, NEW bd, NEW ak, NEW v, k = Whole(l, n, f, x, bd, ak, v),
         NEW e, NEW y
  PROVE  Reset(k, e, y) = Whole(e, n, f, y, None, None, 0)
<1>. DEFINE c == [k EXCEPT !.levels = e, !.index = y, !.bid = None, !.ask = None, !.live_orders = 0]
<1>0. Reset(k, e, y) = c
  BY Zenon DEF Reset
<1>1. c.levels = e /\ c.nodes = n /\ c.free_head = f /\ c.index = y
  BY DEF Whole
<1>2. c.bid = None /\ c.ask = None /\ c.live_orders = 0
  BY DEF Whole
<1>3. DOMAIN k = {"levels", "nodes", "free_head", "index", "bid", "ask", "live_orders"}
  BY DEF Whole
<1>4. DOMAIN c = DOMAIN k /\ c = [z \in DOMAIN c |-> c[z]]
  BY ZenonT(60)
<1>. HIDE DEF c
<1>5. c = Whole(c.levels, c.nodes, c.free_head, c.index, c.bid, c.ask, c.live_orders)
  BY <1>3, <1>4 DEF Whole
<1>. QED BY <1>0, <1>1, <1>2, <1>5

LEMMA ResetIs ==
  ASSUME IsBook(book), reset
  PROVE  Sound(book', orders') /\ Best(book', orders')
<1>. DEFINE N == Len(book.nodes)
<1>1. N \in Nat /\ DOMAIN book.nodes = 1..N
  BY BookFacts
<1>2. book = Whole(book.levels, book.nodes, book.free_head, book.index, book.bid, book.ask,
                   book.live_orders)
  BY BookIs
<1>3. book' = Blank(N)
  <2>1. book' = [reset_all(book) EXCEPT !.levels = NewBook.levels, !.index = NewBook.index,
                                        !.bid = None, !.ask = None, !.live_orders = 0]
    BY DEF reset
  <2>2. NewBook.levels = [i \in Levels |-> EmptyLevel] /\ NewBook.index = [r \in {} |-> null]
    BY DEF NewBook
  <2>3. reset_all(book) = Whole(book.levels, [k \in 1..N |-> FreeNode(k - 1)], N, book.index,
                                book.bid, book.ask, book.live_orders)
    <3>. DEFINE d == [k \in 1..N |-> FreeNode(k - 1)]
    <3>1. reset_all(book) = [book EXCEPT !.nodes = d, !.free_head = N]
      BY <1>1 DEF reset_all
    <3>. HIDE DEF d, N
    <3>. QED BY <1>2, <3>1, Zenon DEF Whole, d
  <2>. HIDE DEF N
  <2>. DEFINE d == [k \in 1..N |-> FreeNode(k - 1)]
              e == [i \in Levels |-> EmptyLevel]
              x == [r \in {} |-> null]
              v == Whole(book.levels, d, N, book.index, book.bid, book.ask, book.live_orders)
  <2>4. book' = Reset(v, e, x)
    <3>1. book' = Reset(reset_all(book), NewBook.levels, NewBook.index)
      BY <2>1, Zenon DEF Reset
    <3>. QED BY <2>2, <2>3, <3>1
  <2>5. v = Whole(book.levels, d, N, book.index, book.bid, book.ask, book.live_orders)
    OBVIOUS
  <2>6. Blank(N) = Whole(e, d, N, x, None, None, 0)
    BY DEF Blank
  <2>. HIDE DEF d, e, x, v
  <2>7. Reset(v, e, x) = Whole(e, d, N, x, None, None, 0)
    BY <2>5, ResetFields
  <2>. QED BY <2>4, <2>6, <2>7
<1>4. orders' = NoOrders(Levels)
  BY DEF reset
<1>. HIDE DEF N
<1>. QED BY <1>1, <1>3, <1>4, BlankIs

-----------------------------------------------------------------------------
(* The events, each on the whole state.                                    *)

LEMMA SoundIsNext ==
  (BookInv <=> TypeOK /\ Sound(book, orders) /\ (~mixed => Best(book, orders)))'
BY SoundIs, PTL

Stats == {"rejected_out_of_band", "unknown_ref", "crossed_observed"}

LEMMA Stepped ==
  ASSUME Sound(book', orders'), mixed' \in BOOLEAN, bumped' \subseteq Stats,
         ~mixed' => Best(book', orders')
  PROVE  BookInv'
<1>1. IsBook(book') /\ orders' \in Queues
  BY DEF Sound, Indexed
<1>2. TypeOK'
  BY <1>1 DEF TypeOK, IsBook, Queues, Stats
<1>3. Sound(book, orders)' /\ (~mixed => Best(book, orders))'
  BY DEF Sound, Best
<1>. QED BY <1>2, <1>3, SoundIsNext

LEMMA CountersAre ==
  ASSUME NEW S, S \subseteq Stats PROVE Counters(S) \subseteq Stats
BY DEF Counters, Stats

LEMMA AddCountersAre == ASSUME NEW p PROVE AddCounters(p) \subseteq Stats
BY DEF AddCounters, Stats

LEMMA InitSteps == Init => BookInv
<1>. SUFFICES ASSUME Init PROVE BookInv
  OBVIOUS
<1>1. Sound(book, orders) /\ Best(book, orders)
  BY InitIs
<1>2. IsBook(book) /\ orders \in Queues
  BY <1>1 DEF Sound, Indexed
<1>3. mixed \in BOOLEAN /\ bumped \subseteq Stats
  BY DEF Init, Stats
<1>4. TypeOK
  BY <1>2, <1>3 DEF TypeOK, IsBook, Queues, Stats
<1>. QED BY <1>1, <1>4, SoundIs

LEMMA AddSteps ==
  ASSUME BookInv, NEW ref \in Ref, NEW side \in FeedSide, NEW p \in Prices, NEW size \in Sizes,
         ApplyAdd(ref, side, p, size)
  PROVE  BookInv'
<1>1. Sound(book, orders) /\ (~mixed => Best(book, orders)) /\ TypeOK
  BY SoundIs
<1>2. side \in Side /\ p \in Int /\ size \in Nat
  BY OrderBookAssumption DEF Side
<1>3. /\ book' = on_add(book, ref, side, p, size)
      /\ bumped' = Counters(AddCounters(p))
      /\ orders' = Queued(orders, ref, side, p, size)
      /\ mixed' = (mixed \/ Joins(book, ref, side, p))
  BY DEF ApplyAdd
<1>4. /\ Sound(book', orders')
      /\ Best(book, orders) /\ ~Joins(book, ref, side, p) => Best(book', orders')
  BY <1>1, <1>2, <1>3, AddKeeps
<1>5. mixed' \in BOOLEAN
  BY <1>1, <1>3, Zenon DEF Joins, TypeOK
<1>6. bumped' \subseteq Stats
  BY <1>3, CountersAre, AddCountersAre
<1>7. ~mixed' => Best(book', orders')
  BY <1>1, <1>3, <1>4
<1>. QED BY <1>4, <1>5, <1>6, <1>7, Stepped

LEMMA QuietSteps ==
  ASSUME BookInv, UNCHANGED <<book, orders, mixed>>, bumped' \subseteq Stats
  PROVE  BookInv'
<1>1. Sound(book, orders) /\ (~mixed => Best(book, orders)) /\ TypeOK
  BY SoundIs
<1>2. mixed' \in BOOLEAN
  BY <1>1 DEF TypeOK
<1>. QED BY <1>1, <1>2, Stepped

LEMMA TakeSteps ==
  ASSUME BookInv, NEW ref \in Ref, NEW size \in Sizes, ApplyReduce(ref, size)
  PROVE  BookInv'
<1>1. Sound(book, orders) /\ (~mixed => Best(book, orders)) /\ TypeOK
  BY SoundIs
<1>2. size \in Nat
  BY OrderBookAssumption
<1>3. /\ ref \in DOMAIN book.index /\ book' = reduce_order(book, book.index[ref], size)
      /\ bumped' = Counters({}) /\ orders' = Reduce(orders, ref, size) /\ mixed' = mixed
  BY DEF ApplyReduce, Known
<1>4. Sound(book', orders') /\ (Best(book, orders) => Best(book', orders'))
  BY <1>1, <1>2, <1>3, ReduceKeeps
<1>5. mixed' \in BOOLEAN /\ bumped' \subseteq Stats
  BY <1>1, <1>3, CountersAre DEF TypeOK
<1>. QED BY <1>1, <1>3, <1>4, <1>5, Stepped

LEMMA DeleteSteps ==
  ASSUME BookInv, NEW ref \in Ref, ApplyDelete(ref)
  PROVE  BookInv'
<1>1. Sound(book, orders) /\ (~mixed => Best(book, orders)) /\ TypeOK
  BY SoundIs
<1>2. /\ ref \in DOMAIN book.index /\ book' = remove_order(book, book.index[ref])
      /\ bumped' = Counters({}) /\ orders' = Without(orders, ref) /\ mixed' = mixed
  BY DEF ApplyDelete, Known
<1>3. Sound(book', orders') /\ (Best(book, orders) => Best(book', orders'))
  BY <1>1, <1>2, DeleteKeeps
<1>4. mixed' \in BOOLEAN /\ bumped' \subseteq Stats
  BY <1>1, <1>2, CountersAre DEF TypeOK
<1>. QED BY <1>1, <1>2, <1>3, <1>4, Stepped

(* The side of an order is the same in the book and in the reference.      *)
LEMMA SideOf ==
  ASSUME NEW b, NEW q, Sound(b, q), NEW ref \in DOMAIN b.index
  PROVE  b.nodes[b.index[ref]].side = TheOrder(q, ref).side /\ TheOrder(q, ref).side \in Side
<1>1. PICK i \in Levels : \E k \in 1..Len(q[i]) : q[i][k].ref = ref /\ b.index[ref] = NodeAt(b, q, i, k)
  BY PlaceOf
<1>2. PICK k \in 1..Len(q[i]) : q[i][k].ref = ref /\ b.index[ref] = NodeAt(b, q, i, k)
  BY <1>1
<1>3. Indexed(b, q) /\ Chained(b, q) /\ q \in Queues /\ Distinct(q)
  BY DEF Sound, Indexed
<1>4. b.nodes[NodeAt(b, q, i, k)].side = q[i][k].side
  BY <1>3, NeighboursAre
<1>5. TheOrder(q, ref) = q[i][k] /\ q[i][k].side \in Side
  BY <1>2, <1>3, OrderThere, QueueFacts
<1>. QED BY <1>2, <1>4, <1>5

LEMMA ReplaceSteps ==
  ASSUME BookInv, NEW ref \in Ref, NEW new_ref \in Ref, NEW p \in Prices, NEW size \in Sizes,
         ApplyReplace(ref, new_ref, p, size)
  PROVE  BookInv'
<1>. DEFINE side == book.nodes[book.index[ref]].side
            b == remove_order(book, book.index[ref])
            q == Without(orders, ref)
<1>1. Sound(book, orders) /\ (~mixed => Best(book, orders)) /\ TypeOK
  BY SoundIs
<1>2. p \in Int /\ size \in Nat
  BY OrderBookAssumption
<1>3. /\ ref \in DOMAIN book.index /\ book' = on_add(b, new_ref, side, p, size)
      /\ bumped' = Counters(AddCounters(p)) /\ mixed' = (mixed \/ Joins(b, new_ref, side, p))
      /\ orders' = Queued(q, new_ref, TheOrder(orders, ref).side, p, size)
  BY DEF ApplyReplace, Known
<1>4. Sound(b, q) /\ (Best(book, orders) => Best(b, q))
  BY <1>1, <1>3, DeleteKeeps
<1>5. side = TheOrder(orders, ref).side /\ side \in Side
  BY <1>1, <1>3, SideOf
<1>. HIDE DEF b, q, side
<1>6. /\ Sound(book', orders')
      /\ Best(b, q) /\ ~Joins(b, new_ref, side, p) => Best(book', orders')
  BY <1>2, <1>3, <1>4, <1>5, AddKeeps
<1>7. mixed' \in BOOLEAN
  BY <1>1, <1>3, Zenon DEF Joins, TypeOK
<1>8. bumped' \subseteq Stats
  BY <1>3, CountersAre, AddCountersAre
<1>9. ~mixed' => Best(book', orders')
  BY <1>1, <1>3, <1>4, <1>6
<1>. QED BY <1>6, <1>7, <1>8, <1>9, Stepped

LEMMA ResetSteps ==
  ASSUME BookInv, reset
  PROVE  BookInv'
<1>1. IsBook(book)
  BY SoundIs DEF Sound, Indexed
<1>2. Sound(book', orders') /\ Best(book', orders')
  BY <1>1, ResetIs
<1>3. mixed' \in BOOLEAN /\ bumped' \subseteq Stats
  BY DEF reset
<1>. QED BY <1>2, <1>3, Stepped

LEMMA ApplySteps == BookInv /\ apply => BookInv'
<1>. SUFFICES ASSUME BookInv, apply PROVE BookInv'
  OBVIOUS
<1>1. ASSUME NEW r \in Ref, NEW s \in FeedSide, NEW p \in Prices, NEW z \in Sizes, ApplyAdd(r, s, p, z)
      PROVE  BookInv'
  BY <1>1, AddSteps
<1>2. ASSUME NEW r \in Ref, ApplyUnknown(r) PROVE BookInv'
  <2>1. bumped' \subseteq Stats
    <3>1. {"unknown_ref"} \subseteq Stats
      BY DEF Stats
    <3>. QED BY <1>2, <3>1, CountersAre DEF ApplyUnknown
  <2>2. UNCHANGED <<book, orders, mixed>>
    BY <1>2 DEF ApplyUnknown
  <2>. QED BY <2>1, <2>2, QuietSteps
<1>3. ASSUME NEW r \in Ref, ApplyDelete(r) PROVE BookInv'
  BY <1>3, DeleteSteps
<1>4. ASSUME NEW r \in Ref, NEW z \in Sizes, ApplyReduce(r, z) PROVE BookInv'
  BY <1>4, TakeSteps
<1>5. ASSUME NEW r \in Ref, NEW q \in Ref, NEW p \in Prices, NEW z \in Sizes, ApplyReplace(r, q, p, z)
      PROVE  BookInv'
  BY <1>5, ReplaceSteps
<1>6. CASE ApplyTapeOnly
  <2>1. bumped' \subseteq Stats
    BY <1>6, CountersAre DEF ApplyTapeOnly
  <2>2. UNCHANGED <<book, orders, mixed>>
    BY <1>6 DEF ApplyTapeOnly
  <2>. QED BY <2>1, <2>2, QuietSteps
<1>. QED BY <1>1, <1>2, <1>3, <1>4, <1>5, <1>6 DEF apply

LEMMA StillSteps == BookInv /\ UNCHANGED vars => BookInv'
<1>. SUFFICES ASSUME BookInv, UNCHANGED vars PROVE BookInv'
  OBVIOUS
<1>1. TypeOK
  BY SoundIs
<1>2. UNCHANGED <<book, orders, mixed>> /\ bumped' \subseteq Stats
  BY <1>1 DEF vars, TypeOK, Stats
<1>. QED BY <1>2, QuietSteps

-----------------------------------------------------------------------------
(* The book.                                                               *)

(* BookInv is inductive for apply() and reset(): the lists hold the        *)
(* reference's orders in both directions, the pool is partitioned, the     *)
(* cached counts and sums are exact and, until an order joins a level of   *)
(* the other side, so are the cached best pointers.                        *)
THEOREM BookInvariance == Spec => []BookInv
<1>1. BookInv /\ [Next]_vars => BookInv'
  BY ApplySteps, ResetSteps, StillSteps DEF Next
<1>. QED BY <1>1, InitSteps, PTL DEF Spec

(* OrderBook::apply() never loses, duplicates or reorders an order: each   *)
(* level's list is the reference's queue in time priority, through         *)
(* partial executions, deletions in the middle and replaces.               *)
THEOREM HoldsTheReference == Spec => []MatchesReference
<1>1. BookInv => MatchesReference
  BY DEF BookInv, MatchesReference
<1>. QED BY <1>1, BookInvariance, PTL

(* link_back() and unlink() keep every level's list sound backwards, with  *)
(* the order_count and aggregate_size of its orders, and each value in its *)
(* type.                                                                   *)
THEOREM ListsStaySound == Spec => []ListsSound
<1>1. BookInv => ListsSound
  BY DEF BookInv, ListsSound
<1>. QED BY <1>1, BookInvariance, PTL

(* OrderPool leaks, shares and loses no node: whatever grow(), allocate(), *)
(* release() and reset_all() were called, a node is the node of one live   *)
(* order or once on the free list, and live_orders() is exact.             *)
THEOREM PoolStaysPartitioned == Spec => []PoolPartitioned
<1>1. BookInv => PoolPartitioned
  BY DEF BookInv, PoolPartitioned
<1>. QED BY <1>1, BookInvariance, PTL

-----------------------------------------------------------------------------
(* The publisher.                                                          *)

(* The book thread, which calls on_update() after every apply() and resets *)
(* the book alone, drives the book as its specification allows: what is    *)
(* proved of the book holds in the pair.                                   *)
THEOREM PublisherDrivesTheBook == PubSpec => Spec
<1>1. PubInit => Init
  BY DEF PubInit
<1>2. [PubNext]_pubVars => [Next]_vars
  BY DEF PubNext, apply_ev, Reload, Next, pubVars
<1>. QED BY <1>1, <1>2, PTL DEF PubSpec, Spec

LEMMA UpdateSteps ==
  ASSUME on_update
  PROVE  same(best_bid(book'.levels, book'.bid), last_bid')
         /\ same(best_ask(book'.levels, book'.ask), last_ask')
<1>. DEFINE bid == best_bid(book'.levels, book'.bid)
            ask == best_ask(book'.levels, book'.ask)
            changed == ~same(bid, last_bid) \/ ~same(ask, last_ask)
<1>1. /\ last_bid' = IF changed THEN bid ELSE last_bid
      /\ last_ask' = IF changed THEN ask ELSE last_ask
  BY DEF on_update
<1>2. same(bid, bid) /\ same(ask, ask)
  BY DEF same
<1>. HIDE DEF bid, ask
<1>3. CASE changed
  BY <1>1, <1>2, <1>3 DEF bid, ask
<1>4. CASE ~changed
  <2>1. last_bid' = last_bid /\ last_ask' = last_ask /\ same(bid, last_bid) /\ same(ask, last_ask)
    BY <1>1, <1>4
  <2>. QED BY <2>1 DEF bid, ask
<1>. QED BY <1>3, <1>4

(* After every update the publisher's retained levels agree with the       *)
(* book's cached top in price, size and validity; a reset of the book      *)
(* leaves them behind until the next one.                                  *)
THEOREM PubInvariance == PubSpec => []PubInv
<1>1. PubInit => PubInv
  BY InitSteps DEF PubInit, PubInv
<1>2. PubInv /\ [PubNext]_pubVars => PubInv'
  <2>. SUFFICES ASSUME PubInv, [PubNext]_pubVars PROVE PubInv'
    OBVIOUS
  <2>1. BookInv
    BY DEF PubInv
  <2>2. CASE apply_ev
    <3>1. BookInv'
      BY <2>1, <2>2, ApplySteps DEF apply_ev
    <3>2. same(best_bid(book'.levels, book'.bid), last_bid')
          /\ same(best_ask(book'.levels, book'.ask), last_ask')
      BY <2>2, UpdateSteps DEF apply_ev
    <3>. QED BY <3>1, <3>2 DEF PubInv
  <2>3. CASE Reload
    <3>1. BookInv' /\ fresh' = FALSE
      BY <2>1, <2>3, ResetSteps DEF Reload
    <3>. QED BY <3>1 DEF PubInv
  <2>4. CASE UNCHANGED pubVars
    <3>1. UNCHANGED vars /\ UNCHANGED <<book, last_bid, last_ask, fresh>>
      BY <2>4 DEF pubVars, vars
    <3>2. BookInv'
      BY <2>1, <3>1, StillSteps
    <3>. QED BY <3>1, <3>2 DEF PubInv
  <2>. QED BY <2>2, <2>3, <2>4 DEF PubNext
<1>. QED BY <1>1, <1>2, PTL DEF PubSpec

LEMMA ShowsTheLevel ==
  ASSUME NEW level, NEW slot \in Levels \cup {None}, Summed(book, orders),
         same(IF slot = None THEN NoLevel ELSE BookLevel(book.levels, slot), level)
  PROVE  Shows(level, slot)
<1>1. CASE slot = None
  <2>1. level.valid = FALSE
    BY <1>1 DEF same, NoLevel
  <2>. QED BY <1>1, <2>1 DEF Shows
<1>2. CASE slot # None
  <2>1. slot \in Levels
    BY <1>2
  <2>2. /\ level.valid = TRUE /\ level.price_ticks = to_price(slot)
        /\ level.aggregate_size = book.levels[slot].aggregate_size
    BY <1>2 DEF same, BookLevel
  <2>3. to_index(level.price_ticks) = slot
    BY <2>1, <2>2, PriceOfLevel
  <2>4. AddUpTo(orders[slot], level.aggregate_size)
    BY <2>1, <2>2 DEF Summed
  <2>. QED BY <1>2, <2>2, <2>3, <2>4 DEF Shows
<1>. QED BY <1>1, <1>2

(* What Publisher::on_update() retains is the top of the reference book:   *)
(* valid exactly when the side has an order, at the price of the best slot *)
(* with one, for the sum of the orders there, until an order joins a level *)
(* of the other side.                                                      *)
THEOREM PublishesTheTop == PubSpec => []TopPublished
<1>1. PubInv => TopPublished
  <2>. SUFFICES ASSUME PubInv, fresh, ~mixed
                PROVE  /\ Shows(last_bid, Highest(SlotsOf(orders, "Buy")))
                       /\ Shows(last_ask, Lowest(SlotsOf(orders, "Sell")))
    BY DEF TopPublished
  <2>1. /\ same(best_bid(book.levels, book.bid), last_bid)
        /\ same(best_ask(book.levels, book.ask), last_ask)
    BY DEF PubInv
  <2>2. Sound(book, orders) /\ Best(book, orders)
    BY SoundIs DEF PubInv
  <2>3. Summed(book, orders) /\ IsBook(book)
    BY <2>2 DEF Sound, Indexed
  <2>4. book.bid = Highest(SlotsOf(orders, "Buy")) /\ book.ask = Lowest(SlotsOf(orders, "Sell"))
    BY <2>2 DEF Best, BestCached
  <2>5. book.bid \in Levels \cup {None} /\ book.ask \in Levels \cup {None}
    BY <2>3, BookFacts
  <2>6. Shows(last_bid, book.bid)
    BY <2>1, <2>3, <2>5, ShowsTheLevel DEF best_bid
  <2>7. Shows(last_ask, book.ask)
    BY <2>1, <2>3, <2>5, ShowsTheLevel DEF best_ask
  <2>. QED BY <2>4, <2>6, <2>7
<1>. QED BY <1>1, PubInvariance, PTL
=============================================================================
