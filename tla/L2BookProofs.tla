--------------------------- MODULE L2BookProofs ---------------------------
(***************************************************************************)
(* Proofs about L2Book, for any price band, tick, set of prices and set of *)
(* quantities: the cached best prices, the level bookkeeping and the       *)
(* agreement with the feed.                                                *)
(***************************************************************************)
EXTENDS L2Book, FiniteSetTheorems, WellFoundedInduction, TLAPS

-----------------------------------------------------------------------------
(* Numbers.                                                                *)

(* Every set of naturals that is not empty has a least element.            *)
LEMMA LeastNat == ASSUME NEW T, T \subseteq Nat, T # {}
                  PROVE  \E x \in T : \A y \in T : x <= y
<1>1. \E x \in T : \A y \in T : ~(<<y, x>> \in OpToRel(<, Nat))
  BY NatLessThanWellFounded, WFMin, Zenon
<1>2. \A x, y \in Nat : (<<y, x>> \in OpToRel(<, Nat)) <=> y < x
  BY DEF OpToRel
<1>3. \E x \in T : \A y \in T : ~(y < x)
  BY <1>1, <1>2, Zenon
<1>. QED BY <1>3, SMT

(* Division by a positive number is monotonic.                             *)
LEMMA DivBounds == ASSUME NEW t \in Nat \ {0}, NEW a \in Nat, NEW b \in Nat, a <= b
                   PROVE  a \div t \in Nat /\ a \div t <= b \div t
<1>. DEFINE q == a \div t
            r == b \div t
<1>1. /\ q \in Int /\ a % t \in 0..(t - 1) /\ a = t * q + (a % t)
      /\ r \in Int /\ b % t \in 0..(t - 1) /\ b = t * r + (b % t)
  BY SMT
<1>2. t * (q - r) = t * q - t * r /\ t * (q - r) < t
  BY <1>1, SMT
<1>3. ASSUME NEW d \in Int, d >= 1 PROVE t * d >= t
  <2>1. PICK e \in Nat : d = e + 1
    BY <1>3, SMT
  <2>2. t * d = t * e + t /\ t * e >= 0
    BY <2>1, SMT
  <2>. QED BY <2>2, SMT
<1>4. q >= 0
  <2>. SUFFICES ASSUME q < 0 PROVE FALSE
    BY <1>1, SMT
  <2>. HIDE DEF q, r
  <2>1. 0 - q \in Int /\ 0 - q >= 1
    BY <1>1, SMT
  <2>2. t * (0 - q) >= t
    BY <1>3, <2>1
  <2>3. t * (0 - q) = 0 - t * q
    BY <1>1, SMT
  <2>. QED BY <1>1, <2>2, <2>3, SMT
<1>5. q <= r
  <2>. SUFFICES ASSUME q > r PROVE FALSE
    BY <1>1, SMT
  <2>. HIDE DEF q, r
  <2>1. q - r \in Int /\ q - r >= 1
    BY <1>1, SMT
  <2>. QED BY <1>1, <1>2, <1>3, <2>1, SMT
<1>. QED BY <1>1, <1>4, <1>5, SMT

-----------------------------------------------------------------------------
(* The price band.                                                         *)

(* The repaired configuration is a band of at least one level.             *)
LEMMA BandType == /\ min_price_ticks \in Int /\ MaxPrice \in Int /\ min_price_ticks <= MaxPrice
                  /\ Tick \in Nat \ {0} /\ NumLevels \in Nat \ {0}
<1>1. /\ min_price_ticks \in Int /\ MaxPrice \in Int /\ min_price_ticks <= MaxPrice
      /\ Tick \in Nat \ {0}
  BY PriceBandAssumption, SMT DEF MaxPrice, Tick
<1>2. MaxPrice - min_price_ticks \in Nat
  BY <1>1, SMT
<1>3. (MaxPrice - min_price_ticks) \div Tick \in Nat
  BY <1>1, <1>2, DivBounds, SMT
<1>. QED BY <1>1, <1>3, SMT DEF NumLevels

(* A price in the band has a level.                                        *)
LEMMA IndexType == ASSUME NEW p \in Int, to_index(p) # None PROVE to_index(p) \in Levels
<1>1. /\ p - min_price_ticks \in Nat /\ MaxPrice - min_price_ticks \in Nat
      /\ p - min_price_ticks <= MaxPrice - min_price_ticks
      /\ to_index(p) = (p - min_price_ticks) \div Tick
  BY BandType, SMT DEF to_index
<1>2. /\ to_index(p) \in Nat
      /\ to_index(p) <= (MaxPrice - min_price_ticks) \div Tick
  BY <1>1, BandType, DivBounds
<1>. QED BY <1>1, <1>2, BandType, SMT DEF Levels, NumLevels

LEMMA LevelsFinite == IsFiniteSet(Levels) /\ Levels \subseteq Nat /\ None \notin Levels
<1>1. 0 \in Int /\ NumLevels - 1 \in Int
  BY BandType, SMT
<1>2. IsFiniteSet(Levels)
  BY <1>1, FS_Interval DEF Levels
<1>. QED BY <1>1, <1>2, SMT DEF Levels, None

(* The price of a level is in the band and leads back to it.               *)
LEMMA PriceOfLevel == ASSUME NEW i \in Levels PROVE to_index(to_price(i)) = i
<1>. DEFINE w == MaxPrice - min_price_ticks
            d == w \div Tick
<1>1. w \in Nat /\ Tick \in Nat \ {0} /\ i \in Nat /\ i <= d
  BY BandType, LevelsFinite, SMT DEF Levels, NumLevels
<1>2. d \in Int /\ w % Tick \in 0..(Tick - 1) /\ w = Tick * d + (w % Tick)
  BY <1>1, SMT
<1>3. i * Tick \in Nat /\ i * Tick <= d * Tick /\ (i * Tick) \div Tick = i
  <2>. HIDE DEF d, w
  <2>1. PICK e \in Nat : d = i + e
    BY <1>1, <1>2, SMT
  <2>2. d * Tick = i * Tick + e * Tick /\ e * Tick \in Nat /\ i * Tick \in Nat
    BY <1>1, <2>1, SMT
  <2>3. (i * Tick) \div Tick = i
    BY <1>1, SMT
  <2>. QED BY <2>2, <2>3, SMT
<1>4. i * Tick <= w
  <2>. HIDE DEF d, w
  <2>1. d * Tick = Tick * d /\ w % Tick >= 0
    BY <1>1, <1>2, SMT
  <2>. QED BY <1>1, <1>2, <1>3, <2>1, SMT
<1>5. to_price(i) >= min_price_ticks /\ to_price(i) <= MaxPrice
      /\ to_price(i) - min_price_ticks = i * Tick
  BY <1>3, <1>4, BandType, SMT DEF to_price
<1>. QED BY <1>3, <1>5, BandType, SMT DEF to_index, to_price

(* Rounding keeps a number natural, so that a size is never negative and   *)
(* never above the largest one.                                            *)
LEMMA RoundType == ASSUME NEW x \in Nat, NEW u \in Nat \ {0} PROVE Round(x, u) \in Nat
<1>1. 2 * x + u \in Nat /\ 2 * u \in Nat \ {0}
  BY SMT
<1>. QED BY <1>1, DivBounds, SMT DEF Round

(* A converted price is a number and a converted quantity fits.            *)
LEMMA ConversionTypes ==
  ASSUME NEW s \in Quotes, NEW q \in Quantities
  PROVE  /\ px_to_ticks(s) \in Int
         /\ scaled_qty(q) \in 0..MaxSize
         /\ Saturated(q) \subseteq {"saturated"}
<1>1. s = Malformed \/ s \in Nat
  BY L2Assumption
<1>2. q = Malformed \/ q \in Nat
  BY L2Assumption
<1>3. QuoteUnit \in Nat \ {0} /\ SizeUnit \in Nat \ {0} /\ MaxSize \in Nat \ {0}
  BY L2Assumption
<1>4. px_to_ticks(s) \in Int
  BY <1>1, <1>3, RoundType, SMT DEF px_to_ticks
<1>5. scaled_qty(q) \in 0..MaxSize
  BY <1>2, <1>3, RoundType, SMT DEF scaled_qty
<1>. QED BY <1>4, <1>5 DEF Saturated

-----------------------------------------------------------------------------
(* The best of a set of levels.                                            *)

LEMMA HighestIs == ASSUME NEW S \in SUBSET Levels, NEW m \in S, \A j \in S : j <= m
                   PROVE  Highest(S) = m
<1>1. \A i \in S : (\A j \in S : j <= i) => i = m
  BY LevelsFinite, SMT
<1>. QED BY <1>1 DEF Highest

LEMMA LowestIs == ASSUME NEW S \in SUBSET Levels, NEW m \in S, \A j \in S : m <= j
                  PROVE  Lowest(S) = m
<1>1. \A i \in S : (\A j \in S : i <= j) => i = m
  BY LevelsFinite, SMT
<1>. QED BY <1>1 DEF Lowest

(* The lowest of a non-empty side is one of its levels.                    *)
LEMMA LowestExists == ASSUME NEW S \in SUBSET Levels, S # {}
                      PROVE  Lowest(S) \in S /\ \A j \in S : Lowest(S) <= j
<1>1. PICK m \in S : \A j \in S : m <= j
  BY LeastNat, LevelsFinite
<1>. QED BY <1>1, LowestIs

(* The highest one is the least distance from the end of the band.         *)
LEMMA HighestExists == ASSUME NEW S \in SUBSET Levels, S # {}
                       PROVE  Highest(S) \in S /\ \A j \in S : j <= Highest(S)
<1>. DEFINE T == {NumLevels - i : i \in S}
<1>1. T \subseteq Nat /\ T # {}
  <2>1. \A i \in S : NumLevels - i \in Nat
    BY BandType, SMT DEF Levels
  <2>. QED BY <2>1, Zenon
<1>2. PICK d \in T : \A e \in T : d <= e
  BY <1>1, LeastNat
<1>3. PICK m \in S : d = NumLevels - m
  BY <1>2
<1>4. ASSUME NEW j \in S PROVE j <= m
  <2>1. NumLevels - m <= NumLevels - j
    BY <1>2, <1>3, <1>4
  <2>. QED BY <2>1, BandType, SMT DEF Levels
<1>. QED BY <1>4, HighestIs

(* Adding a level, or removing one, moves the best as improve_bid() and    *)
(* retreat_bid() move the pointer.                                         *)
LEMMA HighestAdds ==
  ASSUME NEW B \in SUBSET Levels, NEW i \in Levels
  PROVE  Highest(B \cup {i}) = IF Highest(B) = None \/ i > Highest(B) THEN i ELSE Highest(B)
<1>1. CASE B = {}
  BY <1>1, HighestIs, LevelsFinite, SMT DEF Highest
<1>2. CASE B # {}
  <2>1. /\ Highest(B) \in B /\ \A j \in B : j <= Highest(B)
        /\ Highest(B) # None
    BY <1>2, HighestExists, LevelsFinite
  <2>2. \A j \in B \cup {i} : j \in Nat
    BY LevelsFinite
  <2>3. CASE i > Highest(B)
    <3>1. \A j \in B \cup {i} : j <= i
      BY <2>1, <2>2, <2>3, SMT
    <3>2. Highest(B \cup {i}) = i
      BY <3>1, HighestIs
    <3>. QED BY <2>3, <3>2
  <2>4. CASE ~(i > Highest(B))
    <3>1. \A j \in B \cup {i} : j <= Highest(B)
      BY <2>1, <2>2, <2>4, SMT
    <3>2. Highest(B \cup {i}) = Highest(B)
      BY <2>1, <3>1, HighestIs
    <3>. QED BY <2>1, <2>4, <3>2
  <2>. QED BY <2>3, <2>4
<1>. QED BY <1>1, <1>2

LEMMA LowestAdds ==
  ASSUME NEW B \in SUBSET Levels, NEW i \in Levels
  PROVE  Lowest(B \cup {i}) = IF Lowest(B) = None \/ i < Lowest(B) THEN i ELSE Lowest(B)
<1>1. CASE B = {}
  BY <1>1, LowestIs, LevelsFinite, SMT DEF Lowest
<1>2. CASE B # {}
  <2>1. /\ Lowest(B) \in B /\ \A j \in B : Lowest(B) <= j
        /\ Lowest(B) # None
    BY <1>2, LowestExists, LevelsFinite
  <2>2. \A j \in B \cup {i} : j \in Nat
    BY LevelsFinite
  <2>3. CASE i < Lowest(B)
    <3>1. \A j \in B \cup {i} : i <= j
      BY <2>1, <2>2, <2>3, SMT
    <3>2. Lowest(B \cup {i}) = i
      BY <3>1, LowestIs
    <3>. QED BY <2>3, <3>2
  <2>4. CASE ~(i < Lowest(B))
    <3>1. \A j \in B \cup {i} : Lowest(B) <= j
      BY <2>1, <2>2, <2>4, SMT
    <3>2. Lowest(B \cup {i}) = Lowest(B)
      BY <2>1, <3>1, LowestIs
    <3>. QED BY <2>1, <2>4, <3>2
  <2>. QED BY <2>3, <2>4
<1>. QED BY <1>1, <1>2

(* Losing a level: only the best one needs the rescan.                     *)
LEMMA HighestRemoves ==
  ASSUME NEW B \in SUBSET Levels, NEW i \in B
  PROVE  Highest(B \ {i}) = IF i = Highest(B) THEN Highest({j \in B \ {i} : j <= i - 1})
                                              ELSE Highest(B)
<1>1. Highest(B) \in B /\ \A j \in B : j <= Highest(B)
  BY HighestExists
<1>2. CASE i = Highest(B)
  <2>1. \A j \in B \ {i} : j <= i - 1
    BY <1>1, <1>2, LevelsFinite, SMT
  <2>2. B \ {i} = {j \in B \ {i} : j <= i - 1}
    BY <2>1, Zenon
  <2>. QED BY <1>2, <2>2
<1>3. CASE i # Highest(B)
  BY <1>1, <1>3, HighestIs
<1>. QED BY <1>2, <1>3

LEMMA LowestRemoves ==
  ASSUME NEW B \in SUBSET Levels, NEW i \in B
  PROVE  Lowest(B \ {i}) = IF i = Lowest(B) THEN Lowest({j \in B \ {i} : j >= i + 1})
                                            ELSE Lowest(B)
<1>1. Lowest(B) \in B /\ \A j \in B : Lowest(B) <= j
  BY LowestExists
<1>2. CASE i = Lowest(B)
  <2>1. \A j \in B \ {i} : j >= i + 1
    BY <1>1, <1>2, LevelsFinite, SMT
  <2>2. B \ {i} = {j \in B \ {i} : j >= i + 1}
    BY <2>1, Zenon
  <2>. QED BY <1>2, <2>2
<1>3. CASE i # Lowest(B)
  BY <1>1, <1>3, LowestIs
<1>. QED BY <1>2, <1>3

-----------------------------------------------------------------------------
(* One write to one level, and what it does to each side.                  *)

(* Writing one level changes what the sides own there only.                *)
LEMMA LevelWritten ==
  ASSUME TypeOK, NEW i \in Levels, NEW r, levels' = [levels EXCEPT ![i] = r]
  PROVE  /\ levels'[i] = r /\ \A j \in Levels \ {i} : levels'[j] = levels[j]
         /\ \A s : Owned(levels', s) = IF r.order_count > 0 /\ r.side = s
                                       THEN Owned(levels, s) \cup {i} ELSE Owned(levels, s) \ {i}
         /\ {j \in Levels : levels'[j].order_count > 0}
              = IF r.order_count > 0 THEN {j \in Levels : Populated(j)} \cup {i}
                                     ELSE {j \in Levels : Populated(j)} \ {i}
<1>1. DOMAIN levels = Levels
  BY DEF TypeOK
<1>2. levels'[i] = r /\ \A j \in Levels \ {i} : levels'[j] = levels[j]
  BY <1>1
<1>3. ASSUME NEW s
      PROVE  Owned(levels', s) = IF r.order_count > 0 /\ r.side = s
                                 THEN Owned(levels, s) \cup {i} ELSE Owned(levels, s) \ {i}
  BY <1>2 DEF Owned
<1>4. {j \in Levels : levels'[j].order_count > 0}
        = IF r.order_count > 0 THEN {j \in Levels : Populated(j)} \cup {i}
                               ELSE {j \in Levels : Populated(j)} \ {i}
  BY <1>2 DEF Populated
<1>. QED BY <1>2, <1>3, <1>4

LEMMA OwnedLevels == ASSUME NEW s PROVE Owned(levels, s) \in SUBSET Levels
  BY DEF Owned

(* A size given to a level counts it once, and one taken away uncounts it. *)
LEMMA PopulatedCount ==
  ASSUME LevelsConsistent, NEW i \in Levels
  PROVE  LET P == {j \in Levels : Populated(j)}
         IN /\ ~Populated(i) => Cardinality(P \cup {i}) = live_orders + 1
            /\ Populated(i) => Cardinality(P \cup {i}) = live_orders
            /\ ~Populated(i) => Cardinality(P \ {i}) = live_orders
            /\ Populated(i) => Cardinality(P \ {i}) = live_orders - 1
<1>. DEFINE P == {j \in Levels : Populated(j)}
<1>1. P \subseteq Levels /\ (i \in P <=> Populated(i))
  OBVIOUS
<1>2. IsFiniteSet(P)
  BY <1>1, LevelsFinite, FS_Subset
<1>3. live_orders = Cardinality(P)
  BY DEF LevelsConsistent
<1>. HIDE DEF P
<1>4. Populated(i) => P \cup {i} = P
  BY <1>1
<1>5. ~Populated(i) => P \ {i} = P
  BY <1>1
<1>6. ~Populated(i) => Cardinality(P \cup {i}) = live_orders + 1
  BY <1>1, <1>2, <1>3, FS_AddElement
<1>7. Populated(i) => Cardinality(P \ {i}) = live_orders - 1
  BY <1>1, <1>2, <1>3, FS_RemoveElement
<1>8. /\ Populated(i) => Cardinality(P \cup {i}) = live_orders
      /\ ~Populated(i) => Cardinality(P \ {i}) = live_orders
  BY <1>3, <1>4, <1>5
<1>. QED BY <1>6, <1>7, <1>8 DEF P

(* The book's invariant: the level bookkeeping, the cached best prices and *)
(* the agreement with the feed, which hold together.                       *)
BookInv == LevelsConsistent /\ BestExact /\ MirrorsFeed

LEMMA InitBookInv == Init => BookInv
<1>. SUFFICES ASSUME Init PROVE BookInv
  OBVIOUS
<1>1. TypeOK
  <2>1. 0 \in 0..MaxSize /\ MaxSize \in Nat
    BY L2Assumption, SMT
  <2>2. EmptyLevel \in [aggregate_size : 0..MaxSize, order_count : {0, 1},
                       side : {"None", "Buy", "Sell"}]
    BY <2>1 DEF EmptyLevel
  <2>. QED BY <2>1, <2>2 DEF Init, TypeOK, Sides
<1>2. \A i \in Levels : levels[i] = EmptyLevel
  BY DEF Init
<1>3. \A i \in Levels : ~Populated(i)
  BY <1>2, SMT DEF Populated, EmptyLevel
<1>4. {i \in Levels : Populated(i)} = {}
  BY <1>3, Zenon
<1>5. live_orders = Cardinality({i \in Levels : Populated(i)})
  BY <1>4, FS_EmptySet DEF Init
<1>6. LevelsConsistent
  BY <1>1, <1>2, <1>3, <1>5 DEF LevelsConsistent, EmptyLevel
<1>7. \A s : Owned(levels, s) = {}
  BY <1>3 DEF Owned, Populated
<1>8. BestExact
  BY <1>7 DEF BestExact, Init, Highest, Lowest
<1>9. MirrorsFeed
  BY <1>2 DEF MirrorsFeed, SizeOn, EmptyLevel, Init
<1>. QED BY <1>6, <1>8, <1>9 DEF BookInv

LEMMA ResetBookInv == reset => BookInv'
<1>. SUFFICES ASSUME reset PROVE BookInv'
  OBVIOUS
<1>1. TypeOK'
  <2>1. 0 \in 0..MaxSize /\ MaxSize \in Nat
    BY L2Assumption, SMT
  <2>2. EmptyLevel \in [aggregate_size : 0..MaxSize, order_count : {0, 1},
                       side : {"None", "Buy", "Sell"}]
    BY <2>1 DEF EmptyLevel
  <2>. QED BY <2>1, <2>2 DEF reset, TypeOK, Sides
<1>2. \A i \in Levels : levels'[i] = EmptyLevel
  BY DEF reset
<1>3. \A i \in Levels : ~Populated(i)'
  BY <1>2, SMT DEF Populated, EmptyLevel
<1>4. {i \in Levels : Populated(i)'} = {}
  BY <1>3, Zenon
<1>5. live_orders' = Cardinality({i \in Levels : Populated(i)'})
  BY <1>4, FS_EmptySet DEF reset
<1>6. LevelsConsistent'
  BY <1>1, <1>2, <1>3, <1>5 DEF LevelsConsistent, EmptyLevel
<1>7. \A s : Owned(levels', s) = {}
  BY <1>3 DEF Owned, Populated
<1>8. BestExact'
  BY <1>7 DEF BestExact, reset, Highest, Lowest
<1>9. MirrorsFeed'
  BY <1>2 DEF MirrorsFeed, SizeOn, EmptyLevel, reset
<1>. QED BY <1>6, <1>8, <1>9 DEF BookInv

-----------------------------------------------------------------------------
(* The three branches that leave a size at a level write the same thing.   *)

Holding(side, size) == [aggregate_size |-> size, order_count |-> 1, side |-> side]

(* What the update of one level has to do to keep the books: count it,     *)
(* move the pointers and record what was heard.                            *)
LEMMA WriteKeepsBook ==
  ASSUME BookInv, NEW side \in Sides, NEW i \in Levels, NEW size \in 0..MaxSize, NEW r,
         \/ size = 0 /\ r = EmptyLevel
         \/ size # 0 /\ r = Holding(side, size),
         levels' = [levels EXCEPT ![i] = r],
         live_orders' = Cardinality({j \in Levels : levels'[j].order_count > 0}),
         live_orders' \in Nat,
         best_bid_idx' = Highest(Owned(levels', "Buy")),
         best_ask_idx' = Lowest(Owned(levels', "Sell")),
         bumped' \subseteq {"rejected_out_of_band", "saturated", "crossed_observed"},
         crossed_at_last_boundary' = crossed_at_last_boundary,
         Hears(side, i, size)
  PROVE  BookInv'
<1>0. TypeOK /\ MaxSize \in Nat
  BY L2Assumption DEF BookInv, LevelsConsistent
<1>1. /\ r \in [aggregate_size : 0..MaxSize, order_count : {0, 1}, side : {"None", "Buy", "Sell"}]
      /\ r.order_count > 0 <=> size # 0
      /\ r.side = (IF size = 0 THEN "None" ELSE side) /\ r.aggregate_size = size
  <2>1. CASE size = 0
    BY <2>1, <1>0, SMT DEF EmptyLevel
  <2>2. CASE size # 0
    BY <2>2, <1>0, SMT DEF Holding, Sides
  <2>. QED BY <2>1, <2>2
<1>2. levels'[i] = r /\ \A j \in Levels \ {i} : levels'[j] = levels[j]
  BY <1>0, LevelWritten
<1>3. TypeOK'
  <2>1. levels' \in [Levels -> [aggregate_size : 0..MaxSize, order_count : {0, 1},
                                side : {"None", "Buy", "Sell"}]]
    BY <1>0, <1>1 DEF TypeOK
  <2>2. best_bid_idx' \in Levels \cup {None}
    <3>1. Owned(levels', "Buy") \in SUBSET Levels
      BY DEF Owned
    <3>. QED BY <3>1, HighestExists DEF Highest
  <2>3. best_ask_idx' \in Levels \cup {None}
    <3>1. Owned(levels', "Sell") \in SUBSET Levels
      BY DEF Owned
    <3>. QED BY <3>1, LowestExists DEF Lowest
  <2>4. feed' \in [Sides \X Levels -> 0..MaxSize]
    BY <1>0 DEF TypeOK, Hears
  <2>5. contested' \subseteq Levels
    BY <1>0 DEF TypeOK, Hears
  <2>. QED BY <1>0, <2>1, <2>2, <2>3, <2>4, <2>5 DEF TypeOK
<1>4. LevelsConsistent'
  <2>1. \A j \in Levels : /\ ~Populated(j) <=> levels[j].side = "None"
                          /\ ~Populated(j) <=> levels[j].aggregate_size = 0
    BY DEF BookInv, LevelsConsistent
  <2>2. /\ ~Populated(i)' <=> levels'[i].side = "None"
        /\ ~Populated(i)' <=> levels'[i].aggregate_size = 0
    <3>1. CASE size = 0
      BY <3>1, <1>1, <1>2 DEF Populated
    <3>2. CASE size # 0
      BY <3>2, <1>1, <1>2 DEF Populated, Sides
    <3>. QED BY <3>1, <3>2
  <2>3. \A j \in Levels : /\ ~Populated(j)' <=> levels'[j].side = "None"
                          /\ ~Populated(j)' <=> levels'[j].aggregate_size = 0
    BY <1>2, <2>1, <2>2 DEF Populated
  <2>. QED BY <1>3, <2>3 DEF LevelsConsistent, Populated
<1>5. MirrorsFeed'
  <2>. SUFFICES ASSUME NEW j \in Levels, j \notin contested', NEW t \in Sides
                PROVE  SizeOn(t, j)' = feed'[<<t, j>>]
    BY DEF MirrorsFeed
  <2>1. contested \subseteq contested'
    BY DEF Hears
  <2>2. SizeOn(t, j) = feed[<<t, j>>]
    BY <2>1 DEF BookInv, MirrorsFeed
  <2>3. feed'[<<side, i>>] = size /\ (t # side \/ j # i => feed'[<<t, j>>] = feed[<<t, j>>])
    BY <1>0 DEF TypeOK, Hears
  <2>4. CASE j # i
    BY <1>2, <2>2, <2>3, <2>4 DEF SizeOn
  <2>5. CASE j = i /\ t = side
    BY <1>1, <1>2, <2>3, <2>5 DEF SizeOn, Sides
  <2>6. CASE j = i /\ t # side
    <3>1. levels[i].side = side \/ ~Populated(i)
      BY <2>6 DEF Hears
    <3>2. levels[i].side # t
      BY <2>6, <3>1 DEF BookInv, LevelsConsistent, Sides
    <3>3. SizeOn(t, j)' = 0 /\ SizeOn(t, j) = 0
      BY <1>1, <1>2, <2>6, <3>2 DEF SizeOn, Sides
    <3>. QED BY <2>2, <2>3, <2>6, <3>3
  <2>. QED BY <2>4, <2>5, <2>6
<1>6. BestExact'
  BY DEF BestExact
<1>. QED BY <1>4, <1>5, <1>6 DEF BookInv

-----------------------------------------------------------------------------
(* The branches of set_level().                                            *)

(* Each branch of set_level() keeps the invariant.                         *)
LEMMA RemoveBookInv ==
  ASSUME BookInv, NEW side \in Sides, NEW i \in Levels, SetRemove(side, i)
  PROVE  BookInv'
<1>0. TypeOK /\ LevelsConsistent /\ BestExact
  BY DEF BookInv, LevelsConsistent
<1>1. ~(EmptyLevel.order_count > 0) /\ levels' = [levels EXCEPT ![i] = EmptyLevel]
  BY DEF SetRemove, EmptyLevel
<1>2. /\ \A s : Owned(levels', s) = Owned(levels, s) \ {i}
      /\ {j \in Levels : levels'[j].order_count > 0} = {j \in Levels : Populated(j)} \ {i}
  BY <1>0, <1>1, LevelWritten
<1>3. \A s \in Sides : i \in Owned(levels, s) <=> levels[i].side = s
  BY DEF Owned, SetRemove, Populated
<1>4. best_bid_idx' = Highest(Owned(levels', "Buy"))
  <2>1. CASE levels[i].side = "Buy"
    <3>1. i \in Owned(levels, "Buy") /\ Owned(levels, "Buy") \in SUBSET Levels
      BY <1>3, <2>1, OwnedLevels DEF Sides
    <3>2. /\ Owned(levels', "Buy") = Owned(levels, "Buy") \ {i}
          /\ best_bid_idx = Highest(Owned(levels, "Buy"))
      BY <1>0, <1>2 DEF BestExact
    <3>3. best_bid_idx' = IF i = best_bid_idx
                          THEN Highest({j \in Owned(levels', "Buy") : j <= i - 1})
                          ELSE best_bid_idx
      BY <2>1 DEF SetRemove, retreat_bid, rescan_best_bid_from
    <3>. QED BY <3>1, <3>2, <3>3, HighestRemoves
  <2>2. CASE levels[i].side # "Buy"
    <3>1. Owned(levels', "Buy") = Owned(levels, "Buy")
      BY <1>2, <1>3, <2>2 DEF Sides
    <3>. QED BY <1>0, <2>2, <3>1 DEF SetRemove, retreat_bid, BestExact
  <2>. QED BY <2>1, <2>2
<1>5. best_ask_idx' = Lowest(Owned(levels', "Sell"))
  <2>1. CASE levels[i].side = "Sell"
    <3>1. i \in Owned(levels, "Sell") /\ Owned(levels, "Sell") \in SUBSET Levels
      BY <1>3, <2>1, OwnedLevels DEF Sides
    <3>2. /\ Owned(levels', "Sell") = Owned(levels, "Sell") \ {i}
          /\ best_ask_idx = Lowest(Owned(levels, "Sell"))
      BY <1>0, <1>2 DEF BestExact
    <3>3. best_ask_idx' = IF i = best_ask_idx
                          THEN Lowest({j \in Owned(levels', "Sell") : j >= i + 1})
                          ELSE best_ask_idx
      BY <2>1 DEF SetRemove, retreat_ask, rescan_best_ask_from
    <3>. QED BY <3>1, <3>2, <3>3, LowestRemoves
  <2>2. CASE levels[i].side # "Sell"
    <3>1. Owned(levels', "Sell") = Owned(levels, "Sell")
      BY <1>2, <1>3, <2>2 DEF Sides
    <3>. QED BY <1>0, <2>2, <3>1 DEF SetRemove, retreat_ask, BestExact
  <2>. QED BY <2>1, <2>2
<1>6. live_orders' = Cardinality({j \in Levels : levels'[j].order_count > 0}) /\ live_orders' \in Nat
  <2>1. live_orders' = Cardinality({j \in Levels : levels'[j].order_count > 0})
    BY <1>0, <1>2, PopulatedCount DEF SetRemove
  <2>2. IsFiniteSet({j \in Levels : levels'[j].order_count > 0})
    BY LevelsFinite, FS_Subset
  <2>. QED BY <2>1, <2>2, FS_CardinalityType
<1>7. /\ bumped' = {} /\ crossed_at_last_boundary' = crossed_at_last_boundary
      /\ Hears(side, i, 0) /\ 0 \in 0..MaxSize
  BY L2Assumption, SMT DEF SetRemove
<1>. QED BY <1>1, <1>4, <1>5, <1>6, <1>7, WriteKeepsBook

(* Nothing rests at the level: the book stays, and the feed's zero agrees  *)
(* with it.                                                                *)
LEMMA RemoveEmptyBookInv ==
  ASSUME BookInv, NEW side \in Sides, NEW i \in Levels, SetRemoveEmpty(side, i)
  PROVE  BookInv'
<1>1. TypeOK /\ LevelsConsistent /\ BestExact /\ MirrorsFeed
  BY DEF BookInv, LevelsConsistent
<1>2. 0 \in 0..MaxSize
  BY L2Assumption, SMT
<1>3. /\ UNCHANGED <<levels, best_bid_idx, best_ask_idx, live_orders, crossed_at_last_boundary>>
      /\ contested' = contested /\ bumped' = {}
  BY DEF SetRemoveEmpty, Hears
<1>4. TypeOK'
  <2>1. feed' \in [Sides \X Levels -> 0..MaxSize]
    BY <1>1, <1>2 DEF TypeOK, SetRemoveEmpty, Hears
  <2>. QED BY <1>1, <1>3, <2>1 DEF TypeOK
<1>5. LevelsConsistent'
  BY <1>1, <1>3, <1>4 DEF LevelsConsistent, Populated
<1>6. BestExact'
  BY <1>1, <1>3 DEF BestExact
<1>7. MirrorsFeed'
  <2>. SUFFICES ASSUME NEW j \in Levels, j \notin contested', NEW t \in Sides
                PROVE  SizeOn(t, j)' = feed'[<<t, j>>]
    BY DEF MirrorsFeed
  <2>1. SizeOn(t, j) = feed[<<t, j>>] /\ SizeOn(t, j)' = SizeOn(t, j)
    BY <1>1, <1>3 DEF MirrorsFeed, SizeOn
  <2>2. levels[i].side = "None"
    BY <1>1 DEF LevelsConsistent, SetRemoveEmpty
  <2>3. feed'[<<side, i>>] = 0 /\ (t # side \/ j # i => feed'[<<t, j>>] = feed[<<t, j>>])
    BY <1>1 DEF TypeOK, Hears, SetRemoveEmpty
  <2>4. CASE t = side /\ j = i
    BY <2>1, <2>2, <2>3, <2>4 DEF SizeOn, Sides
  <2>5. CASE t # side \/ j # i
    BY <2>1, <2>3, <2>5
  <2>. QED BY <2>4, <2>5
<1>. QED BY <1>5, <1>6, <1>7 DEF BookInv

(* A size other than zero: at an empty level, at one of the same side, at  *)
(* one of the other side.                                                  *)
LEMMA HoldBookInv ==
  ASSUME BookInv, NEW side \in Sides, NEW i \in Levels, NEW size \in 0..MaxSize, size # 0,
         NEW sat \in SUBSET {"saturated"},
         SetFirst(side, i, size, sat) \/ SetResize(side, i, size, sat) \/ SetFlip(side, i, size, sat)
  PROVE  BookInv'
<1>. DEFINE r == Holding(side, size)
            old == levels[i].side
<1>0. TypeOK /\ LevelsConsistent /\ BestExact
  BY DEF BookInv, LevelsConsistent
<1>1. levels' = [levels EXCEPT ![i] = r]
  <2>1. levels \in [Levels -> [aggregate_size : 0..MaxSize, order_count : {0, 1},
                               side : {"None", "Buy", "Sell"}]]
    BY <1>0 DEF TypeOK
  <2>2. CASE SetFirst(side, i, size, sat)
    BY <2>2 DEF SetFirst, Holding
  <2>3. CASE SetResize(side, i, size, sat)
    <3>1. levels[i].order_count = 1 /\ levels[i].side = side
      BY <2>1, <2>3 DEF SetResize, Populated
    <3>2. [levels[i] EXCEPT !.aggregate_size = size] = r
      BY <2>1, <3>1 DEF Holding
    <3>. QED BY <2>1, <2>3, <3>2 DEF SetResize
  <2>4. CASE SetFlip(side, i, size, sat)
    <3>1. levels[i].order_count = 1
      BY <2>1, <2>4 DEF SetFlip, Populated
    <3>2. /\ levels' \in [Levels -> [aggregate_size : 0..MaxSize, order_count : {0, 1},
                                     side : {"None", "Buy", "Sell"}]]
          /\ levels'[i].aggregate_size = size /\ levels'[i].order_count = 1
          /\ levels'[i].side = side
          /\ \A j \in Levels \ {i} : levels'[j] = levels[j]
      BY <2>1, <2>4, <3>1 DEF SetFlip, Sides
    <3>3. levels'[i] = r
      BY <3>2 DEF Holding
    <3>. QED BY <2>1, <3>2, <3>3
  <2>. QED BY <2>2, <2>3, <2>4
<1>2. r.order_count > 0 /\ r.side = side
  BY DEF Holding
<1>. HIDE DEF r
<1>3. /\ Owned(levels', side) = Owned(levels, side) \cup {i}
      /\ \A s \in Sides \ {side} : Owned(levels', s) = Owned(levels, s) \ {i}
      /\ {j \in Levels : levels'[j].order_count > 0} = {j \in Levels : Populated(j)} \cup {i}
  <2>1. /\ \A s : Owned(levels', s) = IF r.order_count > 0 /\ r.side = s
                                     THEN Owned(levels, s) \cup {i} ELSE Owned(levels, s) \ {i}
        /\ {j \in Levels : levels'[j].order_count > 0}
             = IF r.order_count > 0 THEN {j \in Levels : Populated(j)} \cup {i}
                                    ELSE {j \in Levels : Populated(j)} \ {i}
    BY <1>0, <1>1, LevelWritten
  <2>. QED BY <1>2, <2>1
<1>4. \A s \in Sides : i \in Owned(levels, s) <=> Populated(i) /\ old = s
  BY DEF Owned, Populated
<1>5. /\ best_bid_idx' = improve_bid(side, i, best_bid_idx)
         \/ /\ Populated(i) /\ old # side
            /\ best_bid_idx' = improve_bid(side, i, retreat_bid(levels', old, i, best_bid_idx))
      /\ best_ask_idx' = improve_ask(side, i, best_ask_idx)
         \/ /\ Populated(i) /\ old # side
            /\ best_ask_idx' = improve_ask(side, i, retreat_ask(levels', old, i, best_ask_idx))
      /\ Populated(i) /\ old # side => SetFlip(side, i, size, sat)
  BY DEF SetFirst, SetResize, SetFlip
<1>6. best_bid_idx' = Highest(Owned(levels', "Buy"))
  <2>1. best_bid_idx = Highest(Owned(levels, "Buy")) /\ Owned(levels, "Buy") \in SUBSET Levels
    BY <1>0, OwnedLevels DEF BestExact
  <2>2. CASE side = "Buy"
    <3>1. best_bid_idx' = improve_bid(side, i, best_bid_idx)
      BY <1>5, <2>2 DEF retreat_bid
    <3>2. Owned(levels', "Buy") = Owned(levels, "Buy") \cup {i}
      BY <1>3, <2>2
    <3>. QED BY <2>1, <2>2, <3>1, <3>2, HighestAdds DEF improve_bid
  <2>3. CASE side # "Buy"
    <3>1. Owned(levels', "Buy") = Owned(levels, "Buy") \ {i}
      BY <1>3, <2>3 DEF Sides
    <3>2. CASE Populated(i) /\ old = "Buy"
      <4>1. i \in Owned(levels, "Buy") /\ SetFlip(side, i, size, sat)
        BY <1>4, <1>5, <2>3, <3>2 DEF Sides
      <4>2. best_bid_idx' = IF i = best_bid_idx
                            THEN Highest({j \in Owned(levels', "Buy") : j <= i - 1})
                            ELSE best_bid_idx
        BY <2>3, <3>2, <4>1 DEF SetFlip, improve_bid, retreat_bid, rescan_best_bid_from
      <4>3. Highest(Owned(levels, "Buy") \ {i})
              = IF i = Highest(Owned(levels, "Buy"))
                THEN Highest({j \in Owned(levels, "Buy") \ {i} : j <= i - 1})
                ELSE Highest(Owned(levels, "Buy"))
        BY <2>1, <4>1, HighestRemoves
      <4>. QED BY <2>1, <3>1, <4>2, <4>3
    <3>3. CASE ~(Populated(i) /\ old = "Buy")
      <4>1. i \notin Owned(levels, "Buy")
        BY <1>4, <3>3 DEF Sides
      <4>2. Owned(levels', "Buy") = Owned(levels, "Buy")
        BY <3>1, <4>1
      <4>3. best_bid_idx' = best_bid_idx
        BY <1>5, <2>3, <3>3 DEF improve_bid, retreat_bid
      <4>. QED BY <2>1, <4>2, <4>3
    <3>. QED BY <3>2, <3>3
  <2>. QED BY <2>2, <2>3
<1>7. best_ask_idx' = Lowest(Owned(levels', "Sell"))
  <2>1. best_ask_idx = Lowest(Owned(levels, "Sell")) /\ Owned(levels, "Sell") \in SUBSET Levels
    BY <1>0, OwnedLevels DEF BestExact
  <2>2. CASE side = "Sell"
    <3>1. best_ask_idx' = improve_ask(side, i, best_ask_idx)
      BY <1>5, <2>2 DEF retreat_ask
    <3>2. Owned(levels', "Sell") = Owned(levels, "Sell") \cup {i}
      BY <1>3, <2>2
    <3>. QED BY <2>1, <2>2, <3>1, <3>2, LowestAdds DEF improve_ask
  <2>3. CASE side # "Sell"
    <3>1. Owned(levels', "Sell") = Owned(levels, "Sell") \ {i}
      BY <1>3, <2>3 DEF Sides
    <3>2. CASE Populated(i) /\ old = "Sell"
      <4>1. i \in Owned(levels, "Sell") /\ SetFlip(side, i, size, sat)
        BY <1>4, <1>5, <2>3, <3>2 DEF Sides
      <4>2. best_ask_idx' = IF i = best_ask_idx
                            THEN Lowest({j \in Owned(levels', "Sell") : j >= i + 1})
                            ELSE best_ask_idx
        BY <2>3, <3>2, <4>1 DEF SetFlip, improve_ask, retreat_ask, rescan_best_ask_from
      <4>3. Lowest(Owned(levels, "Sell") \ {i})
              = IF i = Lowest(Owned(levels, "Sell"))
                THEN Lowest({j \in Owned(levels, "Sell") \ {i} : j >= i + 1})
                ELSE Lowest(Owned(levels, "Sell"))
        BY <2>1, <4>1, LowestRemoves
      <4>. QED BY <2>1, <3>1, <4>2, <4>3
    <3>3. CASE ~(Populated(i) /\ old = "Sell")
      <4>1. i \notin Owned(levels, "Sell")
        BY <1>4, <3>3 DEF Sides
      <4>2. Owned(levels', "Sell") = Owned(levels, "Sell")
        BY <3>1, <4>1
      <4>3. best_ask_idx' = best_ask_idx
        BY <1>5, <2>3, <3>3 DEF improve_ask, retreat_ask
      <4>. QED BY <2>1, <4>2, <4>3
    <3>. QED BY <3>2, <3>3
  <2>. QED BY <2>2, <2>3
<1>8. live_orders' = Cardinality({j \in Levels : levels'[j].order_count > 0}) /\ live_orders' \in Nat
  <2>1. live_orders' = IF Populated(i) THEN live_orders ELSE live_orders + 1
    BY DEF SetFirst, SetResize, SetFlip
  <2>2. live_orders' = Cardinality({j \in Levels : levels'[j].order_count > 0})
    BY <1>0, <1>3, <2>1, PopulatedCount
  <2>. QED BY <1>0, <2>1, <2>2 DEF TypeOK
<1>9. /\ bumped' = sat /\ crossed_at_last_boundary' = crossed_at_last_boundary
      /\ Hears(side, i, size)
  BY DEF SetFirst, SetResize, SetFlip
<1>. QED BY <1>1, <1>6, <1>7, <1>8, <1>9, WriteKeepsBook DEF r

LEMMA OutOfBandBookInv ==
  ASSUME BookInv, NEW p, NEW sat \in SUBSET {"saturated"}, SetOutOfBand(p, sat)
  PROVE  BookInv'
<1>1. LevelsConsistent'
  BY DEF BookInv, LevelsConsistent, TypeOK, Populated, SetOutOfBand
<1>2. BestExact' /\ MirrorsFeed'
  BY DEF BookInv, BestExact, MirrorsFeed, SizeOn, SetOutOfBand
<1>. QED BY <1>1, <1>2 DEF BookInv

LEMMA BoundaryBookInv == ASSUME BookInv, observe_event_boundary PROVE BookInv'
<1>1. LevelsConsistent'
  BY DEF BookInv, LevelsConsistent, TypeOK, Populated, observe_event_boundary, is_crossed
<1>2. BestExact' /\ MirrorsFeed'
  BY DEF BookInv, BestExact, MirrorsFeed, SizeOn, observe_event_boundary
<1>. QED BY <1>1, <1>2 DEF BookInv

LEMMA StepBookInv == BookInv /\ [Next]_vars => BookInv'
<1>. SUFFICES ASSUME BookInv, [Next]_vars PROVE BookInv'
  OBVIOUS
<1>1. ASSUME NEW side \in Sides, NEW s \in Quotes, NEW q \in Quantities, push_op(side, s, q)
      PROVE  BookInv'
  <2>. DEFINE p == px_to_ticks(s)
              i == to_index(p)
              size == scaled_qty(q)
              sat == Saturated(q)
  <2>1. p \in Int /\ size \in 0..MaxSize /\ sat \in SUBSET {"saturated"}
    BY ConversionTypes
  <2>2. SetLevel(side, p, size, sat)
    BY <1>1 DEF push_op
  <2>3. i # None => i \in Levels
    BY <2>1, IndexType
  <2>. HIDE DEF p, i, size, sat
  <2>4. \/ SetOutOfBand(p, sat)
        \/ i # None /\ size = 0 /\ (SetRemove(side, i) \/ SetRemoveEmpty(side, i))
        \/ /\ i # None /\ size # 0
           /\ \/ SetFirst(side, i, size, sat) \/ SetResize(side, i, size, sat)
              \/ SetFlip(side, i, size, sat)
    BY <2>2 DEF SetLevel, i
  <2>. QED BY <2>1, <2>3, <2>4, OutOfBandBookInv, RemoveBookInv, RemoveEmptyBookInv, HoldBookInv
<1>2. CASE UNCHANGED vars
  <2>1. LevelsConsistent'
    BY <1>2 DEF vars, BookInv, LevelsConsistent, TypeOK, Populated
  <2>2. BestExact' /\ MirrorsFeed'
    BY <1>2 DEF vars, BookInv, BestExact, MirrorsFeed, SizeOn
  <2>. QED BY <2>1, <2>2 DEF BookInv
<1>. QED BY <1>1, <1>2, BoundaryBookInv, ResetBookInv DEF Next

(* The three invariants of the depth-fed book, for every band and feed.    *)
THEOREM BookInvariance == Spec => []BookInv
  BY InitBookInv, StepBookInv, PTL DEF Spec

(* After every set_level(), boundary or reset() of any history the cached  *)
(* best_bid() and best_ask() are the highest Buy level and the lowest Sell *)
(* level of the book: through crossed books, removals of the best level    *)
(* and levels that change sides, the local rescans never miss.             *)
THEOREM CachedBestIsExact == Spec => []BestExact
<1>1. BookInv => BestExact
  BY DEF BookInv
<1>. QED BY <1>1, BookInvariance, PTL

(* Of every level, size, owner and count agree, and live_orders() is the   *)
(* number of populated levels: no branch of set_level() counts one twice   *)
(* or forgets one, and no size exceeds the transport's.                    *)
THEOREM LevelBookkeeping == Spec => []LevelsConsistent
<1>1. BookInv => LevelsConsistent
  BY DEF BookInv
<1>. QED BY <1>1, BookInvariance, PTL

(* At every level on which the two sides never met, the size shown for a   *)
(* side is the last one the feed gave that level.                          *)
THEOREM BookIsTheFeed == Spec => []MirrorsFeed
<1>1. BookInv => MirrorsFeed
  BY DEF BookInv
<1>. QED BY <1>1, BookInvariance, PTL

-----------------------------------------------------------------------------
(* The ladders.  depth_bids() and depth_asks() walk from place to place,   *)
(* writing a row at some of them.  Of any such walk: D are the places,     *)
(* nxt leads from one to the next until one in `stop', h is how far it     *)
(* can still go; at a place of `own' the row lev is written.               *)

Row(u, i, stop, own, lev, n) ==
  [c \in 0..n |-> IF i \in stop \/ c = n THEN <<>>
                  ELSE IF i \in own THEN <<lev[i]>> \o u[c + 1] ELSE u[c]]

IsWalk(w, D, stop, own, lev, n, nxt) == w = [i \in D |-> Row(w[nxt[i]], i, stop, own, lev, n)]

LEMMA RowStops ==
  ASSUME NEW u, NEW v, NEW i, NEW stop, i \in stop, NEW own, NEW lev, NEW n
  PROVE  Row(u, i, stop, own, lev, n) = Row(v, i, stop, own, lev, n)
BY DEF Row

(* There is such a walk, so that the recursive definition means one.       *)
LEMMA WalkExists ==
  ASSUME NEW D, NEW stop, NEW own, NEW lev, NEW n, NEW nxt, NEW h \in [D -> Nat], NEW M \in Nat,
         \A i \in D : h[i] < M,
         \A i \in D : i \notin stop => nxt[i] \in D /\ h[nxt[i]] < h[i]
  PROVE  \E w : IsWalk(w, D, stop, own, lev, n, nxt)
<1>. DEFINE R(u, i) == Row(u, i, stop, own, lev, n)
            Part(w, m) == \A i \in D : h[i] < m => w[i] = R(w[nxt[i]], i)
            T == {m \in Nat : ~\E w : Part(w, m)}
<1>1. \A u, v, i : i \in stop => R(u, i) = R(v, i)
  BY RowStops
<1>. HIDE DEF R
<1>2. T = {}
  <2>. SUFFICES ASSUME T # {} PROVE FALSE
    OBVIOUS
  <2>1. PICK m \in T : \A y \in T : m <= y
    <3>1. T \subseteq Nat
      OBVIOUS
    <3>. HIDE DEF T
    <3>. QED BY <3>1, LeastNat
  <2>2. m # 0
    <3>1. Part(D, 0)
      BY SMT
    <3>. QED BY <3>1
  <2>3. m \in Nat /\ m - 1 \in Nat /\ ~(m <= m - 1)
    BY <2>2, SMT
  <2>4. PICK v : Part(v, m - 1)
    BY <2>1, <2>3
  <2>. DEFINE w == [i \in D |-> IF h[i] = m - 1 THEN R(v[nxt[i]], i) ELSE v[i]]
  <2>5. ASSUME NEW i \in D, h[i] < m PROVE w[i] = R(w[nxt[i]], i)
    <3>1. w[i] = R(v[nxt[i]], i)
      <4>1. CASE h[i] = m - 1
        BY <4>1
      <4>2. CASE h[i] # m - 1
        <5>1. h[i] < m - 1
          BY <2>3, <2>5, <4>2, SMT
        <5>. QED BY <2>4, <4>2, <5>1
      <4>. QED BY <4>1, <4>2
    <3>2. CASE i \in stop
      BY <1>1, <3>1, <3>2
    <3>3. CASE i \notin stop
      <4>1. nxt[i] \in D /\ h[nxt[i]] < h[i] /\ h[nxt[i]] \in Nat /\ h[i] \in Nat
        BY <3>3
      <4>2. h[nxt[i]] # m - 1
        BY <2>3, <2>5, <4>1, SMT
      <4>3. w[nxt[i]] = v[nxt[i]]
        BY <4>1, <4>2
      <4>. QED BY <3>1, <4>3
    <3>. QED BY <3>2, <3>3
  <2>. HIDE DEF w
  <2>6. Part(w, m)
    BY <2>5
  <2>. QED BY <2>1, <2>6
<1>3. PICK v : Part(v, M)
  BY <1>2
<1>. DEFINE w == [i \in D |-> v[i]]
<1>4. ASSUME NEW i \in D PROVE w[i] = R(w[nxt[i]], i)
  <2>1. w[i] = R(v[nxt[i]], i)
    BY <1>3
  <2>2. CASE i \in stop
    BY <1>1, <2>1, <2>2
  <2>3. CASE i \notin stop
    <3>1. w[nxt[i]] = v[nxt[i]]
      BY <2>3
    <3>. QED BY <2>1, <3>1
  <2>. QED BY <2>2, <2>3
<1>5. w = [i \in D |-> R(w[nxt[i]], i)]
  <2>1. w = [i \in D |-> w[i]]
    OBVIOUS
  <2>. HIDE DEF w
  <2>. QED BY <1>4, <2>1
<1>. HIDE DEF w
<1>6. IsWalk(w, D, stop, own, lev, n, nxt)
  BY <1>5 DEF R, IsWalk
<1>. QED BY <1>6

(* The rows still to come at a place are those of R[i].  A ladder of at    *)
(* most b rows of S has the b first of them, each with as many of S ahead  *)
(* of it as it has rows ahead.                                             *)
Ladder(s, S, b, R, lev) ==
  /\ Len(s) = IF b < Cardinality(S) THEN b ELSE Cardinality(S)
  /\ \A k \in 1..Len(s) : \E j \in S : Cardinality(S \ R[j]) = k - 1 /\ s[k] = lev[j]

LEMMA LadderEnds ==
  ASSUME NEW S, IsFiniteSet(S), NEW b \in Nat, b = 0 \/ S = {}, NEW R, NEW lev
  PROVE  Ladder(<<>>, S, b, R, lev)
<1>1. Cardinality(S) \in Nat /\ (S = {} => Cardinality(S) = 0)
  BY FS_CardinalityType, FS_EmptySet
<1>2. Len(<<>>) = 0 /\ 1..0 = {}
  BY SMT
<1>3. (IF b < Cardinality(S) THEN b ELSE Cardinality(S)) = 0
  BY <1>1, SMT
<1>. QED BY <1>2, <1>3 DEF Ladder

LEMMA LadderGrows ==
  ASSUME NEW X, NEW t \in Seq(X), NEW S, IsFiniteSet(S), NEW b \in Nat, NEW R, NEW lev,
         Ladder(t, S, b, R, lev), NEW i, i \notin S, R[i] = S \cup {i}, lev[i] \in X,
         \A j \in S : R[j] \subseteq S
  PROVE  Ladder(<<lev[i]>> \o t, S \cup {i}, b + 1, R, lev) /\ <<lev[i]>> \o t \in Seq(X)
<1>. DEFINE s == <<lev[i]>> \o t
            U == S \cup {i}
<1>1. Cardinality(S) \in Nat /\ IsFiniteSet(U) /\ Cardinality(U) = Cardinality(S) + 1
  BY FS_CardinalityType, FS_AddElement
<1>2. /\ s \in Seq(X) /\ Len(s) = Len(t) + 1 /\ Len(t) \in Nat /\ s[1] = lev[i]
      /\ \A k \in 1..Len(s) : k # 1 => k - 1 \in 1..Len(t) /\ s[k] = t[k - 1]
  <2>1. <<lev[i]>> \in Seq(X) /\ Len(<<lev[i]>>) = 1 /\ <<lev[i]>>[1] = lev[i]
    OBVIOUS
  <2>. QED BY <2>1, SMT
<1>3. Len(t) = (IF b < Cardinality(S) THEN b ELSE Cardinality(S))
      /\ \A k \in 1..Len(t) : \E j \in S : Cardinality(S \ R[j]) = k - 1 /\ t[k] = lev[j]
  BY DEF Ladder
<1>. HIDE DEF s, U
<1>4. Len(s) = IF b + 1 < Cardinality(U) THEN b + 1 ELSE Cardinality(U)
  BY <1>1, <1>2, <1>3, SMT
<1>5. ASSUME NEW k \in 1..Len(s)
      PROVE  \E j \in U : Cardinality(U \ R[j]) = k - 1 /\ s[k] = lev[j]
  <2>1. CASE k = 1
    <3>1. U \ R[i] = {} /\ i \in U
      BY DEF U
    <3>2. Cardinality(U \ R[i]) = 0
      BY <3>1, FS_EmptySet
    <3>3. k - 1 = 0
      BY <2>1, SMT
    <3>. QED BY <1>2, <2>1, <3>1, <3>2, <3>3
  <2>2. CASE k # 1
    <3>1. k - 1 \in 1..Len(t) /\ s[k] = t[k - 1]
      BY <1>2, <2>2
    <3>2. PICK j \in S : Cardinality(S \ R[j]) = k - 1 - 1 /\ t[k - 1] = lev[j]
      BY <1>3, <3>1
    <3>3. U \ R[j] = (S \ R[j]) \cup {i} /\ i \notin S \ R[j] /\ j \in U
      BY DEF U
    <3>4. IsFiniteSet(S \ R[j])
      BY FS_Subset
    <3>5. Cardinality((S \ R[j]) \cup {i}) = Cardinality(S \ R[j]) + 1
      BY <3>3, <3>4, FS_AddElement
    <3>6. k - 1 - 1 + 1 = k - 1
      BY <1>2, SMT
    <3>. QED BY <3>1, <3>2, <3>3, <3>5, <3>6
  <2>. QED BY <2>1, <2>2
<1>. QED BY <1>2, <1>4, <1>5 DEF Ladder, s, U

(* What remains to be walked, and the rows it gives.                       *)
Leads(D, stop, nxt, h) ==
  h \in [D -> Nat] /\ \A i \in D : i \notin stop => nxt[i] \in D /\ h[nxt[i]] < h[i]
Remain(D, stop, own, nxt, R) ==
  /\ \A i \in D : IsFiniteSet(R[i]) /\ \A j \in R[i] : R[j] \subseteq R[i]
  /\ \A i \in D : i \in stop => R[i] = {}
  /\ \A i \in D : i \notin stop => /\ i \in own => R[i] = R[nxt[i]] \cup {i} /\ i \notin R[nxt[i]]
                                   /\ i \notin own => R[i] = R[nxt[i]]
Ladders(w, D, n, X, R, lev) ==
  \A i \in D : \A c \in 0..n : w[i][c] \in Seq(X) /\ Ladder(w[i][c], R[i], n - c, R, lev)

LEMMA WalkRanks ==
  ASSUME NEW D, NEW stop, NEW own, NEW lev, NEW n \in Nat, NEW nxt, NEW h, Leads(D, stop, nxt, h),
         NEW w, IsWalk(w, D, stop, own, lev, n, nxt), NEW X, \A i \in own : lev[i] \in X,
         NEW R, Remain(D, stop, own, nxt, R)
  PROVE  Ladders(w, D, n, X, R, lev)
<1>. USE DEF Leads, Remain
<1>. DEFINE Good(i) == \A c \in 0..n : w[i][c] \in Seq(X) /\ Ladder(w[i][c], R[i], n - c, R, lev)
            B == {i \in D : ~Good(i)}
            T == {h[i] : i \in B}
<1>. SUFFICES ASSUME B # {} PROVE FALSE
  BY DEF Ladders
<1>1. PICK m \in T : \A y \in T : m <= y
  <2>1. B \subseteq D
    OBVIOUS
  <2>. HIDE DEF B
  <2>2. T \subseteq Nat
    BY <2>1
  <2>3. PICK e : e \in B
    OBVIOUS
  <2>4. h[e] \in T
    BY <2>3
  <2>. HIDE DEF T
  <2>5. T # {}
    BY <2>4
  <2>. QED BY <2>2, <2>5, LeastNat
<1>2. PICK i \in B : m = h[i]
  OBVIOUS
<1>3. i \in D /\ ~Good(i)
  OBVIOUS
<1>4. ASSUME NEW c \in 0..n
      PROVE  w[i][c] = IF i \in stop \/ c = n THEN <<>>
                       ELSE IF i \in own THEN <<lev[i]>> \o w[nxt[i]][c + 1] ELSE w[nxt[i]][c]
  <2>1. w[i] = Row(w[nxt[i]], i, stop, own, lev, n)
    BY <1>3 DEF IsWalk
  <2>. QED BY <2>1 DEF Row
<1>5. i \notin stop => nxt[i] \in D /\ Good(nxt[i])
  <2>. SUFFICES ASSUME i \notin stop PROVE nxt[i] \in D /\ Good(nxt[i])
    OBVIOUS
  <2>1. nxt[i] \in D /\ h[nxt[i]] < h[i] /\ h[i] \in Nat /\ h[nxt[i]] \in Nat
    BY <1>3
  <2>2. ~(m <= h[nxt[i]])
    BY <1>2, <2>1, SMT
  <2>3. h[nxt[i]] \notin T
    BY <1>1, <2>2, Zenon
  <2>. QED BY <2>1, <2>3
<1>6. ASSUME NEW c \in 0..n
      PROVE  w[i][c] \in Seq(X) /\ Ladder(w[i][c], R[i], n - c, R, lev)
  <2>1. n - c \in Nat /\ (c = n => n - c = 0) /\ <<>> \in Seq(X) /\ IsFiniteSet(R[i])
    BY <1>3, SMT
  <2>2. CASE i \in stop \/ c = n
    <3>1. w[i][c] = <<>>
      BY <1>4, <2>2
    <3>2. Ladder(<<>>, R[i], n - c, R, lev)
      BY <1>3, <2>1, <2>2, LadderEnds
    <3>. QED BY <2>1, <3>1, <3>2
  <2>3. CASE i \notin stop /\ c # n /\ i \in own
    <3>. DEFINE t == w[nxt[i]][c + 1]
                b == n - (c + 1)
    <3>1. c + 1 \in 0..n /\ b \in Nat /\ b + 1 = n - c
      BY <2>3, SMT
    <3>2. t \in Seq(X) /\ Ladder(t, R[nxt[i]], b, R, lev) /\ nxt[i] \in D
      BY <1>5, <2>3, <3>1
    <3>3. w[i][c] = <<lev[i]>> \o t
      BY <1>4, <2>3
    <3>4. /\ R[i] = R[nxt[i]] \cup {i} /\ i \notin R[nxt[i]] /\ lev[i] \in X
          /\ IsFiniteSet(R[nxt[i]]) /\ \A j \in R[nxt[i]] : R[j] \subseteq R[nxt[i]]
      <4>1. R[i] = R[nxt[i]] \cup {i} /\ i \notin R[nxt[i]] /\ lev[i] \in X
        BY <1>3, <2>3
      <4>2. IsFiniteSet(R[nxt[i]]) /\ \A j \in R[nxt[i]] : R[j] \subseteq R[nxt[i]]
        BY <3>2, Zenon
      <4>. QED BY <4>1, <4>2
    <3>. HIDE DEF t, b
    <3>5. Ladder(<<lev[i]>> \o t, R[nxt[i]] \cup {i}, b + 1, R, lev) /\ <<lev[i]>> \o t \in Seq(X)
      BY <3>1, <3>2, <3>4, LadderGrows
    <3>. QED BY <3>1, <3>3, <3>4, <3>5
  <2>4. CASE i \notin stop /\ c # n /\ i \notin own
    <3>1. w[i][c] = w[nxt[i]][c] /\ R[i] = R[nxt[i]]
      BY <1>3, <1>4, <2>4
    <3>2. w[nxt[i]][c] \in Seq(X) /\ Ladder(w[nxt[i]][c], R[nxt[i]], n - c, R, lev)
      BY <1>5, <2>4
    <3>. QED BY <3>1, <3>2
  <2>. QED BY <2>2, <2>3, <2>4
<1>. QED BY <1>3, <1>6

(* depth_bids(): down from the best bid, until below the band.             *)
LEMMA BidLadder ==
  ASSUME NEW L, NEW n \in Nat, NEW b \in Levels \cup {None}, NEW R, NEW lev,
         R = [i \in Levels \cup {None} |-> {j \in Owned(L, "Buy") : j <= i}],
         lev = [i \in Levels |-> BookLevel(L, i)]
  PROVE  Ladder(depth_bids(L, b, n), R[b], n, R, lev)
<1>. DEFINE D == Levels \cup {None}
            own == Owned(L, "Buy")
            Rhs(w) == [i \in D |-> [c \in 0..n |->
                         IF i = None \/ c = n THEN <<>>
                         ELSE IF i \in own THEN <<BookLevel(L, i)>> \o w[i - 1][c + 1]
                              ELSE w[i - 1][c]]]
            nxt == [i \in D |-> i - 1]
            h == [i \in D |-> i + 1]
            X == {lev[i] : i \in own}
            walk == CHOOSE w : w = Rhs(w)
<1>1. depth_bids(L, b, n) = walk[b][0]
  BY Zenon DEF depth_bids
<1>2. own \in SUBSET Levels
  BY DEF Owned
<1>3. ASSUME NEW w PROVE Rhs(w) = [i \in D |-> Row(w[nxt[i]], i, {None}, own, lev, n)]
  <2>1. ASSUME NEW i \in D
        PROVE  Row(w[nxt[i]], i, {None}, own, lev, n) =
                 [c \in 0..n |-> IF i = None \/ c = n THEN <<>>
                                 ELSE IF i \in own THEN <<BookLevel(L, i)>> \o w[i - 1][c + 1]
                                      ELSE w[i - 1][c]]
    <3>1. nxt[i] = i - 1
      OBVIOUS
    <3>2. i \in own => lev[i] = BookLevel(L, i)
      BY <1>2
    <3>. HIDE DEF own, nxt, D
    <3>3. CASE i \in own
      BY <3>1, <3>2, <3>3 DEF Row
    <3>4. CASE i \notin own
      BY <3>1, <3>4 DEF Row
    <3>. QED BY <3>3, <3>4
  <2>. HIDE DEF own, nxt, D
  <2>. QED BY <2>1, Zenon
<1>4. \A i \in D : i \in Int /\ (i \notin {None} => i \in Levels /\ i \in Nat /\ i # None)
  BY LevelsFinite DEF None
<1>5. h \in [D -> Nat] /\ \A i \in D : h[i] < NumLevels + 1
  <2>1. \A i \in D : i + 1 \in Nat /\ i + 1 < NumLevels + 1
    BY <1>4, BandType, SMT DEF Levels, None
  <2>. HIDE DEF D
  <2>. QED BY <2>1
<1>6. \A i \in D : i \notin {None} => nxt[i] \in D /\ h[nxt[i]] < h[i]
  <2>. SUFFICES ASSUME NEW i \in D, i \notin {None} PROVE nxt[i] \in D /\ h[nxt[i]] < h[i]
    OBVIOUS
  <2>1. i - 1 \in D /\ i - 1 + 1 < i + 1
    BY <1>4, BandType, SMT DEF Levels, None
  <2>. HIDE DEF D
  <2>. QED BY <2>1
<1>7. \E w : w = Rhs(w)
  <2>1. NumLevels + 1 \in Nat
    BY BandType, SMT
  <2>. HIDE DEF nxt, h, own, D
  <2>2. PICK w : IsWalk(w, D, {None}, own, lev, n, nxt)
    BY <1>5, <1>6, <2>1, WalkExists
  <2>3. w = Rhs(w)
    BY <1>3, <2>2 DEF IsWalk
  <2>. QED BY <2>3
<1>8. IsWalk(walk, D, {None}, own, lev, n, nxt)
  <2>. HIDE DEF Rhs, nxt, own, D
  <2>1. walk = Rhs(walk)
    BY <1>7
  <2>. HIDE DEF walk
  <2>. QED BY <1>3, <2>1 DEF IsWalk
<1>9. \A i \in D : R[i] \in SUBSET own /\ IsFiniteSet(R[i]) /\ \A j \in own : j \in R[i] <=> j <= i
  <2>1. \A i \in D : R[i] = {j \in own : j <= i}
    OBVIOUS
  <2>2. IsFiniteSet(own)
    BY <1>2, LevelsFinite, FS_Subset
  <2>. HIDE DEF own, D
  <2>. QED BY <2>1, <2>2, FS_Subset
<1>. HIDE DEF own, walk
<1>10. \A i \in D : i \in {None} => R[i] = {}
  <2>1. \A j \in own : ~(j <= None)
    BY <1>2, LevelsFinite, SMT DEF None
  <2>. HIDE DEF D
  <2>. QED BY <1>9, <2>1
<1>11. ASSUME NEW i \in D, i \notin {None}
       PROVE  /\ i \in own => R[i] = R[nxt[i]] \cup {i} /\ i \notin R[nxt[i]]
              /\ i \notin own => R[i] = R[nxt[i]]
  <2>1. nxt[i] = i - 1 /\ nxt[i] \in D
    BY <1>6, <1>11
  <2>2. \A j \in own : (j <= i <=> j <= i - 1 \/ j = i) /\ (j = i => ~(j <= i - 1))
    BY <1>2, <1>4, LevelsFinite, SMT
  <2>3. i <= i
    BY <1>4, SMT
  <2>. HIDE DEF nxt, D
  <2>4. /\ R[i] \in SUBSET own /\ R[i - 1] \in SUBSET own
        /\ \A j \in own : (j \in R[i] <=> j <= i) /\ (j \in R[i - 1] <=> j <= i - 1)
    BY <1>9, <1>11, <2>1
  <2>. DEFINE P == R[i]
              Q == R[i - 1]
  <2>. HIDE DEF P, Q
  <2>5. /\ P \in SUBSET own /\ Q \in SUBSET own
        /\ \A j \in own : (j \in P <=> j \in Q \/ j = i) /\ (j = i => j \notin Q)
    BY <2>2, <2>4, Zenon DEF P, Q
  <2>6. (i \in own => P = Q \cup {i} /\ i \notin Q) /\ (i \notin own => P = Q)
    BY <2>5
  <2>. QED BY <2>1, <2>6 DEF P, Q
<1>12. ASSUME NEW i \in D, NEW j \in R[i] PROVE R[j] \subseteq R[i]
  <2>1. j \in own /\ j \in D /\ j <= i
    BY <1>2, <1>9
  <2>2. \A m \in own : m <= j => m <= i
    BY <1>2, <1>4, <2>1, LevelsFinite, SMT
  <2>. HIDE DEF D
  <2>. QED BY <1>9, <2>1, <2>2
<1>13. \A i \in own : lev[i] \in X
  OBVIOUS
<1>14. Ladders(walk, D, n, X, R, lev)
  <2>1. Leads(D, {None}, nxt, h)
    BY <1>5, <1>6, Zenon DEF Leads
  <2>2. Remain(D, {None}, own, nxt, R)
    <3>1. \A i \in D : IsFiniteSet(R[i]) /\ \A j \in R[i] : R[j] \subseteq R[i]
      BY <1>9, <1>12
    <3>. HIDE DEF nxt, D
    <3>. QED BY <1>10, <1>11, <3>1 DEF Remain
  <2>. HIDE DEF nxt, h, X, D
  <2>. QED BY <1>8, <1>13, <2>1, <2>2, WalkRanks
<1>15. 0 \in 0..n /\ n - 0 = n
  BY SMT
<1>. QED BY <1>1, <1>14, <1>15 DEF Ladders

(* depth_asks(): up from the best ask, until above the band.               *)
LEMMA AskLadder ==
  ASSUME NEW L, NEW n \in Nat, NEW b \in Levels \cup {None, NumLevels}, NEW R, NEW lev,
         R = [i \in Levels \cup {None, NumLevels} |->
                {j \in Owned(L, "Sell") : i \in Levels /\ i <= j}],
         lev = [i \in Levels |-> BookLevel(L, i)]
  PROVE  Ladder(depth_asks(L, b, n), R[b], n, R, lev)
<1>. DEFINE D == Levels \cup {None, NumLevels}
            stop == D \ Levels
            own == Owned(L, "Sell")
            Rhs(w) == [i \in D |-> [c \in 0..n |->
                         IF i \notin Levels \/ c = n THEN <<>>
                         ELSE IF i \in own THEN <<BookLevel(L, i)>> \o w[i + 1][c + 1]
                              ELSE w[i + 1][c]]]
            nxt == [i \in D |-> i + 1]
            h == [i \in D |-> NumLevels - i]
            X == {lev[i] : i \in own}
            walk == CHOOSE w : w = Rhs(w)
<1>1. depth_asks(L, b, n) = walk[b][0]
  BY Zenon DEF depth_asks
<1>2. own \in SUBSET Levels
  BY DEF Owned
<1>3. ASSUME NEW w PROVE Rhs(w) = [i \in D |-> Row(w[nxt[i]], i, stop, own, lev, n)]
  <2>1. ASSUME NEW i \in D
        PROVE  Row(w[nxt[i]], i, stop, own, lev, n) =
                 [c \in 0..n |-> IF i \notin Levels \/ c = n THEN <<>>
                                 ELSE IF i \in own THEN <<BookLevel(L, i)>> \o w[i + 1][c + 1]
                                      ELSE w[i + 1][c]]
    <3>1. nxt[i] = i + 1 /\ (i \in stop <=> i \notin Levels)
      OBVIOUS
    <3>2. i \in own => lev[i] = BookLevel(L, i)
      BY <1>2
    <3>. HIDE DEF own, nxt, D, stop
    <3>3. CASE i \in own
      BY <3>1, <3>2, <3>3 DEF Row
    <3>4. CASE i \notin own
      BY <3>1, <3>4 DEF Row
    <3>. QED BY <3>3, <3>4
  <2>. HIDE DEF own, nxt, D, stop
  <2>. QED BY <2>1, Zenon
<1>4. \A i \in D : i \in Int /\ (i \notin stop <=> i \in Levels)
  BY LevelsFinite, BandType DEF None
<1>5. h \in [D -> Nat] /\ \A i \in D : h[i] < NumLevels + 2
  <2>1. \A i \in D : NumLevels - i \in Nat /\ NumLevels - i < NumLevels + 2
    BY <1>4, BandType, SMT DEF Levels, None
  <2>. HIDE DEF D
  <2>. QED BY <2>1
<1>6. \A i \in D : i \notin stop => nxt[i] \in D /\ h[nxt[i]] < h[i]
  <2>. SUFFICES ASSUME NEW i \in D, i \notin stop PROVE nxt[i] \in D /\ h[nxt[i]] < h[i]
    OBVIOUS
  <2>1. i + 1 \in D /\ NumLevels - (i + 1) < NumLevels - i
    BY <1>4, BandType, SMT DEF Levels, None
  <2>. HIDE DEF D
  <2>. QED BY <2>1
<1>7. \E w : w = Rhs(w)
  <2>1. NumLevels + 2 \in Nat
    BY BandType, SMT
  <2>. HIDE DEF nxt, h, own, D, stop
  <2>2. PICK w : IsWalk(w, D, stop, own, lev, n, nxt)
    BY <1>5, <1>6, <2>1, WalkExists
  <2>3. w = Rhs(w)
    BY <1>3, <2>2 DEF IsWalk
  <2>. QED BY <2>3
<1>8. IsWalk(walk, D, stop, own, lev, n, nxt)
  <2>. HIDE DEF Rhs, nxt, own, D, stop
  <2>1. walk = Rhs(walk)
    BY <1>7
  <2>. HIDE DEF walk
  <2>. QED BY <1>3, <2>1 DEF IsWalk
<1>9. \A i \in D : R[i] \in SUBSET own /\ IsFiniteSet(R[i])
                   /\ \A j \in own : j \in R[i] <=> i \in Levels /\ i <= j
  <2>1. \A i \in D : R[i] = {j \in own : i \in Levels /\ i <= j}
    OBVIOUS
  <2>2. IsFiniteSet(own)
    BY <1>2, LevelsFinite, FS_Subset
  <2>. HIDE DEF own, D
  <2>. QED BY <2>1, <2>2, FS_Subset
<1>. HIDE DEF own, walk
<1>10. \A i \in D : i \in stop => R[i] = {}
  <2>. HIDE DEF D, stop
  <2>. QED BY <1>4, <1>9
<1>11. ASSUME NEW i \in D, i \notin stop
       PROVE  /\ i \in own => R[i] = R[nxt[i]] \cup {i} /\ i \notin R[nxt[i]]
              /\ i \notin own => R[i] = R[nxt[i]]
  <2>1. nxt[i] = i + 1 /\ nxt[i] \in D /\ i \in Levels
    BY <1>4, <1>6, <1>11
  <2>2. \A j \in own : /\ i <= j <=> (i + 1 \in Levels /\ i + 1 <= j) \/ j = i
                       /\ j = i => ~(i + 1 <= j)
    <3>1. \A j \in own : j \in 0..(NumLevels - 1)
      BY <1>2 DEF Levels
    <3>. HIDE DEF nxt, D, stop
    <3>. QED BY <2>1, <3>1, BandType, SMT DEF Levels
  <2>. HIDE DEF nxt, D, stop
  <2>4. /\ R[i] \in SUBSET own /\ R[i + 1] \in SUBSET own
        /\ \A j \in own : /\ j \in R[i] <=> i <= j
                          /\ j \in R[i + 1] <=> i + 1 \in Levels /\ i + 1 <= j
    BY <1>9, <1>11, <2>1
  <2>. DEFINE P == R[i]
              Q == R[i + 1]
  <2>. HIDE DEF P, Q
  <2>5. /\ P \in SUBSET own /\ Q \in SUBSET own
        /\ \A j \in own : (j \in P <=> j \in Q \/ j = i) /\ (j = i => j \notin Q)
    BY <2>2, <2>4, Zenon DEF P, Q
  <2>6. (i \in own => P = Q \cup {i} /\ i \notin Q) /\ (i \notin own => P = Q)
    BY <2>5
  <2>. QED BY <2>1, <2>6 DEF P, Q
<1>12. ASSUME NEW i \in D, NEW j \in R[i] PROVE R[j] \subseteq R[i]
  <2>1. j \in own /\ j \in D /\ i \in Levels /\ i <= j
    BY <1>2, <1>9
  <2>2. \A m \in own : j <= m => i <= m
    BY <1>2, <1>4, <2>1, LevelsFinite, SMT
  <2>. HIDE DEF D
  <2>. QED BY <1>9, <2>1, <2>2
<1>13. \A i \in own : lev[i] \in X
  OBVIOUS
<1>14. Ladders(walk, D, n, X, R, lev)
  <2>1. Leads(D, stop, nxt, h)
    BY <1>5, <1>6, Zenon DEF Leads
  <2>2. Remain(D, stop, own, nxt, R)
    <3>1. \A i \in D : IsFiniteSet(R[i]) /\ \A j \in R[i] : R[j] \subseteq R[i]
      BY <1>9, <1>12
    <3>. HIDE DEF nxt, D, stop
    <3>. QED BY <1>10, <1>11, <3>1 DEF Remain
  <2>. HIDE DEF nxt, h, X, D, stop
  <2>. QED BY <1>8, <1>13, <2>1, <2>2, WalkRanks
<1>15. 0 \in 0..n /\ n - 0 = n
  BY SMT
<1>. QED BY <1>1, <1>14, <1>15 DEF Ladders

(* What the rows show: each level of the side, by rank.                    *)
LEMMA RowShows ==
  ASSUME TypeOK, NEW i \in Levels, NEW s, levels[i].side = s
  PROVE  /\ to_index(BookLevel(levels, i).price_ticks) = i
         /\ BookLevel(levels, i).aggregate_size = SizeOn(s, i)
BY PriceOfLevel DEF BookLevel, SizeOn

(* Ask depth_bids() or depth_asks() for any number of rows, at any moment  *)
(* of any history: they are the best levels of the side, best first, none  *)
(* skipped and none of the other side, each with its price and size.       *)
THEOREM LaddersAreExact == Spec => []DepthExact
<1>1. BookInv => DepthExact
  <2>. SUFFICES ASSUME BookInv, NEW n \in 0..NumLevels
                PROVE  /\ Ranked(depth_bids(levels, best_bid_idx, n), "Buy", n, LAMBDA j, i : j > i)
                       /\ Ranked(depth_asks(levels, best_ask_idx, n), "Sell", n, LAMBDA j, i : j < i)
    BY DEF DepthExact
  <2>1. TypeOK /\ BestExact /\ n \in Nat
    BY BandType, SMT DEF BookInv, LevelsConsistent
  <2>2. best_bid_idx \in Levels \cup {None} /\ best_ask_idx \in Levels \cup {None}
    BY <2>1 DEF TypeOK
  <2>. DEFINE lev == [i \in Levels |-> BookLevel(levels, i)]
  <2>3. Ranked(depth_bids(levels, best_bid_idx, n), "Buy", n, LAMBDA j, i : j > i)
    <3>. DEFINE own == Owned(levels, "Buy")
                R == [i \in Levels \cup {None} |-> {j \in own : j <= i}]
                s == depth_bids(levels, best_bid_idx, n)
    <3>1. Ladder(s, R[best_bid_idx], n, R, lev)
      BY <2>1, <2>2, BidLadder
    <3>2. own \in SUBSET Levels /\ \A i \in own : levels[i].side = "Buy"
      BY DEF Owned
    <3>3. R[best_bid_idx] = own
      <4>1. best_bid_idx = Highest(own)
        BY <2>1 DEF BestExact
      <4>2. R[best_bid_idx] = {j \in own : j <= best_bid_idx}
        BY <2>2
      <4>. HIDE DEF own
      <4>3. own # {} => \A j \in own : j <= best_bid_idx
        BY <3>2, <4>1, HighestExists
      <4>. QED BY <4>2, <4>3
    <3>4. ASSUME NEW i \in own PROVE own \ R[i] = {j \in own : j > i}
      <4>1. R[i] = {j \in own : j <= i}
        BY <3>2
      <4>. HIDE DEF own, R
      <4>2. \A j \in own : ~(j <= i) <=> j > i
        BY <3>2, LevelsFinite, SMT
      <4>. QED BY <4>1, <4>2
    <3>5. ASSUME NEW i \in own
          PROVE  to_index(lev[i].price_ticks) = i /\ lev[i].aggregate_size = SizeOn("Buy", i)
      BY <2>1, <3>2, RowShows
    <3>. HIDE DEF s, R, lev
    <3>6. Len(s) = IF n < Cardinality(own) THEN n ELSE Cardinality(own)
      BY <3>1, <3>3 DEF Ladder
    <3>7. ASSUME NEW k \in 1..Len(s)
          PROVE  \E i \in own : /\ Cardinality({j \in own : j > i}) = k - 1
                                /\ to_index(s[k].price_ticks) = i
                                /\ s[k].aggregate_size = SizeOn("Buy", i)
      <4>1. PICK i \in own : Cardinality(own \ R[i]) = k - 1 /\ s[k] = lev[i]
        BY <3>1, <3>3 DEF Ladder
      <4>. HIDE DEF own
      <4>. QED BY <3>4, <3>5, <4>1
    <3>. QED BY <3>6, <3>7 DEF Ranked, s
  <2>4. Ranked(depth_asks(levels, best_ask_idx, n), "Sell", n, LAMBDA j, i : j < i)
    <3>. DEFINE own == Owned(levels, "Sell")
                R == [i \in Levels \cup {None, NumLevels} |->
                        {j \in own : i \in Levels /\ i <= j}]
                s == depth_asks(levels, best_ask_idx, n)
    <3>1. Ladder(s, R[best_ask_idx], n, R, lev)
      BY <2>1, <2>2, AskLadder
    <3>2. own \in SUBSET Levels /\ \A i \in own : levels[i].side = "Sell"
      BY DEF Owned
    <3>3. R[best_ask_idx] = own
      <4>1. best_ask_idx = Lowest(own)
        BY <2>1 DEF BestExact
      <4>2. R[best_ask_idx] = {j \in own : best_ask_idx \in Levels /\ best_ask_idx <= j}
        BY <2>2
      <4>. HIDE DEF own
      <4>3. own # {} => best_ask_idx \in Levels /\ \A j \in own : best_ask_idx <= j
        BY <3>2, <4>1, LowestExists
      <4>. QED BY <4>2, <4>3
    <3>4. ASSUME NEW i \in own PROVE own \ R[i] = {j \in own : j < i}
      <4>1. R[i] = {j \in own : i \in Levels /\ i <= j} /\ i \in Levels
        BY <3>2
      <4>. HIDE DEF own, R
      <4>2. \A j \in own : ~(i <= j) <=> j < i
        BY <3>2, LevelsFinite, SMT
      <4>. QED BY <4>1, <4>2
    <3>5. ASSUME NEW i \in own
          PROVE  to_index(lev[i].price_ticks) = i /\ lev[i].aggregate_size = SizeOn("Sell", i)
      BY <2>1, <3>2, RowShows
    <3>. HIDE DEF s, R, lev
    <3>6. Len(s) = IF n < Cardinality(own) THEN n ELSE Cardinality(own)
      BY <3>1, <3>3 DEF Ladder
    <3>7. ASSUME NEW k \in 1..Len(s)
          PROVE  \E i \in own : /\ Cardinality({j \in own : j < i}) = k - 1
                                /\ to_index(s[k].price_ticks) = i
                                /\ s[k].aggregate_size = SizeOn("Sell", i)
      <4>1. PICK i \in own : Cardinality(own \ R[i]) = k - 1 /\ s[k] = lev[i]
        BY <3>1, <3>3 DEF Ladder
      <4>. HIDE DEF own
      <4>. QED BY <3>4, <3>5, <4>1
    <3>. QED BY <3>6, <3>7 DEF Ranked, s
  <2>. QED BY <2>3, <2>4
<1>. QED BY <1>1, BookInvariance, PTL
=============================================================================
