------------------------- MODULE SpscChannelProofs -------------------------
(***************************************************************************)
(* Proofs about SpscChannel, for every capacity and every number of items: *)
(* the inductive invariant, the safety properties that follow from it, and *)
(* that the channel implements BoundedFifo.                                *)
(***************************************************************************)
EXTENDS SpscChannel, TLAPS

(* The one fact about the capacity that the proofs use.                    *)
LEMMA CapacityFact == Capacity \in Nat /\ Capacity >= 2
BY CapacityAssumption

(* Euclidean division, as the provers know it.                             *)
LEMMA DivMod == ASSUME NEW C \in Nat \ {0}, NEW i \in Nat
                PROVE  /\ i \div C \in Int /\ i % C \in 0..(C - 1)
                       /\ i = C * (i \div C) + (i % C)
BY SMT

(* No multiple of C lies strictly between 0 and C.                         *)
LEMMA NoMultipleBetween == ASSUME NEW C \in Nat \ {0}, NEW d \in Int,
                                  0 < C * d, C * d < C
                           PROVE  FALSE
<1>1. CASE d <= 0
  BY <1>1, SMT
<1>2. CASE d >= 1
  <2>1. PICK e \in Nat : d = e + 1
    BY <1>2, SMT
  <2>2. C * d = C * e + C
    BY <2>1, SMT
  <2>3. C * e >= 0
    BY <2>1, SMT
  <2>. QED BY <2>1, <2>2, <2>3, SMT
<1>. QED BY <1>1, <1>2, SMT

(* Two indices less than Capacity apart use different slots: what makes    *)
(* `index & mask` safe to use on monotonic counters.                       *)
LEMMA SlotsDiffer == ASSUME NEW i \in Nat, NEW j \in Nat, i < j, j < i + Capacity
                     PROVE  Slot(i) # Slot(j)
<1>. SUFFICES ASSUME i % Capacity = j % Capacity PROVE FALSE
  BY DEF Slot
<1>. DEFINE q == i \div Capacity
            r == j \div Capacity
<1>0. Capacity \in Nat \ {0}
  BY CapacityFact, SMT
<1>1. /\ q \in Int /\ r \in Int
      /\ j - i = Capacity * r - Capacity * q
  BY <1>0, DivMod, SMT
<1>2. Capacity * r - Capacity * q = Capacity * (r - q)
  BY <1>0, <1>1, SMT
<1>. HIDE DEF q, r
<1>3. r - q \in Int /\ 0 < Capacity * (r - q) /\ Capacity * (r - q) < Capacity
  BY <1>0, <1>1, <1>2, SMT
<1>. QED BY <1>0, <1>3, NoMultipleBetween

LEMMA SlotType == ASSUME NEW i \in Nat PROVE Slot(i) \in 0..(Capacity - 1)
BY CapacityFact, SMT DEF Slot

-----------------------------------------------------------------------------
LEMMA InitIndInv == Init => IndInv
BY CapacityFact, MaxItemsAssumption, SMT
   DEF Init, IndInv, TypeOK, IndexOrder, AccessCounts, SyncExact, Contents,
       ExactAccounting, Item, None, reads, Slot

(* Each step of the two threads preserves the inductive invariant,         *)
(* whatever item is sent.                                                  *)
LEMMA AnyStep ==
  ASSUME IndInv, (\E x \in Item : Send(x)) \/ Producer \/ Consumer \/ UNCHANGED vars
  PROVE  IndInv'
<1>. USE CapacityFact, MaxItemsAssumption
<1>. USE DEF IndInv, Item, sharedVars, producerVars, consumerVars, historyVars
<1>1. ASSUME NEW x \in Item, Send(x) PROVE IndInv'
  <2>1. TypeOK'
    BY <1>1, SMTT(30) DEF Send, PushEntry, Full, TypeOK, reads
  <2>2. IndexOrder'
    BY <1>1, SMT DEF Send, PushEntry, Full, TypeOK, IndexOrder
  <2>3. AccessCounts'
    BY <1>1, SMT DEF Send, PushEntry, Full, TypeOK, AccessCounts, reads
  <2>4. SyncExact'
    BY <1>1, SMT DEF Send, PushEntry, Full, TypeOK, SyncExact, AccessCounts, reads
  <2>5. Contents'
    BY <1>1, SMTT(30) DEF Send, PushEntry, Full, TypeOK, Contents, IndexOrder, AccessCounts, reads
  <2>6. ExactAccounting'
    BY <1>1, SMT DEF Send, PushEntry, Full, TypeOK, ExactAccounting
  <2>7. occ' \in 0..Capacity /\ (ppc' # "idle" => item' \in 1..MaxItems)
    <3>1. item' = x /\ occ' = occ
      BY <1>1 DEF Send
    <3>. QED BY <1>1, <3>1
  <2>. QED BY <2>1, <2>2, <2>3, <2>4, <2>5, <2>6, <2>7
<1>2. CASE PushReload
  <2>1. TypeOK'
    BY <1>2, SMTT(30) DEF PushReload, LoadableHead, Full, TypeOK, reads
  <2>2. IndexOrder'
    BY <1>2, SMT DEF PushReload, LoadableHead, Full, TypeOK, IndexOrder
  <2>3. AccessCounts'
    BY <1>2, SMT DEF PushReload, LoadableHead, Full, TypeOK, AccessCounts, reads
  <2>4. SyncExact'
    BY <1>2, SMT DEF PushReload, LoadableHead, Full, TypeOK, SyncExact, AccessCounts, reads
  <2>5. Contents'
    BY <1>2, SMTT(30) DEF PushReload, LoadableHead, Full, TypeOK, Contents, IndexOrder, AccessCounts, reads
  <2>6. ExactAccounting'
    BY <1>2, SMT DEF PushReload, LoadableHead, Full, TypeOK, ExactAccounting
  <2>7. occ' \in 0..Capacity /\ (ppc' # "idle" => item' \in 1..MaxItems)
    BY <1>2, SMT DEF PushReload, LoadableHead, Full, TypeOK, IndexOrder, ExactAccounting
  <2>. QED BY <2>1, <2>2, <2>3, <2>4, <2>5, <2>6, <2>7
<1>3. CASE PushWrite
  <2>0. Slot(tail) \in 0..(Capacity - 1)
    BY SlotType DEF TypeOK
  <2>1. TypeOK'
    <3>1. buffer' \in [0..(Capacity - 1) -> Nat]
      BY <1>3, <2>0 DEF PushWrite, TypeOK
    <3>. QED BY <1>3, <3>1, SMTT(30) DEF PushWrite, TypeOK, reads
  <2>2. IndexOrder'
    BY <1>3, SMT DEF PushWrite, TypeOK, IndexOrder
  <2>3. AccessCounts'
    BY <1>3, SMT DEF PushWrite, TypeOK, AccessCounts, reads
  <2>4. SyncExact'
    BY <1>3, SMT DEF PushWrite, TypeOK, SyncExact, AccessCounts, reads
  <2>5. Contents'
    <3>1. /\ head \in Nat /\ tail \in Nat /\ tail < head + Capacity
          /\ buffer \in [0..(Capacity - 1) -> Nat]
      BY <1>3, SMTT(30) DEF PushWrite, TypeOK, IndexOrder
    <3>2. \A i \in head..(tail - 1) : Slot(i) # Slot(tail) /\ Slot(i) \in 0..(Capacity - 1)
      <4>. TAKE i \in head..(tail - 1)
      <4>1. i \in Nat /\ i < tail /\ tail < i + Capacity
        BY <3>1, SMT
      <4>. QED BY <3>1, <4>1, SlotsDiffer, SlotType
    <3>3. \A i \in head..(tail - 1) : buffer'[Slot(i)] = buffer[Slot(i)]
      BY <1>3, <3>1, <3>2 DEF PushWrite
    <3>4. buffer'[Slot(tail)] = item
      BY <1>3, <2>0, <3>1 DEF PushWrite
    <3>. QED BY <1>3, <3>3, <3>4 DEF PushWrite, Contents, reads, Slot
  <2>6. ExactAccounting'
    BY <1>3, SMT DEF PushWrite, TypeOK, ExactAccounting
  <2>7. occ' \in 0..Capacity /\ (ppc' # "idle" => item' \in 1..MaxItems)
    BY <1>3, SMT DEF PushWrite, TypeOK, IndexOrder, ExactAccounting
  <2>. QED BY <2>1, <2>2, <2>3, <2>4, <2>5, <2>6, <2>7
<1>4. CASE PushPublish
  <2>1. TypeOK'
    BY <1>4, SMTT(30) DEF PushPublish, TypeOK, reads
  <2>2. IndexOrder'
    BY <1>4, SMT DEF PushPublish, TypeOK, IndexOrder
  <2>3. AccessCounts'
    <3>1. accepted \in Seq(Nat) /\ item \in Nat /\ accepted' = Append(accepted, item)
      BY <1>4 DEF PushPublish, TypeOK
    <3>2. Len(accepted') = Len(accepted) + 1
      BY <3>1, SMT
    <3>3. /\ writes' = writes /\ tail' = tail + 1 /\ reads' = reads
          /\ ppc = "publish" /\ ppc' = "idle"
      BY <1>4, SMT DEF PushPublish, reads
    <3>4. head' = head /\ cpc' = cpc
      BY <1>4 DEF PushPublish
    <3>. QED BY <3>2, <3>3, <3>4, SMT DEF TypeOK, AccessCounts
  <2>4. SyncExact'
    BY <1>4, SMTT(30) DEF PushPublish, TypeOK, SyncExact, AccessCounts, reads
  <2>5. Contents'
    <3>1. /\ head \in Nat /\ tail \in Nat /\ reads \in Nat /\ reads <= tail
          /\ Len(accepted) = tail /\ tail' = tail + 1
      BY <1>4, SMTT(30) DEF PushPublish, TypeOK, IndexOrder, AccessCounts, reads
    <3>2. /\ \A i \in 1..tail : accepted'[i] = accepted[i]
          /\ accepted'[tail + 1] = item
      <4>1. accepted \in Seq(Nat) /\ item \in Nat /\ accepted' = Append(accepted, item)
        BY <1>4 DEF PushPublish, TypeOK
      <4>. QED BY <3>1, <4>1, SMT
    <3>3. \A i \in 1..reads' : received'[i] = accepted'[i]
      BY <1>4, <3>1, <3>2, SMT DEF PushPublish, Contents, reads
    <3>4. \A i \in head'..(tail' - 1) : buffer'[Slot(i)] = accepted'[i + 1]
      <4>. TAKE i \in head'..(tail' - 1)
      <4>1. CASE i = tail
        BY <1>4, <3>2, <4>1 DEF PushPublish, Contents
      <4>2. CASE i # tail
        <5>1. i \in head..(tail - 1) /\ i + 1 \in 1..tail
          BY <1>4, <3>1, <4>2, SMT DEF PushPublish
        <5>. QED BY <1>4, <3>2, <5>1 DEF PushPublish, Contents
      <4>. QED BY <4>1, <4>2
    <3>. QED BY <1>4, <3>3, <3>4 DEF PushPublish, Contents, Slot
  <2>6. ExactAccounting'
    BY <1>4, SMT DEF PushPublish, TypeOK, ExactAccounting
  <2>7. occ' \in 0..Capacity /\ (ppc' # "idle" => item' \in 1..MaxItems)
    BY <1>4, SMT DEF PushPublish, TypeOK, IndexOrder, ExactAccounting
  <2>. QED BY <2>1, <2>2, <2>3, <2>4, <2>5, <2>6, <2>7
<1>5. CASE BlockRetry
  <2>1. TypeOK'
    BY <1>5, SMTT(30) DEF BlockRetry, PushEntry, Full, TypeOK, reads
  <2>2. IndexOrder'
    BY <1>5, SMT DEF BlockRetry, PushEntry, Full, TypeOK, IndexOrder
  <2>3. AccessCounts'
    BY <1>5, SMT DEF BlockRetry, PushEntry, Full, TypeOK, AccessCounts, reads
  <2>4. SyncExact'
    BY <1>5, SMT DEF BlockRetry, PushEntry, Full, TypeOK, SyncExact, AccessCounts, reads
  <2>5. Contents'
    BY <1>5, SMTT(30) DEF BlockRetry, PushEntry, Full, TypeOK, Contents, IndexOrder, AccessCounts, reads
  <2>6. ExactAccounting'
    BY <1>5, SMT DEF BlockRetry, PushEntry, Full, TypeOK, ExactAccounting
  <2>7. occ' \in 0..Capacity /\ (ppc' # "idle" => item' \in 1..MaxItems)
    BY <1>5, SMT DEF BlockRetry, PushEntry, Full, TypeOK, IndexOrder, ExactAccounting
  <2>. QED BY <2>1, <2>2, <2>3, <2>4, <2>5, <2>6, <2>7
<1>6. CASE Drop
  <2>1. TypeOK'
    BY <1>6, SMTT(30) DEF Drop, TypeOK, reads
  <2>2. IndexOrder'
    BY <1>6, SMT DEF Drop, TypeOK, IndexOrder
  <2>3. AccessCounts'
    BY <1>6, SMT DEF Drop, TypeOK, AccessCounts, reads
  <2>4. SyncExact'
    BY <1>6, SMT DEF Drop, TypeOK, SyncExact, AccessCounts, reads
  <2>5. Contents'
    BY <1>6, SMTT(30) DEF Drop, TypeOK, Contents, IndexOrder, AccessCounts, reads
  <2>6. ExactAccounting'
    BY <1>6, SMT DEF Drop, TypeOK, ExactAccounting
  <2>7. occ' \in 0..Capacity /\ (ppc' # "idle" => item' \in 1..MaxItems)
    BY <1>6, SMT DEF Drop, TypeOK, IndexOrder, ExactAccounting
  <2>. QED BY <2>1, <2>2, <2>3, <2>4, <2>5, <2>6, <2>7
<1>7. CASE SizeApproxByProducer
  <2>1. TypeOK'
    BY <1>7, SMTT(30) DEF SizeApproxByProducer, LoadableHead, TypeOK, IndexOrder, reads
  <2>2. IndexOrder'
    BY <1>7, SMT DEF SizeApproxByProducer, LoadableHead, TypeOK, IndexOrder
  <2>3. AccessCounts'
    BY <1>7, SMT DEF SizeApproxByProducer, LoadableHead, TypeOK, AccessCounts, reads
  <2>4. SyncExact'
    BY <1>7, SMT DEF SizeApproxByProducer, LoadableHead, TypeOK, SyncExact, AccessCounts, reads
  <2>5. Contents'
    BY <1>7, SMTT(30) DEF SizeApproxByProducer, LoadableHead, TypeOK, Contents, IndexOrder, AccessCounts, reads
  <2>6. ExactAccounting'
    BY <1>7, SMT DEF SizeApproxByProducer, LoadableHead, TypeOK, ExactAccounting
  <2>7. occ' \in 0..Capacity /\ (ppc' # "idle" => item' \in 1..MaxItems)
    BY <1>7, SMTT(30) DEF SizeApproxByProducer, LoadableHead, TypeOK, IndexOrder, ExactAccounting
  <2>. QED BY <2>1, <2>2, <2>3, <2>4, <2>5, <2>6, <2>7
<1>8. CASE Receive
  <2>1. TypeOK'
    BY <1>8, SMTT(30) DEF Receive, TypeOK, reads
  <2>2. IndexOrder'
    BY <1>8, SMT DEF Receive, TypeOK, IndexOrder
  <2>3. AccessCounts'
    BY <1>8, SMT DEF Receive, TypeOK, AccessCounts, reads
  <2>4. SyncExact'
    BY <1>8, SMT DEF Receive, TypeOK, SyncExact, AccessCounts, reads
  <2>5. Contents'
    BY <1>8, SMTT(30) DEF Receive, TypeOK, Contents, IndexOrder, AccessCounts, reads
  <2>6. ExactAccounting'
    BY <1>8, SMT DEF Receive, TypeOK, ExactAccounting
  <2>7. occ' \in 0..Capacity /\ (ppc' # "idle" => item' \in 1..MaxItems)
    BY <1>8, SMT DEF Receive, TypeOK, IndexOrder, ExactAccounting
  <2>. QED BY <2>1, <2>2, <2>3, <2>4, <2>5, <2>6, <2>7
<1>9. CASE PopReload
  <2>1. TypeOK'
    BY <1>9, SMTT(30) DEF PopReload, LoadableTail, TypeOK, reads
  <2>2. IndexOrder'
    BY <1>9, SMT DEF PopReload, LoadableTail, TypeOK, IndexOrder
  <2>3. AccessCounts'
    BY <1>9, SMT DEF PopReload, LoadableTail, TypeOK, AccessCounts, reads
  <2>4. SyncExact'
    BY <1>9, SMT DEF PopReload, LoadableTail, TypeOK, SyncExact, AccessCounts, reads
  <2>5. Contents'
    BY <1>9, SMTT(30) DEF PopReload, LoadableTail, TypeOK, Contents, IndexOrder, AccessCounts, reads
  <2>6. ExactAccounting'
    BY <1>9, SMT DEF PopReload, LoadableTail, TypeOK, ExactAccounting
  <2>7. occ' \in 0..Capacity /\ (ppc' # "idle" => item' \in 1..MaxItems)
    BY <1>9, SMT DEF PopReload, LoadableTail, TypeOK, IndexOrder, ExactAccounting
  <2>. QED BY <2>1, <2>2, <2>3, <2>4, <2>5, <2>6, <2>7
<1>10. CASE PopRead
  <2>0. /\ buffer[Slot(head)] \in Nat
        /\ received \in Seq(Nat) /\ received' = Append(received, buffer[Slot(head)])
    BY <1>10, SlotType DEF PopRead, TypeOK
  <2>1. TypeOK'
    <3>1. received' \in Seq(Nat)
      BY <2>0, SMT
    <3>2. cpc' = "release"
      BY <1>10 DEF PopRead
    <3>. QED BY <1>10, <3>1, <3>2, Zenon DEF PopRead, TypeOK
  <2>2. IndexOrder'
    BY <1>10, SMT DEF PopRead, TypeOK, IndexOrder
  <2>3. AccessCounts'
    <3>1. Len(received') = Len(received) + 1
      BY <2>0, SMT
    <3>. QED BY <1>10, <3>1, SMT DEF PopRead, TypeOK, AccessCounts, reads
  <2>4. SyncExact'
    BY <1>10, SMT DEF PopRead, TypeOK, SyncExact, AccessCounts, reads
  <2>5. Contents'
    BY <1>10, SMTT(60) DEF PopRead, TypeOK, Contents, IndexOrder, AccessCounts, reads
  <2>6. ExactAccounting'
    BY <1>10, SMT DEF PopRead, TypeOK, ExactAccounting
  <2>7. occ' \in 0..Capacity /\ (ppc' # "idle" => item' \in 1..MaxItems)
    BY <1>10, SMT DEF PopRead, TypeOK, IndexOrder, ExactAccounting
  <2>. QED BY <2>1, <2>2, <2>3, <2>4, <2>5, <2>6, <2>7
<1>11. CASE PopRelease
  <2>1. TypeOK'
    BY <1>11, SMTT(60) DEF PopRelease, TypeOK, reads
  <2>2. IndexOrder'
    BY <1>11, SMT DEF PopRelease, TypeOK, IndexOrder
  <2>3. AccessCounts'
    BY <1>11, SMT DEF PopRelease, TypeOK, AccessCounts, reads
  <2>4. SyncExact'
    BY <1>11, SMT DEF PopRelease, TypeOK, SyncExact, AccessCounts, reads
  <2>5. Contents'
    BY <1>11, SMTT(60) DEF PopRelease, TypeOK, Contents, IndexOrder, AccessCounts, reads
  <2>6. ExactAccounting'
    BY <1>11, SMT DEF PopRelease, TypeOK, ExactAccounting
  <2>7. occ' \in 0..Capacity /\ (ppc' # "idle" => item' \in 1..MaxItems)
    BY <1>11, SMT DEF PopRelease, TypeOK, IndexOrder, ExactAccounting
  <2>. QED BY <2>1, <2>2, <2>3, <2>4, <2>5, <2>6, <2>7
<1>12. CASE SizeApproxByConsumer
  <2>1. TypeOK'
    BY <1>12, SMTT(30) DEF SizeApproxByConsumer, LoadableTail, TypeOK, IndexOrder, reads
  <2>2. IndexOrder'
    BY <1>12, SMT DEF SizeApproxByConsumer, LoadableTail, TypeOK, IndexOrder
  <2>3. AccessCounts'
    BY <1>12, SMT DEF SizeApproxByConsumer, LoadableTail, TypeOK, AccessCounts, reads
  <2>4. SyncExact'
    BY <1>12, SMT DEF SizeApproxByConsumer, LoadableTail, TypeOK, SyncExact, AccessCounts, reads
  <2>5. Contents'
    BY <1>12, SMTT(30) DEF SizeApproxByConsumer, LoadableTail, TypeOK, Contents, IndexOrder, AccessCounts, reads
  <2>6. ExactAccounting'
    BY <1>12, SMT DEF SizeApproxByConsumer, LoadableTail, TypeOK, ExactAccounting
  <2>7. occ' \in 0..Capacity /\ (ppc' # "idle" => item' \in 1..MaxItems)
    BY <1>12, SMTT(30) DEF SizeApproxByConsumer, LoadableTail, TypeOK, IndexOrder, ExactAccounting
  <2>. QED BY <2>1, <2>2, <2>3, <2>4, <2>5, <2>6, <2>7
<1>13. CASE UNCHANGED vars
  <2>1. TypeOK'
    BY <1>13, SMTT(30) DEF vars, TypeOK, reads
  <2>2. IndexOrder'
    BY <1>13, SMT DEF vars, TypeOK, IndexOrder
  <2>3. AccessCounts'
    BY <1>13, SMT DEF vars, TypeOK, AccessCounts, reads
  <2>4. SyncExact'
    BY <1>13, SMT DEF vars, TypeOK, SyncExact, AccessCounts, reads
  <2>5. Contents'
    BY <1>13, SMTT(30) DEF vars, TypeOK, Contents, IndexOrder, AccessCounts, reads
  <2>6. ExactAccounting'
    BY <1>13, SMT DEF vars, TypeOK, ExactAccounting
  <2>7. occ' \in 0..Capacity /\ (ppc' # "idle" => item' \in 1..MaxItems)
    BY <1>13, SMT DEF vars, TypeOK, IndexOrder, ExactAccounting
  <2>. QED BY <2>1, <2>2, <2>3, <2>4, <2>5, <2>6, <2>7
<1>. QED
  BY <1>1, <1>2, <1>3, <1>4, <1>5, <1>6, <1>7, <1>8, <1>9, <1>10, <1>11, <1>12, <1>13
     DEF Producer, Consumer

LEMMA StepIndInv == IndInv /\ [Next]_vars => IndInv'
<1>. SUFFICES ASSUME IndInv, [Next]_vars PROVE IndInv'
  OBVIOUS
<1>1. offered < MaxItems => offered + 1 \in Item
  BY MaxItemsAssumption, SMT DEF IndInv, TypeOK, Item
<1>. QED BY <1>1, AnyStep DEF Next

(* The inductive invariant holds in every reachable state.                 *)
THEOREM Invariance == Spec => []IndInv
BY InitIndInv, StepIndInv, PTL DEF Spec

(* Every variable of the channel keeps its type.                           *)
THEOREM TypeCorrect == Spec => []TypeOK
<1>1. IndInv => TypeOK
  BY DEF IndInv
<1>. QED BY <1>1, Invariance, PTL

-----------------------------------------------------------------------------
LEMMA NoRaceNow == IndInv => NoDataRace
<1>. SUFFICES ASSUME IndInv PROVE NoDataRace
  OBVIOUS
<1>0. /\ head \in Nat /\ tail \in Nat /\ reads \in Nat /\ writes \in Nat
      /\ cached_head \in Nat /\ cached_tail \in Nat
      /\ Capacity \in Nat
  BY CapacityFact, SMT DEF IndInv, TypeOK, reads
<1>1. ProducerView = p_seen /\ ConsumerView = c_seen
  BY SMT DEF IndInv, TypeOK, SyncExact, ProducerView, ConsumerView
<1>2. ASSUME ppc = "write", NEW j \in 0..(reads - 1), Slot(j) = Slot(tail)
      PROVE  j < ProducerView
  <2>. SUFFICES ASSUME p_seen <= j PROVE FALSE
    BY <1>0, <1>1, SMT DEF IndInv, TypeOK
  <2>1. j \in Nat /\ j < tail /\ tail < j + Capacity
    BY <1>0, <1>2, SMT DEF IndInv, TypeOK, IndexOrder, AccessCounts
  <2>. QED BY <1>0, <1>2, <2>1, SlotsDiffer
<1>3. ASSUME cpc = "read", NEW i \in 0..(writes - 1), Slot(i) = Slot(head)
      PROVE  i < ConsumerView
  <2>. SUFFICES ASSUME c_seen <= i PROVE FALSE
    BY <1>0, <1>1, SMT DEF IndInv, TypeOK
  <2>1. i \in Nat /\ head < i /\ i < head + Capacity
    BY <1>0, <1>3, SMT DEF IndInv, TypeOK, IndexOrder, AccessCounts
  <2>. QED BY <1>0, <1>3, <2>1, SlotsDiffer
<1>4. ASSUME ppc = "write", cpc = "read", Slot(head) = Slot(tail)
      PROVE  FALSE
  <2>1. head < tail /\ tail < head + Capacity
    BY <1>0, <1>4, SMT DEF IndInv, TypeOK, IndexOrder
  <2>. QED BY <1>0, <1>4, <2>1, SlotsDiffer
<1>. QED BY <1>2, <1>3, <1>4 DEF NoDataRace

(* The plain accesses of push() and pop() to buffer_ never race, whatever  *)
(* stale index values the atomic loads return.                             *)
THEOREM RaceFree == Spec => []NoDataRace
BY NoRaceNow, Invariance, PTL

LEMMA FifoNow == IndInv => FifoDelivery
<1>. SUFFICES ASSUME IndInv PROVE FifoDelivery
  OBVIOUS
<1>1. reads <= Len(accepted)
  BY CapacityFact, SMT DEF IndInv, TypeOK, IndexOrder, AccessCounts, reads
<1>. QED BY <1>1 DEF IndInv, Contents, FifoDelivery

(* What pop() returns is what push() accepted: once each and in order.     *)
THEOREM DeliversInOrder == Spec => []FifoDelivery
BY FifoNow, Invariance, PTL

(* offered = accepted + dropped (+ the one in flight), and Block drops none.*)
THEOREM CountsEveryItem == Spec => []ExactAccounting
<1>1. IndInv => ExactAccounting
  BY DEF IndInv
<1>. QED BY <1>1, Invariance, PTL

(* Occupancy, exact or sampled by size_approx(), stays within the ring.    *)
THEOREM OccupancyStaysBounded == Spec => []OccupancyBounded
<1>1. IndInv => OccupancyBounded
  BY CapacityFact, SMT DEF IndInv, TypeOK, IndexOrder, OccupancyBounded
<1>. QED BY <1>1, Invariance, PTL

-----------------------------------------------------------------------------
(* Every step of the channel is a step of the bounded FIFO or leaves it    *)
(* unchanged.                                                              *)
LEMMA StepImplementsFifo == IndInv /\ [Next]_vars => [Fifo!Next]_(Fifo!vars)
<1>. SUFFICES ASSUME IndInv, [Next]_vars PROVE [Fifo!Next]_(Fifo!vars)
  OBVIOUS
<1>. USE DEF Fifo!vars, sharedVars, producerVars, consumerVars, historyVars
<1>1. CASE PushPublish
  <2>1. Len(accepted) - Len(received) < Capacity
    BY <1>1, CapacityFact, SMTT(30) DEF PushPublish, IndInv, TypeOK, IndexOrder, AccessCounts, reads
  <2>2. item \in Item
    BY <1>1 DEF PushPublish, IndInv
  <2>3. Fifo!Accept(item)
    BY <1>1, <2>1 DEF PushPublish, Fifo!Accept
  <2>. QED BY <2>2, <2>3 DEF Fifo!Next
<1>2. CASE Drop
  BY <1>2 DEF Drop, Fifo!Next, Fifo!Refuse
<1>3. CASE PopRead
  <2>1. /\ head \in Nat /\ Len(received) = head /\ Len(received) < Len(accepted)
        /\ head \in head..(tail - 1)
    BY <1>3, CapacityFact, SMT DEF PopRead, IndInv, TypeOK, IndexOrder, AccessCounts, reads
  <2>2. buffer[Slot(head)] = accepted[Len(received) + 1]
    BY <2>1 DEF IndInv, Contents
  <2>3. Fifo!Deliver
    BY <1>3, <2>1, <2>2 DEF PopRead, Fifo!Deliver
  <2>. QED BY <2>3 DEF Fifo!Next
<1>4. CASE offered < MaxItems /\ Send(offered + 1)
  BY <1>4 DEF Send
<1>5. CASE \/ PushReload \/ PushWrite \/ BlockRetry \/ SizeApproxByProducer
           \/ Receive \/ PopReload \/ PopRelease \/ SizeApproxByConsumer
  BY <1>5 DEF PushReload, PushWrite, BlockRetry, SizeApproxByProducer,
              Receive, PopReload, PopRelease, SizeApproxByConsumer
<1>6. CASE UNCHANGED vars
  BY <1>6 DEF vars
<1>. QED BY <1>1, <1>2, <1>3, <1>4, <1>5, <1>6 DEF Next, Producer, Consumer

(* The lock-free channel implements the bounded FIFO.                      *)
THEOREM Implementation == Spec => ImplementsFifo
<1>1. Init => Fifo!Init
  BY DEF Init, Fifo!Init
<1>. QED BY <1>1, Invariance, StepImplementsFifo, PTL DEF Spec, ImplementsFifo, Fifo!Spec
=============================================================================
