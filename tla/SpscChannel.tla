---------------------------- MODULE SpscChannel ----------------------------
(***************************************************************************)
(* The lock-free single-producer/single-consumer ring buffer and the       *)
(* backpressure channel around it (include/feedhandler/spsc_ring_buffer).  *)
(*                                                                         *)
(* Every access to shared memory is a step.  Memory is C++ memory: a load  *)
(* of the other thread's index may return any value that thread has stored *)
(* since the newest one this thread has already seen (coherence), and it   *)
(* tells the loading thread about the other one's payload accesses only as *)
(* far as the acquire load and the release store it reads from say so.     *)
(* headSync[h] (tailSync[t]) is how many payload reads (writes) precede    *)
(* the release store of h (of t).  Counters are monotonic 64-bit integers  *)
(* in the code and are not expected to wrap; here they are naturals.       *)
(***************************************************************************)
EXTENDS Integers, Sequences

CONSTANTS Capacity,   \* slots of the ring
          MaxItems    \* bound: how many items are sent in a behaviour

(* spsc_ring_buffer.hpp:31-32, the static_asserts on Capacity.             *)
ASSUME CapacityAssumption == /\ Capacity \in Nat /\ Capacity >= 2
                             /\ \E k \in 1..30 : Capacity = 2^k
ASSUME MaxItemsAssumption == MaxItems \in Nat

VARIABLES
  policy,       \* "Block" or "Drop"; fixed at construction
  head, tail,   \* the two shared indices, stored by consumer and producer
  buffer,       \* the slots
  headSync,     \* stored head value -> payload reads released with it
  tailSync,     \* stored tail value -> payload writes released with it
  ppc,          \* where the producer is in send()/push()
  item,         \* the argument of send()
  cached_head,  \* producer's private copy of head
  p_seen,       \* the newest head the producer has loaded
  writes,       \* payload writes performed
  cpc,          \* where the consumer is in pop()
  cached_tail,  \* consumer's private copy of tail
  c_seen,       \* the newest tail the consumer has loaded
  dropped,      \* the exact drop counter
  occ,          \* the last result of size_approx()
  offered,      \* history: how many sends were begun
  accepted,     \* history: the items that entered the ring, in order
  received      \* history: the items popped, in order

sharedVars   == <<head, tail, buffer, headSync, tailSync>>
producerVars == <<ppc, item, cached_head, p_seen, writes>>
consumerVars == <<cpc, cached_tail, c_seen>>
historyVars  == <<offered, accepted, received>>
vars == <<policy, sharedVars, producerVars, consumerVars, dropped, occ, historyVars>>

Item == 1..MaxItems
None == 0               \* an unset payload
reads == Len(received)  \* payload reads performed
Slot(i) == i % Capacity

Init == /\ policy \in {"Block", "Drop"}
        /\ head = 0 /\ tail = 0
        /\ buffer = [s \in 0..(Capacity - 1) |-> None]
        /\ headSync = [h \in {0} |-> 0] /\ tailSync = [t \in {0} |-> 0]
        /\ ppc = "idle" /\ item = None /\ cached_head = 0 /\ p_seen = 0 /\ writes = 0
        /\ cpc = "idle" /\ cached_tail = 0 /\ c_seen = 0
        /\ dropped = 0 /\ occ = 0
        /\ offered = 0 /\ accepted = <<>> /\ received = <<>>

-----------------------------------------------------------------------------
(* What a load of the other side's index may return.                       *)
LoadableHead == p_seen..head
LoadableTail == c_seen..tail

(* What the acquire loads have made known: how many payload reads happen   *)
(* before the producer's next step, and payload writes before the          *)
(* consumer's.                                                             *)
ProducerViewRelaxed == 0   \* a fault: nothing is acquired with head
ProducerView == headSync[p_seen]

ConsumerView == tailSync[c_seen]

(* The test of push(): is the ring full as far as head value h tells?      *)
FullOffByOne(h) == \* a fault
   tail - h > Capacity
Full(h) == tail - h >= Capacity

(* Entering push(): the fast path trusts the cached head, the slow path    *)
(* reloads it first.                                                       *)
PushEntry == IF Full(cached_head) THEN "reload" ELSE "write"

(* send(item) up to the first access push() makes to shared memory.        *)
Send(m) == /\ ppc = "idle"
           /\ item' = m
           /\ offered' = offered + 1
           /\ ppc' = PushEntry
           /\ UNCHANGED <<policy, sharedVars, cached_head, p_seen, writes,
                          consumerVars, dropped, occ, accepted, received>>

PushReload == /\ ppc = "reload"
              /\ \E h \in LoadableHead :
                   /\ p_seen' = h
                   /\ cached_head' = h
                   /\ ppc' = IF Full(h) THEN "full" ELSE "write"
              /\ UNCHANGED <<policy, sharedVars, item, writes, consumerVars,
                             dropped, occ, historyVars>>

PushWrite == /\ ppc = "write"
             /\ buffer' = [buffer EXCEPT ![Slot(tail)] = item]
             /\ writes' = writes + 1
             /\ ppc' = "publish"
             /\ UNCHANGED <<policy, head, tail, headSync, tailSync, item, cached_head,
                            p_seen, consumerVars, dropped, occ, historyVars>>

PushPublish == /\ ppc = "publish"
               /\ tail' = tail + 1
               /\ tailSync' = [t \in 0..(tail + 1) |-> IF t <= tail THEN tailSync[t] ELSE writes]
               /\ accepted' = Append(accepted, item)
               /\ ppc' = "idle"
               /\ UNCHANGED <<policy, head, buffer, headSync, item, cached_head, p_seen,
                              writes, consumerVars, dropped, occ, offered, received>>

(* push() returned false: under Block, relax and push again.  Two faults:   *)
(* a send that gives up silently, and a retry that never reloads head.     *)
BlockRetryForgets == /\ ppc = "full" /\ policy = "Block"
                     /\ ppc' = "idle"
                     /\ UNCHANGED <<policy, sharedVars, item, cached_head, p_seen, writes,
                                    consumerVars, dropped, occ, historyVars>>
BlockRetryStale == /\ ppc = "full" /\ policy = "Block"
                   /\ ppc' = IF Full(cached_head) THEN "full" ELSE "write"
                   /\ UNCHANGED <<policy, sharedVars, item, cached_head, p_seen, writes,
                                  consumerVars, dropped, occ, historyVars>>
BlockRetry == /\ ppc = "full" /\ policy = "Block"
              /\ ppc' = PushEntry
              /\ UNCHANGED <<policy, sharedVars, item, cached_head, p_seen, writes,
                             consumerVars, dropped, occ, historyVars>>

(* push() returned false: under Drop, count the item and give up on it.    *)
(* The fault drops without counting.                                       *)
DropUncounted == /\ ppc = "full" /\ policy = "Drop"
                 /\ ppc' = "idle"
                 /\ UNCHANGED <<policy, sharedVars, item, cached_head, p_seen, writes,
                                consumerVars, dropped, occ, historyVars>>
Drop == /\ ppc = "full" /\ policy = "Drop"
        /\ dropped' = dropped + 1
        /\ ppc' = "idle"
        /\ UNCHANGED <<policy, sharedVars, item, cached_head, p_seen, writes,
                       consumerVars, occ, historyVars>>

-----------------------------------------------------------------------------
(* receive(), which is pop(), up to its first shared access.               *)
Receive == /\ cpc = "idle"
           /\ cpc' = IF head = cached_tail THEN "reload" ELSE "read"
           /\ UNCHANGED <<policy, sharedVars, producerVars, cached_tail, c_seen,
                          dropped, occ, historyVars>>

(* The reload; pop() returns false when the ring still looks empty.        *)
PopReload == /\ cpc = "reload"
             /\ \E t \in LoadableTail :
                  /\ c_seen' = t
                  /\ cached_tail' = t
                  /\ cpc' = IF head = t THEN "idle" ELSE "read"
             /\ UNCHANGED <<policy, sharedVars, producerVars, dropped, occ, historyVars>>

(* The payload read, and the fault that reads the slot after head's.       *)
PopReadNext == /\ cpc = "read"
               /\ received' = Append(received, buffer[Slot(head + 1)])
               /\ cpc' = "release"
               /\ UNCHANGED <<policy, sharedVars, producerVars, cached_tail, c_seen,
                              dropped, occ, offered, accepted>>
PopRead == /\ cpc = "read"
           /\ received' = Append(received, buffer[Slot(head)])
           /\ cpc' = "release"
           /\ UNCHANGED <<policy, sharedVars, producerVars, cached_tail, c_seen,
                          dropped, occ, offered, accepted>>

PopRelease == /\ cpc = "release"
              /\ head' = head + 1
              /\ headSync' = [h \in 0..(head + 1) |-> IF h <= head THEN headSync[h] ELSE reads]
              /\ cpc' = "idle"
              /\ UNCHANGED <<policy, tail, buffer, tailSync, producerVars, cached_tail, c_seen,
                             dropped, occ, historyVars>>

-----------------------------------------------------------------------------
(* size_approx() on either thread: its own index exactly, the other side's *)
(* as a load (an acquire load, so it also raises what the thread has seen).*)
(* A negative difference would stand for the huge value it wraps to.       *)
SizeApproxByProducer == /\ ppc = "idle"
                        /\ \E h \in LoadableHead : p_seen' = h /\ occ' = tail - h
                        /\ UNCHANGED <<policy, sharedVars, ppc, item, cached_head, writes,
                                       consumerVars, dropped, historyVars>>

SizeApproxByConsumer == /\ cpc = "idle"
                        /\ \E t \in LoadableTail : c_seen' = t /\ occ' = t - head
                        /\ UNCHANGED <<policy, sharedVars, producerVars, cpc, cached_tail,
                                       dropped, historyVars>>

-----------------------------------------------------------------------------
Producer == \/ PushReload \/ PushWrite \/ PushPublish
            \/ BlockRetry \/ Drop \/ SizeApproxByProducer
Consumer == \/ Receive \/ PopReload \/ PopRead \/ PopRelease
            \/ SizeApproxByConsumer

Next == \/ offered < MaxItems /\ Send(offered + 1)
        \/ Producer
        \/ Consumer

Spec == Init /\ [][Next]_vars

(* Both threads keep running, the consumer polls for ever, and a load      *)
(* repeated for ever does not for ever return an old value ([atomics.order]*)
(* asks that a store become visible in a reasonable amount of time).       *)
Fairness == /\ WF_vars(PushReload) /\ SF_vars(PushReload /\ cached_head' = head)
            /\ WF_vars(PushWrite \/ PushPublish \/ BlockRetry \/ Drop)
            /\ WF_vars(Receive)
            /\ WF_vars(PopReload) /\ SF_vars(PopReload /\ cached_tail' = tail)
            /\ WF_vars(PopRead \/ PopRelease)

FairSpec == Spec /\ Fairness

-----------------------------------------------------------------------------
TypeOK == /\ policy \in {"Block", "Drop"}
          /\ head \in Nat /\ tail \in Nat
          /\ buffer \in [0..(Capacity - 1) -> Nat]
          /\ headSync \in [0..head -> Nat] /\ tailSync \in [0..tail -> Nat]
          /\ ppc \in {"idle", "reload", "full", "write", "publish"}
          /\ item \in Nat /\ cached_head \in Nat /\ p_seen \in 0..head /\ writes \in Nat
          /\ cpc \in {"idle", "reload", "read", "release"}
          /\ cached_tail \in Nat /\ c_seen \in 0..tail
          /\ dropped \in Nat /\ occ \in Nat /\ offered \in Nat
          /\ accepted \in Seq(Nat) /\ received \in Seq(Nat)

(* No two unordered accesses to a slot.  When the producer is about to     *)
(* overwrite a slot, every read of it happens before (the producer has     *)
(* acquired the release that followed it); when the consumer is about to   *)
(* read a slot, every write to it happens before; and the two are never at *)
(* the same slot at once.  This is what makes the plain (non-atomic)       *)
(* buffer_ accesses of push() and pop() defined behaviour.                 *)
NoDataRace ==
  /\ ppc = "write" => \A j \in 0..(reads - 1) : Slot(j) = Slot(tail) => j < ProducerView
  /\ cpc = "read"  => \A i \in 0..(writes - 1) : Slot(i) = Slot(head) => i < ConsumerView
  /\ ~(ppc = "write" /\ cpc = "read" /\ Slot(head) = Slot(tail))

(* The consumer gets exactly the accepted items, each once and in order:   *)
(* what it received is a prefix of what was accepted, and the slots        *)
(* between head and tail still hold the rest.                              *)
FifoDelivery ==
  /\ reads <= Len(accepted)
  /\ \A i \in 1..reads : received[i] = accepted[i]
  /\ \A i \in head..(tail - 1) : buffer[Slot(i)] = accepted[i + 1]

(* "Never silently lose data without counting it" (send()): every item     *)
(* offered so far is in the ring's log, was counted as dropped, or is the  *)
(* one now being sent; and under Block nothing is dropped.                 *)
ExactAccounting ==
  /\ offered = Len(accepted) + dropped + (IF ppc = "idle" THEN 0 ELSE 1)
  /\ policy = "Block" => dropped = 0

(* The ring never holds more than Capacity items, and size_approx(), though*)
(* made of two loads at different times and possibly of stale values,      *)
(* reports an occupancy between 0 and Capacity on either thread.           *)
OccupancyBounded == /\ tail - head \in 0..Capacity
                    /\ occ \in 0..Capacity

(* The invariant the safety properties follow from.  IndexOrder is the heart: *)
(* each thread's cached and seen copies of the other's index trail it, and    *)
(* the producer's cached head is never more than Capacity behind tail.        *)
IndexOrder == /\ cached_head <= p_seen /\ p_seen <= head
              /\ head <= cached_tail /\ cached_tail <= c_seen /\ c_seen <= tail
              /\ tail <= cached_head + Capacity
              /\ ppc \in {"write", "publish"} => tail < cached_head + Capacity
              /\ cpc \in {"read", "release"} => head < cached_tail
AccessCounts == /\ writes = tail + (IF ppc = "publish" THEN 1 ELSE 0)
                /\ reads = head + (IF cpc = "release" THEN 1 ELSE 0)
                /\ Len(accepted) = tail
SyncExact == /\ \A h \in 0..head : headSync[h] = h
             /\ \A t \in 0..tail : tailSync[t] = t
Contents == /\ \A i \in 1..reads : received[i] = accepted[i]
            /\ \A i \in head..(tail - 1) : buffer[Slot(i)] = accepted[i + 1]
            /\ ppc = "publish" => buffer[Slot(tail)] = item

(* The inductive invariant of the ring: index order, the payload accesses     *)
(* made so far, what each release store carries, and the slots' contents.     *)
IndInv == TypeOK /\ IndexOrder /\ AccessCounts /\ SyncExact /\ Contents
            /\ ExactAccounting /\ occ \in 0..Capacity
            /\ (ppc # "idle" => item \in Item)

(* The channel implements the bounded FIFO: an item is accepted when tail  *)
(* is published, delivered when its payload is read, and refused only by   *)
(* the Drop policy's counter.                                              *)
Fifo == INSTANCE BoundedFifo WITH log <- accepted, delivered <- received,
                                  lossy <- (policy = "Drop")
ImplementsFifo == Fifo!Spec

(* Under Block every item offered is eventually delivered; under Drop every*)
(* item accepted is.                                                       *)
EventuallyDelivered ==
  \A n \in Item : (IF policy = "Block" THEN offered >= n ELSE Len(accepted) >= n)
                    ~> (reads >= n)
=============================================================================
