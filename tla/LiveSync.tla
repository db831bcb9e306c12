------------------------------ MODULE LiveSync ------------------------------
(***************************************************************************)
(* The live depth feed (apps/live_feed.cpp): the WebSocket callback turns  *)
(* each diff event into one channel message per changed level, and the     *)
(* consumer thread runs the snapshot / update-id state machine on those    *)
(* messages, one at a time, and applies them to the book.                  *)
(*                                                                         *)
(* The exchange numbers its updates 1, 2, ... and cuts them once into diff *)
(* events U..u.  Update n writes at most one level, and the size it writes *)
(* is identified by n: a level's content is the number of the update that  *)
(* last wrote it, 0 before the first.  What set_level() does with a size   *)
(* is L2Book's subject and the channel SpscChannel's, which implements the *)
(* bounded FIFO queue used here.  Symbol switches and shutdown, which end  *)
(* a session, are left out.                                                *)
(***************************************************************************)
EXTENDS Integers, Sequences, FiniteSets

CONSTANTS Keys,         \* price levels, in the order an event lists them
          NoKey,        \* not a level: an event or update that changes none
          Capacity,     \* of the channel
          MaxId,        \* bound: updates
          Logs,         \* bound: the update histories, from 1..MaxId to levels
          MaxWidth,     \* bound: updates in one event
          MaxLag,       \* bound: updates a REST snapshot may lag behind
          MaxFaults     \* bound: reconnections and malformed levels
                        \* together, and as many failed snapshot requests

ASSUME LiveAssumption == /\ Keys \subseteq Nat /\ NoKey \notin Keys
                         /\ Capacity \in Nat \ {0}
                         /\ {MaxId, MaxWidth, MaxLag, MaxFaults} \subseteq Nat
                         /\ Logs \subseteq [1..MaxId -> Keys \cup {NoKey}]

VARIABLES
  \* the exchange
  log,          \* update -> the level it writes
  ends,         \* the last updates of the diff events
  now,          \* the newest update
  \* the stream and the callback thread
  sent,         \* the last update sent on the connection
  pending,      \* the messages the callback has still to send
  policy, queue, dropped,
  \* the consumer thread
  pc,           \* "bootstrap", "receive" or "snapshot" (inside re_snapshot)
  book, L, mode, prev_u, have_event, cur_U, cur_apply, gaps, resyncs,
  \* history
  reconnects, malformed, failures,
  lostOps       \* <<u, level>> of every level of a received event that did not
                \* get as far as the consumer's test of cur_apply

exchangeVars == <<log, ends, now>>
streamVars == <<sent, pending, policy, queue, dropped, reconnects, malformed>>
consumerVars == <<pc, book, L, mode, prev_u, have_event, cur_U, cur_apply, gaps,
                  resyncs, failures>>
vars == <<exchangeVars, streamVars, consumerVars, lostOps>>

Ids == 1..MaxId
Least(S) == CHOOSE x \in S : \A y \in S : x <= y
Greatest(S) == CHOOSE x \in S : \A y \in S : x >= y

(* The exchange's book after update n.                                     *)
TruthAt(n) == [k \in Keys |-> Greatest({0} \cup {i \in 1..n : log[i] = k})]

(* The event that ends at u: its first update, and the levels it carries,  *)
(* each once, with its content at u.                                       *)
FirstOf(u) == Greatest({0} \cup {e \in ends : e < u}) + 1
Written(u) == {log[i] : i \in FirstOf(u)..u} \ {NoKey}

Message(u, k) == [U |-> FirstOf(u), u |-> u, key |-> k,
                  val |-> IF k = NoKey THEN 0 ELSE TruthAt(u)[k]]

(* What the callback sends for it: one L2SetLevel per level, in the        *)
(* event's order, or an L2EventHeader if there is none.                    *)
InOrder(K) == [i \in 1..Cardinality(K) |->
                 CHOOSE k \in K : Cardinality({j \in K : j < k}) = i - 1]
Messages(u) ==
  IF Written(u) = {} THEN <<Message(u, NoKey)>>
  ELSE [i \in 1..Cardinality(Written(u)) |-> Message(u, InOrder(Written(u))[i])]

Init == /\ log \in Logs
        /\ ends \in {S \in SUBSET Ids :
                       \A i \in 0..(MaxId - MaxWidth) : S \cap (i + 1)..(i + MaxWidth) # {}}
        /\ now = 0 /\ sent = 0 /\ pending = <<>>
        /\ policy \in {"Block", "Drop"} /\ queue = <<>> /\ dropped = 0
        /\ pc = "bootstrap" /\ book = [k \in Keys |-> 0] /\ L = 0
        /\ mode = "Seeking" /\ prev_u = 0
        /\ have_event = FALSE /\ cur_U = 0 /\ cur_apply = FALSE
        /\ gaps = 0 /\ resyncs = 0
        /\ reconnects = 0 /\ malformed = 0 /\ failures = 0 /\ lostOps = {}

-----------------------------------------------------------------------------
(* The exchange and its connection.  IXWebSocket reconnects by itself, and *)
(* the stream then goes on at a later event, or again at an earlier one.   *)
(* Callbacks do not overlap.                                               *)

Update == /\ now < MaxId
          /\ now' = now + 1
          /\ UNCHANGED <<log, ends, streamVars, consumerVars, lostOps>>

OnMessage == /\ pending = <<>>
             /\ \E e \in ends : e > sent /\ e <= now
             /\ sent' = Least({e \in ends : e > sent})
             /\ pending' = Messages(sent')
             /\ UNCHANGED <<exchangeVars, policy, queue, dropped, reconnects, malformed,
                            consumerVars, lostOps>>

Reconnect == /\ pending = <<>> /\ reconnects + malformed < MaxFaults
             /\ sent' \in {e \in ends \cup {0} : e <= now} \ {sent}
             /\ reconnects' = reconnects + 1
             /\ UNCHANGED <<exchangeVars, pending, policy, queue, dropped, malformed,
                            consumerVars, lostOps>>

(* push_op() and the channel's send(), as BoundedFifo has it: under Drop   *)
(* an item may be refused whenever the ring looks full to the producer.    *)

Lost(m) == IF m.key = NoKey THEN lostOps ELSE lostOps \cup {<<m.u, m.key>>}

PushOp == /\ pending # <<>> /\ Len(queue) < Capacity
          /\ queue' = Append(queue, Head(pending))
          /\ pending' = Tail(pending)
          /\ UNCHANGED <<exchangeVars, sent, policy, dropped, reconnects, malformed,
                         consumerVars, lostOps>>

PushDropped == /\ pending # <<>> /\ policy = "Drop"
               /\ dropped' = dropped + 1
               /\ lostOps' = Lost(Head(pending))
               /\ pending' = Tail(pending)
               /\ UNCHANGED <<exchangeVars, sent, policy, queue, reconnects, malformed,
                              consumerVars>>

(* A level whose price is not a number, or that has no size field.         *)
PushMalformed == /\ pending # <<>> /\ Head(pending).key # NoKey
                 /\ reconnects + malformed < MaxFaults
                 /\ malformed' = malformed + 1
                 /\ lostOps' = Lost(Head(pending))
                 /\ pending' = Tail(pending)
                 /\ UNCHANGED <<exchangeVars, sent, policy, queue, dropped, reconnects,
                                consumerVars>>

Callback == PushOp \/ PushDropped \/ PushMalformed

-----------------------------------------------------------------------------
(* fetch_snapshot(): the exchange's book as of lastUpdateId, which may lag *)
(* behind the stream, or be ahead of it.  Preloading it replaces the book. *)

Preload == /\ L' \in {n \in 0..now : n + MaxLag >= now}
           /\ book' = TruthAt(L')
           /\ prev_u' = 0 /\ mode' = "Seeking" /\ have_event' = FALSE
           /\ pc' = "receive"

FetchFails == failures < MaxFaults /\ failures' = failures + 1

(* The session's first snapshot is retried until it succeeds and has both  *)
(* sides.  The fault gives up after a failure.                             *)
Bootstrap == /\ pc = "bootstrap"
             /\ Preload
             /\ UNCHANGED <<exchangeVars, streamVars, cur_U, cur_apply, gaps, resyncs,
                            failures, lostOps>>
BootstrapGivesUp ==
                  /\ pc = "bootstrap" /\ FetchFails
                  /\ pc' = "stopped"
                  /\ UNCHANGED <<exchangeVars, streamVars, book, L, mode, prev_u,
                                 have_event, cur_U, cur_apply, gaps, resyncs, lostOps>>
BootstrapFails == /\ pc = "bootstrap" /\ FetchFails
                  /\ UNCHANGED <<exchangeVars, streamVars, pc, book, L, mode, prev_u,
                                 have_event, cur_U, cur_apply, gaps, resyncs, lostOps>>

(* re_snapshot() after its request returned: a failure keeps book and mode *)
(* and is tried again when the next message asks for it.                   *)

ReSnapshot == /\ pc = "snapshot"
              /\ Preload
              /\ UNCHANGED <<exchangeVars, streamVars, cur_U, cur_apply, gaps, resyncs,
                             failures, lostOps>>
ReSnapshotFails == /\ pc = "snapshot" /\ FetchFails
                   /\ have_event' = FALSE
                   /\ pc' = "receive"
                   /\ UNCHANGED <<exchangeVars, streamVars, book, L, mode, prev_u, cur_U,
                                  cur_apply, gaps, resyncs, lostOps>>

-----------------------------------------------------------------------------
(* The consumer loop, by the branch a received message takes.              *)

Receive == /\ pc = "receive" /\ queue # <<>>
           /\ queue' = Tail(queue)
           /\ UNCHANGED <<exchangeVars, sent, pending, policy, dropped, reconnects,
                          malformed, L, failures>>

m == Head(queue)

SetLevel == book' = IF m.key = NoKey THEN book ELSE [book EXCEPT ![m.key] = m.val]

NewEvent == ~have_event \/ m.U # cur_U

(* The rest of the event the consumer is in shares its first level's fate. *)
SameEvent == /\ Receive /\ ~NewEvent
             /\ IF cur_apply THEN SetLevel ELSE UNCHANGED book
             /\ UNCHANGED <<pc, mode, prev_u, have_event, cur_U, cur_apply, gaps, resyncs, lostOps>>

Enter(apply) == have_event' = TRUE /\ cur_U' = m.U /\ cur_apply' = apply

SkipEvent == /\ Enter(FALSE)
             /\ UNCHANGED <<pc, book, mode, prev_u, gaps, resyncs, lostOps>>

ApplyEventFirstId == \* a fault: the event's first update for its last
              /\ Enter(TRUE)
              /\ mode' = "Streaming" /\ prev_u' = m.U
              /\ SetLevel
              /\ UNCHANGED <<pc, gaps, resyncs, lostOps>>
ApplyEvent == /\ Enter(TRUE)
              /\ mode' = "Streaming" /\ prev_u' = m.u
              /\ SetLevel
              /\ UNCHANGED <<pc, gaps, resyncs, lostOps>>

(* `continue' after re_snapshot(): the message in hand is not applied.     *)
Resync == /\ Enter(FALSE)
          /\ pc' = "snapshot"
          /\ resyncs' = resyncs + 1
          /\ lostOps' = Lost(m)
          /\ UNCHANGED <<book, mode, prev_u>>

Seeking == Receive /\ NewEvent /\ mode = "Seeking"
Streaming == Receive /\ NewEvent /\ mode = "Streaming"

(* Two faults in the straddle test: off by one, and without its lower end. *)
SeekingOld == Seeking /\ m.u < L + 1 /\ SkipEvent
SeekingStraddlesLate == Seeking /\ m.u >= L + 1 /\ m.U <= L + 2 /\ ApplyEvent
SeekingStraddlesAny == Seeking /\ m.U <= L + 1 /\ ApplyEvent
SeekingStraddles == Seeking /\ m.u >= L + 1 /\ m.U <= L + 1 /\ ApplyEvent
SeekingAhead == /\ Seeking /\ m.u >= L + 1 /\ m.U > L + 1
                /\ Resync /\ UNCHANGED gaps

StreamingOld == Streaming /\ m.u <= prev_u /\ SkipEvent
StreamingNext == Streaming /\ m.u > prev_u /\ m.U = prev_u + 1 /\ ApplyEvent
StreamingGap == /\ Streaming /\ m.u > prev_u /\ m.U # prev_u + 1
                /\ gaps' = gaps + 1 /\ Resync

Consumer == \/ Bootstrap \/ BootstrapFails \/ ReSnapshot \/ ReSnapshotFails
            \/ SameEvent
            \/ SeekingOld \/ SeekingStraddles \/ SeekingAhead
            \/ StreamingOld \/ StreamingNext \/ StreamingGap

Next == Update \/ OnMessage \/ Reconnect \/ Callback \/ Consumer

Spec == Init /\ [][Next]_vars

(* Both threads run; a snapshot request returns, its timeouts see to that. *)
Fairness == WF_vars(Callback) /\ WF_vars(Consumer)

FairSpec == Spec /\ Fairness

-----------------------------------------------------------------------------
TypeOK ==
  /\ now \in 0..MaxId /\ sent \in ends \cup {0} /\ sent <= now
  /\ Len(queue) <= Capacity
  /\ \A i \in 1..Len(queue \o pending) :
       LET x == (queue \o pending)[i]
       IN x.u \in ends /\ x \in {Message(x.u, k) : k \in Keys \cup {NoKey}}
  /\ pc \in {"bootstrap", "receive", "snapshot"}
  /\ mode \in {"Seeking", "Streaming"}
  /\ book \in [Keys -> 0..MaxId] /\ L \in 0..now /\ prev_u \in ends \cup {0}
  /\ have_event \in BOOLEAN /\ cur_apply \in BOOLEAN
  /\ dropped \in Nat /\ gaps \in 0..resyncs
  /\ (mode = "Streaming") <=> (prev_u > 0)

(* A level of the event being applied whose message is still on its way.   *)
InFlight(k) == \E i \in 1..Len(queue \o pending) :
                 (queue \o pending)[i].u = prev_u /\ (queue \o pending)[i].key = k

(* A level whose message was lost from an event newer than the snapshot    *)
(* and not newer than the book.                                            *)
Torn(k) == \E u \in (L + 1)..prev_u : <<u, k>> \in lostOps

(* While streaming, the book is the exchange's book as of prev_u at every  *)
(* level but those with a message in flight or lost, however the           *)
(* connection jumps, snapshots fail or lag, and events straddle them.  No  *)
(* event that was lost as a whole is ever passed over.                     *)
BookTracksExchange ==
  /\ TypeOK
  /\ mode = "Streaming" =>
       \A k \in Keys : InFlight(k) \/ Torn(k) \/ book[k] = TruthAt(prev_u)[k]

(* A gap is counted only if something was lost: on a connection that never *)
(* broke, with no malformed level and no drop, the update ids of the       *)
(* events join up across every snapshot.                                   *)
GapsMeanLoss == gaps > 0 => reconnects > 0 \/ malformed > 0 \/ dropped > 0

(* Applying an event never takes a level back to an older size: events     *)
(* older than the snapshot or the book are skipped, repeated ones are      *)
(* harmless.  Only a new snapshot may lag behind the book it replaces.     *)
NeverRewinds == [][pc = "receive" => \A k \in Keys : book'[k] >= book[k]]_vars

(* Why they hold.  Messages of one event stay together on their way, so    *)
(* Beside(i, j) says that those from i to j are of one event.  Of every    *)
(* event on its way each level is there beside the others, or lost, or the *)
(* consumer is in the middle of that event.                                *)
Flight == queue \o pending
Beside(i, j) == \A n \in 1..Len(Flight) :
                  (i <= n /\ n <= j) \/ (j <= n /\ n <= i) => Flight[n].u = Flight[i].u
Complete ==
  \A i \in 1..Len(Flight) : \A k \in Written(Flight[i].u) :
    \/ <<Flight[i].u, k>> \in lostOps
    \/ \E j \in 1..Len(Flight) : Flight[j].key = k /\ Beside(i, j)
    \/ pc = "receive" /\ have_event /\ cur_U = FirstOf(Flight[i].u) /\ Beside(i, 1)

(* The levels the consumer will still apply of the event it is in; any     *)
(* other is as of prev_u or lost.                                          *)
Remaining(k) == /\ have_event /\ cur_apply
                /\ \E i \in 1..Len(Flight) : /\ Flight[i].u = prev_u /\ Flight[i].key = k
                                             /\ Beside(i, 1)
EventInv == /\ pc = "snapshot" => ~cur_apply
            /\ have_event => /\ cur_apply => mode = "Streaming" /\ cur_U = FirstOf(prev_u)
                             /\ pc = "receive" /\ mode = "Streaming" => cur_U <= prev_u
StreamInv ==
  /\ mode = "Seeking" => book = TruthAt(L)
  /\ mode = "Streaming" =>
       /\ prev_u > L
       /\ \A k \in Keys : /\ book[k] <= TruthAt(prev_u)[k]
                          /\ Remaining(k) \/ Torn(k) \/ book[k] = TruthAt(prev_u)[k]

(* Where nothing was lost, the events on their way join up, to each other, *)
(* to the book and to what the connection will send.                       *)
Joins(u, v) == u = v \/ FirstOf(v) = u + 1
OrderInv ==
  reconnects = 0 /\ malformed = 0 /\ dropped = 0 =>
    /\ gaps = 0
    /\ \A i \in 1..(Len(Flight) - 1) : Joins(Flight[i].u, Flight[i + 1].u)
    /\ \A i \in 1..Len(Flight) : Flight[i].u <= sent
    /\ Len(Flight) > 0 => Flight[Len(Flight)].u = sent
    /\ mode = "Streaming" =>
         /\ prev_u <= sent
         /\ Len(Flight) = 0 => prev_u = sent
         /\ Len(Flight) > 0 => Flight[1].u <= prev_u \/ FirstOf(Flight[1].u) = prev_u + 1

(* The inductive invariant of the live feed.                               *)
AllMessages == {Message(u, k) : u \in ends, k \in Keys \cup {NoKey}}
SyncInv ==
  /\ log \in [Ids -> Keys \cup {NoKey}] /\ ends \subseteq Ids
  /\ queue \in Seq(AllMessages) /\ pending \in Seq(AllMessages)
  /\ {reconnects, malformed, dropped, resyncs} \subseteq Nat
  /\ TypeOK /\ Complete /\ EventInv /\ StreamInv /\ OrderInv

(* The callback always gets through an event, also when it blocks on a     *)
(* full ring while the consumer waits for a snapshot.                      *)
CallbackReturns == pending # <<>> ~> pending = <<>>

(* live_feed.cpp:21: "the first applied event must straddle L+1 (U <= L+1  *)
(* <= u); thereafter each event must satisfy U == prev_u + 1, else it's an *)
(* unrecoverable gap and we re-snapshot".  So with the lossless Block      *)
(* policy and well-formed levels, a streaming book is the exchange's.      *)
StreamingBookExact ==
  mode = "Streaming" /\ policy = "Block" /\ malformed = 0 =>
    \A k \in Keys : InFlight(k) \/ book[k] = TruthAt(prev_u)[k]
=============================================================================
