---------------------------- MODULE LiveSession ----------------------------
(***************************************************************************)
(* One feed of apps/live_feed.cpp across symbol switches and shutdown: the *)
(* WebSocket callback, the consumer thread and its session loop, and the   *)
(* part of the supervisor that cleans up between two sessions, on top of   *)
(* the control plane of SymbolSwitch.                                      *)
(*                                                                         *)
(* Data is told apart by its symbol only: a ring message, a trade and a    *)
(* snapshot are the symbol they are about, the book is the set of symbols  *)
(* whose levels are in it.  What one session does with update ids is       *)
(* LiveSync's subject; here the consumer may skip, apply or resynchronise  *)
(* on any message.                                                         *)
(*                                                                         *)
(* The supervisor empties the ring while the consumer may be popping too,  *)
(* although the ring is written for one thread that pops.  A pop is        *)
(* therefore the accesses it makes to what the two share: head, tail and   *)
(* the plain member cached_tail_, which both of them store.  `ring' is the *)
(* log of all that was pushed, its length is the tail, and head counts     *)
(* what was popped.  pop() compares head and cached_tail_ for equality, so *)
(* a late store of an old cached_tail_ behind head makes it go on past the *)
(* tail, into slots that hold no message it has not returned before; the   *)
(* history variable `overrun' says that it did.                            *)
(***************************************************************************)
EXTENDS SymbolSwitch, Sequences, SequencesExt

CONSTANTS Capacity,    \* of the ring
          TapeRows,    \* trades kept, 40 in the code
          MaxOps,      \* bound: levels in one depth message
          MaxMsgs,     \* bound: WebSocket messages
          MaxOverrun   \* bound: pops past the tail

ASSUME LiveAssumption == /\ {Capacity, TapeRows, MaxOps} \subseteq Nat \ {0}
                         /\ {MaxMsgs, MaxOverrun} \subseteq Nat

feed == 1   \* the feed's number

(* Of the control plane, this module takes the case of one feed and of     *)
(* requests that come one at a time.                                       *)
OneFeed == NumFeeds = 1 /\ OneAtATime

VARIABLES
  ring,         \* what was pushed
  head,         \* how much of it has been popped
  cached_tail,  \* the tail as pop() remembers it
  cached_head,  \* the head as push() remembers it
  overrun,      \* has a pop gone past the tail?
  op,           \* the callback's place: [at, n], n levels still to send
  msgs,         \* how many messages there have been
  trades,       \* the trade tape
  clean,        \* the supervisor's place in the clean-up
  s_head,       \* the head and the tail its pop() loaded
  s_tail,
  cons,         \* the consumer's place
  sid,          \* the session it works for
  asked,        \* the symbol of its last snapshot request
  c_head,       \* the head and the tail its pop() loaded
  c_tail,
  book,
  snap          \* snap_json: the symbol it names, and those whose levels and
                \* trades are in it

ringVars == <<ring, head, cached_tail, cached_head, overrun>>
streamVars == <<op, msgs, trades>>
cleanVars == <<clean, s_head, s_tail>>
popVars == <<c_head, c_tail>>
consVars == <<cons, sid, asked, popVars, book, snap>>
liveVars == <<ringVars, streamVars, cleanVars, consVars>>
vars == <<switchVars, liveVars>>

Resting == [at |-> "idle", n |-> 0]
NoSnap == [symbol |-> Torn, about |-> {}]

Init == /\ OneFeed /\ SwitchInit
        /\ ring = <<>> /\ head = 0 /\ cached_tail = 0 /\ cached_head = 0 /\ overrun = FALSE
        /\ op = Resting /\ msgs = 0 /\ trades = <<>>
        /\ clean = "tape" /\ s_head = 0 /\ s_tail = 0
        /\ cons = "top" /\ sid = 0 /\ asked = Torn /\ c_head = 0 /\ c_tail = 0 /\ book = {}
        /\ snap = NoSnap

-----------------------------------------------------------------------------
(* SpscRingBuffer.  Its indices are unsigned: the difference wraps when    *)
(* head has passed the tail, and the ring then looks full.                 *)

tail == Len(ring)
Room(h) == tail - h \in 0..(Capacity - 1)

(* push(), which looks at head again only when its cached copy is full.    *)
Push(m) == /\ \/ Room(cached_head) /\ UNCHANGED cached_head
              \/ ~Room(cached_head) /\ Room(head) /\ cached_head' = head
           /\ ring' = Append(ring, m)
           /\ UNCHANGED <<head, cached_tail, overrun>>

(* What a pop() that loaded head = h finds in its slot: the message it is  *)
(* after, or a later one if the ring has gone round, or, past the tail,    *)
(* whatever was left there.                                                *)
Slot(h) == IF h < tail
           THEN {ring[k] : k \in {k \in (h + 1)..tail : (k - h - 1) % Capacity = 0}}
           ELSE {Torn} \cup ToSet(ring)

(* The end of a pop(): the slot is free and head moves on from h.          *)
Take(h) == /\ h < tail + MaxOverrun
           /\ head' = h + 1
           /\ overrun' = (overrun \/ h >= tail)
           /\ UNCHANGED <<ring, cached_tail, cached_head>>

-----------------------------------------------------------------------------
(* The callback of the socket that is up.  It returns at once if the       *)
(* feed's session is no longer its own.                                    *)

Message ==
  /\ ws[feed].up /\ op = Resting /\ msgs < MaxMsgs
  /\ msgs' = msgs + 1
  /\ \/ session[feed] # ws[feed].session /\ UNCHANGED <<op, switchVars>>
     \/ /\ OnMessage(feed)
        /\ op' \in {[at |-> "trade", n |-> 0]} \cup [at : {"depth"}, n : 1..MaxOps]
  /\ UNCHANGED <<ringVars, trades, cleanVars, consVars>>

(* push_trade().                                                           *)
PushTrade ==
  /\ op.at = "trade"
  /\ LET t == Append(trades, ws[feed].symbol)
     IN trades' = IF Len(t) > TapeRows THEN Tail(t) ELSE t
  /\ op' = Resting /\ Return(feed)
  /\ UNCHANGED <<ringVars, msgs, cleanVars, consVars>>

NextOp == \/ op.n = 1 /\ op' = Resting /\ Return(feed)
          \/ op.n > 1 /\ op' = [op EXCEPT !.n = @ - 1] /\ UNCHANGED switchVars

(* channel.send(): a full ring is waited for under Block, and the message  *)
(* is dropped under Drop.                                                  *)
SendOp == /\ op.at = "depth"
          /\ Push(ws[feed].symbol)
          /\ NextOp
          /\ UNCHANGED <<msgs, trades, cleanVars, consVars>>
SendDropped == /\ op.at = "depth" /\ policy = "Drop"
               /\ ~Room(cached_head) /\ ~Room(head)
               /\ NextOp
               /\ UNCHANGED <<ringVars, msgs, trades, cleanVars, consVars>>

Callback == PushTrade \/ SendOp \/ SendDropped

-----------------------------------------------------------------------------
(* The supervisor.                                                         *)

SupSteps == /\ \/ SupLoop(feed) \/ SupConnect(feed) \/ SupWake(feed) \/ SupStop(feed)
               \/ SupDecide(feed) \/ SupAssign(feed) \/ SupAssigned(feed)
               \/ SupClear(feed) \/ SupBump(feed)
            /\ UNCHANGED liveVars

Clean(from, to) == sup[feed] = "clean" /\ clean = from /\ clean' = to

(* A fault keeps the trades of the old symbol.                             *)
KeepTape == /\ Clean("tape", "drain")
            /\ UNCHANGED <<switchVars, ringVars, streamVars, s_head, s_tail, consVars>>
ClearTape == /\ Clean("tape", "drain")
             /\ trades' = <<>>
             /\ UNCHANGED <<switchVars, ringVars, op, msgs, s_head, s_tail, consVars>>

(* while (f.channel.receive(junk)) {}: the load of head; the test of       *)
(* cached_tail_ and, if it is equal, the load of tail; the store of        *)
(* cached_tail_, after which the tail that was loaded decides; the store   *)
(* of head.                                                                *)
DrainLoad == /\ Clean("drain", "test")
             /\ s_head' = head
             /\ UNCHANGED <<switchVars, ringVars, streamVars, s_tail, consVars>>
DrainTest == /\ \/ s_head = cached_tail /\ Clean("test", "cache") /\ s_tail' = tail
                \/ s_head # cached_tail /\ Clean("test", "pop") /\ UNCHANGED s_tail
             /\ UNCHANGED <<switchVars, ringVars, streamVars, s_head, consVars>>
DrainCache == /\ Clean("cache", IF s_head = s_tail THEN "pause" ELSE "pop")
              /\ cached_tail' = s_tail
              /\ s_tail' = 0 /\ s_head' = IF s_head = s_tail THEN 0 ELSE s_head
              /\ UNCHANGED <<switchVars, ring, head, cached_head, overrun, streamVars, consVars>>

(* A fault takes one message only.                                         *)
DrainOne == /\ Clean("pop", "pause")
            /\ Take(s_head)
            /\ s_head' = 0
            /\ UNCHANGED <<switchVars, streamVars, s_tail, consVars>>
DrainPop == /\ Clean("pop", "drain")
            /\ Take(s_head)
            /\ s_head' = 0
            /\ UNCHANGED <<switchVars, streamVars, s_tail, consVars>>

(* The pause of 1200 ms outlasts a pop() the consumer of the session       *)
(* before is in.                                                           *)
Mine == session[feed] = sid
InPop == {"test", "cache", "pop"}
Pause == /\ Clean("pause", "tape") /\ SupClean(feed)
         /\ g_stop \/ Mine \/ cons \notin InPop
         /\ UNCHANGED <<ringVars, streamVars, s_head, s_tail, consVars>>

Supervisor == \/ SupSteps \/ ClearTape
              \/ DrainLoad \/ DrainTest \/ DrainCache \/ DrainPop \/ Pause

(* The main thread joins the consumer too.                                 *)
MainSteps == \/ /\ MainLeaves \/ MainClear \/ MainBump \/ MainStop \/ MainJoin
                /\ UNCHANGED liveVars
             \/ MainEnd /\ cons = "done" /\ UNCHANGED liveVars

-----------------------------------------------------------------------------
(* The consumer thread.                                                    *)

(* A fault does not notice that the session has changed.                   *)
liveForEver == ~g_stop
live == ~g_stop /\ session[feed] = sid
Goes(from, to) == cons = from /\ cons' = to

ConsTop == /\ Goes("top", IF g_stop THEN "done" ELSE "seeking")
           /\ sid' = IF g_stop THEN sid ELSE session[feed]
           /\ UNCHANGED <<switchVars, ringVars, streamVars, cleanVars, asked, popVars, book, snap>>

ConsSeeking == /\ Goes("seeking", "grace")
               /\ snap' = [symbol |-> cfg_symbol[feed], about |-> {}]
               /\ UNCHANGED <<switchVars, ringVars, streamVars, cleanVars, sid, asked, popVars, book>>

(* The wait of 600 ms outlasts the clean-up of the session before.         *)
CleaningUp == sup[feed] = "clean" /\ clean # "pause"
ConsGrace == /\ Goes("grace", IF live THEN "fetch" ELSE "top")
             /\ live => ~CleaningUp
             /\ UNCHANGED <<switchVars, ringVars, streamVars, cleanVars, sid, asked, popVars, book, snap>>

(* fetch_snapshot() sends cfg.symbol as it reads it; the answer may take   *)
(* 20 seconds.  There is none for what is not a symbol.                    *)
ConsFetch == /\ Goes("fetch", IF live THEN "await" ELSE "top")
             /\ asked' = IF live THEN cfg_symbol[feed] ELSE asked
             /\ UNCHANGED <<switchVars, ringVars, streamVars, cleanVars, sid, popVars, book, snap>>
ConsFetched == /\ \/ Goes("await", "fetch") /\ asked' = Torn
                  \/ Goes("await", "load") /\ asked \in Catalog /\ UNCHANGED asked
               /\ UNCHANGED <<switchVars, ringVars, streamVars, cleanVars, sid, popVars, book, snap>>

(* The snapshot becomes the book, unless the session is over or the price  *)
(* band would be too wide.                                                 *)
ConsLoad == /\ \/ Goes("load", "top") /\ UNCHANGED book
               \/ Goes("load", "loop") /\ live /\ book' = {asked}
            /\ asked' = Torn
            /\ UNCHANGED <<switchVars, ringVars, streamVars, cleanVars, sid, popVars, snap>>

(* The book is an object of the session loop and ends with the session.    *)
ConsLoop == /\ Goes("loop", IF live THEN "receive" ELSE "top")
            /\ book' = IF live THEN book ELSE {}
            /\ UNCHANGED <<switchVars, ringVars, streamVars, cleanVars, sid, asked, popVars, snap>>

(* The inner loop calls receive() until it fails, without asking whether   *)
(* the session is live.  The steps of its pop() are those of the drain.    *)
ConsReceive == /\ Goes("receive", "test")
               /\ c_head' = head
               /\ UNCHANGED <<switchVars, ringVars, streamVars, cleanVars, sid, asked, c_tail, book, snap>>
ConsTest == /\ \/ c_head = cached_tail /\ Goes("test", "cache") /\ c_tail' = tail
               \/ c_head # cached_tail /\ Goes("test", "pop") /\ UNCHANGED c_tail
            /\ UNCHANGED <<switchVars, ringVars, streamVars, cleanVars, sid, asked, c_head, book, snap>>
ConsCache == /\ Goes("cache", IF c_head = c_tail THEN "publish" ELSE "pop")
             /\ cached_tail' = c_tail
             /\ c_tail' = 0 /\ c_head' = IF c_head = c_tail THEN 0 ELSE c_head
             /\ UNCHANGED <<switchVars, ring, head, cached_head, overrun, streamVars, cleanVars,
                            sid, asked, book, snap>>
ConsPop == /\ Take(c_head)
           /\ c_head' = 0
           /\ \/ Goes("pop", "receive") /\ \/ UNCHANGED book
                                           \/ \E m \in Slot(c_head) : book' = book \cup {m}
              \/ Goes("pop", "resync") /\ UNCHANGED book
           /\ UNCHANGED <<switchVars, streamVars, cleanVars, sid, asked, c_tail, snap>>

(* re_snapshot().                                                          *)
ConsResync == /\ Goes("resync", "again")
              /\ asked' = cfg_symbol[feed]
              /\ UNCHANGED <<switchVars, ringVars, streamVars, cleanVars, sid, popVars, book, snap>>
ConsAgain == /\ Goes("again", "receive")
             /\ \/ UNCHANGED book
                \/ asked \in Catalog /\ book' = {asked}
             /\ asked' = Torn
             /\ UNCHANGED <<switchVars, ringVars, streamVars, cleanVars, sid, popVars, snap>>

(* Every 200 ms the book and the tape are published.                       *)
ConsPublish == /\ Goes("publish", "loop")
               /\ \/ UNCHANGED snap
                  \/ snap' = [symbol |-> cfg_symbol[feed], about |-> book \cup ToSet(trades)]
               /\ UNCHANGED <<switchVars, ringVars, streamVars, cleanVars, sid, asked, popVars, book>>

Consumer == \/ ConsTop \/ ConsSeeking \/ ConsGrace \/ ConsFetch \/ ConsFetched \/ ConsLoad
            \/ ConsLoop \/ ConsReceive \/ ConsTest \/ ConsCache \/ ConsPop \/ ConsResync \/ ConsAgain \/ ConsPublish

(* The /symbol handler as a whole: requests come one at a time, and        *)
(* nobody reads pending_symbol before `restart' is raised.                 *)
Http == /\ requests < MaxRequests /\ ~restart[feed]
        /\ requests' = requests + 1
        /\ symbol' \in Catalog \ {symbol}
        /\ pending_symbol' = [pending_symbol EXCEPT ![feed] = symbol']
        /\ restart' = [restart EXCEPT ![feed] = TRUE]
        /\ UNCHANGED <<req, cfg_symbol, session, ws, cb, sup, mainVars, liveVars>>

Next == \/ Http
        \/ Stop /\ UNCHANGED liveVars
        \/ Message \/ Callback \/ Supervisor \/ MainSteps \/ Consumer

(* Every thread runs, and a snapshot request returns within its timeouts.  *)
(* Nobody has to send a message, to ask for a symbol or to press Ctrl-C,   *)
(* and no snapshot request has to succeed.                                 *)
Fairness == /\ WF_vars(Callback) /\ WF_vars(Supervisor) /\ WF_vars(MainSteps)
            /\ WF_vars(Consumer)

Spec == Init /\ [][Next]_vars /\ Fairness

-----------------------------------------------------------------------------
TypeOK == /\ SwitchTypeOK
          /\ ring \in Seq(Catalog \cup {Torn}) /\ head \in Nat /\ cached_tail \in Nat
          /\ cached_head \in Nat /\ overrun \in BOOLEAN
          /\ op \in [at : {"idle", "trade", "depth"}, n : 0..MaxOps]
          /\ msgs \in 0..MaxMsgs
          /\ trades \in Seq(Catalog \cup {Torn}) /\ Len(trades) <= TapeRows
          /\ clean \in {"tape", "drain", "test", "cache", "pop", "pause"}
          /\ cons \in {"top", "seeking", "grace", "fetch", "await", "load", "loop", "receive",
                       "test", "cache", "pop", "resync", "again", "publish", "done"}
          /\ s_head \in Nat /\ s_tail \in Nat /\ c_head \in Nat /\ c_tail \in Nat
          /\ sid \in Nat /\ asked \in Catalog \cup {Torn}
          /\ book \subseteq Catalog \cup {Torn}

(* The supervisor is between assigning cfg.symbol and bumping the session. *)
Changing == sup[feed] \in {"assigned", "clear", "bump"}

AllOf(s) == \A k \in (head + 1)..tail : ring[k] = s

(* No session mixes symbols: outside the moment in which cfg.symbol and    *)
(* the session change, the book of the current session, and what is left   *)
(* in the ring for it, are of the feed's symbol only.  An answer to a      *)
(* request of the session before, messages the old socket left in the      *)
(* ring, or a store of head that comes late and brings some of them back,  *)
(* never get into the new book.  This is as long as no pop has gone past   *)
(* the tail; the second consumer can make that happen, and then nothing    *)
(* can be said of the book.                                                *)
InBook == {"loop", "receive", "resync", "again", "publish"} \cup InPop
BookOfSession ==
  /\ TypeOK
  /\ ~overrun /\ live /\ ~Changing /\ cons \in InBook =>
       book \subseteq {cfg_symbol[feed]} /\ AllOf(cfg_symbol[feed])

(* Once the consumer has begun the feed's session and as long as no pop    *)
(* has gone past the tail, what the feed publishes is about the feed's     *)
(* symbol: name, book and tape agree.  (Before that, a consumer that lags  *)
(* behind may publish the new name over the book of the old symbol: it     *)
(* does not ask whether it is live.)                                       *)
Begun == Mine /\ cons \notin {"top", "seeking", "done"}
Shown(s) == snap.symbol = s /\ snap.about \subseteq {s}
PublishedOfOneSymbol == ~overrun /\ Begun /\ ~Changing => Shown(cfg_symbol[feed])

(* When the main thread returns and the feed is destroyed, no thread of it *)
(* is left that could touch it: the callback, the supervisor and the       *)
(* consumer have ended.                                                    *)
NothingOutlivesMain ==
  main.at = "done" => ~cb[feed] /\ ~ws[feed].up /\ sup[feed] = "done" /\ cons = "done"

(* Why they hold.  The callback works only while its socket is up.         *)
CallbackInv == /\ cb[feed] <=> op # Resting
               /\ op.at = "depth" => op.n >= 1

(* Two pops may overlap only while the supervisor empties the ring; a      *)
(* consumer of the current session is past its grace period only when that *)
(* is over, so nobody moves head under its pop.                            *)
PastGrace == {"fetch", "await", "load"} \cup InBook
TurnInv == /\ clean # "tape" => sup[feed] = "clean"
           /\ Mine /\ cons \in PastGrace => ~CleaningUp
           /\ Mine /\ cons \in InPop => c_head = head

(* Until a pop goes past the tail, no index is past it either.             *)
IndexInv == /\ head <= tail /\ cached_tail <= tail
            /\ clean \in InPop => s_head <= tail
            /\ clean = "cache" => s_tail = tail
            /\ cons \in InPop => c_head <= tail
            /\ cons = "cache" => c_head <= c_tail /\ c_tail <= tail

(* A consumer that lags a session behind may be reading messages of the    *)
(* old symbol, also when a late store of head has brought them back after  *)
(* the supervisor found the ring empty.  It leaves none: it goes on from   *)
(* where head is until the ring is empty.                                  *)
Emptying == {"receive", "resync", "again"} \cup InPop
ReadsOn == /\ ~Mine /\ cons \in Emptying
           /\ cons \in InPop => c_head = head
           /\ cons = "cache" => c_head < c_tail
RingInv ==
  /\ clean \in {"test", "cache"} /\ s_head = tail /\ head < tail => ReadsOn
  /\ ~CleaningUp /\ ~Changing => AllOf(cfg_symbol[feed]) \/ ReadsOn
BookInv == Mine /\ ~Changing /\ cons \in InBook => book \subseteq {cfg_symbol[feed]}
PopsInv == ~overrun => IndexInv /\ RingInv /\ BookInv

(* The tape, and the answers the consumer waits for.                       *)
DataInv ==
  LET s == cfg_symbol[feed]
  IN ~Changing =>
       /\ ~(sup[feed] = "clean" /\ clean = "tape") => \A k \in 1..Len(trades) : trades[k] = s
       /\ Mine /\ cons \in {"await", "load", "again"} => asked \in {Torn, s}
SessionInv == /\ sid <= session[feed]
              /\ cons = "load" => asked \in Catalog
              /\ main.at = "done" => cons = "done"

(* The inductive invariant of a feed.                                      *)
LiveInv == /\ OneFeed /\ SwitchInv /\ (\A h \in Handlers : At(h, "idle")) /\ TypeOK
           /\ CallbackInv /\ TurnInv /\ PopsInv /\ DataInv /\ SessionInv
           /\ PublishedOfOneSymbol

(* The process ends after Ctrl-C ("Main: run until duration / Ctrl-C",     *)
(* live_feed.cpp:1201), wherever its threads are and whatever the REST     *)
(* service answers, unless a pop has gone past the tail: then the          *)
(* consumer's inner loop, which does not look at g_stop, may go on for     *)
(* ever.  This holds under Drop.  Under Block the consumer leaves a full   *)
(* ring behind, and ws.stop() waits for a callback that waits for the      *)
(* ring.                                                                   *)
ShutsDown == []<>(g_stop => main.at = "done" \/ overrun)

(* Under Drop the last switch is carried through to what is published,     *)
(* whatever the threads are waiting for and whatever the REST service      *)
(* answers: the consumer comes to a session of the active symbol and shows *)
(* that symbol and nothing of another, also if a consumer that lagged      *)
(* behind published the new name over the old book before.  Unless the     *)
(* process ends, or a pop has gone past the tail.                          *)
Reached(s) == /\ ~restart[feed] /\ ~Changing /\ cfg_symbol[feed] = s
              /\ Begun /\ Shown(s)
SwitchIsShown == []<>(Reached(symbol) \/ g_stop \/ overrun)
=============================================================================
