----------------------------- MODULE BookThread -----------------------------
(***************************************************************************)
(* Thread B of run_pipeline() (src/pipeline.cpp): handle() takes a message *)
(* off the ring, offers it to the sequencer, applies what the sequencer    *)
(* releases to the book and publishes after every application.  Here the   *)
(* messages come in any order, any number of times and in different copies *)
(* (the two lines of an A/B feed); Pipeline takes them from the ring.      *)
(*                                                                         *)
(* The book is the sequence of events applied since its last reset; what   *)
(* an event does to price levels is OrderBook's business.                  *)
(***************************************************************************)
EXTENDS Sequencer, Sequences

CONSTANTS MaxSeq,   \* bound: the largest sequence number sent
          MaxMsgs   \* bound: how many messages are handled

ASSUME BookThreadAssumption == /\ reorder_capacity > 0
                               /\ MaxSeq \in Nat /\ MaxMsgs \in Nat

VARIABLES
  phase,      \* "idle", or inside handle(): "drain" or "reload"
  msg,        \* the message handle() was called with
  msgs,       \* messages handled
  applied,    \* history: every event ever applied, as <<seq, event>>
  resetAt,    \* Len(applied) when the book was last reset
  updates,    \* Publisher::updates_
  was_stale,  \* stale() at the end of the previous handle()
  recoveries, \* how many times a gap's recovery time was taken
  firstCopy   \* history: first copy offered of each seq since the last reset

threadVars == <<phase, msg, msgs, applied, resetAt, updates,
                was_stale, recoveries, firstCopy>>
vars == <<seqVars, threadVars>>

NoMsg == <<0, 0>>

Init == /\ SeqInit
        /\ phase = "idle" /\ msg = NoMsg /\ msgs = 0
        /\ applied = <<>> /\ resetAt = 0
        /\ updates = 0 /\ was_stale = FALSE /\ recoveries = 0
        /\ firstCopy = [s \in {} |-> 0]

(* apply_ev: the event goes into the book and the book is published.       *)
ApplyEv(seq, ev) == /\ applied' = Append(applied, <<seq, ev>>)
                    /\ updates' = updates + 1

(* handle() from line 136 on: the edges of stale() time a gap's recovery.  *)
(* The fault does not forget that the stream was stale.                    *)
ReturnStaysStale == /\ phase' = "idle"
                    /\ recoveries' = IF was_stale /\ ~stale' THEN recoveries + 1
                                                            ELSE recoveries
                    /\ was_stale' = (was_stale \/ stale')
Return == /\ phase' = "idle"
          /\ recoveries' = IF was_stale /\ ~stale' THEN recoveries + 1 ELSE recoveries
          /\ was_stale' = stale'

Enter(seq, ev) == /\ phase = "idle"
                  /\ msg' = <<seq, ev>>
                  /\ msgs' = msgs + 1

HandleDrop(seq, ev) == /\ Enter(seq, ev)
                       /\ OfferDrop(seq)
                       /\ Return
                       /\ UNCHANGED <<applied, resetAt, updates, firstCopy>>

HandleBuffered(seq, ev) == /\ Enter(seq, ev)
                           /\ OfferBuffered(seq, ev)
                           /\ Return
                           /\ firstCopy' = Emplace(firstCopy, seq, ev)
                           /\ UNCHANGED <<applied, resetAt, updates>>

HandleApply(seq, ev) == /\ Enter(seq, ev)
                        /\ OfferApply(seq)
                        /\ ApplyEv(seq, ev)
                        /\ phase' = "drain"
                        /\ firstCopy' = Emplace(firstCopy, seq, ev)
                        /\ UNCHANGED <<resetAt, was_stale, recoveries>>

(* while (seq.pop_ready(r)) apply_ev(r)                                    *)
Drain == /\ phase = "drain"
         /\ PopReadyTrue
         /\ ApplyEv(expected, reorder[expected])
         /\ UNCHANGED <<phase, msg, msgs, resetAt, was_stale, recoveries, firstCopy>>

DrainEnd == /\ phase = "drain"
            /\ PopReadyFalse
            /\ Return
            /\ UNCHANGED <<msg, msgs, applied, resetAt, updates, firstCopy>>

HandleOverflow(seq, ev) == /\ Enter(seq, ev)
                           /\ OfferOverflow(seq)
                           /\ phase' = "reload"
                           /\ UNCHANGED <<applied, resetAt, updates,
                                          was_stale, recoveries, firstCopy>>

(* book.reset(); resync_to_snapshot(m.sequence); apply_ev(m.event).  The   *)
(* fault resets the book after the event instead of before it.             *)
ReloadResetsLast == /\ phase = "reload"
                    /\ ResyncToSnapshot(msg[1])
                    /\ ApplyEv(msg[1], msg[2])
                    /\ resetAt' = Len(applied')
                    /\ Return
                    /\ firstCopy' = [s \in {msg[1]} |-> msg[2]]
                    /\ UNCHANGED <<msg, msgs>>
Reload == /\ phase = "reload"
          /\ resetAt' = Len(applied)
          /\ ResyncToSnapshot(msg[1])
          /\ ApplyEv(msg[1], msg[2])
          /\ Return
          /\ firstCopy' = [s \in {msg[1]} |-> msg[2]]
          /\ UNCHANGED <<msg, msgs>>

Handle(seq, ev) == \/ HandleDrop(seq, ev) \/ HandleBuffered(seq, ev)
                   \/ HandleApply(seq, ev) \/ HandleOverflow(seq, ev)
Finish == Drain \/ DrainEnd \/ Reload

Next == \/ /\ msgs < MaxMsgs
           /\ \E seq \in start_seq..MaxSeq, ev \in Event : Handle(seq, ev)
        \/ Finish

Spec == Init /\ [][Next]_vars

-----------------------------------------------------------------------------
TypeOK == /\ expected \in Nat /\ stale \in BOOLEAN /\ needs_snapshot \in BOOLEAN
          /\ DOMAIN reorder \subseteq Nat
          /\ \A s \in DOMAIN reorder : reorder[s] \in Event
          /\ stats \in SequencerStats
          /\ phase \in {"idle", "drain", "reload"}
          /\ msgs \in Nat /\ updates \in Nat /\ recoveries \in Nat
          /\ applied \in Seq(Nat \X Event) /\ resetAt \in 0..Len(applied)
          /\ was_stale \in BOOLEAN

(* The book never has a hole, an event twice or events out of order: its   *)
(* events carry consecutive sequence numbers up to expected - 1, starting  *)
(* at start_seq, or at the message that caused the last snapshot reload.   *)
BookContiguous ==
  /\ \A i \in (resetAt + 1)..Len(applied) : applied[i][1] + Len(applied) + 1 = expected + i
  /\ IF stats.snapshot_recoveries = 0 THEN resetAt = 0 /\ expected = start_seq + Len(applied)
                                      ELSE resetAt < Len(applied)

(* Across resets too, no event is ever applied twice or after a later one. *)
AppliedOnceInOrder ==
  \A i, j \in 1..Len(applied) : i < j => applied[i][1] < applied[j][1]

(* Between messages the stream is stale exactly while future events are    *)
(* buffered, and what stands before all of them is a real hole: the next   *)
(* expected event is not among them.  A stream that stayed stale with an   *)
(* empty buffer would never recover.                                       *)
StaleIffHole ==
  phase = "idle" => /\ stale <=> DOMAIN reorder # {}
                    /\ \A s \in DOMAIN reorder : s > expected

(* The reorder buffer respects its capacity, and a reload is asked for     *)
(* only when it is full and is always carried out before the next message. *)
ReloadOnlyWhenFull == /\ Buffered <= reorder_capacity
                      /\ needs_snapshot <=> phase = "reload"
                      /\ phase = "reload" => Buffered = reorder_capacity

(* Every gap episode the sequencer counts is timed by handle() exactly     *)
(* once, when it closes, by replay or by reload: handle() sees only what   *)
(* stale() says between messages, so an episode that closed when a first   *)
(* of several holes was filled, or one that opened and closed unseen,      *)
(* would break the count.                                                  *)
GapsTimedOnce ==
  phase = "idle" => stats.gap_episodes = recoveries + (IF stale THEN 1 ELSE 0)

(* Of several copies of one sequence number the first one offered is the   *)
(* one applied, whether it was applied at once or waited in the buffer     *)
(* (emplace keeps what is there, although the comment beside it, at        *)
(* sequencer.cpp:34, says that a duplicate overwrites).                    *)
FirstCopyWins ==
  /\ \A i \in (resetAt + 1)..Len(applied) : applied[i][2] = firstCopy[applied[i][1]]
  /\ \A s \in DOMAIN reorder : reorder[s] = firstCopy[s]

(* expected moves only forward and only past an event the same step        *)
(* applies; it jumps over numbers nobody applied only in a reload forced   *)
(* by a full reorder buffer.                                               *)
SkipsOnlyOnReload ==
  [][expected' # expected =>
       /\ expected' > expected
       /\ Len(applied') = Len(applied) + 1
       /\ applied'[Len(applied')][1] = expected' - 1
       /\ expected' > expected + 1 => phase = "reload" /\ Buffered = reorder_capacity]_vars

(* Why they hold: the stream is stale exactly while something is buffered, *)
(* also inside handle(), everything buffered is ahead of expected (at it,  *)
(* while draining), and a reload is only entered from a full buffer.       *)
StaleInv == /\ stale <=> DOMAIN reorder # {}
            /\ needs_snapshot <=> phase = "reload"
            /\ phase # "drain" => was_stale = stale
            /\ stale => was_stale
BufferInv ==
  /\ IsFiniteSet(DOMAIN reorder) /\ Buffered <= reorder_capacity
  /\ \A s \in DOMAIN reorder : s > expected \/ (phase = "drain" /\ s = expected)
  /\ phase = "reload" => /\ Buffered = reorder_capacity
                         /\ msg \in Nat \X Event /\ msg[1] > expected
GapInv == stats.gap_episodes = recoveries + (IF was_stale THEN 1 ELSE 0)
OrderInv == /\ \A i \in 1..Len(applied) : applied[i][1] < expected
            /\ AppliedOnceInOrder
            /\ BookContiguous
CopyInv == /\ DOMAIN firstCopy \subseteq Nat
           /\ \A s \in DOMAIN firstCopy : s < expected \/ s \in DOMAIN reorder
           /\ \A i \in (resetAt + 1)..Len(applied) : applied[i][1] \in DOMAIN firstCopy
           /\ DOMAIN reorder \subseteq DOMAIN firstCopy
           /\ FirstCopyWins

(* The inductive invariant of the book thread: the flags, the reorder      *)
(* buffer, the gap count, the order of what was applied, and whose copy it *)
(* was.                                                                    *)
IndInv == TypeOK /\ StaleInv /\ BufferInv /\ GapInv /\ OrderInv /\ CopyInv
=============================================================================
