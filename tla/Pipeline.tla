------------------------------ MODULE Pipeline ------------------------------
(***************************************************************************)
(* run_pipeline() (src/pipeline.cpp): the ingest thread reads frames,      *)
(* parses them, may hold one back to open a gap, and sends the rest        *)
(* through the channel; the book thread polls producer_done, drains the    *)
(* channel, and after producer_done drains it once more.  The channel and  *)
(* the message handler are SpscChannel and BookThread, step for step.      *)
(*                                                                         *)
(* A message is the sequence number of its frame.  Pacing only delays the  *)
(* producer, which the interleaving already does, and is left out; so are  *)
(* consumer_spin and the time stamps.                                      *)
(***************************************************************************)
EXTENDS Integers, Sequences, FiniteSets

CONSTANTS Capacity,          \* kRingCapacity
          reorder_capacity,  \* of the sequencer
          NumFrames,         \* bound: frames in the source
          MaxBad,            \* bound: frames that do not parse
          MaxDistance        \* bound: gap_reorder_distance

(* Capacity as the static_asserts of the ring have it; the sequencer has   *)
(* room for at least one event.                                            *)
ASSUME PipelineAssumption == /\ NumFrames \in Nat /\ MaxBad \in Nat
                             /\ MaxDistance \in Nat
                             /\ Capacity \in Nat /\ Capacity >= 2
                             /\ \E k \in 1..30 : Capacity = 2^k
                             /\ reorder_capacity \in Nat \ {0}

VARIABLES
  \* the channel
  policy, head, tail, buffer, headSync, tailSync, ppc, item, cached_head, p_seen,
  writes, cpc, cached_tail, c_seen, dropped, occ, offered, accepted, received,
  \* the sequencer and the message handler
  expected, stale, needs_snapshot, reorder, stats, phase, msg, msgs, applied,
  resetAt, updates, was_stale, recoveries, firstCopy,
  \* the configuration and the source
  inject_gap_at, gap_reorder_distance,
  bad,            \* the frames parse() rejects
  \* the ingest thread
  ploc,           \* "frame", "sent", "sample", "finish" or "done"
  frame,          \* the frame being read
  holding, held, release_at, parse_errors, local_peak,
  producer_done,
  \* the book thread
  cloc            \* "poll", "drain", "final" or "joined"

Ring == INSTANCE SpscChannel WITH MaxItems <- NumFrames
Book == INSTANCE BookThread WITH Event <- {0}, start_seq <- 1,
                                 MaxSeq <- NumFrames, MaxMsgs <- NumFrames

configVars == <<inject_gap_at, gap_reorder_distance, bad>>
ingestVars == <<ploc, frame, holding, held, release_at, parse_errors, local_peak,
                producer_done>>
ringVars == <<policy, head, tail, buffer, headSync, tailSync, ppc, item, cached_head,
              p_seen, writes, cpc, cached_tail, c_seen, dropped, occ, offered, accepted,
              received>>
bookVars == <<expected, stale, needs_snapshot, reorder, stats, phase, msg, msgs, applied,
              resetAt, updates, was_stale, recoveries, firstCopy>>
vars == <<ringVars, bookVars, configVars, ingestVars, cloc>>

Frames == 1..NumFrames

Init == /\ Ring!Init
        /\ Book!Init
        /\ bad \in {b \in SUBSET Frames : Cardinality(b) <= MaxBad}
        /\ inject_gap_at \in 0..NumFrames
        /\ gap_reorder_distance \in 0..MaxDistance
        /\ (inject_gap_at = 0) <=> (gap_reorder_distance = 0)
        /\ ploc = "frame" /\ frame = 1
        /\ holding = FALSE /\ held = 0 /\ release_at = 0
        /\ parse_errors = 0 /\ local_peak = 0 /\ producer_done = FALSE
        /\ cloc = "poll"

-----------------------------------------------------------------------------
(* Thread A.  Between frames it is at ploc = "frame" and not in send().    *)

AtFrame == ploc = "frame" /\ frame <= NumFrames

(* A frame that does not parse is counted and skipped; its sequence number *)
(* is gone.                                                                *)
ParseError == /\ AtFrame /\ frame \in bad
              /\ parse_errors' = parse_errors + 1
              /\ frame' = frame + 1
              /\ UNCHANGED <<ringVars, bookVars, configVars, ploc, holding, held,
                             release_at, local_peak, producer_done, cloc>>

HoldsBack == /\ inject_gap_at # 0 /\ gap_reorder_distance # 0
             /\ ~holding /\ frame = inject_gap_at

HoldBack == /\ AtFrame /\ frame \notin bad /\ HoldsBack
            /\ holding' = TRUE
            /\ held' = frame
            /\ release_at' = frame + gap_reorder_distance
            /\ frame' = frame + 1
            /\ UNCHANGED <<ringVars, bookVars, configVars, ploc, parse_errors,
                           local_peak, producer_done, cloc>>

SendFrame == /\ AtFrame /\ frame \notin bad /\ ~HoldsBack
             /\ Ring!Send(frame)
             /\ ploc' = "sent"
             /\ UNCHANGED <<bookVars, configVars, frame, holding, held, release_at,
                            parse_errors, local_peak, producer_done, cloc>>

MustRelease == holding /\ frame >= release_at

(* The delayed frame follows; the fault forgets that it was sent.          *)

SendHeldKeepsHolding ==
            /\ ploc = "sent" /\ ppc = "idle" /\ MustRelease
            /\ Ring!Send(held)
            /\ ploc' = "sample"
            /\ UNCHANGED <<bookVars, configVars, frame, holding, held, release_at, parse_errors,
                           local_peak, producer_done, cloc>>
SendHeld == /\ ploc = "sent" /\ ppc = "idle" /\ MustRelease
            /\ Ring!Send(held)
            /\ holding' = FALSE
            /\ ploc' = "sample"
            /\ UNCHANGED <<bookVars, configVars, frame, held, release_at, parse_errors,
                           local_peak, producer_done, cloc>>

(* The end of the loop body: sample the occupancy, then the next frame.    *)
Sample == /\ ppc = "idle"
          /\ ploc = "sample" \/ (ploc = "sent" /\ ~MustRelease)
          /\ Ring!SizeApproxByProducer
          /\ local_peak' = IF occ' > local_peak THEN occ' ELSE local_peak
          /\ ploc' = "frame"
          /\ frame' = frame + 1
          /\ UNCHANGED <<bookVars, configVars, holding, held, release_at, parse_errors,
                         producer_done, cloc>>

SendHeldAtEnd == /\ ploc = "frame" /\ frame > NumFrames /\ holding
                 /\ Ring!Send(held)
                 /\ ploc' = "finish"
                 /\ UNCHANGED <<bookVars, configVars, frame, holding, held, release_at,
                                parse_errors, local_peak, producer_done, cloc>>

(* Thread A ends; the release store of producer_done is its last action.   *)
(* The fault stores it before the last send is over.                       *)
FinishEarly == /\ ploc = "frame" /\ frame > NumFrames
               /\ ploc' = "done" /\ producer_done' = TRUE
               /\ UNCHANGED <<ringVars, bookVars, configVars, frame, holding, held,
                              release_at, parse_errors, local_peak, cloc>>
Finish == /\ ppc = "idle"
          /\ ploc = "finish" \/ (ploc = "frame" /\ frame > NumFrames /\ ~holding)
          /\ ploc' = "done" /\ producer_done' = TRUE
          /\ UNCHANGED <<ringVars, bookVars, configVars, frame, holding, held,
                         release_at, parse_errors, local_peak, cloc>>

InSend == /\ \/ Ring!PushReload \/ Ring!PushWrite \/ Ring!PushPublish
             \/ Ring!BlockRetry \/ Ring!Drop
          /\ UNCHANGED <<bookVars, configVars, ingestVars, cloc>>

Ingest == \/ ParseError \/ HoldBack \/ SendFrame \/ SendHeld \/ Sample
          \/ SendHeldAtEnd \/ Finish \/ InSend

-----------------------------------------------------------------------------
(* Thread B.                                                               *)

Popped == msgs < Len(received) /\ cpc = "idle"  \* receive() returned true

(* producer_done.load(acquire): an old FALSE may still be read, and        *)
(* reading TRUE also makes every tail stored before it visible.            *)
PollFalse == /\ cloc = "poll"
             /\ cloc' = "drain"
             /\ UNCHANGED <<ringVars, bookVars, configVars, ingestVars>>

SeenWithDoneRelaxed == c_seen  \* a fault: a relaxed load
SeenWithDone == tail  \* the ingest thread stores no tail after producer_done

PollTrue == /\ cloc = "poll" /\ producer_done
            /\ cloc' = "final"
            /\ c_seen' = SeenWithDone
            /\ UNCHANGED <<policy, head, tail, buffer, headSync, tailSync, ppc, item,
                           cached_head, p_seen, writes, cpc, cached_tail, dropped, occ,
                           offered, accepted, received, bookVars, configVars, ingestVars>>

Receive == /\ cloc \in {"drain", "final"} /\ phase = "idle" /\ ~Popped
           /\ Ring!Receive
           /\ UNCHANGED <<bookVars, configVars, ingestVars, cloc>>

(* receive() returning false ends a drain loop.                            *)
EndDrain == IF cloc = "drain" THEN "poll" ELSE "joined"

InReceive == /\ Ring!PopReload \/ Ring!PopRead \/ Ring!PopRelease
             /\ cloc' = IF cpc = "reload" /\ cpc' = "idle" THEN EndDrain ELSE cloc
             /\ UNCHANGED <<bookVars, configVars, ingestVars>>

Handle == /\ Popped
          /\ Book!Handle(received[Len(received)], 0)
          /\ UNCHANGED <<ringVars, configVars, ingestVars, cloc>>

InHandle == /\ Book!Finish
            /\ UNCHANGED <<ringVars, configVars, ingestVars, cloc>>

BookLoop == PollFalse \/ PollTrue \/ Receive \/ InReceive \/ Handle \/ InHandle

Joined == cloc = "joined"
Terminated == Joined /\ UNCHANGED vars

Next == Ingest \/ BookLoop \/ Terminated

Spec == Init /\ [][Next]_vars

(* Both threads run, and repeated loads do not return old values for ever. *)
Fairness == /\ WF_vars(Ingest)
            /\ SF_vars(InSend /\ cached_head' = head /\ ppc = "reload")
            /\ WF_vars(BookLoop)
            /\ SF_vars(PollTrue)
            /\ SF_vars(InReceive /\ cached_tail' = tail /\ cpc = "reload")

FairSpec == Spec /\ Fairness

-----------------------------------------------------------------------------
TypeOK == /\ Ring!TypeOK /\ Book!TypeOK
          /\ ploc \in {"frame", "sent", "sample", "finish", "done"}
          /\ frame \in 1..(NumFrames + 1)
          /\ holding \in BOOLEAN /\ held \in 0..NumFrames
          /\ parse_errors \in 0..NumFrames /\ local_peak \in 0..Capacity
          /\ cloc \in {"poll", "drain", "final", "joined"}

(* The channel's guarantees survive its real use: the out-of-order send of *)
(* the held frame, and the acquire load of producer_done, which moves what *)
(* the consumer has seen.                                                  *)
RingSafe == Ring!NoDataRace /\ Ring!FifoDelivery /\ Ring!ExactAccounting

(* run_pipeline() leaves nothing behind: when it returns the ring is empty,*)
(* every message sent was handled, and every frame of the source is        *)
(* accounted for by exactly one of messages, parse_errors and drops.       *)
NothingLeftBehind ==
  /\ TypeOK /\ RingSafe
  /\ Joined => /\ producer_done /\ head = tail /\ phase = "idle"
               /\ msgs = Len(accepted)
               /\ NumFrames = msgs + parse_errors + dropped

(* If the result reports no parse error, no drop and no overflow, then the *)
(* book was built from all frames in order, however they were delayed, and *)
(* the stream is not stale.                                                *)
CleanCountersMeanExactBook ==
  Joined /\ parse_errors = 0 /\ dropped = 0 /\ stats.reorder_overflow = 0
    => applied = [i \in Frames |-> <<i, 0>>] /\ ~stale

(* Frames the consumer gets ahead of the held one.                         *)
Overtaking == IF inject_gap_at = 0 THEN 0
              ELSE IF gap_reorder_distance <= NumFrames - inject_gap_at
                   THEN gap_reorder_distance ELSE NumFrames - inject_gap_at

(* Replay fills an injected gap exactly when the frames that overtake the  *)
(* held one fit in the reorder buffer; one more and the book is reloaded.  *)
GapRecoveryBoundary ==
  Joined /\ bad = {} /\ policy = "Block"
    => /\ stats.reorder_overflow = 0 <=> Overtaking <= reorder_capacity
       /\ Overtaking <= reorder_capacity =>
            stats.buffered_released = Overtaking

(* A lost frame is never hidden: if a message later in the stream than an  *)
(* unapplied frame was handled, a gap was counted.                         *)
LossIsVisible ==
  Joined => \A f \in Frames :
    (/\ \A i \in 1..Len(applied) : applied[i][1] # f
     /\ \E i \in 1..Len(received) : received[i] > f) => stats.gap_episodes > 0

(* Why they hold.  Of the frames read so far each is a parse error, was    *)
(* sent, or is held back and not sent yet; a frame that is neither lost    *)
(* nor held is in the ring's log or in hand.                               *)
Unsent == holding /\ ploc \notin {"finish", "done"}
Read(f) == f < frame \/ (f = frame /\ ploc \in {"sent", "sample"})
Sent(f) == \E i \in 1..Len(accepted) : accepted[i] = f
IngestAt ==
  /\ producer_done <=> ploc = "done"
  /\ ppc # "idle" => ploc \in {"sent", "sample", "finish"}
  /\ ploc \in {"sent", "sample"} => frame <= NumFrames
  /\ ploc \in {"finish", "done"} => frame = NumFrames + 1
  /\ holding => held \in Frames
  /\ \A i \in 1..Len(accepted) : accepted[i] \in Frames
FramesCounted ==
  offered + parse_errors + (IF Unsent THEN 1 ELSE 0)
    = (frame - 1) + (IF ploc \in {"sent", "sample"} THEN 1 ELSE 0)
FramesSent ==
  parse_errors = 0 /\ dropped = 0 =>
    \A f \in Frames : Read(f) =>
      Sent(f) \/ (ppc # "idle" /\ item = f) \/ (Unsent /\ held = f)
IngestInv == Ring!IndInv /\ IngestAt /\ FramesCounted /\ FramesSent

(* Thread B handles each message it pops before it pops the next one, and  *)
(* after it has seen producer_done the tail it has seen is the last.       *)
DrainInv ==
  /\ msgs = Len(received) \/ (cpc \in {"idle", "release"} /\ msgs + 1 = Len(received))
  /\ cpc = "release" => msgs + 1 = Len(received)
  /\ cloc \in {"poll", "joined"} => cpc = "idle" /\ phase = "idle" /\ msgs = Len(received)
  /\ phase # "idle" => cpc = "idle" /\ msgs = Len(received)
  /\ cloc \in {"final", "joined"} => producer_done /\ c_seen = tail
  /\ Joined => head = tail

(* A message that was handled was applied or is buffered, unless an        *)
(* overflow made the sequencer skip; and an overflow opens a gap.          *)
MessagesKept ==
  /\ DOMAIN reorder \subseteq Frames /\ expected <= NumFrames + 1
  /\ phase = "reload" => msg[1] \in Frames
  /\ stats.gap_episodes = 0 => stats.reorder_overflow = 0
  /\ stats.reorder_overflow = 0 =>
       /\ stats.snapshot_recoveries = 0 /\ phase # "reload"
       /\ \A i \in 1..msgs : received[i] < expected \/ received[i] \in DOMAIN reorder
HandledInv == Book!IndInv /\ MessagesKept

(* The inductive invariant of the pipeline.                                *)
PipelineInv == TypeOK /\ IngestInv /\ DrainInv /\ HandledInv

(* Why the boundary is exact.  With every frame parsed and none dropped    *)
(* the order of the messages is fixed: the held frame comes Overtaking     *)
(* places late, and the frames that overtake it come one place early.      *)
HeldPlace == inject_gap_at + Overtaking
Nth(i) == IF i < inject_gap_at \/ i > HeldPlace THEN i
          ELSE IF i < HeldPlace THEN i + 1 ELSE inject_gap_at
GapConfig == /\ inject_gap_at \in 0..NumFrames /\ gap_reorder_distance \in Nat
             /\ (inject_gap_at = 0) <=> (gap_reorder_distance = 0)
SendOrder ==
  /\ parse_errors = 0
  /\ holding => /\ held = inject_gap_at /\ inject_gap_at # 0
                /\ release_at = inject_gap_at + gap_reorder_distance
                /\ inject_gap_at < frame /\ frame <= release_at
                /\ ploc # "sample"
  /\ ~holding => \/ frame < inject_gap_at \/ (frame = inject_gap_at /\ ploc = "frame")
                 \/ frame > inject_gap_at + gap_reorder_distance
                 \/ (frame = inject_gap_at + gap_reorder_distance /\ ploc = "sample")
  /\ \A i \in 1..Len(accepted) : accepted[i] = Nth(i)
  /\ ppc # "idle" => item = Nth(Len(accepted) + 1)

(* The handler after msgs of these messages: before the gap, while it is   *)
(* open and fits, once it has overflowed, while it is replayed, and after. *)
Counted(o, r) == stats.reorder_overflow = o /\ stats.buffered_released = r
BeforeGap == /\ Counted(0, 0) /\ DOMAIN reorder = {} /\ expected = msgs + 1
             /\ phase # "reload"
InGap == /\ Counted(0, 0) /\ phase = "idle" /\ expected = inject_gap_at
         /\ DOMAIN reorder = (inject_gap_at + 1)..(msgs + 1)
Replayed == /\ Counted(0, expected - inject_gap_at - 1) /\ phase # "reload"
            /\ expected \in (inject_gap_at + 1)..(HeldPlace + 1)
            /\ DOMAIN reorder = expected..HeldPlace
            /\ phase = "idle" => expected = HeldPlace + 1
AfterGap == /\ Counted(0, Overtaking) /\ DOMAIN reorder = {} /\ expected = msgs + 1
            /\ phase # "reload"
GapProgress ==
  /\ msgs < inject_gap_at => BeforeGap
  /\ inject_gap_at <= msgs /\ msgs < HeldPlace
       /\ msgs < inject_gap_at + reorder_capacity => InGap
  /\ Overtaking > reorder_capacity /\ msgs >= inject_gap_at + reorder_capacity
       => stats.reorder_overflow > 0
  /\ Overtaking <= reorder_capacity /\ msgs = HeldPlace => Replayed
  /\ Overtaking <= reorder_capacity /\ msgs > HeldPlace => AfterGap
GapRunInv == GapConfig /\ (bad = {} /\ policy = "Block" => SendOrder /\ GapProgress)

(* Thread B is a BookThread: what holds of the handler under any order and *)
(* number of messages holds in the pipeline.                               *)
ImplementsBookThread == Book!Spec

(* run_pipeline() returns.                                                 *)
Returns == <>Joined
=============================================================================
