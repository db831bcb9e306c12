----------------------------- MODULE Sequencer -----------------------------
(***************************************************************************)
(* Per-stream sequence tracking, gap detection and recovery                *)
(* (include/feedhandler/sequencer.hpp, src/sequencer.cpp): its state and   *)
(* its three operations, which BookThread drives the way handle() does.    *)
(***************************************************************************)
EXTENDS Integers, FiniteSets

CONSTANTS Event,             \* event payloads
          start_seq,         \* SequencerConfig::start_seq
          reorder_capacity   \* SequencerConfig::reorder_capacity

ASSUME SequencerAssumption == start_seq \in Nat /\ reorder_capacity \in Nat

VARIABLES expected,        \* the next sequence number to apply
          stale,           \* is a gap open?
          needs_snapshot,  \* was the gap too large to replay?
          reorder,         \* future sequence number -> its event
          stats            \* SequencerStats

SequencerStats == [accepted : Nat, duplicates : Nat, buffered_released : Nat,
                   gap_episodes : Nat, missing_total : Nat,
                   reorder_overflow : Nat, snapshot_recoveries : Nat]

seqVars == <<expected, stale, needs_snapshot, reorder, stats>>

SeqInit == /\ expected = start_seq
           /\ stale = FALSE
           /\ needs_snapshot = FALSE
           /\ reorder = [s \in {} |-> 0]
           /\ stats = [accepted |-> 0, duplicates |-> 0, buffered_released |-> 0,
                       gap_episodes |-> 0, missing_total |-> 0,
                       reorder_overflow |-> 0, snapshot_recoveries |-> 0]

Buffered == Cardinality(DOMAIN reorder)

(* unordered_map::emplace: a key that is present keeps its value.          *)
Emplace(f, k, v) == [x \in DOMAIN f \cup {k} |-> IF x \in DOMAIN f THEN f[x] ELSE v]
Erase(f, k) == [x \in DOMAIN f \ {k} |-> f[x]]

-----------------------------------------------------------------------------
(* offer(seq, ev), one action per Disposition.                             *)

OfferDrop(seq) == /\ seq < expected
                  /\ stats' = [stats EXCEPT !.duplicates = @ + 1]
                  /\ UNCHANGED <<expected, stale, needs_snapshot, reorder>>

(* Two forms: the fault applies a message that is ahead of a hole.         *)
OfferApplyAhead(seq) == /\ seq >= expected
                        /\ expected' = seq + 1
                        /\ stats' = [stats EXCEPT !.accepted = @ + 1]
                        /\ UNCHANGED <<stale, needs_snapshot, reorder>>
OfferApply(seq) == /\ seq = expected
                   /\ expected' = expected + 1
                   /\ stats' = [stats EXCEPT !.accepted = @ + 1]
                   /\ UNCHANGED <<stale, needs_snapshot, reorder>>

(* The first future message after a quiet stretch opens a gap episode.     *)
OpenGap(seq, st) == IF stale THEN st
                    ELSE [st EXCEPT !.gap_episodes = @ + 1,
                                    !.missing_total = @ + (seq - expected)]

ReorderFullOffByOne == \* a fault
  Buffered > reorder_capacity
ReorderFull == Buffered >= reorder_capacity

(* emplace keeps the first copy.                                           *)
OfferBuffered(seq, ev) == /\ seq > expected
                          /\ ~ReorderFull
                          /\ stale' = TRUE
                          /\ stats' = OpenGap(seq, stats)
                          /\ reorder' = Emplace(reorder, seq, ev)
                          /\ UNCHANGED <<expected, needs_snapshot>>

OfferOverflow(seq) == /\ seq > expected
                      /\ ReorderFull
                      /\ stale' = TRUE
                      /\ stats' = [OpenGap(seq, stats) EXCEPT !.reorder_overflow = @ + 1]
                      /\ needs_snapshot' = TRUE
                      /\ UNCHANGED <<expected, reorder>>

-----------------------------------------------------------------------------
(* pop_ready(): the contiguous buffered event, if any.                     *)

PopReadyTrue ==
  /\ expected \in DOMAIN reorder
  /\ reorder' = Erase(reorder, expected)
  /\ expected' = expected + 1
  /\ stats' = [stats EXCEPT !.accepted = @ + 1, !.buffered_released = @ + 1]
  /\ stale' = (stale /\ DOMAIN reorder' # {})
  /\ UNCHANGED needs_snapshot

PopReadyFalse ==
  /\ expected \notin DOMAIN reorder
  /\ stale' = (stale /\ DOMAIN reorder # {})
  /\ UNCHANGED <<expected, needs_snapshot, reorder, stats>>

-----------------------------------------------------------------------------
(* resync_to_snapshot(snapshot_seq), and two faults: expecting the         *)
(* snapshot's own number again, and keeping what was buffered before it.   *)

ResyncOffByOne(snapshot_seq) ==
  /\ reorder' = [s \in {} |-> 0]
  /\ expected' = snapshot_seq
  /\ stale' = FALSE
  /\ needs_snapshot' = FALSE
  /\ stats' = [stats EXCEPT !.snapshot_recoveries = @ + 1]
ResyncKeepsBuffer(snapshot_seq) ==
  /\ expected' = snapshot_seq + 1
  /\ stale' = FALSE
  /\ needs_snapshot' = FALSE
  /\ stats' = [stats EXCEPT !.snapshot_recoveries = @ + 1]
  /\ UNCHANGED reorder
ResyncToSnapshot(snapshot_seq) ==
  /\ reorder' = [s \in {} |-> 0]
  /\ expected' = snapshot_seq + 1
  /\ stale' = FALSE
  /\ needs_snapshot' = FALSE
  /\ stats' = [stats EXCEPT !.snapshot_recoveries = @ + 1]
=============================================================================
