--------------------------- MODULE PipelineProofs ---------------------------
(***************************************************************************)
(* The properties of run_pipeline() proved for every ring and reorder      *)
(* capacity, number of frames, set of frames that do not parse, and place  *)
(* and length of an injected gap.  The channel's and the handler's own     *)
(* invariants are theirs (SpscChannelProofs, BookThreadProofs), taken over *)
(* by instantiation; PipelineInv adds what ties the two threads together.  *)
(***************************************************************************)
EXTENDS Pipeline, FiniteSetTheorems, TLAPS

RingP == INSTANCE SpscChannelProofs WITH MaxItems <- NumFrames
BookP == INSTANCE BookThreadProofs WITH Event <- {0}, start_seq <- 1,
                                        MaxSeq <- NumFrames, MaxMsgs <- NumFrames

(* The assumptions of the two components hold of the pipeline's constants. *)
LEMMA Constants ==
  /\ NumFrames \in Nat /\ reorder_capacity \in Nat /\ reorder_capacity > 0
  /\ Capacity \in Nat /\ Capacity >= 2
BY PipelineAssumption, SMT

(* The capacity's assumption, in the form the ring's module has it.        *)
LEMMA PowerOfTwo == \E k \in 1..30 : Capacity = 2^k
BY PipelineAssumption, Zenon

(* Both names of the channel's invariant mean the same.                    *)
LEMMA RingSame == Ring!IndInv <=> RingP!IndInv
BY DEF Ring!IndInv, RingP!IndInv, Ring!TypeOK, RingP!TypeOK, Ring!IndexOrder,
   RingP!IndexOrder, Ring!AccessCounts, RingP!AccessCounts, Ring!SyncExact,
   RingP!SyncExact, Ring!Contents, RingP!Contents, Ring!ExactAccounting,
   RingP!ExactAccounting, Ring!Item, RingP!Item, Ring!reads, RingP!reads,
   Ring!Slot, RingP!Slot

(* The channel's invariant survives every step of the channel.             *)
LEMMA RingStep ==
  ASSUME Ring!IndInv,
         \/ \E x \in Frames : Ring!Send(x)
         \/ Ring!Producer \/ Ring!Consumer \/ UNCHANGED ringVars
  PROVE  Ring!IndInv'
<1>. USE DEF Ring!Item, RingP!Item, Ring!reads, RingP!reads, Ring!Slot, RingP!Slot,
             Ring!sharedVars, RingP!sharedVars, Ring!producerVars, RingP!producerVars,
             Ring!consumerVars, RingP!consumerVars, Ring!historyVars, RingP!historyVars
<1>1. RingP!IndInv
  BY RingSame
<1>2. RingP!IndInv' => Ring!IndInv'
  BY RingSame, PTL
<1>3. ASSUME NEW x \in Frames, Ring!Send(x)
      PROVE  \E y \in RingP!Item : RingP!Send(y)
  <2>1. RingP!Send(x)
    BY <1>3 DEF Ring!Send, RingP!Send, Ring!PushEntry, RingP!PushEntry, Ring!Full, RingP!Full
  <2>2. x \in RingP!Item
    BY DEF Frames
  <2>. QED BY <2>1, <2>2, Zenon
<1>4. ASSUME Ring!Producer PROVE RingP!Producer
  BY <1>4 DEF Ring!Producer, RingP!Producer, Ring!PushReload, RingP!PushReload,
     Ring!PushWrite, RingP!PushWrite, Ring!PushPublish, RingP!PushPublish,
     Ring!BlockRetry, RingP!BlockRetry, Ring!Drop, RingP!Drop,
     Ring!SizeApproxByProducer, RingP!SizeApproxByProducer,
     Ring!LoadableHead, RingP!LoadableHead, Ring!PushEntry, RingP!PushEntry,
     Ring!Full, RingP!Full
<1>5. ASSUME Ring!Consumer PROVE RingP!Consumer
  BY <1>5 DEF Ring!Consumer, RingP!Consumer, Ring!Receive, RingP!Receive,
     Ring!PopReload, RingP!PopReload, Ring!PopRead, RingP!PopRead,
     Ring!PopRelease, RingP!PopRelease, Ring!SizeApproxByConsumer,
     RingP!SizeApproxByConsumer, Ring!LoadableTail, RingP!LoadableTail
<1>6. ASSUME UNCHANGED ringVars PROVE UNCHANGED RingP!vars
  BY <1>6 DEF ringVars, RingP!vars
<1>7. \/ \E y \in RingP!Item : RingP!Send(y)
      \/ RingP!Producer \/ RingP!Consumer \/ UNCHANGED RingP!vars
  BY <1>3, <1>4, <1>5, <1>6
<1>. QED BY <1>1, <1>2, <1>7, RingP!AnyStep, Constants, PowerOfTwo

(* Both names of the handler's invariant mean the same.                    *)
LEMMA BookSame == Book!IndInv <=> BookP!IndInv
<1>. USE DEF Book!SequencerStats, BookP!SequencerStats, Book!Buffered, BookP!Buffered,
             Book!Cardinality, BookP!Cardinality, Book!IsFiniteSet, BookP!IsFiniteSet
<1>1. (Book!TypeOK <=> BookP!TypeOK) /\ (Book!StaleInv <=> BookP!StaleInv)
  BY Zenon DEF Book!TypeOK, BookP!TypeOK, Book!StaleInv, BookP!StaleInv
<1>2. (Book!BufferInv <=> BookP!BufferInv) /\ (Book!GapInv <=> BookP!GapInv)
  BY Zenon DEF Book!BufferInv, BookP!BufferInv, Book!GapInv, BookP!GapInv
<1>3. (Book!OrderInv <=> BookP!OrderInv) /\ (Book!CopyInv <=> BookP!CopyInv)
  BY Zenon DEF Book!OrderInv, BookP!OrderInv, Book!AppliedOnceInOrder,
     BookP!AppliedOnceInOrder, Book!BookContiguous, BookP!BookContiguous,
     Book!CopyInv, BookP!CopyInv, Book!FirstCopyWins, BookP!FirstCopyWins
<1>. QED BY <1>1, <1>2, <1>3 DEF Book!IndInv, BookP!IndInv

(* The handler's invariant survives every step of the handler.             *)
LEMMA BookStep ==
  ASSUME Book!IndInv,
         \/ \E f \in Frames : Book!Handle(f, 0)
         \/ Book!Finish \/ UNCHANGED bookVars
  PROVE  Book!IndInv'
<1>. USE DEF Book!SequencerStats, BookP!SequencerStats, Book!Buffered, BookP!Buffered,
             Book!Cardinality, BookP!Cardinality, Book!IsFiniteSet, BookP!IsFiniteSet
<1>1. BookP!IndInv
  BY BookSame
<1>2. BookP!IndInv' => Book!IndInv'
  BY BookSame, PTL
<1>. USE DEF Book!Return, BookP!Return, Book!ApplyEv, BookP!ApplyEv, Book!Emplace,
             BookP!Emplace
<1>3. ASSUME NEW f \in Frames, Book!Handle(f, 0)
      PROVE  \E seq \in Nat, ev \in {0} : BookP!Handle(seq, ev)
  <2>1. BookP!Handle(f, 0)
    <3>1. Book!HandleDrop(f, 0) => BookP!HandleDrop(f, 0)
      BY Zenon DEF Book!HandleDrop, BookP!HandleDrop, Book!Enter, BookP!Enter,
         Book!OfferDrop, BookP!OfferDrop
    <3>2. Book!HandleBuffered(f, 0) => BookP!HandleBuffered(f, 0)
      BY Zenon DEF Book!HandleBuffered, BookP!HandleBuffered, Book!Enter, BookP!Enter,
         Book!OfferBuffered, BookP!OfferBuffered, Book!OpenGap, BookP!OpenGap,
         Book!ReorderFull, BookP!ReorderFull
    <3>3. Book!HandleApply(f, 0) => BookP!HandleApply(f, 0)
      BY Zenon DEF Book!HandleApply, BookP!HandleApply, Book!Enter, BookP!Enter,
         Book!OfferApply, BookP!OfferApply
    <3>4. Book!HandleOverflow(f, 0) => BookP!HandleOverflow(f, 0)
      BY Zenon DEF Book!HandleOverflow, BookP!HandleOverflow, Book!Enter, BookP!Enter,
         Book!OfferOverflow, BookP!OfferOverflow, Book!OpenGap, BookP!OpenGap,
         Book!ReorderFull, BookP!ReorderFull
    <3>. QED BY <1>3, <3>1, <3>2, <3>3, <3>4 DEF Book!Handle, BookP!Handle
  <2>2. f \in Nat /\ 0 \in {0}
    BY Constants, SMT DEF Frames
  <2>. QED BY <2>1, <2>2, Zenon
<1>4. ASSUME Book!Finish PROVE BookP!Finish
  BY <1>4, Zenon DEF Book!Finish, BookP!Finish, Book!Drain, BookP!Drain, Book!DrainEnd,
     BookP!DrainEnd, Book!Reload, BookP!Reload, Book!PopReadyTrue, BookP!PopReadyTrue,
     Book!PopReadyFalse, BookP!PopReadyFalse, Book!ResyncToSnapshot,
     BookP!ResyncToSnapshot, Book!Erase, BookP!Erase
<1>5. ASSUME UNCHANGED bookVars PROVE UNCHANGED BookP!vars
  BY <1>5 DEF bookVars, BookP!vars, BookP!seqVars, BookP!threadVars
<1>6. \/ \E seq \in Nat, ev \in {0} : BookP!Handle(seq, ev)
      \/ BookP!Finish \/ UNCHANGED BookP!vars
  BY <1>3, <1>4, <1>5
<1>7. 1 \in Nat
  BY SMT
<1>. QED BY <1>1, <1>2, <1>6, <1>7, BookP!AnyStep, Constants

-----------------------------------------------------------------------------
(* What the pipeline uses of the channel's invariant.                      *)
LEMMA RingFacts ==
  ASSUME Ring!IndInv
  PROVE  /\ head \in Nat /\ tail \in Nat /\ offered \in Nat /\ dropped \in Nat
         /\ c_seen \in Nat /\ c_seen <= tail /\ occ \in 0..Capacity
         /\ ppc \in {"idle", "reload", "full", "write", "publish"}
         /\ cpc \in {"idle", "reload", "read", "release"}
         /\ accepted \in Seq(Nat) /\ received \in Seq(Nat)
         /\ Len(accepted) = tail
         /\ Len(received) = head + (IF cpc = "release" THEN 1 ELSE 0)
         /\ Len(received) <= Len(accepted)
         /\ \A i \in 1..Len(received) : received[i] = accepted[i]
         /\ offered = Len(accepted) + dropped + (IF ppc = "idle" THEN 0 ELSE 1)
         /\ ppc # "idle" => item \in Frames
<1>1. Ring!TypeOK /\ Ring!IndexOrder /\ Ring!AccessCounts /\ Ring!Contents
        /\ Ring!ExactAccounting /\ occ \in 0..Capacity /\ (ppc # "idle" => item \in Frames)
  BY DEF Ring!IndInv, Ring!Item, Frames
<1>2. /\ head \in Nat /\ tail \in Nat /\ offered \in Nat /\ dropped \in Nat
      /\ c_seen \in Nat /\ c_seen <= tail
      /\ ppc \in {"idle", "reload", "full", "write", "publish"}
      /\ cpc \in {"idle", "reload", "read", "release"}
      /\ accepted \in Seq(Nat) /\ received \in Seq(Nat)
      /\ cached_tail \in Nat
  BY <1>1, SMT DEF Ring!TypeOK
<1>3. /\ Len(accepted) = tail
      /\ Len(received) = head + (IF cpc = "release" THEN 1 ELSE 0)
  BY <1>1, Zenon DEF Ring!AccessCounts, Ring!reads
<1>4. head <= cached_tail /\ cached_tail <= c_seen /\ c_seen <= tail
        /\ (cpc \in {"read", "release"} => head < cached_tail)
  BY <1>1, Zenon DEF Ring!IndexOrder
<1>5. Len(received) <= Len(accepted)
  BY <1>2, <1>3, <1>4, SMT
<1>6. \A i \in 1..Len(received) : received[i] = accepted[i]
  BY <1>1, Zenon DEF Ring!Contents, Ring!reads
<1>7. offered = Len(accepted) + dropped + (IF ppc = "idle" THEN 0 ELSE 1)
  BY <1>1, Zenon DEF Ring!ExactAccounting
<1>. QED BY <1>1, <1>2, <1>3, <1>5, <1>6, <1>7

(* The local part of TypeOK.                                               *)
LocalTypes == /\ ploc \in {"frame", "sent", "sample", "finish", "done"}
              /\ frame \in 1..(NumFrames + 1)
              /\ holding \in BOOLEAN /\ held \in 0..NumFrames
              /\ parse_errors \in 0..NumFrames /\ local_peak \in 0..Capacity
              /\ cloc \in {"poll", "drain", "final", "joined"}

(* The types of the parts and of the pipeline's own variables.             *)
LEMMA TypeParts == TypeOK <=> Ring!TypeOK /\ Book!TypeOK /\ LocalTypes
BY DEF TypeOK, LocalTypes

(* The invariant from its parts, after a step.                             *)
LEMMA InvParts ==
  ASSUME Ring!IndInv', Book!IndInv', LocalTypes', IngestAt', FramesCounted', FramesSent',
         DrainInv', MessagesKept'
  PROVE  PipelineInv'
<1>1. TypeOK'
  BY DEF TypeOK, LocalTypes, Ring!IndInv, Book!IndInv
<1>. QED BY <1>1 DEF PipelineInv, IngestInv, HandledInv

LEMMA InvGives ==
  ASSUME PipelineInv
  PROVE  /\ Ring!IndInv /\ Book!IndInv /\ LocalTypes /\ IngestAt /\ FramesCounted
         /\ FramesSent /\ DrainInv /\ MessagesKept
BY DEF PipelineInv, TypeOK, LocalTypes, IngestInv, HandledInv

-----------------------------------------------------------------------------
(* Thread A: where it is, how many frames it has accounted for, and which. *)
IngestPart == LocalTypes /\ IngestAt /\ FramesCounted /\ FramesSent

LEMMA ParseErrorStep ==
  ASSUME PipelineInv, ParseError PROVE IngestPart'
<1>0. /\ LocalTypes /\ IngestAt /\ FramesCounted /\ FramesSent
      /\ offered \in Nat /\ NumFrames \in Nat
  BY InvGives, RingFacts, Constants
<1>1. /\ ploc = "frame" /\ frame <= NumFrames /\ parse_errors' = parse_errors + 1
      /\ frame' = frame + 1 /\ ploc' = ploc /\ holding' = holding /\ held' = held
      /\ local_peak' = local_peak /\ producer_done' = producer_done /\ cloc' = cloc
      /\ ppc' = ppc /\ item' = item /\ offered' = offered /\ accepted' = accepted
      /\ dropped' = dropped
  BY DEF ParseError, AtFrame, ringVars
<1>2. FramesCounted'
  BY <1>0, <1>1, SMT DEF LocalTypes, FramesCounted, Unsent
<1>3. parse_errors' \in 0..NumFrames
  BY <1>0, <1>1, <1>2, SMT DEF LocalTypes, FramesCounted
<1>4. LocalTypes'
  BY <1>0, <1>1, <1>3, SMT DEF LocalTypes
<1>5. IngestAt'
  BY <1>0, <1>1, SMT DEF LocalTypes, IngestAt
<1>6. FramesSent'
  BY <1>0, <1>1, SMT DEF LocalTypes, FramesSent
<1>. QED BY <1>2, <1>4, <1>5, <1>6 DEF IngestPart

LEMMA HoldBackStep ==
  ASSUME PipelineInv, HoldBack PROVE IngestPart'
<1>0. /\ LocalTypes /\ IngestAt /\ FramesCounted /\ FramesSent
      /\ offered \in Nat /\ NumFrames \in Nat
  BY InvGives, RingFacts, Constants
<1>1. /\ ploc = "frame" /\ frame <= NumFrames /\ ~holding /\ holding' = TRUE
      /\ held' = frame /\ frame' = frame + 1 /\ ploc' = ploc
      /\ parse_errors' = parse_errors
      /\ local_peak' = local_peak /\ producer_done' = producer_done /\ cloc' = cloc
      /\ ppc' = ppc /\ item' = item /\ offered' = offered /\ accepted' = accepted
      /\ dropped' = dropped
  BY DEF HoldBack, HoldsBack, AtFrame, ringVars
<1>2. FramesCounted'
  BY <1>0, <1>1, SMT DEF LocalTypes, FramesCounted, Unsent
<1>4. LocalTypes'
  BY <1>0, <1>1, SMT DEF LocalTypes
<1>5. IngestAt'
  BY <1>0, <1>1, SMT DEF LocalTypes, IngestAt, Frames
<1>6. FramesSent'
  <2>. SUFFICES ASSUME parse_errors = 0, dropped = 0, NEW f \in Frames, Read(f)'
                PROVE  Sent(f) \/ (Unsent' /\ held' = f)
    BY <1>1 DEF FramesSent, Sent
  <2>1. ppc = "idle" /\ ~Unsent /\ Unsent'
    BY <1>0, <1>1 DEF IngestAt, Unsent
  <2>2. CASE f = frame
    BY <1>0, <1>1, <2>1, <2>2
  <2>3. CASE f # frame
    <3>1. Read(f)
      BY <1>0, <1>1, <2>3, SMT DEF Read, LocalTypes, Frames
    <3>. QED BY <1>0, <2>1, <3>1 DEF FramesSent
  <2>. QED BY <2>2, <2>3
<1>. QED BY <1>2, <1>4, <1>5, <1>6 DEF IngestPart

LEMMA SendFrameStep ==
  ASSUME PipelineInv, SendFrame PROVE IngestPart'
<1>0. /\ LocalTypes /\ IngestAt /\ FramesCounted /\ FramesSent
      /\ offered \in Nat /\ NumFrames \in Nat
  BY InvGives, RingFacts, Constants
<1>1. /\ ploc = "frame" /\ frame <= NumFrames /\ ploc' = "sent"
      /\ ppc = "idle" /\ ppc' # "idle" /\ item' = frame /\ offered' = offered + 1
      /\ accepted' = accepted /\ dropped' = dropped
      /\ holding' = holding /\ held' = held /\ frame' = frame
      /\ parse_errors' = parse_errors
      /\ local_peak' = local_peak /\ producer_done' = producer_done /\ cloc' = cloc
  BY DEF SendFrame, AtFrame, Ring!Send, Ring!PushEntry
<1>2. FramesCounted'
  BY <1>0, <1>1, SMT DEF LocalTypes, FramesCounted, Unsent
<1>4. LocalTypes'
  BY <1>0, <1>1, SMT DEF LocalTypes
<1>5. IngestAt'
  BY <1>0, <1>1, SMT DEF LocalTypes, IngestAt, Frames
<1>6. FramesSent'
  <2>. SUFFICES ASSUME parse_errors = 0, dropped = 0, NEW f \in Frames, Read(f)'
                PROVE  Sent(f) \/ item' = f \/ (Unsent' /\ held' = f)
    BY <1>1 DEF FramesSent, Sent
  <2>1. Unsent' <=> Unsent
    BY <1>1 DEF Unsent
  <2>2. f = frame \/ Read(f)
    BY <1>0, <1>1, SMT DEF Read, LocalTypes, Frames
  <2>. QED BY <1>0, <1>1, <2>1, <2>2 DEF FramesSent
<1>. QED BY <1>2, <1>4, <1>5, <1>6 DEF IngestPart

LEMMA SendHeldStep ==
  ASSUME PipelineInv, SendHeld PROVE IngestPart'
<1>0. /\ LocalTypes /\ IngestAt /\ FramesCounted /\ FramesSent
      /\ offered \in Nat /\ NumFrames \in Nat
  BY InvGives, RingFacts, Constants
<1>1. /\ ploc = "sent" /\ holding /\ ploc' = "sample"
      /\ ppc = "idle" /\ ppc' # "idle" /\ item' = held /\ offered' = offered + 1
      /\ accepted' = accepted /\ dropped' = dropped
      /\ holding' = FALSE /\ held' = held /\ frame' = frame
      /\ parse_errors' = parse_errors
      /\ local_peak' = local_peak /\ producer_done' = producer_done /\ cloc' = cloc
  BY DEF SendHeld, MustRelease, Ring!Send, Ring!PushEntry
<1>2. FramesCounted'
  BY <1>0, <1>1, SMT DEF LocalTypes, FramesCounted, Unsent
<1>4. LocalTypes'
  BY <1>0, <1>1 DEF LocalTypes
<1>5. IngestAt'
  BY <1>0, <1>1, SMT DEF LocalTypes, IngestAt, Frames
<1>6. FramesSent'
  <2>. SUFFICES ASSUME parse_errors = 0, dropped = 0, NEW f \in Frames, Read(f)'
                PROVE  Sent(f) \/ item' = f
    BY <1>1 DEF FramesSent, Sent
  <2>1. Read(f)
    BY <1>1 DEF Read
  <2>. QED BY <1>0, <1>1, <2>1 DEF FramesSent
<1>. QED BY <1>2, <1>4, <1>5, <1>6 DEF IngestPart

LEMMA SendHeldAtEndStep ==
  ASSUME PipelineInv, SendHeldAtEnd PROVE IngestPart'
<1>0. /\ LocalTypes /\ IngestAt /\ FramesCounted /\ FramesSent
      /\ offered \in Nat /\ NumFrames \in Nat
  BY InvGives, RingFacts, Constants
<1>1. /\ ploc = "frame" /\ frame > NumFrames /\ holding /\ ploc' = "finish"
      /\ ppc = "idle" /\ ppc' # "idle" /\ item' = held /\ offered' = offered + 1
      /\ accepted' = accepted /\ dropped' = dropped
      /\ holding' = holding /\ held' = held /\ frame' = frame
      /\ parse_errors' = parse_errors
      /\ local_peak' = local_peak /\ producer_done' = producer_done /\ cloc' = cloc
  BY DEF SendHeldAtEnd, Ring!Send, Ring!PushEntry
<1>2. FramesCounted'
  BY <1>0, <1>1, SMT DEF LocalTypes, FramesCounted, Unsent
<1>4. LocalTypes'
  BY <1>0, <1>1, SMT DEF LocalTypes
<1>5. IngestAt'
  BY <1>0, <1>1, SMT DEF LocalTypes, IngestAt, Frames
<1>6. FramesSent'
  <2>. SUFFICES ASSUME parse_errors = 0, dropped = 0, NEW f \in Frames, Read(f)'
                PROVE  Sent(f) \/ item' = f
    BY <1>1 DEF FramesSent, Sent
  <2>1. Read(f)
    BY <1>1 DEF Read
  <2>. QED BY <1>0, <1>1, <2>1 DEF FramesSent
<1>. QED BY <1>2, <1>4, <1>5, <1>6 DEF IngestPart

LEMMA SampleStep ==
  ASSUME PipelineInv, Sample PROVE occ' \in 0..Capacity => IngestPart'
<1>. SUFFICES ASSUME occ' \in 0..Capacity PROVE IngestPart'
  OBVIOUS
<1>0. /\ LocalTypes /\ IngestAt /\ FramesCounted /\ FramesSent
      /\ offered \in Nat /\ NumFrames \in Nat
  BY InvGives, RingFacts, Constants
<1>1. /\ ploc \in {"sent", "sample"} /\ ploc' = "frame" /\ frame' = frame + 1
      /\ ppc = "idle" /\ ppc' = ppc /\ item' = item /\ offered' = offered
      /\ accepted' = accepted /\ dropped' = dropped
      /\ holding' = holding /\ held' = held
      /\ parse_errors' = parse_errors
      /\ local_peak' = (IF occ' > local_peak THEN occ' ELSE local_peak)
      /\ producer_done' = producer_done /\ cloc' = cloc
  BY DEF Sample, Ring!SizeApproxByProducer, Ring!historyVars
<1>2. FramesCounted'
  BY <1>0, <1>1, SMT DEF LocalTypes, FramesCounted, Unsent
<1>3. frame <= NumFrames
  BY <1>0, <1>1 DEF IngestAt
<1>4. LocalTypes'
  <2>1. local_peak' \in 0..Capacity
    BY <1>0, <1>1 DEF LocalTypes
  <2>2. frame' \in 1..(NumFrames + 1)
    BY <1>0, <1>1, <1>3, SMT DEF LocalTypes
  <2>. QED BY <1>0, <1>1, <2>1, <2>2, Zenon DEF LocalTypes
<1>5. IngestAt'
  BY <1>0, <1>1, SMT DEF LocalTypes, IngestAt, Frames
<1>6. FramesSent'
  <2>. SUFFICES ASSUME parse_errors = 0, dropped = 0, NEW f \in Frames, Read(f)'
                PROVE  Sent(f) \/ (Unsent' /\ held' = f)
    BY <1>1 DEF FramesSent, Sent
  <2>1. Unsent' <=> Unsent
    BY <1>1 DEF Unsent
  <2>2. Read(f)
    BY <1>0, <1>1, SMT DEF Read, LocalTypes, Frames
  <2>. QED BY <1>0, <1>1, <2>1, <2>2 DEF FramesSent
<1>. QED BY <1>2, <1>4, <1>5, <1>6 DEF IngestPart

LEMMA FinishStep ==
  ASSUME PipelineInv, Finish PROVE IngestPart'
<1>0. /\ LocalTypes /\ IngestAt /\ FramesCounted /\ FramesSent
      /\ offered \in Nat /\ NumFrames \in Nat
  BY InvGives, RingFacts, Constants
<1>1. /\ ppc = "idle" /\ ploc' = "done" /\ producer_done' = TRUE
      /\ ploc = "finish" \/ (ploc = "frame" /\ frame > NumFrames /\ ~holding)
      /\ ppc' = ppc /\ item' = item /\ offered' = offered
      /\ accepted' = accepted /\ dropped' = dropped
      /\ holding' = holding /\ held' = held /\ frame' = frame
      /\ parse_errors' = parse_errors /\ local_peak' = local_peak /\ cloc' = cloc
  BY DEF Finish, ringVars
<1>2. ~Unsent /\ ~Unsent'
  BY <1>1 DEF Unsent
<1>3. FramesCounted'
  BY <1>0, <1>1, <1>2, SMT DEF LocalTypes, FramesCounted
<1>4. LocalTypes'
  BY <1>0, <1>1, Zenon DEF LocalTypes
<1>5. IngestAt'
  BY <1>0, <1>1, SMT DEF LocalTypes, IngestAt, Frames
<1>6. FramesSent'
  <2>. SUFFICES ASSUME parse_errors = 0, dropped = 0, NEW f \in Frames, Read(f)'
                PROVE  Sent(f)
    BY <1>1 DEF FramesSent, Sent
  <2>1. Read(f)
    BY <1>1 DEF Read
  <2>. QED BY <1>0, <1>1, <1>2, <2>1 DEF FramesSent
<1>. QED BY <1>3, <1>4, <1>5, <1>6 DEF IngestPart

(* Inside send(): the frame in hand enters the log, or is counted dropped, *)
(* or stays in hand.                                                       *)
LEMMA InSendStep ==
  ASSUME PipelineInv, InSend PROVE IngestPart'
<1>0. /\ LocalTypes /\ IngestAt /\ FramesCounted /\ FramesSent
      /\ offered \in Nat /\ NumFrames \in Nat /\ dropped \in Nat
      /\ accepted \in Seq(Nat) /\ (ppc # "idle" => item \in Frames)
  BY InvGives, RingFacts, Constants
<1>1. /\ ppc # "idle" /\ ploc' = ploc /\ producer_done' = producer_done
      /\ holding' = holding /\ held' = held /\ frame' = frame
      /\ parse_errors' = parse_errors /\ local_peak' = local_peak /\ cloc' = cloc
      /\ item' = item /\ offered' = offered
  BY DEF InSend, ingestVars, Ring!PushReload, Ring!PushWrite, Ring!PushPublish,
     Ring!BlockRetry, Ring!Drop, Ring!historyVars
<1>2. \/ ppc' = "idle" /\ accepted' = Append(accepted, item) /\ dropped' = dropped
      \/ ppc' = "idle" /\ accepted' = accepted /\ dropped' = dropped + 1
      \/ ppc' # "idle" /\ accepted' = accepted /\ dropped' = dropped
  BY DEF InSend, Ring!PushReload, Ring!PushWrite, Ring!PushPublish,
     Ring!BlockRetry, Ring!Drop, Ring!historyVars, Ring!PushEntry
<1>3. Unsent' <=> Unsent
  BY <1>1 DEF Unsent
<1>4. FramesCounted'
  BY <1>0, <1>1, <1>3 DEF FramesCounted
<1>5. LocalTypes'
  BY <1>0, <1>1, Zenon DEF LocalTypes
<1>6. /\ \A i \in 1..Len(accepted) : i \in 1..Len(accepted') /\ accepted'[i] = accepted[i]
      /\ \A i \in 1..Len(accepted') : accepted'[i] \in Frames
  <2>1. \A i \in 1..Len(accepted) : accepted[i] \in Frames
    BY <1>0 DEF IngestAt
  <2>2. CASE accepted' = accepted
    BY <2>1, <2>2
  <2>3. CASE accepted' = Append(accepted, item)
    <3>1. item \in Frames /\ item \in Nat
      BY <1>0, <1>1, SMT DEF Frames
    <3>2. /\ Len(accepted') = Len(accepted) + 1 /\ accepted'[Len(accepted) + 1] = item
          /\ \A i \in 1..Len(accepted) : accepted'[i] = accepted[i]
      BY <1>0, <2>3, <3>1, SMT
    <3>3. \A i \in 1..(Len(accepted) + 1) : i \in 1..Len(accepted) \/ i = Len(accepted) + 1
      BY <1>0, SMT
    <3>4. \A i \in 1..Len(accepted) : i \in 1..(Len(accepted) + 1)
      BY <1>0, SMT
    <3>. QED BY <2>1, <3>1, <3>2, <3>3, <3>4, Zenon
  <2>. QED BY <1>2, <2>2, <2>3
<1>7. IngestAt'
  BY <1>0, <1>1, <1>6, Zenon DEF IngestAt
<1>8. FramesSent'
  <2>. SUFFICES ASSUME parse_errors = 0, dropped' = 0, NEW f \in Frames, Read(f)'
                PROVE  Sent(f)' \/ (ppc' # "idle" /\ item' = f) \/ (Unsent' /\ held' = f)
    BY <1>1 DEF FramesSent
  <2>1. dropped = 0 /\ dropped' = dropped
    BY <1>0, <1>2, SMT
  <2>2. Read(f)
    BY <1>1 DEF Read
  <2>3. Sent(f) \/ item = f \/ (Unsent /\ held = f)
    BY <1>0, <2>1, <2>2 DEF FramesSent
  <2>4. CASE Sent(f)
    BY <1>6, <2>4 DEF Sent
  <2>5. CASE item = f /\ ppc' = "idle"
    <3>1. accepted' = Append(accepted, item)
      BY <1>0, <1>2, <2>1, <2>5, SMT
    <3>2. Len(accepted) + 1 \in 1..Len(accepted') /\ accepted'[Len(accepted) + 1] = f
      BY <1>0, <2>5, <3>1, SMT
    <3>. QED BY <3>2, Zenon DEF Sent
  <2>. QED BY <1>1, <1>3, <2>3, <2>4, <2>5
<1>. QED BY <1>4, <1>5, <1>7, <1>8 DEF IngestPart

(* Every step of thread A keeps the channel's invariant.                   *)
LEMMA IngestRing ==
  ASSUME PipelineInv, Ingest PROVE Ring!IndInv'
<1>0. Ring!IndInv /\ IngestAt /\ LocalTypes /\ NumFrames \in Nat
  BY InvGives, Constants
<1>1. ASSUME NEW x \in Frames, Ring!Send(x) PROVE Ring!IndInv'
  BY <1>0, <1>1, RingStep
<1>2. CASE SendFrame
  <2>1. frame \in Frames /\ Ring!Send(frame)
    BY <1>0, <1>2, SMT DEF SendFrame, AtFrame, LocalTypes, Frames
  <2>. QED BY <1>1, <2>1
<1>3. CASE SendHeld \/ SendHeldAtEnd
  <2>1. held \in Frames /\ Ring!Send(held)
    BY <1>0, <1>3 DEF SendHeld, SendHeldAtEnd, MustRelease, IngestAt
  <2>. QED BY <1>1, <2>1
<1>4. CASE Sample \/ InSend
  <2>1. Ring!Producer
    BY <1>4 DEF Sample, InSend, Ring!Producer
  <2>. QED BY <1>0, <2>1, RingStep
<1>5. CASE ParseError \/ HoldBack \/ Finish
  <2>1. UNCHANGED ringVars
    BY <1>5 DEF ParseError, HoldBack, Finish
  <2>. QED BY <1>0, <2>1, RingStep
<1>. QED BY <1>2, <1>3, <1>4, <1>5 DEF Ingest

(* What thread A leaves alone; it publishes a tail only from inside send(),*)
(* and never takes producer_done back.                                     *)
LEMMA IngestLeaves ==
  ASSUME Ingest
  PROVE  /\ UNCHANGED bookVars
         /\ cpc' = cpc /\ c_seen' = c_seen /\ head' = head /\ received' = received
         /\ cloc' = cloc
         /\ tail' = tail \/ ppc # "idle"
         /\ producer_done => producer_done'
<1>1. CASE ParseError \/ HoldBack \/ Finish
  BY <1>1 DEF ParseError, HoldBack, Finish, ringVars
<1>2. CASE SendFrame \/ SendHeld \/ SendHeldAtEnd
  BY <1>2 DEF SendFrame, SendHeld, SendHeldAtEnd, Ring!Send, Ring!sharedVars,
     Ring!consumerVars
<1>3. CASE Sample
  BY <1>3 DEF Sample, Ring!SizeApproxByProducer, Ring!sharedVars, Ring!consumerVars,
     Ring!historyVars
<1>4. CASE InSend
  BY <1>4 DEF InSend, ingestVars, Ring!PushReload, Ring!PushWrite, Ring!PushPublish,
     Ring!BlockRetry, Ring!Drop, Ring!sharedVars, Ring!consumerVars, Ring!historyVars
<1>. QED BY <1>1, <1>2, <1>3, <1>4 DEF Ingest

(* A step of thread A preserves the invariant of the pipeline.             *)
LEMMA IngestPreserves ==
  ASSUME PipelineInv, Ingest PROVE PipelineInv'
<1>0. Book!IndInv /\ IngestAt /\ DrainInv /\ MessagesKept
  BY InvGives
<1>1. Ring!IndInv'
  BY IngestRing
<1>2. occ' \in 0..Capacity
  BY <1>1 DEF Ring!IndInv
<1>3. IngestPart'
  BY <1>2, ParseErrorStep, HoldBackStep, SendFrameStep, SendHeldStep, SampleStep,
     SendHeldAtEndStep, FinishStep, InSendStep DEF Ingest
<1>4. /\ UNCHANGED bookVars
      /\ cpc' = cpc /\ c_seen' = c_seen /\ head' = head /\ received' = received
      /\ cloc' = cloc
      /\ tail' = tail \/ ppc # "idle"
      /\ producer_done => producer_done'
  BY IngestLeaves
<1>5. Book!IndInv'
  BY <1>0, <1>4, BookStep
<1>6. DrainInv'
  <2>1. producer_done => tail' = tail
    BY <1>0, <1>4 DEF IngestAt
  <2>. QED BY <1>0, <1>4, <2>1 DEF DrainInv, bookVars, Joined
<1>7. MessagesKept'
  BY <1>0, <1>4, Zenon DEF MessagesKept, bookVars
<1>. QED BY <1>1, <1>3, <1>5, <1>6, <1>7, InvParts DEF IngestPart

-----------------------------------------------------------------------------
(* Thread B.                                                               *)

(* What thread B leaves alone.                                             *)
LEMMA BookLoopLeaves ==
  ASSUME BookLoop
  PROVE  /\ UNCHANGED ingestVars
         /\ ppc' = ppc /\ item' = item /\ offered' = offered /\ accepted' = accepted
         /\ dropped' = dropped /\ tail' = tail
<1>1. CASE PollFalse \/ PollTrue \/ Handle \/ InHandle
  BY <1>1 DEF PollFalse, PollTrue, Handle, InHandle, ringVars
<1>2. CASE Receive \/ InReceive
  BY <1>2 DEF Receive, InReceive, Ring!Receive, Ring!PopReload, Ring!PopRead,
     Ring!PopRelease, Ring!sharedVars, Ring!producerVars, Ring!historyVars
<1>. QED BY <1>1, <1>2 DEF BookLoop

(* The book loop leaves the ingest side's part alone.                      *)
LEMMA BookLoopIngest ==
  ASSUME PipelineInv, BookLoop, cloc' \in {"poll", "drain", "final", "joined"}
  PROVE  IngestPart'
<1>0. LocalTypes /\ IngestAt /\ FramesCounted /\ FramesSent
  BY InvGives
<1>1. /\ UNCHANGED ingestVars
      /\ ppc' = ppc /\ item' = item /\ offered' = offered /\ accepted' = accepted
      /\ dropped' = dropped /\ tail' = tail
  BY BookLoopLeaves
<1>2. LocalTypes'
  BY <1>0, <1>1, Zenon DEF LocalTypes, ingestVars
<1>3. IngestAt' /\ FramesCounted'
  BY <1>0, <1>1, Zenon DEF IngestAt, FramesCounted, Unsent, ingestVars
<1>4. FramesSent'
  BY <1>0, <1>1, Zenon DEF FramesSent, Read, Sent, Unsent, ingestVars
<1>. QED BY <1>2, <1>3, <1>4 DEF IngestPart

(* Every step of thread B keeps the channel's invariant; reading           *)
(* producer_done as true only moves what the consumer has seen up to tail. *)
LEMMA BookLoopRing ==
  ASSUME PipelineInv, BookLoop PROVE Ring!IndInv'
<1>0. Ring!IndInv
  BY InvGives
<1>1. CASE PollTrue
  <2>1. /\ c_seen' = tail
        /\ UNCHANGED <<policy, head, tail, buffer, headSync, tailSync, ppc, item,
                       cached_head, p_seen, writes, cpc, cached_tail, dropped, occ,
                       offered, accepted, received>>
    BY <1>1 DEF PollTrue, SeenWithDone
  <2>2. Ring!TypeOK /\ Ring!IndexOrder /\ Ring!AccessCounts /\ Ring!SyncExact /\ Ring!Contents
          /\ Ring!ExactAccounting /\ occ \in 0..Capacity
          /\ (ppc # "idle" => item \in Ring!Item)
    BY <1>0 DEF Ring!IndInv
  <2>3. tail \in Nat /\ c_seen <= tail /\ c_seen \in Nat /\ cached_tail \in Nat
    BY <2>2, SMT DEF Ring!TypeOK
  <2>4. Ring!TypeOK'
    <3>1. c_seen' \in 0..tail'
      BY <2>1, <2>3, SMT
    <3>. QED BY <2>1, <2>2, <3>1, Zenon DEF Ring!TypeOK
  <2>5. Ring!IndexOrder'
    <3>1. cached_tail' <= c_seen' /\ c_seen' <= tail'
      BY <2>1, <2>2, <2>3, SMT DEF Ring!IndexOrder
    <3>. QED BY <2>1, <2>2, <3>1, Zenon DEF Ring!IndexOrder
  <2>6. Ring!AccessCounts' /\ Ring!SyncExact' /\ Ring!Contents' /\ Ring!ExactAccounting'
          /\ occ' \in 0..Capacity /\ (ppc' # "idle" => item' \in Ring!Item)
    BY <2>1, <2>2, Zenon DEF Ring!AccessCounts, Ring!SyncExact, Ring!Contents,
       Ring!ExactAccounting, Ring!reads, Ring!Slot
  <2>. QED BY <2>4, <2>5, <2>6 DEF Ring!IndInv
<1>2. CASE Receive \/ InReceive
  <2>1. Ring!Consumer
    BY <1>2 DEF Receive, InReceive, Ring!Consumer
  <2>. QED BY <1>0, <2>1, RingStep
<1>3. CASE PollFalse \/ Handle \/ InHandle
  <2>1. UNCHANGED ringVars
    BY <1>3 DEF PollFalse, Handle, InHandle
  <2>. QED BY <1>0, <2>1, RingStep
<1>. QED BY <1>1, <1>2, <1>3 DEF BookLoop

(* The steps of thread B outside handle() leave the handler alone.         *)
LEMMA ReceiveSteps ==
  ASSUME PollFalse \/ PollTrue \/ Receive \/ InReceive
  PROVE  /\ UNCHANGED bookVars /\ UNCHANGED ingestVars
BY DEF PollFalse, PollTrue, Receive, InReceive

(* The drain part of the invariant, step by step.                          *)
LEMMA PollDrain ==
  ASSUME PipelineInv, PollFalse \/ PollTrue
  PROVE  DrainInv' /\ cloc' \in {"drain", "final"} /\ received' = received
<1>0. DrainInv
  BY InvGives
<1>1. /\ cloc = "poll" /\ msgs' = msgs /\ phase' = phase /\ cpc' = cpc
      /\ received' = received /\ producer_done' = producer_done /\ tail' = tail
      /\ cloc' = "drain" \/ (cloc' = "final" /\ producer_done /\ c_seen' = tail)
  BY DEF PollFalse, PollTrue, SeenWithDone, ringVars, bookVars, ingestVars
<1>. QED BY <1>0, <1>1 DEF DrainInv, Joined

LEMMA ReceiveDrain ==
  ASSUME PipelineInv, Receive
  PROVE  DrainInv' /\ cloc' = cloc /\ received' = received
<1>0. /\ DrainInv /\ msgs \in Nat /\ received \in Seq(Nat)
  BY InvGives, RingFacts DEF Book!IndInv, Book!TypeOK
<1>1. /\ cloc \in {"drain", "final"} /\ phase = "idle" /\ ~Popped /\ cpc = "idle"
      /\ cpc' \in {"reload", "read"}
      /\ cloc' = cloc /\ msgs' = msgs /\ phase' = phase /\ c_seen' = c_seen
      /\ received' = received /\ producer_done' = producer_done /\ tail' = tail
  BY DEF Receive, Ring!Receive, Ring!sharedVars, Ring!historyVars, bookVars, ingestVars
<1>2. msgs = Len(received)
  <2>1. msgs = Len(received) \/ msgs + 1 = Len(received)
    BY <1>0 DEF DrainInv
  <2>. QED BY <1>0, <1>1, <2>1, SMT DEF Popped
<1>. QED BY <1>0, <1>1, <1>2 DEF DrainInv, Joined

LEMMA InReceiveDrain ==
  ASSUME PipelineInv, InReceive
  PROVE  /\ DrainInv' /\ cloc' \in {"poll", "drain", "final", "joined"}
         /\ \A i \in 1..msgs : received'[i] = received[i]
<1>0. /\ DrainInv /\ LocalTypes /\ msgs \in Nat /\ received \in Seq(Nat)
      /\ c_seen \in Nat /\ tail \in Nat /\ head \in Nat
      /\ Ring!IndInv
  BY InvGives, RingFacts DEF Book!IndInv, Book!TypeOK
<1>1. /\ cpc # "idle" /\ msgs' = msgs /\ phase' = phase /\ tail' = tail
      /\ producer_done' = producer_done
      /\ cloc' = IF cpc = "reload" /\ cpc' = "idle" THEN EndDrain ELSE cloc
  BY DEF InReceive, Ring!PopReload, Ring!PopRead, Ring!PopRelease, Ring!sharedVars,
     bookVars, ingestVars
<1>2. /\ cloc \in {"drain", "final"} /\ phase = "idle"
      /\ cpc # "release" => msgs = Len(received)
  BY <1>0, <1>1 DEF DrainInv, LocalTypes
<1>3. CASE Ring!PopReload
  <2>1. PICK t \in c_seen..tail : /\ c_seen' = t /\ cpc' = IF head = t THEN "idle" ELSE "read"
                                  /\ cpc = "reload" /\ head' = head /\ received' = received
    BY <1>3 DEF Ring!PopReload, Ring!LoadableTail, Ring!sharedVars, Ring!historyVars
  <2>2. cloc = "final" => c_seen = tail /\ producer_done
    BY <1>0 DEF DrainInv
  <2>3. cloc = "final" => t = tail
    BY <1>0, <2>1, <2>2, SMT
  <2>. QED BY <1>0, <1>1, <1>2, <2>1, <2>2, <2>3 DEF DrainInv, Joined, EndDrain
<1>4. CASE Ring!PopRead
  <2>1. /\ cpc = "read" /\ cpc' = "release" /\ c_seen' = c_seen /\ head' = head
        /\ received' = Append(received, buffer[Ring!Slot(head)])
    BY <1>4 DEF Ring!PopRead, Ring!sharedVars
  <2>2. /\ Len(received') = msgs + 1
        /\ \A i \in 1..msgs : received'[i] = received[i]
    BY <1>0, <1>2, <2>1, SMT
  <2>. QED BY <1>0, <1>1, <1>2, <2>1, <2>2 DEF DrainInv, Joined
<1>5. CASE Ring!PopRelease
  <2>1. /\ cpc = "release" /\ cpc' = "idle" /\ c_seen' = c_seen /\ received' = received
    BY <1>5 DEF Ring!PopRelease, Ring!historyVars
  <2>. QED BY <1>0, <1>1, <1>2, <2>1 DEF DrainInv, Joined
<1>. QED BY <1>3, <1>4, <1>5 DEF InReceive

-----------------------------------------------------------------------------
(* What the pipeline uses of the handler's invariant.                      *)
LEMMA BookFacts ==
  ASSUME Book!IndInv
  PROVE  /\ expected \in Nat /\ msgs \in Nat /\ recoveries \in Nat
         /\ stats \in Book!SequencerStats
         /\ stale \in BOOLEAN /\ was_stale \in BOOLEAN
         /\ phase \in {"idle", "drain", "reload"}
         /\ DOMAIN reorder \subseteq Nat
         /\ applied \in Seq(Nat \X {0})
         /\ stale <=> DOMAIN reorder # {}
         /\ phase # "drain" => was_stale = stale
         /\ \A s \in DOMAIN reorder : s > expected \/ (phase = "drain" /\ s = expected)
         /\ stats.gap_episodes = recoveries + (IF was_stale THEN 1 ELSE 0)
         /\ \A i \in (resetAt + 1)..Len(applied) :
              applied[i][1] + Len(applied) + 1 = expected + i
         /\ stats.snapshot_recoveries = 0 => resetAt = 0 /\ expected = 1 + Len(applied)
<1>1. Book!TypeOK /\ Book!StaleInv /\ Book!BufferInv /\ Book!GapInv /\ Book!BookContiguous
  BY DEF Book!IndInv, Book!OrderInv
<1>2. /\ expected \in Nat /\ msgs \in Nat /\ recoveries \in Nat
      /\ stats \in Book!SequencerStats
      /\ stale \in BOOLEAN /\ was_stale \in BOOLEAN
      /\ phase \in {"idle", "drain", "reload"}
      /\ DOMAIN reorder \subseteq Nat
      /\ applied \in Seq(Nat \X {0})
  BY <1>1, Zenon DEF Book!TypeOK
<1>3. /\ stale <=> DOMAIN reorder # {}
      /\ phase # "drain" => was_stale = stale
      /\ \A s \in DOMAIN reorder : s > expected \/ (phase = "drain" /\ s = expected)
      /\ stats.gap_episodes = recoveries + (IF was_stale THEN 1 ELSE 0)
  BY <1>1, Zenon DEF Book!StaleInv, Book!BufferInv, Book!GapInv
<1>4. /\ \A i \in (resetAt + 1)..Len(applied) :
           applied[i][1] + Len(applied) + 1 = expected + i
      /\ stats.snapshot_recoveries = 0 => resetAt = 0 /\ expected = 1 + Len(applied)
  BY <1>1, Zenon DEF Book!BookContiguous
<1>. QED BY <1>2, <1>3, <1>4

(* What each operation of the sequencer does to the overflow and reload    *)
(* counters.                                                               *)
LEMMA CounterFacts ==
  ASSUME NEW s \in Book!SequencerStats, NEW n \in Nat
  PROVE  /\ s.reorder_overflow \in Nat /\ s.gap_episodes \in Nat
         /\ s.snapshot_recoveries \in Nat
         /\ LET t == [s EXCEPT !.duplicates = @ + 1]
            IN /\ t.reorder_overflow = s.reorder_overflow
               /\ t.gap_episodes = s.gap_episodes
               /\ t.snapshot_recoveries = s.snapshot_recoveries
         /\ LET t == [s EXCEPT !.accepted = @ + 1]
            IN /\ t.reorder_overflow = s.reorder_overflow
               /\ t.gap_episodes = s.gap_episodes
               /\ t.snapshot_recoveries = s.snapshot_recoveries
         /\ LET t == [s EXCEPT !.accepted = @ + 1, !.buffered_released = @ + 1]
            IN /\ t.reorder_overflow = s.reorder_overflow
               /\ t.gap_episodes = s.gap_episodes
               /\ t.snapshot_recoveries = s.snapshot_recoveries
         /\ LET t == [s EXCEPT !.gap_episodes = @ + 1, !.missing_total = @ + n]
            IN /\ t.reorder_overflow = s.reorder_overflow
               /\ t.gap_episodes = s.gap_episodes + 1
               /\ t.snapshot_recoveries = s.snapshot_recoveries
               /\ t \in Book!SequencerStats
         /\ LET t == [s EXCEPT !.reorder_overflow = @ + 1]
            IN /\ t.reorder_overflow = s.reorder_overflow + 1
               /\ t.gap_episodes = s.gap_episodes
               /\ t.snapshot_recoveries = s.snapshot_recoveries
         /\ LET t == [s EXCEPT !.snapshot_recoveries = @ + 1]
            IN /\ t.reorder_overflow = s.reorder_overflow
               /\ t.gap_episodes = s.gap_episodes
<1>1. /\ s.duplicates + 1 \in Nat /\ s.accepted + 1 \in Nat
      /\ s.buffered_released + 1 \in Nat /\ s.gap_episodes + 1 \in Nat
      /\ s.missing_total + n \in Nat /\ s.reorder_overflow + 1 \in Nat
      /\ s.snapshot_recoveries + 1 \in Nat
  BY SMT DEF Book!SequencerStats
<1>. QED BY <1>1, Zenon DEF Book!SequencerStats

(* Opening a gap, or finding one open, leaves a gap counted.               *)
LEMMA OpenGapFacts ==
  ASSUME Book!IndInv, NEW f \in Nat, f > expected
  PROVE  LET t == Book!OpenGap(f, stats)
         IN /\ t \in Book!SequencerStats
            /\ t.reorder_overflow = stats.reorder_overflow
            /\ t.snapshot_recoveries = stats.snapshot_recoveries
            /\ phase = "idle" => t.gap_episodes > 0
<1>0. /\ expected \in Nat /\ recoveries \in Nat /\ stats \in Book!SequencerStats
      /\ stale \in BOOLEAN
      /\ phase # "drain" => was_stale = stale
      /\ stats.gap_episodes = recoveries + (IF was_stale THEN 1 ELSE 0)
  BY BookFacts
<1>1. CASE stale
  <2>1. Book!OpenGap(f, stats) = stats
    BY <1>1, Zenon DEF Book!OpenGap
  <2>2. phase = "idle" => stats.gap_episodes = recoveries + 1
    BY <1>0, <1>1
  <2>. QED BY <1>0, <2>1, <2>2, SMT
<1>2. CASE ~stale
  <2>1. Book!OpenGap(f, stats) = [stats EXCEPT !.gap_episodes = @ + 1,
                                               !.missing_total = @ + (f - expected)]
    BY <1>2, Zenon DEF Book!OpenGap
  <2>2. f - expected \in Nat
    BY <1>0, SMT
  <2>3. LET t == [stats EXCEPT !.gap_episodes = @ + 1, !.missing_total = @ + (f - expected)]
        IN /\ t.reorder_overflow = stats.reorder_overflow
           /\ t.gap_episodes = stats.gap_episodes + 1
           /\ t.snapshot_recoveries = stats.snapshot_recoveries
           /\ t \in Book!SequencerStats
           /\ stats.gap_episodes \in Nat
    BY <1>0, <2>2, CounterFacts
  <2>. QED BY <2>1, <2>3, SMT
<1>. QED BY <1>1, <1>2

(* The message at hand, and where the handler is when it takes it.         *)
LEMMA HandleFacts ==
  ASSUME PipelineInv, Handle
  PROVE  LET f == received[Len(received)]
         IN /\ f \in Frames /\ f \in Nat /\ Book!Handle(f, 0)
            /\ msgs + 1 = Len(received) /\ msgs < NumFrames
            /\ cpc = "idle" /\ phase = "idle" /\ msgs' = msgs + 1 /\ msg' = <<f, 0>>
            /\ cloc \in {"drain", "final"}
            /\ UNCHANGED <<ringVars, configVars, ingestVars, cloc>>
<1>. DEFINE n == Len(received)
            f == received[n]
<1>0. /\ DrainInv /\ LocalTypes /\ IngestAt /\ FramesCounted
      /\ msgs \in Nat /\ received \in Seq(Nat) /\ accepted \in Seq(Nat) /\ n \in Nat
      /\ n <= Len(accepted) /\ (\A i \in 1..n : received[i] = accepted[i])
      /\ offered = Len(accepted) + dropped + (IF ppc = "idle" THEN 0 ELSE 1)
      /\ offered \in Nat /\ dropped \in Nat /\ NumFrames \in Nat
  BY InvGives, RingFacts, Constants DEF Book!IndInv, Book!TypeOK
<1>1. msgs < n /\ cpc = "idle" /\ Book!Handle(f, 0)
        /\ UNCHANGED <<ringVars, configVars, ingestVars, cloc>>
  BY DEF Handle, Popped
<1>2. phase = "idle" /\ msgs' = msgs + 1 /\ msg' = <<f, 0>>
  BY <1>1, Zenon DEF Book!Handle, Book!HandleDrop, Book!HandleBuffered, Book!HandleApply,
     Book!HandleOverflow, Book!Enter
<1>3. msgs + 1 = n
  <2>1. msgs = n \/ msgs + 1 = n
    BY <1>0 DEF DrainInv
  <2>. QED BY <1>0, <1>1, <2>1, SMT
<1>4. f \in Frames
  <2>1. n \in 1..n /\ n \in 1..Len(accepted)
    BY <1>0, <1>3, SMT
  <2>. QED BY <1>0, <2>1 DEF IngestAt
<1>5. f \in Nat
  BY <1>0, <1>4, SMT DEF Frames
<1>6. msgs < NumFrames
  <2>1. offered <= NumFrames
    BY <1>0, SMT DEF LocalTypes, FramesCounted, IngestAt
  <2>. QED BY <1>0, <1>1, <2>1, SMT
<1>7. cloc \in {"drain", "final"}
  <2>1. msgs # n
    BY <1>0, <1>1, SMT
  <2>. QED BY <1>0, <2>1 DEF DrainInv, LocalTypes
<1>. QED BY <1>1, <1>2, <1>3, <1>4, <1>5, <1>6, <1>7, Zenon

LEMMA HandleDrain == ASSUME PipelineInv, Handle PROVE DrainInv'
<1>0. /\ DrainInv /\ msgs \in Nat
  BY InvGives DEF Book!IndInv, Book!TypeOK
<1>1. /\ msgs + 1 = Len(received) /\ cpc = "idle" /\ msgs' = msgs + 1
      /\ cloc \in {"drain", "final"}
      /\ UNCHANGED <<ringVars, configVars, ingestVars, cloc>>
  BY HandleFacts
<1>. QED BY <1>0, <1>1 DEF DrainInv, Joined, ringVars, ingestVars

(* A handled message was dropped because it is behind expected, applied,   *)
(* buffered, or overflowed the buffer; in the last case a gap is counted.  *)
LEMMA HandleKept == ASSUME PipelineInv, Handle PROVE MessagesKept'
<1>. DEFINE f == received[Len(received)]
<1>0. /\ MessagesKept /\ Book!IndInv /\ NumFrames \in Nat
      /\ expected \in Nat /\ stats \in Book!SequencerStats /\ msgs \in Nat
  BY InvGives, BookFacts, Constants
<1>1. /\ f \in Frames /\ f \in Nat /\ Book!Handle(f, 0)
      /\ msgs + 1 = Len(received) /\ phase = "idle" /\ msgs' = msgs + 1 /\ msg' = <<f, 0>>
      /\ received' = received
  BY HandleFacts DEF ringVars
<1>2. \A i \in 1..msgs' : i \in 1..msgs \/ received[i] = f
  BY <1>0, <1>1, SMT
<1>3. 1 <= f /\ f <= NumFrames
  BY <1>0, <1>1, SMT DEF Frames
<1>4. /\ DOMAIN reorder \subseteq Frames /\ expected <= NumFrames + 1
      /\ stats.gap_episodes = 0 => stats.reorder_overflow = 0
      /\ stats.reorder_overflow = 0 =>
           /\ stats.snapshot_recoveries = 0
           /\ \A i \in 1..msgs : received[i] < expected \/ received[i] \in DOMAIN reorder
  BY <1>0 DEF MessagesKept
<1>. HIDE DEF f
<1>5. CASE Book!HandleDrop(f, 0)
  <2>1. /\ f < expected /\ phase' = "idle" /\ expected' = expected /\ reorder' = reorder
        /\ stats' = [stats EXCEPT !.duplicates = @ + 1]
    BY <1>5, Zenon DEF Book!HandleDrop, Book!OfferDrop, Book!Return
  <2>2. /\ stats'.reorder_overflow = stats.reorder_overflow
        /\ stats'.gap_episodes = stats.gap_episodes
        /\ stats'.snapshot_recoveries = stats.snapshot_recoveries
    BY <1>0, <2>1, CounterFacts
  <2>. QED BY <1>1, <1>2, <1>4, <2>1, <2>2 DEF MessagesKept
<1>6. CASE Book!HandleBuffered(f, 0)
  <2>1. /\ f > expected /\ phase' = "idle" /\ expected' = expected
        /\ DOMAIN reorder' = DOMAIN reorder \cup {f}
        /\ stats' = Book!OpenGap(f, stats)
    BY <1>6, Zenon DEF Book!HandleBuffered, Book!OfferBuffered, Book!Return, Book!Emplace
  <2>2. /\ stats'.reorder_overflow = stats.reorder_overflow
        /\ stats'.gap_episodes > 0
        /\ stats'.snapshot_recoveries = stats.snapshot_recoveries
    BY <1>0, <1>1, <2>1, OpenGapFacts
  <2>3. stats'.gap_episodes # 0
    BY <2>2, SMT
  <2>. QED BY <1>1, <1>2, <1>4, <2>1, <2>2, <2>3 DEF MessagesKept
<1>7. CASE Book!HandleApply(f, 0)
  <2>1. /\ f = expected /\ phase' = "drain" /\ expected' = expected + 1 /\ reorder' = reorder
        /\ stats' = [stats EXCEPT !.accepted = @ + 1]
    BY <1>7, Zenon DEF Book!HandleApply, Book!OfferApply
  <2>2. /\ stats'.reorder_overflow = stats.reorder_overflow
        /\ stats'.gap_episodes = stats.gap_episodes
        /\ stats'.snapshot_recoveries = stats.snapshot_recoveries
    BY <1>0, <2>1, CounterFacts
  <2>3. expected' <= NumFrames + 1
    BY <1>0, <1>3, <2>1, SMT
  <2>4. ASSUME stats.reorder_overflow = 0, NEW i \in 1..msgs'
        PROVE  received[i] < expected' \/ received[i] \in DOMAIN reorder
    <3>1. CASE received[i] = f
      BY <1>0, <2>1, <3>1, SMT
    <3>2. CASE i \in 1..msgs /\ received[i] < expected
      <4>1. received[i] \in Nat
        <5>1. received \in Seq(Nat)
          BY InvGives, RingFacts
        <5>. QED BY <1>0, <1>1, <3>2, <5>1, SMT
      <4>. QED BY <1>0, <2>1, <3>2, <4>1, SMT
    <3>. QED BY <1>2, <1>4, <2>4, <3>1, <3>2
  <2>. QED BY <1>1, <1>4, <2>1, <2>2, <2>3, <2>4 DEF MessagesKept
<1>8. CASE Book!HandleOverflow(f, 0)
  <2>1. /\ f > expected /\ phase' = "reload" /\ expected' = expected /\ reorder' = reorder
        /\ stats' = [Book!OpenGap(f, stats) EXCEPT !.reorder_overflow = @ + 1]
    BY <1>8, Zenon DEF Book!HandleOverflow, Book!OfferOverflow
  <2>. DEFINE t == Book!OpenGap(f, stats)
  <2>2. t \in Book!SequencerStats /\ t.gap_episodes > 0
    BY <1>0, <1>1, <2>1, OpenGapFacts
  <2>. HIDE DEF t
  <2>3. /\ stats'.reorder_overflow = t.reorder_overflow + 1
        /\ stats'.gap_episodes = t.gap_episodes
        /\ t.reorder_overflow \in Nat /\ t.gap_episodes \in Nat
    BY <2>1, <2>2, CounterFacts DEF t
  <2>4. stats'.reorder_overflow # 0 /\ stats'.gap_episodes # 0
    BY <2>2, <2>3, SMT
  <2>5. msg'[1] = f
    BY <1>1
  <2>. QED BY <1>1, <1>4, <2>1, <2>4, <2>5 DEF MessagesKept
<1>. QED BY <1>1, <1>5, <1>6, <1>7, <1>8, Zenon DEF Book!Handle

(* The rest of handle(): replay from the buffer, its end, and the reload.  *)
LEMMA InHandleDrain == ASSUME PipelineInv, InHandle PROVE DrainInv' /\ cloc' = cloc
<1>0. DrainInv
  BY InvGives
<1>1. phase # "idle" /\ msgs' = msgs /\ UNCHANGED <<ringVars, configVars, ingestVars, cloc>>
  BY DEF InHandle, Book!Finish, Book!Drain, Book!DrainEnd, Book!Reload
<1>. QED BY <1>0, <1>1 DEF DrainInv, Joined, ringVars, ingestVars

LEMMA InHandleKept == ASSUME PipelineInv, InHandle PROVE MessagesKept'
<1>0. /\ MessagesKept /\ Book!IndInv /\ NumFrames \in Nat
      /\ expected \in Nat /\ stats \in Book!SequencerStats /\ msgs \in Nat
      /\ DOMAIN reorder \subseteq Nat
      /\ DrainInv /\ received \in Seq(Nat)
  BY InvGives, BookFacts, RingFacts, Constants
<1>1. msgs' = msgs /\ msg' = msg /\ received' = received /\ phase # "idle"
  BY DEF InHandle, Book!Finish, Book!Drain, Book!DrainEnd, Book!Reload, ringVars
<1>2. /\ DOMAIN reorder \subseteq Frames /\ expected <= NumFrames + 1
      /\ phase = "reload" => msg[1] \in Frames
      /\ stats.gap_episodes = 0 => stats.reorder_overflow = 0
      /\ stats.reorder_overflow = 0 =>
           /\ stats.snapshot_recoveries = 0 /\ phase # "reload"
           /\ \A i \in 1..msgs : received[i] < expected \/ received[i] \in DOMAIN reorder
  BY <1>0 DEF MessagesKept
<1>3. \A i \in 1..msgs : received[i] \in Nat
  <2>1. msgs = Len(received)
    BY <1>0, <1>1 DEF DrainInv
  <2>. QED BY <1>0, <2>1, SMT
<1>4. CASE Book!Drain
  <2>1. /\ phase = "drain" /\ phase' = phase /\ expected \in DOMAIN reorder
        /\ expected' = expected + 1 /\ DOMAIN reorder' = DOMAIN reorder \ {expected}
        /\ stats' = [stats EXCEPT !.accepted = @ + 1, !.buffered_released = @ + 1]
    BY <1>4, Zenon DEF Book!Drain, Book!PopReadyTrue, Book!Erase
  <2>2. /\ stats'.reorder_overflow = stats.reorder_overflow
        /\ stats'.gap_episodes = stats.gap_episodes
        /\ stats'.snapshot_recoveries = stats.snapshot_recoveries
    BY <1>0, <2>1, CounterFacts
  <2>3. expected \in Frames
    BY <1>2, <2>1
  <2>4. expected' <= NumFrames + 1
    BY <1>0, <2>1, <2>3, SMT DEF Frames
  <2>5. ASSUME stats.reorder_overflow = 0, NEW i \in 1..msgs
        PROVE  received[i] < expected' \/ received[i] \in DOMAIN reorder'
    <3>1. received[i] < expected \/ received[i] = expected => received[i] < expected'
      BY <1>0, <1>3, <2>1, SMT
    <3>. QED BY <1>2, <2>1, <2>5, <3>1
  <2>. QED BY <1>1, <1>2, <2>1, <2>2, <2>4, <2>5 DEF MessagesKept
<1>5. CASE Book!DrainEnd
  <2>1. phase' = "idle" /\ expected' = expected /\ reorder' = reorder /\ stats' = stats
    BY <1>5, Zenon DEF Book!DrainEnd, Book!PopReadyFalse, Book!Return
  <2>. QED BY <1>1, <1>2, <2>1 DEF MessagesKept
<1>6. CASE Book!Reload
  <2>1. /\ phase = "reload" /\ phase' = "idle" /\ expected' = msg[1] + 1
        /\ DOMAIN reorder' = {}
        /\ stats' = [stats EXCEPT !.snapshot_recoveries = @ + 1]
    BY <1>6, Zenon DEF Book!Reload, Book!ResyncToSnapshot, Book!Return
  <2>2. /\ stats'.reorder_overflow = stats.reorder_overflow
        /\ stats'.gap_episodes = stats.gap_episodes
    BY <1>0, <2>1, CounterFacts
  <2>3. stats'.reorder_overflow # 0 /\ stats'.gap_episodes # 0
    BY <1>2, <2>1, <2>2
  <2>4. expected' <= NumFrames + 1
    BY <1>0, <1>2, <2>1, SMT DEF Frames
  <2>. QED BY <1>1, <2>1, <2>3, <2>4 DEF MessagesKept
<1>. QED BY <1>4, <1>5, <1>6 DEF InHandle, Book!Finish

(* A step of thread B preserves the invariant of the pipeline.             *)
LEMMA BookLoopPreserves ==
  ASSUME PipelineInv, BookLoop PROVE PipelineInv'
<1>0. Book!IndInv /\ MessagesKept /\ LocalTypes
  BY InvGives
<1>1. Ring!IndInv'
  BY BookLoopRing
<1>2. Book!IndInv'
  <2>1. CASE Handle
    <3>1. \E f \in Frames : Book!Handle(f, 0)
      BY <2>1, HandleFacts
    <3>. QED BY <1>0, <3>1, BookStep
  <2>2. CASE InHandle
    BY <1>0, <2>2, BookStep DEF InHandle
  <2>3. CASE PollFalse \/ PollTrue \/ Receive \/ InReceive
    BY <1>0, <2>3, ReceiveSteps, BookStep
  <2>. QED BY <2>1, <2>2, <2>3 DEF BookLoop
<1>3. DrainInv' /\ cloc' \in {"poll", "drain", "final", "joined"}
  <2>1. CASE Handle
    BY <1>0, <2>1, HandleDrain DEF Handle, LocalTypes
  <2>2. CASE InHandle \/ Receive
    BY <1>0, <2>2, InHandleDrain, ReceiveDrain DEF LocalTypes
  <2>3. CASE PollFalse \/ PollTrue
    BY <2>3, PollDrain
  <2>4. CASE InReceive
    BY <2>4, InReceiveDrain
  <2>. QED BY <2>1, <2>2, <2>3, <2>4 DEF BookLoop
<1>4. MessagesKept'
  <2>1. CASE Handle \/ InHandle
    BY <2>1, HandleKept, InHandleKept
  <2>2. CASE PollFalse \/ PollTrue \/ Receive \/ InReceive
    <3>1. UNCHANGED bookVars
      BY <2>2, ReceiveSteps
    <3>2. \A i \in 1..msgs : received'[i] = received[i]
      BY <2>2, PollDrain, ReceiveDrain, InReceiveDrain
    <3>. QED BY <1>0, <3>1, <3>2, Zenon DEF MessagesKept, bookVars
  <2>. QED BY <2>1, <2>2 DEF BookLoop
<1>5. IngestPart'
  BY <1>3, BookLoopIngest
<1>. QED BY <1>1, <1>2, <1>3, <1>4, <1>5, InvParts DEF IngestPart

-----------------------------------------------------------------------------
LEMMA InitInv == Init => PipelineInv
<1>. SUFFICES ASSUME Init PROVE PipelineInv
  OBVIOUS
<1>0. Capacity \in Nat /\ Capacity >= 2 /\ NumFrames \in Nat /\ reorder_capacity \in Nat
        /\ reorder_capacity > 0
  BY Constants
<1>1. /\ Ring!Init /\ Book!Init /\ ploc = "frame" /\ frame = 1 /\ holding = FALSE
      /\ held = 0 /\ parse_errors = 0 /\ local_peak = 0 /\ producer_done = FALSE
      /\ cloc = "poll"
  BY DEF Init
<1>2. Ring!IndInv
  <2>1. RingP!Init
    BY <1>1 DEF Ring!Init, RingP!Init, Ring!None, RingP!None
  <2>2. RingP!IndInv
    BY <1>0, <2>1, PowerOfTwo, RingP!InitIndInv
  <2>. QED BY <2>2, RingSame
<1>3. Book!IndInv
  <2>1. BookP!Init
    BY <1>1, Zenon DEF Book!Init, BookP!Init, Book!SeqInit, BookP!SeqInit, Book!NoMsg,
       BookP!NoMsg
  <2>2. 1 \in Nat
    BY SMT
  <2>3. BookP!IndInv
    BY <1>0, <2>1, <2>2, BookP!InitIndInv
  <2>. QED BY <2>3, BookSame
<1>4. TypeOK
  <2>0. /\ 1 \in 1..(NumFrames + 1) /\ 0 \in 0..NumFrames /\ 0 \in 0..Capacity
    BY <1>0, SMT
  <2>1. LocalTypes
    BY <1>1, <2>0, Zenon DEF LocalTypes
  <2>. QED BY <1>2, <1>3, <2>1, TypeParts DEF Ring!IndInv, Book!IndInv
<1>5. /\ head = 0 /\ tail = 0 /\ ppc = "idle" /\ cpc = "idle" /\ dropped = 0
      /\ offered = 0 /\ accepted = <<>> /\ received = <<>>
  BY <1>1 DEF Ring!Init
<1>6. /\ expected = 1 /\ DOMAIN reorder = {} /\ phase = "idle" /\ msgs = 0
      /\ stats.reorder_overflow = 0 /\ stats.snapshot_recoveries = 0
  BY <1>1, Zenon DEF Book!Init, Book!SeqInit
<1>7. IngestAt /\ FramesCounted
  BY <1>0, <1>1, <1>5 DEF IngestAt, FramesCounted, Unsent
<1>8. FramesSent
  <2>1. \A f \in Frames : ~Read(f)
    BY <1>0, <1>1, SMT DEF Frames, Read
  <2>. QED BY <2>1 DEF FramesSent
<1>9. DrainInv
  BY <1>1, <1>5, <1>6 DEF DrainInv, Joined
<1>10. MessagesKept
  <2>1. expected <= NumFrames + 1 /\ 1..msgs = {}
    BY <1>0, <1>6, SMT
  <2>. QED BY <1>6, <2>1 DEF MessagesKept
<1>. QED BY <1>2, <1>3, <1>4, <1>7, <1>8, <1>9, <1>10 DEF PipelineInv, IngestInv, HandledInv

LEMMA StepInv == PipelineInv /\ [Next]_vars => PipelineInv'
<1>. SUFFICES ASSUME PipelineInv, [Next]_vars PROVE PipelineInv'
  OBVIOUS
<1>1. CASE UNCHANGED vars
  <2>0. /\ Ring!IndInv /\ Book!IndInv /\ LocalTypes /\ IngestAt /\ FramesCounted
        /\ FramesSent /\ DrainInv /\ MessagesKept
    BY InvGives
  <2>1. UNCHANGED ringVars /\ UNCHANGED bookVars /\ UNCHANGED ingestVars /\ cloc' = cloc
    BY <1>1 DEF vars
  <2>2. Ring!IndInv' /\ Book!IndInv'
    BY <2>0, <2>1, RingStep, BookStep
  <2>3. LocalTypes' /\ IngestAt' /\ FramesCounted'
    BY <2>0, <2>1, Zenon DEF LocalTypes, IngestAt, FramesCounted, Unsent, ingestVars, ringVars
  <2>4. FramesSent'
    BY <2>0, <2>1, Zenon DEF FramesSent, Read, Sent, Unsent, ingestVars, ringVars
  <2>5. DrainInv' /\ MessagesKept'
    BY <2>0, <2>1, Zenon DEF DrainInv, MessagesKept, Joined, ingestVars, ringVars, bookVars
  <2>. QED BY <2>2, <2>3, <2>4, <2>5, InvParts
<1>. QED BY <1>1, IngestPreserves, BookLoopPreserves DEF Next, Terminated

(* The inductive invariant of the pipeline holds in every reachable state. *)
THEOREM PipelineInvariance == Spec => []PipelineInv
BY InitInv, StepInv, PTL DEF Spec

-----------------------------------------------------------------------------
(* When run_pipeline() returns the ring is empty, every message sent was   *)
(* handled, and each frame is one message, one parse error or one drop.    *)
THEOREM LeavesNothingBehind == Spec => []NothingLeftBehind
<1>1. PipelineInv => NothingLeftBehind
  <2>. SUFFICES ASSUME PipelineInv PROVE NothingLeftBehind
    OBVIOUS
  <2>0. /\ Ring!IndInv /\ LocalTypes /\ IngestAt /\ FramesCounted /\ DrainInv
        /\ head \in Nat /\ offered \in Nat /\ dropped \in Nat /\ NumFrames \in Nat
        /\ Len(accepted) = tail
        /\ Len(received) = head + (IF cpc = "release" THEN 1 ELSE 0)
        /\ offered = Len(accepted) + dropped + (IF ppc = "idle" THEN 0 ELSE 1)
    BY InvGives, RingFacts, Constants
  <2>1. TypeOK
    BY DEF PipelineInv
  <2>2. RingSafe
    <3>1. RingP!IndInv
      BY <2>0, RingSame
    <3>2. RingP!NoDataRace /\ RingP!FifoDelivery
      BY <3>1, RingP!NoRaceNow, RingP!FifoNow, Constants, PowerOfTwo
    <3>3. Ring!NoDataRace /\ Ring!FifoDelivery
      BY <3>2 DEF Ring!NoDataRace, RingP!NoDataRace, Ring!FifoDelivery, RingP!FifoDelivery,
         Ring!reads, RingP!reads, Ring!Slot, RingP!Slot, Ring!ProducerView,
         RingP!ProducerView, Ring!ConsumerView, RingP!ConsumerView
    <3>. QED BY <2>0, <3>3 DEF RingSafe, Ring!IndInv
  <2>3. ASSUME Joined
        PROVE  /\ producer_done /\ head = tail /\ phase = "idle" /\ msgs = Len(accepted)
               /\ NumFrames = msgs + parse_errors + dropped
    <3>1. /\ producer_done /\ head = tail /\ phase = "idle" /\ cpc = "idle"
          /\ msgs = Len(received)
      BY <2>0, <2>3 DEF DrainInv, Joined
    <3>2. ploc = "done" /\ ppc = "idle" /\ frame = NumFrames + 1
      BY <2>0, <3>1 DEF IngestAt
    <3>3. msgs = Len(accepted)
      BY <2>0, <3>1, SMT
    <3>4. offered + parse_errors = NumFrames
      BY <2>0, <3>2, SMT DEF FramesCounted, Unsent, LocalTypes
    <3>5. NumFrames = msgs + parse_errors + dropped
      BY <2>0, <3>2, <3>3, <3>4, SMT DEF LocalTypes
    <3>. QED BY <3>1, <3>3, <3>5
  <2>. QED BY <2>1, <2>2, <2>3 DEF NothingLeftBehind
<1>. QED BY <1>1, PipelineInvariance, PTL

(* With no parse error, no drop and no overflow counted, the book is built *)
(* from all frames in order and the stream is not stale.                   *)
THEOREM CleanRunIsExact == Spec => []CleanCountersMeanExactBook
<1>1. PipelineInv => CleanCountersMeanExactBook
  <2>. SUFFICES ASSUME PipelineInv, Joined, parse_errors = 0, dropped = 0,
                       stats.reorder_overflow = 0
                PROVE  applied = [i \in Frames |-> <<i, 0>>] /\ ~stale
    BY DEF CleanCountersMeanExactBook
  <2>0. /\ Ring!IndInv /\ Book!IndInv /\ LocalTypes /\ IngestAt /\ FramesSent /\ DrainInv
        /\ MessagesKept
    BY InvGives
  <2>1. /\ NumFrames \in Nat /\ expected \in Nat /\ applied \in Seq(Nat \X {0})
        /\ DOMAIN reorder \subseteq Nat /\ Len(accepted) = tail /\ head \in Nat
        /\ Len(received) = head + (IF cpc = "release" THEN 1 ELSE 0)
        /\ \A i \in 1..Len(received) : received[i] = accepted[i]
    BY <2>0, RingFacts, BookFacts, Constants
  <2>2. /\ producer_done /\ head = tail /\ phase = "idle" /\ cpc = "idle"
        /\ msgs = Len(received)
    BY <2>0 DEF DrainInv, Joined
  <2>3. ploc = "done" /\ ppc = "idle" /\ frame = NumFrames + 1
    BY <2>0, <2>2 DEF IngestAt
  <2>4. Len(received) = Len(accepted)
    BY <2>1, <2>2, SMT
  <2>5. /\ DOMAIN reorder \subseteq Frames /\ expected <= NumFrames + 1
        /\ stats.snapshot_recoveries = 0
        /\ \A i \in 1..msgs : received[i] < expected \/ received[i] \in DOMAIN reorder
    BY <2>0 DEF MessagesKept
  <2>6. ASSUME NEW f \in Frames PROVE f < expected \/ f \in DOMAIN reorder
    <3>1. Read(f)
      BY <2>1, <2>3, SMT DEF Frames, Read
    <3>2. PICK i \in 1..Len(accepted) : accepted[i] = f
      BY <2>0, <2>3, <3>1 DEF FramesSent, Sent, Unsent
    <3>3. i \in 1..msgs /\ received[i] = f
      BY <2>1, <2>2, <2>4, <3>2
    <3>. QED BY <2>5, <3>3
  <2>7. \A s \in DOMAIN reorder : s > expected
    BY <2>0, <2>2, BookFacts
  <2>8. expected = NumFrames + 1
    <3>. SUFFICES ASSUME expected # NumFrames + 1 PROVE FALSE
      OBVIOUS
    <3>0. expected = 1 + Len(applied) /\ Len(applied) \in Nat
      BY <2>0, <2>1, <2>5, BookFacts
    <3>1. expected \in Frames
      BY <2>1, <2>5, <3>0, SMT DEF Frames
    <3>2. expected \in DOMAIN reorder
      BY <2>1, <2>6, <3>1, SMT
    <3>. QED BY <2>1, <2>7, <3>2, SMT
  <2>9. DOMAIN reorder = {}
    <3>. SUFFICES ASSUME NEW s \in DOMAIN reorder PROVE FALSE
      OBVIOUS
    <3>1. s \in Frames /\ s > expected
      BY <2>5, <2>7
    <3>. QED BY <2>1, <2>8, <3>1, SMT DEF Frames
  <2>10. ~stale
    BY <2>0, <2>9, BookFacts
  <2>11. /\ resetAt = 0 /\ expected = 1 + Len(applied)
         /\ \A i \in (resetAt + 1)..Len(applied) :
              applied[i][1] + Len(applied) + 1 = expected + i
    BY <2>0, <2>5, BookFacts
  <2>12. Len(applied) = NumFrames
    BY <2>1, <2>8, <2>11, SMT
  <2>13. ASSUME NEW i \in Frames PROVE applied[i] = <<i, 0>>
    <3>1. i \in 1..Len(applied) /\ i \in (resetAt + 1)..Len(applied) /\ i \in Nat
      BY <2>1, <2>11, <2>12, SMT DEF Frames
    <3>2. applied[i] \in Nat \X {0}
      BY <2>1, <3>1
    <3>3. applied[i][1] + Len(applied) + 1 = expected + i
      BY <2>11, <3>1
    <3>4. applied[i][1] \in Nat /\ applied[i] = <<applied[i][1], 0>>
      BY <3>2
    <3>5. applied[i][1] = i
      BY <2>1, <2>8, <2>12, <3>1, <3>3, <3>4, SMT
    <3>. QED BY <3>4, <3>5
  <2>14. applied = [i \in Frames |-> applied[i]]
    <3>1. applied = [i \in 1..Len(applied) |-> applied[i]]
      BY <2>1
    <3>. QED BY <2>12, <3>1 DEF Frames
  <2>15. applied = [i \in Frames |-> <<i, 0>>]
    BY <2>13, <2>14, Zenon
  <2>. QED BY <2>10, <2>15
<1>. QED BY <1>1, PipelineInvariance, PTL

(* A frame that was not applied although a later one was handled has left  *)
(* a gap in the counters.                                                  *)
THEOREM EveryLossIsVisible == Spec => []LossIsVisible
<1>1. PipelineInv => LossIsVisible
  <2>. SUFFICES ASSUME PipelineInv, Joined, NEW f \in Frames,
                       \A i \in 1..Len(applied) : applied[i][1] # f,
                       NEW j \in 1..Len(received), received[j] > f,
                       ~(stats.gap_episodes > 0)
                PROVE  FALSE
    BY DEF LossIsVisible
  <2>0. /\ Ring!IndInv /\ Book!IndInv /\ DrainInv /\ MessagesKept
    BY InvGives
  <2>1. /\ NumFrames \in Nat /\ expected \in Nat /\ applied \in Seq(Nat \X {0})
        /\ recoveries \in Nat /\ stats \in Book!SequencerStats
        /\ was_stale \in BOOLEAN
        /\ stats.gap_episodes = recoveries + (IF was_stale THEN 1 ELSE 0)
        /\ received \in Seq(Nat)
    BY <2>0, RingFacts, BookFacts, Constants
  <2>2. phase = "idle" /\ msgs = Len(received)
    BY <2>0 DEF DrainInv, Joined
  <2>3. stats.gap_episodes = 0 /\ ~was_stale
    BY <2>1
  <2>4. DOMAIN reorder = {}
    BY <2>0, <2>2, <2>3, BookFacts
  <2>5. /\ stats.snapshot_recoveries = 0
        /\ \A i \in 1..msgs : received[i] < expected \/ received[i] \in DOMAIN reorder
    BY <2>0, <2>3 DEF MessagesKept
  <2>6. received[j] < expected
    BY <2>2, <2>4, <2>5
  <2>7. /\ resetAt = 0 /\ expected = 1 + Len(applied)
        /\ \A i \in (resetAt + 1)..Len(applied) :
             applied[i][1] + Len(applied) + 1 = expected + i
    BY <2>0, <2>5, BookFacts
  <2>8. f \in Nat /\ f >= 1 /\ received[j] \in Nat /\ Len(applied) \in Nat
    BY <2>1, SMT DEF Frames
  <2>9. f \in 1..Len(applied) /\ f \in (resetAt + 1)..Len(applied)
    BY <2>6, <2>7, <2>8, SMT
  <2>10. applied[f] \in Nat \X {0}
    BY <2>1, <2>9
  <2>11. applied[f][1] \in Nat
    BY <2>10
  <2>12. applied[f][1] + Len(applied) + 1 = expected + f
    BY <2>7, <2>9
  <2>13. applied[f][1] = f
    BY <2>7, <2>8, <2>11, <2>12, SMT
  <2>. QED BY <2>9, <2>13
<1>. QED BY <1>1, PipelineInvariance, PTL

-----------------------------------------------------------------------------
(* Thread B of the pipeline is a BookThread: each of its steps is a step   *)
(* of the handler on one of the source's frames, or leaves the handler     *)
(* alone.                                                                  *)
LEMMA StepImplementsBook == PipelineInv /\ [Next]_vars => [Book!Next]_(Book!vars)
<1>. SUFFICES ASSUME PipelineInv, [Next]_vars PROVE [Book!Next]_(Book!vars)
  OBVIOUS
<1>1. CASE Handle
  <2>1. PICK f \in Frames : Book!Handle(f, 0) /\ msgs < NumFrames
    BY <1>1, HandleFacts
  <2>2. f \in 1..NumFrames /\ 0 \in {0}
    BY DEF Frames
  <2>3. Book!Next
    BY <2>1, <2>2, Zenon DEF Book!Next
  <2>. QED BY <2>3
<1>2. CASE InHandle
  BY <1>2 DEF InHandle, Book!Next
<1>3. CASE UNCHANGED bookVars
  BY <1>3 DEF bookVars, Book!vars, Book!seqVars, Book!threadVars
<1>4. CASE PollFalse \/ PollTrue \/ Receive \/ InReceive
  BY <1>3, <1>4, ReceiveSteps
<1>5. CASE Ingest
  BY <1>3, <1>5, IngestLeaves
<1>6. CASE Terminated \/ UNCHANGED vars
  BY <1>3, <1>6 DEF Terminated, vars
<1>. QED BY <1>1, <1>2, <1>4, <1>5, <1>6 DEF Next, BookLoop

(* What holds of the handler under any order and number of messages holds  *)
(* in the pipeline.                                                        *)
THEOREM PipelineRunsBookThread == Spec => ImplementsBookThread
<1>1. Init => Book!Init
  BY DEF Init
<1>. QED BY <1>1, PipelineInvariance, StepImplementsBook, PTL
         DEF Spec, ImplementsBookThread, Book!Spec

-----------------------------------------------------------------------------
(* The recovery boundary.                                                  *)

(* The place of the held frame, clipped at the end of the file.            *)
LEMMA HeldPlaceFacts ==
  ASSUME GapConfig
  PROVE  /\ inject_gap_at \in Nat /\ gap_reorder_distance \in Nat
         /\ inject_gap_at <= NumFrames
         /\ Overtaking \in Nat /\ HeldPlace \in Nat
         /\ HeldPlace = inject_gap_at + Overtaking
         /\ HeldPlace <= NumFrames
         /\ HeldPlace <= inject_gap_at + gap_reorder_distance
         /\ inject_gap_at = 0 => gap_reorder_distance = 0 /\ Overtaking = 0
         /\ inject_gap_at # 0 => gap_reorder_distance # 0
         /\ inject_gap_at # 0 /\ inject_gap_at + gap_reorder_distance <= NumFrames
              => HeldPlace = inject_gap_at + gap_reorder_distance
         /\ inject_gap_at # 0 /\ inject_gap_at + gap_reorder_distance > NumFrames
              => HeldPlace = NumFrames
BY Constants, SMT DEF GapConfig, Overtaking, HeldPlace

(* The configuration, and so the order of the messages, is fixed.          *)
LEMMA ConfigKept ==
  ASSUME [Next]_vars
  PROVE  /\ UNCHANGED configVars /\ policy' = policy
         /\ Overtaking' = Overtaking /\ HeldPlace' = HeldPlace
         /\ \A i : Nth(i)' = Nth(i)
         /\ GapConfig' <=> GapConfig
<1>1. UNCHANGED configVars /\ policy' = policy
  <2>1. CASE ParseError \/ HoldBack \/ Finish \/ PollFalse \/ PollTrue \/ Handle \/ InHandle
    BY <2>1 DEF ParseError, HoldBack, Finish, PollFalse, PollTrue, Handle, InHandle, ringVars
  <2>2. CASE SendFrame \/ SendHeld \/ SendHeldAtEnd
    BY <2>2 DEF SendFrame, SendHeld, SendHeldAtEnd, Ring!Send
  <2>3. CASE Sample \/ InSend
    BY <2>3 DEF Sample, InSend, Ring!SizeApproxByProducer, Ring!PushReload, Ring!PushWrite,
       Ring!PushPublish, Ring!BlockRetry, Ring!Drop
  <2>4. CASE Receive \/ InReceive
    BY <2>4 DEF Receive, InReceive, Ring!Receive, Ring!PopReload, Ring!PopRead, Ring!PopRelease
  <2>5. CASE Terminated \/ UNCHANGED vars
    BY <2>5 DEF Terminated, vars, ringVars
  <2>. QED BY <2>1, <2>2, <2>3, <2>4, <2>5 DEF Next, Ingest, BookLoop
<1>2. Overtaking' = Overtaking /\ HeldPlace' = HeldPlace
  BY <1>1 DEF configVars, Overtaking, HeldPlace
<1>3. \A i : Nth(i)' = Nth(i)
  BY <1>1, <1>2 DEF configVars, Nth
<1>4. GapConfig' <=> GapConfig
  BY <1>1 DEF configVars, GapConfig
<1>. QED BY <1>1, <1>2, <1>3, <1>4

(* The hypotheses under which the order is fixed, and the numbers in play. *)
PlainRun == PipelineInv /\ GapConfig /\ bad = {} /\ policy = "Block" /\ SendOrder

(* Without losses the log and what is in hand are the frames read.         *)
LEMMA PlainFacts ==
  ASSUME PlainRun
  PROVE  /\ frame \in Nat /\ frame >= 1 /\ NumFrames \in Nat /\ frame <= NumFrames + 1
         /\ Len(accepted) \in Nat /\ accepted \in Seq(Nat)
         /\ ploc \in {"frame", "sent", "sample", "finish", "done"}
         /\ holding \in BOOLEAN
         /\ Len(accepted) + (IF ppc = "idle" THEN 0 ELSE 1) + (IF Unsent THEN 1 ELSE 0)
              = (frame - 1) + (IF ploc \in {"sent", "sample"} THEN 1 ELSE 0)
         /\ dropped = 0
         /\ ploc = "frame" => ppc = "idle"
         /\ ploc \in {"sent", "sample"} => frame <= NumFrames
<1>1. /\ Ring!IndInv /\ LocalTypes /\ IngestAt /\ FramesCounted /\ NumFrames \in Nat
      /\ offered \in Nat /\ dropped \in Nat /\ accepted \in Seq(Nat)
      /\ offered = Len(accepted) + dropped + (IF ppc = "idle" THEN 0 ELSE 1)
  BY InvGives, RingFacts, Constants DEF PlainRun
<1>2. dropped = 0
  BY <1>1 DEF PlainRun, Ring!IndInv, Ring!ExactAccounting
<1>3. parse_errors = 0
  BY DEF PlainRun, SendOrder
<1>4. /\ frame \in Nat /\ frame >= 1 /\ frame <= NumFrames + 1
      /\ ploc \in {"frame", "sent", "sample", "finish", "done"}
      /\ holding \in BOOLEAN
  BY <1>1 DEF LocalTypes
<1>5. Len(accepted) \in Nat
  BY <1>1
<1>6. Len(accepted) + (IF ppc = "idle" THEN 0 ELSE 1) + (IF Unsent THEN 1 ELSE 0)
        = (frame - 1) + (IF ploc \in {"sent", "sample"} THEN 1 ELSE 0)
  <2>. DEFINE u == IF Unsent THEN 1 ELSE 0
              w == IF ppc = "idle" THEN 0 ELSE 1
  <2>1. offered + 0 + u = (frame - 1) + (IF ploc \in {"sent", "sample"} THEN 1 ELSE 0)
    BY <1>1, <1>3 DEF FramesCounted
  <2>2. offered = Len(accepted) + 0 + w /\ u \in Nat /\ w \in Nat
    BY <1>1, <1>2
  <2>. HIDE DEF u, w
  <2>3. offered + 0 + u = Len(accepted) + w + u
    BY <1>5, <2>2, SMT
  <2>. QED BY <2>1, <2>3 DEF u, w
<1>7. /\ ploc = "frame" => ppc = "idle"
      /\ ploc \in {"sent", "sample"} => frame <= NumFrames
  BY <1>1 DEF IngestAt
<1>. QED BY <1>1, <1>2, <1>4, <1>5, <1>6, <1>7

(* Reading on: no frame is rejected, and the gap opens at its frame.       *)
LEMMA OrderHoldBack ==
  ASSUME PlainRun, HoldBack PROVE SendOrder'
<1>0. SendOrder /\ GapConfig
  BY DEF PlainRun
<1>1. /\ frame = inject_gap_at /\ inject_gap_at # 0 /\ gap_reorder_distance # 0
      /\ ploc = "frame" /\ ploc' = "frame" /\ holding' = TRUE /\ held' = frame
      /\ release_at' = frame + gap_reorder_distance /\ frame' = frame + 1
      /\ parse_errors' = parse_errors /\ accepted' = accepted /\ ppc' = ppc /\ item' = item
      /\ UNCHANGED configVars
  BY DEF HoldBack, HoldsBack, AtFrame, ringVars
<1>2. \A i : Nth(i)' = Nth(i)
  BY ConfigKept DEF Next, Ingest
<1>3. inject_gap_at < frame' /\ frame' <= release_at'
  BY <1>0, <1>1, HeldPlaceFacts, SMT
<1>. QED BY <1>0, <1>1, <1>2, <1>3 DEF SendOrder, configVars

(* The frame sent next is the one the fixed order has next.                *)
LEMMA OrderSendFrame ==
  ASSUME PlainRun, SendFrame PROVE SendOrder'
<1>0. SendOrder /\ GapConfig
  BY DEF PlainRun
<1>1. /\ frame <= NumFrames /\ ~HoldsBack /\ ppc = "idle" /\ item' = frame
      /\ ploc = "frame" /\ ploc' = "sent" /\ holding' = holding /\ held' = held
      /\ release_at' = release_at /\ frame' = frame
      /\ parse_errors' = parse_errors /\ accepted' = accepted
      /\ UNCHANGED configVars
  BY DEF SendFrame, AtFrame, Ring!Send
<1>2. \A i : Nth(i)' = Nth(i)
  BY ConfigKept DEF Next, Ingest
<1>3. /\ frame \in Nat /\ frame >= 1 /\ NumFrames \in Nat /\ Len(accepted) \in Nat
      /\ Len(accepted) + (IF Unsent THEN 1 ELSE 0) = frame - 1
  BY <1>1, PlainFacts
<1>4. /\ inject_gap_at \in Nat /\ gap_reorder_distance \in Nat /\ HeldPlace \in Nat
      /\ HeldPlace <= inject_gap_at + gap_reorder_distance
      /\ inject_gap_at # 0 => gap_reorder_distance # 0
      /\ inject_gap_at # 0 /\ inject_gap_at + gap_reorder_distance <= NumFrames
           => HeldPlace = inject_gap_at + gap_reorder_distance
      /\ inject_gap_at # 0 /\ inject_gap_at + gap_reorder_distance > NumFrames
           => HeldPlace = NumFrames
  BY <1>0, HeldPlaceFacts
<1>5. CASE holding
  <2>1. Len(accepted) + 1 = frame - 1
    BY <1>1, <1>3, <1>5 DEF Unsent
  <2>2. inject_gap_at # 0 /\ inject_gap_at < frame
          /\ frame <= inject_gap_at + gap_reorder_distance
    BY <1>0, <1>5 DEF SendOrder
  <2>3. frame <= HeldPlace
    BY <1>1, <1>3, <1>4, <2>2, SMT
  <2>4. Nth(frame - 1) = frame
    BY <1>3, <1>4, <2>2, <2>3, SMT DEF Nth
  <2>5. item' = Nth(Len(accepted) + 1)
    BY <1>1, <2>1, <2>4
  <2>. QED BY <1>0, <1>1, <1>2, <1>5, <2>5 DEF SendOrder, configVars
<1>6. CASE ~holding
  <2>1. Len(accepted) + 1 = frame
    BY <1>1, <1>3, <1>6, SMT DEF Unsent
  <2>2. frame # inject_gap_at
    BY <1>1, <1>3, <1>4, <1>6 DEF HoldsBack
  <2>3. frame < inject_gap_at \/ frame > inject_gap_at + gap_reorder_distance
    BY <1>0, <1>1, <1>6, <2>2 DEF SendOrder
  <2>4. Nth(frame) = frame
    BY <1>3, <1>4, <2>3, SMT DEF Nth
  <2>5. item' = Nth(Len(accepted) + 1)
    BY <1>1, <2>1, <2>4
  <2>. QED BY <1>0, <1>1, <1>2, <1>6, <2>2, <2>3, <2>5 DEF SendOrder, configVars
<1>. QED BY <1>5, <1>6

LEMMA OrderSendHeld ==
  ASSUME PlainRun, SendHeld PROVE SendOrder'
<1>0. SendOrder /\ GapConfig
  BY DEF PlainRun
<1>1. /\ ppc = "idle" /\ item' = held /\ holding /\ frame >= release_at
      /\ ploc = "sent" /\ ploc' = "sample" /\ holding' = FALSE
      /\ frame' = frame
      /\ parse_errors' = parse_errors /\ accepted' = accepted
      /\ UNCHANGED configVars
  BY DEF SendHeld, MustRelease, Ring!Send
<1>2. \A i : Nth(i)' = Nth(i)
  BY ConfigKept DEF Next, Ingest
<1>3. /\ held = inject_gap_at /\ inject_gap_at # 0
      /\ release_at = inject_gap_at + gap_reorder_distance
      /\ inject_gap_at < frame /\ frame <= release_at
  BY <1>0, <1>1 DEF SendOrder
<1>4. /\ frame \in Nat /\ NumFrames \in Nat /\ Len(accepted) \in Nat /\ frame <= NumFrames
      /\ Len(accepted) + 1 = (frame - 1) + 1
  BY <1>1, PlainFacts DEF Unsent
<1>5. frame = inject_gap_at + gap_reorder_distance /\ frame = HeldPlace
  BY <1>0, <1>1, <1>3, <1>4, HeldPlaceFacts, SMT
<1>6. Nth(frame) = inject_gap_at
  <2>1. inject_gap_at \in Nat
    BY <1>0, HeldPlaceFacts
  <2>. QED BY <1>3, <1>4, <1>5, <2>1, SMT DEF Nth
<1>7. item' = Nth(Len(accepted) + 1)
  <2>1. Len(accepted) + 1 = frame
    BY <1>4, SMT
  <2>. QED BY <1>1, <1>3, <1>6, <2>1
<1>. QED BY <1>0, <1>1, <1>2, <1>5, <1>7 DEF SendOrder, configVars

LEMMA OrderSendHeldAtEnd ==
  ASSUME PlainRun, SendHeldAtEnd PROVE SendOrder'
<1>0. SendOrder /\ GapConfig
  BY DEF PlainRun
<1>1. /\ ppc = "idle" /\ item' = held /\ holding /\ frame > NumFrames
      /\ ploc = "frame" /\ ploc' = "finish" /\ holding' = holding /\ held' = held
      /\ release_at' = release_at /\ frame' = frame
      /\ parse_errors' = parse_errors /\ accepted' = accepted
      /\ UNCHANGED configVars
  BY DEF SendHeldAtEnd, Ring!Send
<1>2. \A i : Nth(i)' = Nth(i)
  BY ConfigKept DEF Next, Ingest
<1>3. /\ held = inject_gap_at /\ inject_gap_at # 0
      /\ release_at = inject_gap_at + gap_reorder_distance
      /\ inject_gap_at < frame /\ frame <= release_at
  BY <1>0, <1>1 DEF SendOrder
<1>4. /\ frame \in Nat /\ NumFrames \in Nat /\ Len(accepted) \in Nat
      /\ frame <= NumFrames + 1 /\ Len(accepted) + 1 = frame - 1
  BY <1>1, PlainFacts DEF Unsent
<1>5. HeldPlace = NumFrames /\ frame = NumFrames + 1
  <2>1. frame = NumFrames + 1
    BY <1>1, <1>4, SMT
  <2>2. inject_gap_at + gap_reorder_distance > NumFrames
    BY <1>0, <1>3, <1>4, <2>1, HeldPlaceFacts, SMT
  <2>. QED BY <1>0, <1>3, <2>1, <2>2, HeldPlaceFacts
<1>6. Nth(NumFrames) = inject_gap_at
  <2>1. inject_gap_at \in Nat /\ inject_gap_at <= NumFrames
    BY <1>0, HeldPlaceFacts
  <2>. QED BY <1>4, <1>5, <2>1, SMT DEF Nth
<1>7. item' = Nth(Len(accepted) + 1)
  <2>1. Len(accepted) + 1 = NumFrames
    BY <1>4, <1>5, SMT
  <2>. QED BY <1>1, <1>3, <1>6, <2>1
<1>. QED BY <1>0, <1>1, <1>2, <1>7 DEF SendOrder, configVars

LEMMA OrderSample ==
  ASSUME PlainRun, Sample PROVE SendOrder'
<1>0. SendOrder /\ GapConfig
  BY DEF PlainRun
<1>1. /\ ppc = "idle" /\ ppc' = "idle"
      /\ ploc = "sample" \/ (ploc = "sent" /\ ~(holding /\ frame >= release_at))
      /\ ploc' = "frame" /\ holding' = holding /\ held' = held
      /\ release_at' = release_at /\ frame' = frame + 1
      /\ parse_errors' = parse_errors /\ accepted' = accepted
      /\ UNCHANGED configVars
  BY DEF Sample, MustRelease, Ring!SizeApproxByProducer, Ring!historyVars
<1>2. \A i : Nth(i)' = Nth(i)
  BY ConfigKept DEF Next, Ingest
<1>3. /\ frame \in Nat /\ inject_gap_at \in Nat /\ gap_reorder_distance \in Nat
  BY <1>0, PlainFacts, HeldPlaceFacts
<1>4. CASE holding
  <2>1. /\ held = inject_gap_at /\ inject_gap_at # 0
        /\ release_at = inject_gap_at + gap_reorder_distance
        /\ inject_gap_at < frame /\ frame <= release_at /\ ploc # "sample"
    BY <1>0, <1>4 DEF SendOrder
  <2>2. inject_gap_at < frame' /\ frame' <= release_at'
    BY <1>1, <1>3, <1>4, <2>1, SMT
  <2>. QED BY <1>0, <1>1, <1>2, <1>4, <2>1, <2>2 DEF SendOrder, configVars
<1>5. CASE ~holding
  <2>1. \/ frame < inject_gap_at
        \/ frame > inject_gap_at + gap_reorder_distance
        \/ frame = inject_gap_at + gap_reorder_distance
    BY <1>0, <1>1, <1>5 DEF SendOrder
  <2>2. \/ frame' < inject_gap_at \/ frame' = inject_gap_at
        \/ frame' > inject_gap_at + gap_reorder_distance
    BY <1>1, <1>3, <2>1, SMT
  <2>. QED BY <1>0, <1>1, <1>2, <1>5, <2>2 DEF SendOrder, configVars
<1>. QED BY <1>4, <1>5

LEMMA OrderInSend ==
  ASSUME PlainRun, InSend PROVE SendOrder'
<1>0. SendOrder /\ GapConfig /\ policy = "Block"
  BY DEF PlainRun
<1>1. /\ ppc # "idle" /\ ploc' = ploc
      /\ holding' = holding /\ held' = held /\ frame' = frame /\ release_at' = release_at
      /\ parse_errors' = parse_errors /\ item' = item /\ UNCHANGED configVars
  BY DEF InSend, ingestVars, Ring!PushReload, Ring!PushWrite, Ring!PushPublish,
     Ring!BlockRetry, Ring!Drop
<1>2. \/ ppc' = "idle" /\ accepted' = Append(accepted, item)
      \/ accepted' = accepted
  BY DEF InSend, Ring!PushReload, Ring!PushWrite, Ring!PushPublish,
     Ring!BlockRetry, Ring!Drop, Ring!historyVars
<1>3. \A i : Nth(i)' = Nth(i)
  BY ConfigKept DEF Next, Ingest
<1>4. item = Nth(Len(accepted) + 1) /\ (\A i \in 1..Len(accepted) : accepted[i] = Nth(i))
  BY <1>0, <1>1 DEF SendOrder
<1>5. \A i \in 1..Len(accepted') : accepted'[i] = Nth(i)
  <2>1. CASE accepted' = accepted
    BY <1>4, <2>1
  <2>2. CASE accepted' = Append(accepted, item)
    <3>0. accepted \in Seq(Nat) /\ item \in Nat /\ Len(accepted) \in Nat
      <4>1. Ring!IndInv /\ NumFrames \in Nat
        BY InvGives, Constants DEF PlainRun
      <4>2. accepted \in Seq(Nat) /\ item \in Frames
        BY <1>1, <4>1, RingFacts
      <4>. QED BY <4>1, <4>2, SMT DEF Frames
    <3>1. /\ Len(accepted') = Len(accepted) + 1 /\ accepted'[Len(accepted) + 1] = item
          /\ \A i \in 1..Len(accepted) : accepted'[i] = accepted[i]
      BY <2>2, <3>0, SMT
    <3>2. \A i \in 1..(Len(accepted) + 1) : i \in 1..Len(accepted) \/ i = Len(accepted) + 1
      BY <3>0, SMT
    <3>. QED BY <1>4, <3>1, <3>2, Zenon
  <2>. QED BY <1>2, <2>1, <2>2
<1>6. ppc' # "idle" => item' = Nth(Len(accepted') + 1)
  BY <1>1, <1>2, <1>4
<1>. QED BY <1>0, <1>1, <1>3, <1>5, <1>6 DEF SendOrder, configVars

LEMMA OrderKept ==
  ASSUME PlainRun, [Next]_vars PROVE SendOrder'
<1>1. CASE ParseError
  BY <1>1 DEF ParseError, PlainRun
<1>2. CASE Finish
  <2>1. SendOrder /\ GapConfig
    BY DEF PlainRun
  <2>2. /\ ploc \in {"finish", "frame"} /\ ploc' = "done" /\ ppc' = ppc /\ item' = item
        /\ accepted' = accepted /\ holding' = holding /\ held' = held /\ frame' = frame
        /\ release_at' = release_at /\ parse_errors' = parse_errors /\ UNCHANGED configVars
        /\ ppc = "idle" /\ (ploc = "frame" => frame > NumFrames)
    BY <1>2 DEF Finish, ringVars
  <2>3. \A i : Nth(i)' = Nth(i)
    BY ConfigKept
  <2>4. ~holding /\ ploc = "frame" => frame # inject_gap_at
    BY <2>1, <2>2, PlainFacts, HeldPlaceFacts, SMT
  <2>. QED BY <2>1, <2>2, <2>3, <2>4 DEF SendOrder, configVars
<1>3. CASE BookLoop \/ Terminated \/ UNCHANGED vars
  <2>0. SendOrder
    BY DEF PlainRun
  <2>1. UNCHANGED ingestVars /\ ppc' = ppc /\ item' = item /\ accepted' = accepted
    BY <1>3, BookLoopLeaves DEF Terminated, vars, ringVars
  <2>2. /\ \A i : Nth(i)' = Nth(i)
        /\ UNCHANGED configVars
    BY ConfigKept
  <2>. QED BY <2>0, <2>1, <2>2, Zenon DEF SendOrder, ingestVars, configVars
<1>. QED BY <1>1, <1>2, <1>3, OrderHoldBack, OrderSendFrame, OrderSendHeld, OrderSendHeldAtEnd,
            OrderSample, OrderInSend DEF Next, Ingest

-----------------------------------------------------------------------------
(* The number of buffered frames while the gap is open.                    *)
LEMMA IntervalSize ==
  ASSUME NEW a \in Int, NEW b \in Int
  PROVE  Book!Cardinality(a..b) = IF a > b THEN 0 ELSE b - a + 1
<1>1. Book!Cardinality(a..b) = Cardinality(a..b)
  BY Zenon DEF Cardinality, Book!Cardinality
<1>. QED BY <1>1, FS_Interval

(* What the statistics' updates leave alone.                               *)
LEMMA ReleaseFacts ==
  ASSUME NEW s \in Book!SequencerStats, NEW n \in Nat
  PROVE  /\ s.reorder_overflow \in Nat /\ s.buffered_released \in Nat
         /\ LET t == [s EXCEPT !.duplicates = @ + 1]
            IN /\ t.reorder_overflow = s.reorder_overflow
         /\ LET t == [s EXCEPT !.accepted = @ + 1]
            IN /\ t.reorder_overflow = s.reorder_overflow
               /\ t.buffered_released = s.buffered_released
         /\ LET t == [s EXCEPT !.accepted = @ + 1, !.buffered_released = @ + 1]
            IN /\ t.reorder_overflow = s.reorder_overflow
               /\ t.buffered_released = s.buffered_released + 1
         /\ LET t == [s EXCEPT !.gap_episodes = @ + 1, !.missing_total = @ + n]
            IN /\ t.reorder_overflow = s.reorder_overflow
               /\ t.buffered_released = s.buffered_released
         /\ LET t == [s EXCEPT !.reorder_overflow = @ + 1]
            IN /\ t.reorder_overflow = s.reorder_overflow + 1
         /\ LET t == [s EXCEPT !.snapshot_recoveries = @ + 1]
            IN /\ t.reorder_overflow = s.reorder_overflow
<1>1. /\ s.duplicates + 1 \in Nat /\ s.accepted + 1 \in Nat
      /\ s.buffered_released + 1 \in Nat /\ s.gap_episodes + 1 \in Nat
      /\ s.missing_total + n \in Nat /\ s.reorder_overflow + 1 \in Nat
      /\ s.snapshot_recoveries + 1 \in Nat
  BY SMT DEF Book!SequencerStats
<1>. QED BY <1>1, Zenon DEF Book!SequencerStats

(* The disposition of a message is fixed by expected and the buffer.       *)
LEMMA ExpectedIsApplied ==
  ASSUME Book!IndInv, NEW f \in Nat, f = expected, Book!Handle(f, 0)
  PROVE  /\ expected' = expected + 1 /\ reorder' = reorder /\ phase' = "drain"
         /\ stats'.reorder_overflow = stats.reorder_overflow
         /\ stats'.buffered_released = stats.buffered_released
<1>0. expected \in Nat /\ stats \in Book!SequencerStats
  BY BookFacts
<1>1. ~(f < expected) /\ ~(f > expected)
  BY <1>0, SMT
<1>2. Book!HandleApply(f, 0)
  BY <1>1, Zenon DEF Book!Handle, Book!HandleDrop, Book!HandleBuffered, Book!HandleOverflow,
     Book!OfferDrop, Book!OfferBuffered, Book!OfferOverflow
<1>3. /\ expected' = expected + 1 /\ reorder' = reorder /\ phase' = "drain"
      /\ stats' = [stats EXCEPT !.accepted = @ + 1]
  BY <1>2, Zenon DEF Book!HandleApply, Book!OfferApply
<1>. QED BY <1>0, <1>3, ReleaseFacts

(* A message ahead of the hole is buffered while there is room.            *)
LEMMA AheadIsBuffered ==
  ASSUME Book!IndInv, NEW f \in Nat, f > expected, Book!Handle(f, 0), ~Book!ReorderFull
  PROVE  /\ expected' = expected /\ DOMAIN reorder' = DOMAIN reorder \cup {f}
         /\ phase' = "idle"
         /\ stats'.reorder_overflow = stats.reorder_overflow
         /\ stats'.buffered_released = stats.buffered_released
<1>0. expected \in Nat /\ stats \in Book!SequencerStats
  BY BookFacts
<1>1. ~(f < expected) /\ f # expected /\ f - expected \in Nat
  BY <1>0, SMT
<1>2. Book!HandleBuffered(f, 0)
  BY <1>1, Zenon DEF Book!Handle, Book!HandleDrop, Book!HandleApply, Book!HandleOverflow,
     Book!OfferDrop, Book!OfferApply, Book!OfferOverflow
<1>3. /\ expected' = expected /\ DOMAIN reorder' = DOMAIN reorder \cup {f} /\ phase' = "idle"
      /\ stats' = Book!OpenGap(f, stats)
  BY <1>2, Zenon DEF Book!HandleBuffered, Book!OfferBuffered, Book!Return, Book!Emplace
<1>4. \/ stats' = stats
      \/ stats' = [stats EXCEPT !.gap_episodes = @ + 1, !.missing_total = @ + (f - expected)]
  BY <1>3, Zenon DEF Book!OpenGap
<1>5. LET t == [stats EXCEPT !.gap_episodes = @ + 1, !.missing_total = @ + (f - expected)]
      IN /\ t.reorder_overflow = stats.reorder_overflow
         /\ t.buffered_released = stats.buffered_released
  BY <1>0, <1>1, ReleaseFacts
<1>. QED BY <1>3, <1>4, <1>5, Zenon

(* One for which there is no room overflows.                               *)
LEMMA AheadOverflows ==
  ASSUME Book!IndInv, NEW f \in Nat, f > expected, Book!Handle(f, 0), Book!ReorderFull
  PROVE  stats'.reorder_overflow > 0
<1>0. expected \in Nat /\ stats \in Book!SequencerStats
  BY BookFacts
<1>1. ~(f < expected) /\ f # expected
  BY <1>0, SMT
<1>2. Book!HandleOverflow(f, 0)
  BY <1>1, Zenon DEF Book!Handle, Book!HandleDrop, Book!HandleApply, Book!HandleBuffered,
     Book!OfferDrop, Book!OfferApply, Book!OfferBuffered
<1>. DEFINE t == Book!OpenGap(f, stats)
<1>3. stats' = [t EXCEPT !.reorder_overflow = @ + 1]
  BY <1>2, Zenon DEF Book!HandleOverflow, Book!OfferOverflow
<1>4. t \in Book!SequencerStats
  BY <1>0, OpenGapFacts
<1>. HIDE DEF t
<1>5. stats'.reorder_overflow = t.reorder_overflow + 1 /\ t.reorder_overflow \in Nat
  BY <1>3, <1>4, ReleaseFacts
<1>. QED BY <1>5, SMT

(* An overflow stays counted.                                              *)
LEMMA OverflowStays ==
  ASSUME Book!IndInv, stats.reorder_overflow > 0,
         (\E f \in Nat : Book!Handle(f, 0)) \/ Book!Finish
  PROVE  stats'.reorder_overflow > 0
<1>0. expected \in Nat /\ stats \in Book!SequencerStats
  BY BookFacts
<1>1. ASSUME NEW f \in Nat, Book!Handle(f, 0) PROVE stats'.reorder_overflow > 0
  <2>1. CASE f < expected
    <3>1. f # expected /\ ~(f > expected)
      BY <1>0, <2>1, SMT
    <3>2. stats' = [stats EXCEPT !.duplicates = @ + 1]
      BY <1>1, <3>1, Zenon DEF Book!Handle, Book!HandleDrop, Book!HandleApply,
         Book!HandleBuffered, Book!HandleOverflow, Book!OfferDrop, Book!OfferApply,
         Book!OfferBuffered, Book!OfferOverflow
    <3>. QED BY <1>0, <3>2, ReleaseFacts
  <2>2. CASE f = expected
    BY <1>1, <2>2, ExpectedIsApplied
  <2>3. CASE f > expected
    BY <1>1, <2>3, AheadIsBuffered, AheadOverflows
  <2>. QED BY <1>0, <2>1, <2>2, <2>3, SMT
<1>2. CASE Book!Finish
  <2>1. \/ stats' = [stats EXCEPT !.accepted = @ + 1, !.buffered_released = @ + 1]
        \/ stats' = stats \/ stats' = [stats EXCEPT !.snapshot_recoveries = @ + 1]
    BY <1>2, Zenon DEF Book!Finish, Book!Drain, Book!DrainEnd, Book!Reload, Book!PopReadyTrue,
       Book!PopReadyFalse, Book!ResyncToSnapshot
  <2>. QED BY <1>0, <2>1, ReleaseFacts
<1>. QED BY <1>1, <1>2

(* One more message of the fixed order.                                    *)
LEMMA HandleProgress ==
  ASSUME PlainRun, GapProgress, Handle PROVE GapProgress'
<1>. DEFINE g == inject_gap_at
            H == HeldPlace
            m == msgs
            c == reorder_capacity
            f == Nth(m + 1)
<1>1. /\ m \in Nat /\ expected \in Nat /\ stats \in Book!SequencerStats /\ c \in Nat /\ c > 0
      /\ g \in Nat /\ H \in Nat /\ Overtaking \in Nat /\ H = g + Overtaking
      /\ Book!IndInv
  BY InvGives, BookFacts, HeldPlaceFacts, Constants DEF PlainRun
<1>2. /\ phase = "idle" /\ msgs' = m + 1 /\ Book!Handle(f, 0) /\ f \in Nat
  <2>1. /\ received[Len(received)] \in Nat /\ Book!Handle(received[Len(received)], 0)
        /\ m + 1 = Len(received) /\ phase = "idle" /\ msgs' = m + 1
    BY HandleFacts DEF PlainRun
  <2>2. /\ Len(received) <= Len(accepted) /\ Len(accepted) \in Nat
        /\ \A i \in 1..Len(received) : received[i] = accepted[i]
    BY InvGives, RingFacts DEF PlainRun
  <2>3. Len(received) \in 1..Len(received) /\ Len(received) \in 1..Len(accepted)
    BY <1>1, <2>1, <2>2, SMT
  <2>4. received[Len(received)] = f
    BY <2>1, <2>2, <2>3 DEF PlainRun, SendOrder
  <2>. QED BY <2>1, <2>4
<1>3. /\ f = IF m + 1 < g \/ m + 1 > H THEN m + 1 ELSE IF m + 1 < H THEN m + 2 ELSE g
  <2>1. (m + 1) + 1 = m + 2
    BY <1>1, SMT
  <2>. QED BY <2>1, Zenon DEF Nth
<1>4. /\ inject_gap_at' = g /\ HeldPlace' = H /\ Overtaking' = Overtaking
  BY ConfigKept DEF Next, BookLoop, configVars
<1>5. /\ m < g => BeforeGap
      /\ g <= m /\ m < H /\ m < g + c => InGap
      /\ Overtaking > c /\ m >= g + c => stats.reorder_overflow > 0
      /\ Overtaking <= c /\ m = H => Replayed
      /\ Overtaking <= c /\ m > H => AfterGap
  BY DEF GapProgress
<1>6. ASSUME m + 1 < g => BeforeGap',
             g <= m + 1 /\ m + 1 < H /\ m + 1 < g + c => InGap',
             Overtaking > c /\ m + 1 >= g + c => stats'.reorder_overflow > 0,
             Overtaking <= c /\ m + 1 = H => Replayed',
             Overtaking <= c /\ m + 1 > H => AfterGap'
      PROVE  GapProgress'
  BY <1>2, <1>4, <1>6 DEF GapProgress
<1>. HIDE DEF g, H, m, c, f
<1>7. ASSUME f = expected
      PROVE  /\ expected' = expected + 1 /\ reorder' = reorder /\ phase' = "drain"
             /\ stats'.reorder_overflow = stats.reorder_overflow
             /\ stats'.buffered_released = stats.buffered_released
  BY <1>1, <1>2, <1>7, ExpectedIsApplied
<1>8. ASSUME f > expected, ~Book!ReorderFull
      PROVE  /\ expected' = expected /\ DOMAIN reorder' = DOMAIN reorder \cup {f}
             /\ phase' = "idle"
             /\ stats'.reorder_overflow = stats.reorder_overflow
             /\ stats'.buffered_released = stats.buffered_released
  BY <1>1, <1>2, <1>8, AheadIsBuffered
<1>9. CASE m + 1 < g
  <2>1. /\ stats.reorder_overflow = 0 /\ stats.buffered_released = 0
        /\ DOMAIN reorder = {} /\ expected = m + 1
    BY <1>1, <1>5, <1>9, SMT DEF BeforeGap, Counted, m
  <2>2. f = expected
    BY <1>3, <1>9, <2>1
  <2>3. BeforeGap'
    BY <1>2, <1>7, <2>1, <2>2 DEF BeforeGap, Counted
  <2>4. ~(g <= m + 1) /\ ~(m + 1 >= g + c) /\ m + 1 # H /\ ~(m + 1 > H)
    BY <1>1, <1>9, SMT
  <2>. QED BY <1>6, <2>3, <2>4
<1>10. CASE m + 1 = g
  <2>1. /\ stats.reorder_overflow = 0 /\ stats.buffered_released = 0
        /\ DOMAIN reorder = {} /\ expected = g
    BY <1>1, <1>5, <1>10, SMT DEF BeforeGap, Counted, m
  <2>2. ~(m + 1 < g) /\ ~(m + 1 >= g + c) /\ ~(m + 1 > H)
    BY <1>1, <1>10, SMT
  <2>3. CASE g < H
    <3>1. f = m + 2 /\ f > expected /\ f = g + 1
      BY <1>1, <1>3, <1>10, <2>1, <2>3, SMT
    <3>2. ~Book!ReorderFull
      <4>1. DOMAIN reorder = 1..0
        BY <2>1, SMT
      <4>2. Book!Cardinality(DOMAIN reorder) = 0
        BY <4>1, IntervalSize, SMT
      <4>3. ~(0 >= c)
        BY <1>1, SMT
      <4>. QED BY <4>2, <4>3 DEF Book!ReorderFull, Book!Buffered, c
    <3>3. (g + 1)..(msgs' + 1) = {g + 1}
      BY <1>1, <1>2, <1>10, SMT
    <3>4. InGap'
      BY <1>4, <1>8, <2>1, <3>1, <3>2, <3>3 DEF InGap, Counted
    <3>5. m + 1 # H
      BY <1>1, <1>10, <2>3, SMT
    <3>. QED BY <1>6, <2>2, <3>4, <3>5
  <2>4. CASE ~(g < H)
    <3>1. g = H /\ Overtaking = 0 /\ ~(m + 1 < H) /\ f = expected
      BY <1>1, <1>3, <1>10, <2>1, <2>4, SMT
    <3>2. /\ (expected + 1)..H = {} /\ expected + 1 \in (g + 1)..(H + 1)
          /\ (expected + 1) - g - 1 = 0
      BY <1>1, <2>1, <3>1, SMT
    <3>3. Replayed'
      BY <1>4, <1>7, <2>1, <3>1, <3>2 DEF Replayed, Counted
    <3>. QED BY <1>6, <2>2, <3>1, <3>3
  <2>. QED BY <2>3, <2>4
<1>11. CASE g <= m /\ m < H /\ m < g + c
  <2>1. /\ stats.reorder_overflow = 0 /\ stats.buffered_released = 0 /\ expected = g
        /\ DOMAIN reorder = (g + 1)..(m + 1)
    BY <1>5, <1>11 DEF InGap, Counted, g, m
  <2>2. ~(m + 1 < g) /\ ~(m + 1 > H)
    BY <1>1, <1>11, SMT
  <2>3. Book!Cardinality(DOMAIN reorder) = m + 1 - g
    <3>1. g + 1 \in Int /\ m + 1 \in Int /\ ~(g + 1 > m + 1) /\ (m + 1) - (g + 1) + 1 = m + 1 - g
      BY <1>1, <1>11, SMT
    <3>. QED BY <2>1, <3>1, IntervalSize
  <2>4. CASE m + 1 < H /\ m + 1 < g + c
    <3>1. f = m + 2 /\ f > expected /\ m + 1 # H /\ ~(m + 1 >= g + c)
      BY <1>1, <1>3, <1>11, <2>1, <2>4, SMT
    <3>2. ~Book!ReorderFull
      <4>1. ~(m + 1 - g >= c)
        BY <1>1, <2>4, SMT
      <4>. QED BY <2>3, <4>1 DEF Book!ReorderFull, Book!Buffered, c
    <3>3. (g + 1)..(msgs' + 1) = ((g + 1)..(m + 1)) \cup {f}
      BY <1>1, <1>2, <1>11, <3>1, SMT
    <3>4. InGap'
      BY <1>4, <1>8, <2>1, <3>1, <3>2, <3>3 DEF InGap, Counted
    <3>. QED BY <1>6, <2>2, <3>1, <3>4
  <2>5. CASE m + 1 < H /\ ~(m + 1 < g + c)
    <3>1. f = m + 2 /\ f > expected /\ m + 1 # H /\ ~(Overtaking <= c)
      BY <1>1, <1>3, <1>11, <2>1, <2>5, SMT
    <3>2. Book!ReorderFull
      <4>1. m + 1 - g >= c
        BY <1>1, <2>5, SMT
      <4>. QED BY <2>3, <4>1 DEF Book!ReorderFull, Book!Buffered, c
    <3>3. stats'.reorder_overflow > 0
      BY <1>1, <1>2, <3>1, <3>2, AheadOverflows
    <3>. QED BY <1>6, <2>2, <2>5, <3>1, <3>3
  <2>6. CASE ~(m + 1 < H)
    <3>1. m + 1 = H /\ ~(Overtaking > c) /\ f = expected
      BY <1>1, <1>3, <1>11, <2>1, <2>6, SMT
    <3>2. /\ expected + 1 = g + 1 /\ expected + 1 \in (g + 1)..(H + 1)
          /\ (expected + 1) - g - 1 = 0
      BY <1>1, <1>11, <2>1, <3>1, SMT
    <3>3. Replayed'
      BY <1>4, <1>7, <2>1, <3>1, <3>2 DEF Replayed, Counted
    <3>. QED BY <1>6, <2>2, <2>6, <3>1, <3>3
  <2>. QED BY <2>4, <2>5, <2>6
<1>12. CASE Overtaking > c /\ m >= g + c
  <2>1. stats'.reorder_overflow > 0
    BY <1>1, <1>2, <1>5, <1>12, OverflowStays
  <2>2. ~(m + 1 < g) /\ ~(m + 1 < g + c) /\ ~(Overtaking <= c)
    BY <1>1, <1>12, SMT
  <2>. QED BY <1>6, <2>1, <2>2
<1>13. CASE Overtaking <= c /\ m >= H
  <2>1. /\ stats.reorder_overflow = 0 /\ stats.buffered_released = Overtaking
        /\ DOMAIN reorder = {} /\ expected = m + 1
    <3>1. CASE m = H
      <4>1. /\ stats.reorder_overflow = 0 /\ stats.buffered_released = expected - g - 1
            /\ expected = H + 1 /\ DOMAIN reorder = expected..H
        BY <1>2, <1>5, <1>13, <3>1 DEF Replayed, Counted, g, H
      <4>. QED BY <1>1, <3>1, <4>1, SMT
    <3>2. CASE m > H
      BY <1>5, <1>13, <3>2 DEF AfterGap, Counted, m
    <3>. QED BY <1>1, <1>13, <3>1, <3>2, SMT
  <2>2. f = expected
    BY <1>1, <1>3, <1>13, <2>1, SMT
  <2>3. AfterGap'
    BY <1>2, <1>4, <1>7, <2>1, <2>2 DEF AfterGap, Counted
  <2>4. ~(m + 1 < g) /\ ~(m + 1 < H) /\ ~(Overtaking > c) /\ m + 1 # H
    BY <1>1, <1>13, SMT
  <2>. QED BY <1>6, <2>3, <2>4
<1>14. \/ m + 1 < g \/ m + 1 = g \/ (g <= m /\ m < H /\ m < g + c)
       \/ (Overtaking > c /\ m >= g + c) \/ (Overtaking <= c /\ m >= H)
  BY <1>1, SMT
<1>. QED BY <1>9, <1>10, <1>11, <1>12, <1>13, <1>14

(* Replay, its end and the reload.                                         *)
LEMMA InHandleProgress ==
  ASSUME PlainRun, GapProgress, InHandle PROVE GapProgress'
<1>. DEFINE g == inject_gap_at
            H == HeldPlace
<1>1. /\ msgs \in Nat /\ expected \in Nat /\ stats \in Book!SequencerStats
      /\ g \in Nat /\ H \in Nat /\ Overtaking \in Nat /\ H = g + Overtaking
      /\ Book!IndInv
  BY InvGives, BookFacts, HeldPlaceFacts, Constants DEF PlainRun
<1>2. phase # "idle" /\ msgs' = msgs /\ Book!Finish
  BY DEF InHandle, Book!Finish, Book!Drain, Book!DrainEnd, Book!Reload
<1>3. /\ inject_gap_at' = g /\ HeldPlace' = H /\ Overtaking' = Overtaking
  BY ConfigKept DEF Next, BookLoop, configVars
<1>4. stats.reorder_overflow > 0 => stats'.reorder_overflow > 0
  BY <1>1, <1>2, OverflowStays
<1>5. \/ /\ Book!Drain /\ expected \in DOMAIN reorder /\ phase' = "drain"
         /\ expected' = expected + 1 /\ DOMAIN reorder' = DOMAIN reorder \ {expected}
         /\ stats' = [stats EXCEPT !.accepted = @ + 1, !.buffered_released = @ + 1]
      \/ /\ Book!DrainEnd /\ expected \notin DOMAIN reorder /\ phase' = "idle"
         /\ expected' = expected /\ reorder' = reorder /\ stats' = stats
      \/ phase = "reload"
  BY <1>2, Zenon DEF Book!Finish, Book!Drain, Book!DrainEnd, Book!Reload, Book!PopReadyTrue,
     Book!PopReadyFalse, Book!Return, Book!Erase
<1>6. BeforeGap => BeforeGap'
  BY <1>2, <1>5 DEF BeforeGap, Counted
<1>7. AfterGap => AfterGap'
  BY <1>2, <1>3, <1>5 DEF AfterGap, Counted
<1>8. ~InGap
  BY <1>2 DEF InGap
<1>9. Replayed => Replayed'
  <2>. SUFFICES ASSUME Replayed PROVE Replayed'
    OBVIOUS
  <2>1. /\ stats.reorder_overflow = 0 /\ stats.buffered_released = expected - g - 1
        /\ phase # "reload"
        /\ expected \in (g + 1)..(H + 1) /\ DOMAIN reorder = expected..H
    BY DEF Replayed, Counted
  <2>2. CASE /\ expected \in DOMAIN reorder /\ phase' = "drain"
             /\ expected' = expected + 1 /\ DOMAIN reorder' = DOMAIN reorder \ {expected}
             /\ stats' = [stats EXCEPT !.accepted = @ + 1, !.buffered_released = @ + 1]
    <3>1. /\ stats'.reorder_overflow = 0
          /\ stats'.buffered_released = stats.buffered_released + 1
      BY <1>1, <2>1, <2>2, ReleaseFacts
    <3>2. expected <= H
      BY <1>1, <2>1, <2>2, SMT
    <3>3. stats'.buffered_released = (expected + 1) - g - 1
      BY <1>1, <2>1, <3>1, SMT
    <3>4. (expected..H) \ {expected} = (expected + 1)..H /\ expected + 1 \in (g + 1)..(H + 1)
      BY <1>1, <2>1, <3>2, SMT
    <3>. QED BY <1>3, <2>1, <2>2, <3>1, <3>3, <3>4 DEF Replayed, Counted
  <2>3. CASE /\ expected \notin DOMAIN reorder /\ phase' = "idle"
             /\ expected' = expected /\ reorder' = reorder /\ stats' = stats
    <3>1. expected = H + 1
      BY <1>1, <2>1, <2>3, SMT
    <3>. QED BY <1>3, <2>1, <2>3, <3>1 DEF Replayed, Counted
  <2>. QED BY <1>5, <2>1, <2>2, <2>3
<1>. QED BY <1>2, <1>3, <1>4, <1>6, <1>7, <1>8, <1>9 DEF GapProgress

LEMMA ProgressKept ==
  ASSUME PlainRun, GapProgress, [Next]_vars PROVE GapProgress'
<1>1. CASE UNCHANGED bookVars
  <2>1. /\ UNCHANGED configVars /\ HeldPlace' = HeldPlace /\ Overtaking' = Overtaking
    BY ConfigKept
  <2>. QED BY <1>1, <2>1, Zenon DEF GapProgress, BeforeGap, InGap, Replayed, AfterGap, Counted,
              bookVars, configVars
<1>2. CASE Ingest
  BY <1>1, <1>2, IngestLeaves
<1>3. CASE PollFalse \/ PollTrue \/ Receive \/ InReceive
  BY <1>1, <1>3, ReceiveSteps
<1>4. CASE Terminated \/ UNCHANGED vars
  BY <1>1, <1>4 DEF Terminated, vars
<1>. QED BY <1>2, <1>3, <1>4, HandleProgress, InHandleProgress DEF Next, BookLoop

LEMMA InitGapRun == Init => GapRunInv
<1>. SUFFICES ASSUME Init PROVE GapRunInv
  OBVIOUS
<1>0. NumFrames \in Nat /\ MaxDistance \in Nat /\ reorder_capacity \in Nat /\ reorder_capacity > 0
  BY PipelineAssumption, Constants
<1>1. GapConfig
  BY <1>0, SMT DEF Init, GapConfig
<1>2. /\ ploc = "frame" /\ frame = 1 /\ holding = FALSE /\ parse_errors = 0
      /\ ppc = "idle" /\ accepted = <<>>
  BY DEF Init, Ring!Init
<1>3. /\ expected = 1 /\ DOMAIN reorder = {} /\ phase = "idle" /\ msgs = 0
      /\ stats.reorder_overflow = 0 /\ stats.buffered_released = 0
  BY Zenon DEF Init, Book!Init, Book!SeqInit
<1>4. /\ inject_gap_at \in Nat /\ gap_reorder_distance \in Nat /\ HeldPlace \in Nat
      /\ Overtaking \in Nat /\ HeldPlace = inject_gap_at + Overtaking
      /\ inject_gap_at = 0 => gap_reorder_distance = 0 /\ Overtaking = 0
  BY <1>1, HeldPlaceFacts
<1>5. SendOrder
  <2>1. frame < inject_gap_at \/ frame = inject_gap_at
          \/ frame > inject_gap_at + gap_reorder_distance
    BY <1>2, <1>4, SMT
  <2>2. 1..Len(accepted) = {}
    BY <1>2, SMT
  <2>. QED BY <1>2, <2>1, <2>2 DEF SendOrder
<1>6. GapProgress
  <2>1. CASE inject_gap_at = 0
    <3>1. HeldPlace = 0 /\ Overtaking = 0
      BY <1>4, <2>1, SMT
    <3>2. /\ ~(msgs < inject_gap_at) /\ ~(msgs < HeldPlace) /\ ~(msgs > HeldPlace)
          /\ ~(Overtaking > reorder_capacity)
      BY <1>0, <1>3, <2>1, <3>1, SMT
    <3>3. /\ expected - inject_gap_at - 1 = 0 /\ expected..HeldPlace = {}
          /\ expected \in (inject_gap_at + 1)..(HeldPlace + 1) /\ expected = HeldPlace + 1
      BY <1>3, <2>1, <3>1, SMT
    <3>4. Replayed
      BY <1>3, <3>3 DEF Replayed, Counted
    <3>. QED BY <3>2, <3>4 DEF GapProgress
  <2>2. CASE inject_gap_at # 0
    <3>1. /\ ~(inject_gap_at <= msgs) /\ ~(msgs >= inject_gap_at + reorder_capacity)
          /\ msgs # HeldPlace /\ ~(msgs > HeldPlace)
      BY <1>0, <1>3, <1>4, <2>2, SMT
    <3>2. BeforeGap
      BY <1>3, SMT DEF BeforeGap, Counted
    <3>. QED BY <3>1, <3>2 DEF GapProgress
  <2>. QED BY <2>1, <2>2
<1>. QED BY <1>1, <1>5, <1>6 DEF GapRunInv

LEMMA StepGapRun == PipelineInv /\ GapRunInv /\ [Next]_vars => GapRunInv'
<1>. SUFFICES ASSUME PipelineInv, GapRunInv, [Next]_vars PROVE GapRunInv'
  OBVIOUS
<1>1. GapConfig' /\ bad' = bad /\ policy' = policy
  BY ConfigKept DEF GapRunInv, configVars
<1>2. ASSUME bad = {}, policy = "Block" PROVE SendOrder' /\ GapProgress'
  <2>1. PlainRun /\ GapProgress
    BY <1>2 DEF PlainRun, GapRunInv
  <2>. QED BY <2>1, OrderKept, ProgressKept
<1>. QED BY <1>1, <1>2 DEF GapRunInv

(* Replay fills an injected gap exactly when the frames that overtake the  *)
(* held one fit in the reorder buffer, and then releases exactly those.    *)
THEOREM RecoveryBoundaryIsExact == Spec => []GapRecoveryBoundary
<1>1. PipelineInv /\ GapRunInv => GapRecoveryBoundary
  <2>. SUFFICES ASSUME PipelineInv, GapRunInv, Joined, bad = {}, policy = "Block"
                PROVE  /\ stats.reorder_overflow = 0 <=> Overtaking <= reorder_capacity
                       /\ Overtaking <= reorder_capacity =>
                            stats.buffered_released = Overtaking
    BY DEF GapRecoveryBoundary
  <2>0. PlainRun /\ GapProgress /\ GapConfig
    BY DEF PlainRun, GapRunInv
  <2>1. /\ NumFrames \in Nat /\ reorder_capacity \in Nat /\ reorder_capacity > 0
        /\ Len(accepted) \in Nat /\ msgs \in Nat
        /\ inject_gap_at \in Nat /\ HeldPlace \in Nat
        /\ Overtaking \in Nat /\ HeldPlace = inject_gap_at + Overtaking
        /\ HeldPlace <= NumFrames
    BY <2>0, PlainFacts, HeldPlaceFacts, Constants, InvGives, BookFacts
  <2>2. /\ producer_done /\ head = tail /\ phase = "idle" /\ cpc = "idle"
        /\ msgs = Len(received)
    BY InvGives DEF DrainInv, Joined
  <2>3. ploc = "done" /\ ppc = "idle" /\ frame = NumFrames + 1
    BY <2>2, InvGives DEF IngestAt
  <2>4. msgs = NumFrames
    <3>1. /\ head \in Nat /\ Len(accepted) = tail
          /\ Len(received) = head + (IF cpc = "release" THEN 1 ELSE 0)
      BY InvGives, RingFacts
    <3>2. Len(accepted) + 0 + 0 = (frame - 1) + 0
      BY <2>0, <2>3, PlainFacts DEF Unsent
    <3>. QED BY <2>1, <2>2, <2>3, <3>1, <3>2, SMT
  <2>5. CASE Overtaking > reorder_capacity
    <3>1. stats.reorder_overflow > 0
      BY <2>0, <2>1, <2>4, <2>5, SMT DEF GapProgress
    <3>2. stats.reorder_overflow # 0 /\ ~(Overtaking <= reorder_capacity)
      BY <2>1, <2>5, <3>1, SMT
    <3>. QED BY <3>2
  <2>6. CASE Overtaking <= reorder_capacity
    <3>1. CASE msgs = HeldPlace
      <4>1. Replayed
        BY <2>0, <2>6, <3>1 DEF GapProgress
      <4>2. /\ stats.reorder_overflow = 0 /\ stats.buffered_released = expected - inject_gap_at - 1
            /\ expected = HeldPlace + 1
        BY <2>2, <4>1 DEF Replayed, Counted
      <4>3. stats.buffered_released = Overtaking
        BY <2>1, <4>2, SMT
      <4>. QED BY <2>6, <4>2, <4>3
    <3>2. CASE msgs > HeldPlace
      BY <2>0, <2>6, <3>2 DEF GapProgress, AfterGap, Counted
    <3>. QED BY <2>1, <2>4, <3>1, <3>2, SMT
  <2>. QED BY <2>1, <2>5, <2>6, SMT
<1>. QED BY <1>1, InitGapRun, StepGapRun, PipelineInvariance, PTL DEF Spec
=============================================================================
