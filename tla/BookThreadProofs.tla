-------------------------- MODULE BookThreadProofs --------------------------
(***************************************************************************)
(* The properties of the book thread proved for every reorder capacity,    *)
(* first sequence number and event set, and any number of messages.        *)
(* IndInv is inductive; the properties the run checks follow from it.      *)
(***************************************************************************)
EXTENDS BookThread, FiniteSetTheorems, TLAPS

(* What each operation does to the counters.                               *)
LEMMA StatsFacts ==
  ASSUME NEW s \in SequencerStats, NEW n \in Nat
  PROVE  /\ LET t == [s EXCEPT !.duplicates = @ + 1]
            IN /\ t \in SequencerStats /\ t.gap_episodes = s.gap_episodes
               /\ t.snapshot_recoveries = s.snapshot_recoveries
         /\ LET t == [s EXCEPT !.accepted = @ + 1]
            IN /\ t \in SequencerStats /\ t.gap_episodes = s.gap_episodes
               /\ t.snapshot_recoveries = s.snapshot_recoveries
         /\ LET t == [s EXCEPT !.accepted = @ + 1, !.buffered_released = @ + 1]
            IN /\ t \in SequencerStats /\ t.gap_episodes = s.gap_episodes
               /\ t.snapshot_recoveries = s.snapshot_recoveries
         /\ LET t == [s EXCEPT !.gap_episodes = @ + 1, !.missing_total = @ + n]
            IN /\ t \in SequencerStats /\ t.gap_episodes = s.gap_episodes + 1
               /\ t.snapshot_recoveries = s.snapshot_recoveries
         /\ LET t == [s EXCEPT !.reorder_overflow = @ + 1]
            IN /\ t \in SequencerStats /\ t.gap_episodes = s.gap_episodes
               /\ t.snapshot_recoveries = s.snapshot_recoveries
         /\ LET t == [s EXCEPT !.snapshot_recoveries = @ + 1]
            IN /\ t \in SequencerStats /\ t.gap_episodes = s.gap_episodes
               /\ t.snapshot_recoveries = s.snapshot_recoveries + 1
               /\ t.snapshot_recoveries # 0
<1>1. /\ s.duplicates + 1 \in Nat /\ s.accepted + 1 \in Nat
      /\ s.buffered_released + 1 \in Nat /\ s.gap_episodes + 1 \in Nat
      /\ s.missing_total + n \in Nat /\ s.reorder_overflow + 1 \in Nat
      /\ s.snapshot_recoveries + 1 \in Nat /\ s.snapshot_recoveries + 1 # 0
  BY SMT DEF SequencerStats
<1>. QED BY <1>1, Zenon DEF SequencerStats

(* The initial state satisfies the inductive invariant.                    *)
LEMMA InitIndInv == Init => IndInv
<1>. SUFFICES ASSUME Init PROVE IndInv
  OBVIOUS
<1>. USE SequencerAssumption, BookThreadAssumption
<1>a. stale \in BOOLEAN /\ needs_snapshot \in BOOLEAN /\ was_stale \in BOOLEAN
  BY Zenon DEF Init, SeqInit
<1>b. /\ DOMAIN reorder = {} /\ DOMAIN firstCopy = {}
      /\ ~stale /\ ~needs_snapshot /\ ~was_stale
  BY Zenon DEF Init, SeqInit
<1>c. stats \in SequencerStats
  BY SMT DEF Init, SeqInit, SequencerStats
<1>d. applied \in Seq(Nat \X Event) /\ resetAt \in 0..Len(applied)
  BY SMT DEF Init
<1>1. TypeOK
  BY <1>a, <1>b, <1>c, <1>d, SMT DEF Init, SeqInit, TypeOK
<1>2. IsFiniteSet(DOMAIN reorder) /\ Buffered = 0
  BY FS_EmptySet DEF Init, SeqInit, Buffered
<1>3. BufferInv
  <2>1. Buffered <= reorder_capacity
    BY <1>2, SMT
  <2>2. phase # "reload" /\ phase # "drain"
    BY DEF Init
  <2>. QED BY <1>2, <1>b, <2>1, <2>2, Zenon DEF BufferInv
<1>7. StaleInv
  <2>1. phase # "reload" /\ was_stale = stale
    BY Zenon DEF Init, SeqInit
  <2>. QED BY <1>b, <2>1, Zenon DEF StaleInv
<1>4. GapInv
  <2>1. stats.gap_episodes = recoveries + 0
    BY SMT DEF Init, SeqInit
  <2>. QED BY <1>b, <2>1, Zenon DEF GapInv
<1>5. OrderInv
  BY SMT DEF Init, SeqInit, OrderInv, AppliedOnceInOrder, BookContiguous
<1>6. CopyInv
  BY SMT DEF Init, SeqInit, CopyInv, FirstCopyWins
<1>. QED BY <1>1, <1>3, <1>4, <1>5, <1>6, <1>7 DEF IndInv

(* One lemma per action: it preserves the inductive invariant.             *)

(* A message below expected is counted and changes nothing else.           *)
LEMMA DropPreserves ==
  ASSUME IndInv, NEW seq \in Nat, NEW ev \in Event, HandleDrop(seq, ev)
  PROVE  IndInv'
<1>. USE SequencerAssumption, BookThreadAssumption
<1>1. TypeOK /\ StaleInv /\ BufferInv /\ GapInv /\ OrderInv /\ CopyInv
  BY DEF IndInv
<1>2. /\ phase = "idle" /\ phase' = "idle"
      /\ expected' = expected /\ reorder' = reorder /\ applied' = applied
      /\ resetAt' = resetAt /\ updates' = updates /\ firstCopy' = firstCopy
      /\ msgs' = msgs + 1 /\ stats' = [stats EXCEPT !.duplicates = @ + 1]
  BY Zenon DEF HandleDrop, Enter, OfferDrop, Return
<1>3. stale' = stale /\ needs_snapshot' = needs_snapshot /\ was_stale' = stale'
  BY Zenon DEF HandleDrop, OfferDrop, Return
<1>4. was_stale = stale
  <2>1. phase # "drain"
    BY <1>2
  <2>. QED BY <1>1, <2>1, Zenon DEF StaleInv
<1>5. was_stale' = was_stale /\ recoveries' = recoveries
  <2>1. recoveries' = IF was_stale /\ ~stale' THEN recoveries + 1 ELSE recoveries
    BY Zenon DEF HandleDrop, Return
  <2>. QED BY <1>3, <1>4, <2>1, Zenon
<1>6. /\ stats' \in SequencerStats /\ stats'.gap_episodes = stats.gap_episodes
      /\ stats'.snapshot_recoveries = stats.snapshot_recoveries
  <2>1. stats \in SequencerStats
    BY <1>1 DEF TypeOK
  <2>. QED BY <1>2, <2>1, StatsFacts, Zenon
<1>7. TypeOK'
  <2>1. stale' \in BOOLEAN /\ needs_snapshot' \in BOOLEAN /\ was_stale' \in BOOLEAN
    BY <1>1, <1>3, <1>5, Zenon DEF TypeOK
  <2>2. msgs' \in Nat /\ phase' \in {"idle", "drain", "reload"}
    BY <1>1, <1>2, SMT DEF TypeOK
  <2>. QED BY <1>1, <1>2, <1>5, <1>6, <2>1, <2>2, Zenon DEF TypeOK
<1>8. StaleInv'
  <2>1. phase' # "reload" /\ phase # "reload"
    BY <1>2
  <2>2. stale' <=> DOMAIN reorder' # {}
    BY <1>1, <1>2, <1>3, Zenon DEF StaleInv
  <2>3. ~needs_snapshot'
    BY <1>1, <1>3, <2>1, Zenon DEF StaleInv
  <2>. QED BY <1>3, <2>1, <2>2, <2>3, Zenon DEF StaleInv
<1>9. BufferInv'
  BY <1>1, <1>2, SMT DEF BufferInv, Buffered
<1>10. GapInv'
  BY <1>1, <1>5, <1>6, Zenon DEF GapInv
<1>11. OrderInv'
  BY <1>1, <1>2, <1>6, Zenon DEF OrderInv, AppliedOnceInOrder, BookContiguous
<1>12. CopyInv'
  BY <1>1, <1>2, Zenon DEF CopyInv, FirstCopyWins
<1>. QED BY <1>7, <1>8, <1>9, <1>10, <1>11, <1>12 DEF IndInv

(* A message ahead of a hole is buffered; the first one opens the gap.     *)
LEMMA BufferedPreserves ==
  ASSUME IndInv, NEW seq \in Nat, NEW ev \in Event, HandleBuffered(seq, ev)
  PROVE  IndInv'
<1>. USE SequencerAssumption, BookThreadAssumption
<1>1. TypeOK /\ StaleInv /\ BufferInv /\ GapInv /\ OrderInv /\ CopyInv
  BY DEF IndInv
<1>2. /\ phase = "idle" /\ phase' = "idle" /\ seq > expected
      /\ expected' = expected /\ applied' = applied
      /\ resetAt' = resetAt /\ updates' = updates
      /\ msgs' = msgs + 1 /\ stats' = OpenGap(seq, stats)
      /\ ~(Buffered >= reorder_capacity)
      /\ reorder' = Emplace(reorder, seq, ev) /\ firstCopy' = Emplace(firstCopy, seq, ev)
  BY Zenon DEF HandleBuffered, Enter, OfferBuffered, Return, ReorderFull
<1>3. stale' /\ needs_snapshot' = needs_snapshot /\ was_stale' = stale'
  BY Zenon DEF HandleBuffered, OfferBuffered, Return
<1>4. was_stale = stale
  <2>1. phase # "drain"
    BY <1>2
  <2>. QED BY <1>1, <2>1, Zenon DEF StaleInv
<1>5. was_stale' /\ recoveries' = recoveries
  <2>1. recoveries' = IF was_stale /\ ~stale' THEN recoveries + 1 ELSE recoveries
    BY Zenon DEF HandleBuffered, Return
  <2>. QED BY <1>3, <2>1, Zenon
<1>6. /\ DOMAIN reorder' = DOMAIN reorder \cup {seq}
      /\ \A s \in DOMAIN reorder : reorder'[s] = reorder[s]
      /\ seq \notin DOMAIN reorder => reorder'[seq] = ev
  BY <1>2, Zenon DEF Emplace
<1>7. /\ DOMAIN firstCopy' = DOMAIN firstCopy \cup {seq}
      /\ \A s \in DOMAIN firstCopy : firstCopy'[s] = firstCopy[s]
      /\ seq \notin DOMAIN firstCopy => firstCopy'[seq] = ev
  BY <1>2, Zenon DEF Emplace
<1>8. /\ stats' \in SequencerStats
      /\ stats'.gap_episodes = stats.gap_episodes + (IF stale THEN 0 ELSE 1)
      /\ stats'.snapshot_recoveries = stats.snapshot_recoveries
  <2>. DEFINE n == seq - expected
  <2>1. stats \in SequencerStats /\ n \in Nat /\ stats.gap_episodes + 0 = stats.gap_episodes
    BY <1>1, <1>2, SMT DEF TypeOK, SequencerStats
  <2>2. CASE stale
    BY <1>2, <2>1, <2>2, Zenon DEF OpenGap
  <2>3. CASE ~stale
    <3>1. stats' = [stats EXCEPT !.gap_episodes = @ + 1, !.missing_total = @ + n]
      BY <1>2, <2>3, Zenon DEF OpenGap
    <3>. HIDE DEF n
    <3>2. /\ stats' \in SequencerStats
          /\ stats'.gap_episodes = stats.gap_episodes + 1
          /\ stats'.snapshot_recoveries = stats.snapshot_recoveries
      BY <2>1, <3>1, StatsFacts, Zenon
    <3>. QED BY <2>3, <3>2, Zenon
  <2>. QED BY <2>2, <2>3
<1>9. TypeOK'
  <2>1. stale' \in BOOLEAN /\ needs_snapshot' \in BOOLEAN /\ was_stale' \in BOOLEAN
    BY <1>1, <1>3, <1>5, Zenon DEF TypeOK, HandleBuffered, OfferBuffered
  <2>2. msgs' \in Nat /\ phase' \in {"idle", "drain", "reload"}
    BY <1>1, <1>2, SMT DEF TypeOK
  <2>3. DOMAIN reorder' \subseteq Nat /\ \A s \in DOMAIN reorder' : reorder'[s] \in Event
    BY <1>1, <1>6, Zenon DEF TypeOK
  <2>. QED BY <1>1, <1>2, <1>5, <1>8, <2>1, <2>2, <2>3, Zenon DEF TypeOK
<1>10. StaleInv'
  <2>1. phase' # "reload" /\ phase # "reload" /\ DOMAIN reorder' # {}
    BY <1>2, <1>6
  <2>. QED BY <1>1, <1>3, <1>5, <2>1, Zenon DEF StaleInv
<1>11. BufferInv'
  <2>1. IsFiniteSet(DOMAIN reorder)
    BY <1>1 DEF BufferInv
  <2>2. /\ IsFiniteSet(DOMAIN reorder') /\ Buffered \in Nat
        /\ Buffered' = Buffered \/ Buffered' = Buffered + 1
    BY <1>6, <2>1, FS_AddElement, FS_CardinalityType DEF Buffered
  <2>3. Buffered' <= reorder_capacity
    <3>1. ~(Buffered >= reorder_capacity)
      BY <1>2
    <3>. QED BY <2>2, <3>1, SMT
  <2>4. \A s \in DOMAIN reorder' : s > expected'
    BY <1>1, <1>2, <1>6 DEF BufferInv
  <2>. QED BY <1>2, <2>2, <2>3, <2>4 DEF BufferInv
<1>12. GapInv'
  <2>1. recoveries \in Nat
    BY <1>1 DEF TypeOK
  <2>2. CASE stale
    <3>1. stats.gap_episodes = recoveries + 1
      BY <1>1, <1>4, <2>2, Zenon DEF GapInv
    <3>2. stats'.gap_episodes = stats.gap_episodes + 0
      BY <1>8, <2>2, Zenon
    <3>3. stats'.gap_episodes = recoveries' + 1
      BY <1>5, <2>1, <3>1, <3>2
    <3>. QED BY <1>5, <3>3, Zenon DEF GapInv
  <2>3. CASE ~stale
    <3>1. stats.gap_episodes = recoveries + 0
      BY <1>1, <1>4, <2>3, Zenon DEF GapInv
    <3>2. stats'.gap_episodes = stats.gap_episodes + 1
      BY <1>8, <2>3, Zenon
    <3>3. stats'.gap_episodes = recoveries' + 1
      BY <1>5, <2>1, <3>1, <3>2
    <3>. QED BY <1>5, <3>3, Zenon DEF GapInv
  <2>. QED BY <2>2, <2>3
<1>13. OrderInv'
  BY <1>1, <1>2, <1>8, Zenon DEF OrderInv, AppliedOnceInOrder, BookContiguous
<1>14. CopyInv'
  <2>1. seq \in DOMAIN firstCopy => seq \in DOMAIN reorder
    BY <1>1, <1>2, SMT DEF CopyInv, TypeOK
  <2>2. \A s \in DOMAIN reorder' : reorder'[s] = firstCopy'[s]
    BY <1>1, <1>6, <1>7, <2>1, Zenon DEF CopyInv, FirstCopyWins
  <2>3. \A i \in (resetAt' + 1)..Len(applied') :
          /\ applied'[i][1] \in DOMAIN firstCopy'
          /\ applied'[i][2] = firstCopy'[applied'[i][1]]
    BY <1>1, <1>2, <1>7, Zenon DEF CopyInv, FirstCopyWins
  <2>4. /\ DOMAIN firstCopy' \subseteq Nat /\ DOMAIN reorder' \subseteq DOMAIN firstCopy'
        /\ \A s \in DOMAIN firstCopy' : s < expected' \/ s \in DOMAIN reorder'
    BY <1>1, <1>2, <1>6, <1>7, Zenon DEF CopyInv
  <2>. QED BY <2>2, <2>3, <2>4, Zenon DEF CopyInv, FirstCopyWins
<1>. QED BY <1>9, <1>10, <1>11, <1>12, <1>13, <1>14 DEF IndInv

(* Applying the expected event keeps the book contiguous and in order.     *)
LEMMA AppendExpected ==
  ASSUME TypeOK, OrderInv, NEW ev \in Event,
         applied' = Append(applied, <<expected, ev>>), expected' = expected + 1,
         resetAt' = resetAt, stats'.snapshot_recoveries = stats.snapshot_recoveries
  PROVE  /\ OrderInv'
         /\ applied' \in Seq(Nat \X Event) /\ resetAt' \in 0..Len(applied')
         /\ Len(applied') = Len(applied) + 1
         /\ \A i \in 1..Len(applied) : applied'[i] = applied[i]
         /\ applied'[Len(applied')] = <<expected, ev>>
<1>. USE SequencerAssumption
<1>1. /\ applied \in Seq(Nat \X Event) /\ expected \in Nat /\ resetAt \in 0..Len(applied)
      /\ Len(applied) \in Nat
  BY DEF TypeOK
<1>2. /\ applied' \in Seq(Nat \X Event)
      /\ Len(applied') = Len(applied) + 1
      /\ \A i \in 1..Len(applied) : applied'[i] = applied[i]
      /\ applied'[Len(applied) + 1] = <<expected, ev>>
  BY <1>1, SMT
<1>a. Len(applied') = Len(applied) + 1
  BY <1>2
<1>b. applied'[Len(applied) + 1][1] = expected
  BY <1>2
<1>3. resetAt' \in 0..Len(applied')
  BY <1>1, <1>2
<1>4. \A i \in 1..Len(applied) : applied[i] \in Nat \X Event /\ applied[i][1] \in Nat
  BY <1>1
<1>5. \A i \in 1..Len(applied') : applied'[i][1] < expected'
  BY <1>1, <1>2, <1>4, SMT DEF OrderInv
<1>6. AppliedOnceInOrder'
  <2>1. SUFFICES ASSUME NEW i \in 1..Len(applied'), NEW j \in 1..Len(applied'), i < j
                 PROVE  applied'[i][1] < applied'[j][1]
    BY DEF AppliedOnceInOrder
  <2>2. i \in 1..Len(applied) /\ applied'[i] = applied[i]
    BY <1>1, <1>2, <2>1
  <2>3. CASE j \in 1..Len(applied)
    BY <1>2, <2>1, <2>2, <2>3 DEF OrderInv, AppliedOnceInOrder
  <2>4. CASE j = Len(applied) + 1
    <3>1. applied'[j][1] = expected
      BY <1>b, <2>4, Zenon
    <3>2. applied[i][1] < expected
      BY <2>2 DEF OrderInv
    <3>. QED BY <2>2, <3>1, <3>2
  <2>. QED BY <1>1, <1>2, <2>3, <2>4
<1>7. BookContiguous'
  <2>1. \A i \in (resetAt' + 1)..Len(applied') :
          applied'[i][1] + Len(applied') + 1 = expected' + i
    <3>1. SUFFICES ASSUME NEW i \in (resetAt' + 1)..Len(applied')
                   PROVE  applied'[i][1] + Len(applied') + 1 = expected' + i
      OBVIOUS
    <3>2. CASE i \in (resetAt + 1)..Len(applied)
      <4>1. applied[i][1] + Len(applied) + 1 = expected + i
        BY <3>2 DEF OrderInv, BookContiguous
      <4>2. i \in 1..Len(applied) /\ i \in Nat
        BY <1>1, <3>2
      <4>3. applied'[i][1] = applied[i][1] /\ applied[i][1] \in Nat
        BY <1>2, <1>4, <4>2
      <4>. QED BY <1>1, <1>2, <4>1, <4>2, <4>3, SMTT(30)
    <3>3. CASE i = Len(applied) + 1
      <4>1. applied'[i][1] = expected
        BY <1>b, <3>3, Zenon
      <4>2. Len(applied) \in Nat /\ expected \in Nat /\ i = Len(applied) + 1
        BY <1>1, <3>3
      <4>. QED BY <1>a, <4>1, <4>2, SMTT(30)
    <3>. QED BY <1>1, <1>2, <3>2, <3>3, SMTT(30)
  <2>2. IF stats'.snapshot_recoveries = 0
        THEN resetAt' = 0 /\ expected' = start_seq + Len(applied')
        ELSE resetAt' < Len(applied')
    BY <1>1, <1>2, SMT DEF OrderInv, BookContiguous
  <2>. QED BY <2>1, <2>2 DEF BookContiguous
<1>. QED BY <1>2, <1>3, <1>5, <1>6, <1>7 DEF OrderInv

(* The expected message is applied, and handle() goes on to drain.         *)
LEMMA ApplyPreserves ==
  ASSUME IndInv, NEW seq \in Nat, NEW ev \in Event, HandleApply(seq, ev)
  PROVE  IndInv'
<1>. USE SequencerAssumption, BookThreadAssumption
<1>1. TypeOK /\ StaleInv /\ BufferInv /\ GapInv /\ OrderInv /\ CopyInv
  BY DEF IndInv
<1>2. /\ phase = "idle" /\ phase' = "drain" /\ seq = expected
      /\ expected' = expected + 1 /\ reorder' = reorder
      /\ applied' = Append(applied, <<expected, ev>>)
      /\ resetAt' = resetAt /\ updates' = updates + 1 /\ recoveries' = recoveries
      /\ msgs' = msgs + 1 /\ stats' = [stats EXCEPT !.accepted = @ + 1]
      /\ firstCopy' = Emplace(firstCopy, expected, ev)
  BY Zenon DEF HandleApply, Enter, OfferApply, ApplyEv
<1>3. /\ stale' = stale /\ needs_snapshot' = needs_snapshot /\ was_stale' = was_stale
  BY Zenon DEF HandleApply, OfferApply
<1>4. /\ stats' \in SequencerStats /\ stats'.gap_episodes = stats.gap_episodes
      /\ stats'.snapshot_recoveries = stats.snapshot_recoveries
  <2>1. stats \in SequencerStats
    BY <1>1 DEF TypeOK
  <2>. QED BY <1>2, <2>1, StatsFacts, Zenon
<1>5. /\ OrderInv'
      /\ applied' \in Seq(Nat \X Event) /\ resetAt' \in 0..Len(applied')
      /\ Len(applied') = Len(applied) + 1
      /\ \A i \in 1..Len(applied) : applied'[i] = applied[i]
      /\ applied'[Len(applied')] = <<expected, ev>>
  BY <1>1, <1>2, <1>4, AppendExpected
<1>6. TypeOK'
  <2>1. stale' \in BOOLEAN /\ needs_snapshot' \in BOOLEAN /\ was_stale' \in BOOLEAN
    BY <1>1, <1>3, Zenon DEF TypeOK
  <2>2. /\ msgs' \in Nat /\ phase' \in {"idle", "drain", "reload"}
        /\ expected' \in Nat /\ updates' \in Nat
    BY <1>1, <1>2, SMTT(30) DEF TypeOK
  <2>. QED BY <1>1, <1>2, <1>4, <1>5, <2>1, <2>2, Zenon DEF TypeOK
<1>7. StaleInv'
  <2>1. phase' # "reload" /\ phase # "reload" /\ phase' = "drain"
    BY <1>2
  <2>2. stale' <=> DOMAIN reorder' # {}
    BY <1>1, <1>2, <1>3, Zenon DEF StaleInv
  <2>3. ~needs_snapshot' /\ (stale' => was_stale')
    BY <1>1, <1>3, <2>1, Zenon DEF StaleInv
  <2>. QED BY <2>1, <2>2, <2>3, Zenon DEF StaleInv
<1>8. BufferInv'
  <2>1. \A s \in DOMAIN reorder' : s > expected' \/ (phase' = "drain" /\ s = expected')
    BY <1>1, <1>2, SMTT(30) DEF BufferInv, TypeOK
  <2>2. IsFiniteSet(DOMAIN reorder') /\ Buffered' <= reorder_capacity
    BY <1>1, <1>2, SMT DEF BufferInv, Buffered
  <2>. QED BY <1>2, <2>1, <2>2 DEF BufferInv
<1>9. GapInv'
  BY <1>1, <1>2, <1>3, <1>4, Zenon DEF GapInv
<1>10. CopyInv'
  <2>1. expected \notin DOMAIN firstCopy /\ expected \notin DOMAIN reorder
    BY <1>1, <1>2, SMTT(30) DEF CopyInv, BufferInv, TypeOK
  <2>2. /\ DOMAIN firstCopy' = DOMAIN firstCopy \cup {expected}
        /\ \A s \in DOMAIN firstCopy : firstCopy'[s] = firstCopy[s]
        /\ firstCopy'[expected] = ev
    BY <1>2, <2>1, Zenon DEF Emplace
  <2>3. \A i \in (resetAt' + 1)..Len(applied') :
          /\ applied'[i][1] \in DOMAIN firstCopy'
          /\ applied'[i][2] = firstCopy'[applied'[i][1]]
    <3>1. SUFFICES ASSUME NEW i \in (resetAt' + 1)..Len(applied')
                   PROVE  /\ applied'[i][1] \in DOMAIN firstCopy'
                          /\ applied'[i][2] = firstCopy'[applied'[i][1]]
      OBVIOUS
    <3>2. CASE i = Len(applied')
      BY <1>5, <2>2, <3>2
    <3>3. CASE i # Len(applied')
      <4>1. i \in (resetAt + 1)..Len(applied) /\ i \in 1..Len(applied)
        <5>1. resetAt \in 0..Len(applied) /\ Len(applied) \in Nat
          BY <1>1 DEF TypeOK
        <5>2. Len(applied') = Len(applied) + 1 /\ resetAt' = resetAt
          BY <1>2, <1>5
        <5>. QED BY <3>3, <5>1, <5>2, SMT
      <4>2. applied'[i] = applied[i]
        BY <1>5, <4>1
      <4>. QED BY <1>1, <2>2, <4>1, <4>2, ZenonT(30) DEF CopyInv, FirstCopyWins
    <3>. QED BY <3>2, <3>3
  <2>4. \A s \in DOMAIN reorder' : reorder'[s] = firstCopy'[s]
    BY <1>1, <1>2, <2>2, Zenon DEF CopyInv, FirstCopyWins
  <2>5. DOMAIN firstCopy' \subseteq Nat /\ DOMAIN reorder' \subseteq DOMAIN firstCopy'
    BY <1>1, <1>2, <2>2 DEF CopyInv, TypeOK
  <2>6. \A s \in DOMAIN firstCopy' : s < expected' \/ s \in DOMAIN reorder'
    BY <1>1, <1>2, <2>2, SMTT(30) DEF CopyInv, TypeOK
  <2>. QED BY <2>3, <2>4, <2>5, <2>6, Zenon DEF CopyInv, FirstCopyWins
<1>. QED BY <1>5, <1>6, <1>7, <1>8, <1>9, <1>10 DEF IndInv

(* A buffered event that became the expected one is replayed.              *)
LEMMA DrainPreserves ==
  ASSUME IndInv, Drain
  PROVE  IndInv'
<1>. USE SequencerAssumption, BookThreadAssumption
<1>. DEFINE ev == reorder[expected]
<1>1. TypeOK /\ StaleInv /\ BufferInv /\ GapInv /\ OrderInv /\ CopyInv
  BY DEF IndInv
<1>2. /\ phase = "drain" /\ phase' = "drain" /\ expected \in DOMAIN reorder
      /\ expected' = expected + 1 /\ reorder' = Erase(reorder, expected)
      /\ applied' = Append(applied, <<expected, ev>>)
      /\ resetAt' = resetAt /\ updates' = updates + 1 /\ recoveries' = recoveries
      /\ msgs' = msgs /\ firstCopy' = firstCopy
      /\ stats' = [stats EXCEPT !.accepted = @ + 1, !.buffered_released = @ + 1]
  BY Zenon DEF Drain, PopReadyTrue, ApplyEv
<1>3. /\ stale' = (stale /\ DOMAIN reorder' # {})
      /\ needs_snapshot' = needs_snapshot /\ was_stale' = was_stale
  BY Zenon DEF Drain, PopReadyTrue
<1>4. ev \in Event
  BY <1>1, <1>2 DEF TypeOK
<1>5. /\ stats' \in SequencerStats /\ stats'.gap_episodes = stats.gap_episodes
      /\ stats'.snapshot_recoveries = stats.snapshot_recoveries
  <2>1. stats \in SequencerStats
    BY <1>1 DEF TypeOK
  <2>. QED BY <1>2, <2>1, StatsFacts, Zenon
<1>6. /\ DOMAIN reorder' = DOMAIN reorder \ {expected}
      /\ \A s \in DOMAIN reorder \ {expected} : reorder'[s] = reorder[s]
  BY <1>2, Zenon DEF Erase
<1>7. /\ OrderInv'
      /\ applied' \in Seq(Nat \X Event) /\ resetAt' \in 0..Len(applied')
      /\ Len(applied') = Len(applied) + 1
      /\ \A i \in 1..Len(applied) : applied'[i] = applied[i]
      /\ applied'[Len(applied')] = <<expected, ev>>
  <2>. HIDE DEF ev
  <2>. QED BY <1>1, <1>2, <1>4, <1>5, AppendExpected
<1>8. TypeOK'
  <2>1. stale' \in BOOLEAN /\ needs_snapshot' \in BOOLEAN /\ was_stale' \in BOOLEAN
    BY <1>1, <1>3, Zenon DEF TypeOK
  <2>2. expected' \in Nat /\ updates' \in Nat
    BY <1>1, <1>2, SMTT(30) DEF TypeOK
  <2>3. DOMAIN reorder' \subseteq Nat /\ \A s \in DOMAIN reorder' : reorder'[s] \in Event
    BY <1>1, <1>6, Zenon DEF TypeOK
  <2>. QED BY <1>1, <1>2, <1>5, <1>7, <2>1, <2>2, <2>3, Zenon DEF TypeOK
<1>9. StaleInv'
  <2>1. phase' # "reload" /\ phase # "reload" /\ phase' = "drain"
    BY <1>2
  <2>2. stale /\ was_stale
    BY <1>1, <1>2, Zenon DEF StaleInv
  <2>3. stale' <=> DOMAIN reorder' # {}
    BY <1>3, <2>2, Zenon
  <2>4. ~needs_snapshot' /\ was_stale'
    BY <1>1, <1>3, <2>1, <2>2, Zenon DEF StaleInv
  <2>. QED BY <2>1, <2>3, <2>4, Zenon DEF StaleInv
<1>10. BufferInv'
  <2>1. \A s \in DOMAIN reorder' : s > expected' \/ (phase' = "drain" /\ s = expected')
    BY <1>1, <1>2, <1>6, SMTT(30) DEF BufferInv, TypeOK
  <2>2. /\ IsFiniteSet(DOMAIN reorder) /\ Buffered \in Nat
        /\ IsFiniteSet(DOMAIN reorder') /\ Buffered' = Buffered - 1
    BY <1>1, <1>2, <1>6, FS_RemoveElement, FS_CardinalityType DEF BufferInv, Buffered
  <2>3. Buffered <= reorder_capacity
    BY <1>1 DEF BufferInv
  <2>4. Buffered' <= reorder_capacity
    BY <2>2, <2>3, SMT
  <2>. QED BY <1>2, <2>1, <2>2, <2>4 DEF BufferInv
<1>11. GapInv'
  BY <1>1, <1>2, <1>3, <1>5, Zenon DEF GapInv
<1>12. CopyInv'
  <2>1. expected \in DOMAIN firstCopy /\ firstCopy[expected] = ev
    BY <1>1, <1>2, Zenon DEF CopyInv, FirstCopyWins
  <2>2. \A i \in (resetAt' + 1)..Len(applied') :
          /\ applied'[i][1] \in DOMAIN firstCopy'
          /\ applied'[i][2] = firstCopy'[applied'[i][1]]
    <3>1. SUFFICES ASSUME NEW i \in (resetAt' + 1)..Len(applied')
                   PROVE  /\ applied'[i][1] \in DOMAIN firstCopy'
                          /\ applied'[i][2] = firstCopy'[applied'[i][1]]
      OBVIOUS
    <3>2. CASE i = Len(applied')
      <4>1. applied'[i][1] = expected /\ applied'[i][2] = ev
        BY <1>7, <3>2
      <4>. QED BY <1>2, <2>1, <4>1, Zenon
    <3>3. CASE i # Len(applied')
      <4>1. i \in (resetAt + 1)..Len(applied) /\ i \in 1..Len(applied)
        <5>1. resetAt \in 0..Len(applied) /\ Len(applied) \in Nat
          BY <1>1 DEF TypeOK
        <5>2. Len(applied') = Len(applied) + 1 /\ resetAt' = resetAt
          BY <1>2, <1>7
        <5>. QED BY <3>3, <5>1, <5>2, SMT
      <4>2. applied'[i] = applied[i]
        BY <1>7, <4>1
      <4>. QED BY <1>1, <1>2, <4>1, <4>2, Zenon DEF CopyInv, FirstCopyWins
    <3>. QED BY <3>2, <3>3
  <2>3. \A s \in DOMAIN reorder' : reorder'[s] = firstCopy'[s]
    BY <1>1, <1>2, <1>6, Zenon DEF CopyInv, FirstCopyWins
  <2>4. DOMAIN firstCopy' \subseteq Nat /\ DOMAIN reorder' \subseteq DOMAIN firstCopy'
    BY <1>1, <1>2, <1>6, Zenon DEF CopyInv
  <2>5. \A s \in DOMAIN firstCopy' : s < expected' \/ s \in DOMAIN reorder'
    BY <1>1, <1>2, <1>6, SMTT(30) DEF CopyInv, TypeOK
  <2>. QED BY <2>2, <2>3, <2>4, <2>5, Zenon DEF CopyInv, FirstCopyWins
<1>. QED BY <1>7, <1>8, <1>9, <1>10, <1>11, <1>12 DEF IndInv

(* handle() takes the recovery time exactly when a timed gap closes.       *)
LEMMA ReturnTimesGap ==
  ASSUME TypeOK, GapInv, Return, stats'.gap_episodes = stats.gap_episodes,
         stale' => was_stale, stale' \in BOOLEAN
  PROVE  /\ GapInv' /\ recoveries' \in Nat /\ was_stale' \in BOOLEAN
         /\ phase' = "idle" /\ was_stale' = stale'
<1>1. /\ recoveries' = IF was_stale /\ ~stale' THEN recoveries + 1 ELSE recoveries
      /\ was_stale' = stale' /\ phase' = "idle"
  BY Zenon DEF Return
<1>2. recoveries \in Nat /\ recoveries + 1 \in Nat /\ recoveries + 1 + 0 = recoveries + 1
  BY SMT DEF TypeOK
<1>3. stats.gap_episodes = recoveries + (IF was_stale THEN 1 ELSE 0)
  BY DEF GapInv
<1>4. recoveries' \in Nat
  BY <1>1, <1>2, Zenon
<1>8. GapInv'
  <2>1. CASE stale'
    <3>1. was_stale /\ was_stale' /\ recoveries' = recoveries
      BY <1>1, <2>1, Zenon
    <3>2. stats'.gap_episodes = recoveries' + 1
      BY <1>3, <3>1, Zenon
    <3>. QED BY <3>1, <3>2, Zenon DEF GapInv
  <2>2. CASE ~stale' /\ was_stale
    <3>1. ~was_stale' /\ recoveries' = recoveries + 1
      BY <1>1, <2>2, Zenon
    <3>2. stats'.gap_episodes = recoveries + 1
      BY <1>3, <2>2, Zenon
    <3>3. stats'.gap_episodes = recoveries' + 0
      BY <1>2, <3>1, <3>2, Zenon
    <3>. QED BY <3>1, <3>3, Zenon DEF GapInv
  <2>3. CASE ~stale' /\ ~was_stale
    <3>1. ~was_stale' /\ recoveries' = recoveries
      BY <1>1, <2>3, Zenon
    <3>2. stats'.gap_episodes = recoveries' + 0
      BY <1>3, <2>3, <3>1, Zenon
    <3>. QED BY <3>1, <3>2, Zenon DEF GapInv
  <2>. QED BY <2>1, <2>2, <2>3, Zenon
<1>. QED BY <1>1, <1>4, <1>8, Zenon

(* Nothing more to replay: handle() returns.                               *)
LEMMA DrainEndPreserves ==
  ASSUME IndInv, DrainEnd
  PROVE  IndInv'
<1>. USE SequencerAssumption, BookThreadAssumption
<1>1. TypeOK /\ StaleInv /\ BufferInv /\ GapInv /\ OrderInv /\ CopyInv
  BY DEF IndInv
<1>2. /\ phase = "drain" /\ expected \notin DOMAIN reorder
      /\ expected' = expected /\ reorder' = reorder /\ applied' = applied
      /\ resetAt' = resetAt /\ updates' = updates /\ msgs' = msgs
      /\ firstCopy' = firstCopy /\ stats' = stats
  BY Zenon DEF DrainEnd, PopReadyFalse
<1>3. /\ stale' = (stale /\ DOMAIN reorder # {})
      /\ needs_snapshot' = needs_snapshot /\ Return
  BY Zenon DEF DrainEnd, PopReadyFalse
<1>4. stale' \in BOOLEAN /\ (stale' => was_stale) /\ (stale' <=> DOMAIN reorder' # {})
  BY <1>1, <1>2, <1>3, Zenon DEF StaleInv
<1>5. /\ GapInv' /\ recoveries' \in Nat /\ was_stale' \in BOOLEAN
      /\ phase' = "idle" /\ was_stale' = stale'
  <2>1. stats'.gap_episodes = stats.gap_episodes
    BY <1>2
  <2>. QED BY <1>1, <1>3, <1>4, <2>1, ReturnTimesGap
<1>6. TypeOK'
  <2>1. needs_snapshot' \in BOOLEAN
    BY <1>1, <1>3, Zenon DEF TypeOK
  <2>. QED BY <1>1, <1>2, <1>4, <1>5, <2>1, Zenon DEF TypeOK
<1>7. StaleInv'
  <2>1. phase' # "reload" /\ phase # "reload"
    BY <1>2, <1>5
  <2>2. ~needs_snapshot'
    BY <1>1, <1>3, <2>1, Zenon DEF StaleInv
  <2>. QED BY <1>4, <1>5, <2>1, <2>2, Zenon DEF StaleInv
<1>8. BufferInv'
  <2>1. \A s \in DOMAIN reorder' : s > expected'
    BY <1>1, <1>2 DEF BufferInv
  <2>2. phase' # "reload"
    BY <1>5
  <2>. QED BY <1>1, <1>2, <2>1, <2>2, Zenon DEF BufferInv, Buffered
<1>9. OrderInv'
  BY <1>1, <1>2, Zenon DEF OrderInv, AppliedOnceInOrder, BookContiguous
<1>10. CopyInv'
  BY <1>1, <1>2, Zenon DEF CopyInv, FirstCopyWins
<1>. QED BY <1>5, <1>6, <1>7, <1>8, <1>9, <1>10 DEF IndInv

(* A message that finds the buffer full asks for a reload.                 *)
LEMMA OverflowPreserves ==
  ASSUME IndInv, NEW seq \in Nat, NEW ev \in Event, HandleOverflow(seq, ev)
  PROVE  IndInv'
<1>. USE SequencerAssumption, BookThreadAssumption
<1>1. TypeOK /\ StaleInv /\ BufferInv /\ GapInv /\ OrderInv /\ CopyInv
  BY DEF IndInv
<1>2. /\ phase = "idle" /\ phase' = "reload" /\ seq > expected /\ msg' = <<seq, ev>>
      /\ expected' = expected /\ reorder' = reorder /\ applied' = applied
      /\ resetAt' = resetAt /\ updates' = updates /\ firstCopy' = firstCopy
      /\ msgs' = msgs + 1 /\ recoveries' = recoveries
      /\ Buffered >= reorder_capacity
  BY Zenon DEF HandleOverflow, Enter, OfferOverflow, ReorderFull
<1>3. stale' /\ stale' \in BOOLEAN /\ needs_snapshot' /\ needs_snapshot' \in BOOLEAN
      /\ was_stale' = was_stale
  BY Zenon DEF HandleOverflow, OfferOverflow
<1>4. Buffered = reorder_capacity /\ DOMAIN reorder # {}
  <2>1. IsFiniteSet(DOMAIN reorder) /\ Buffered <= reorder_capacity
    BY <1>1 DEF BufferInv
  <2>2. Buffered \in Nat /\ (Buffered = 0 <=> DOMAIN reorder = {})
    BY <2>1, FS_EmptySet, FS_CardinalityType DEF Buffered
  <2>3. Buffered >= reorder_capacity
    BY <1>2
  <2>4. Buffered = reorder_capacity
    BY <2>1, <2>2, <2>3, SMT
  <2>. QED BY <2>2, <2>4
<1>5. stale /\ was_stale
  <2>1. phase # "drain"
    BY <1>2
  <2>. QED BY <1>1, <1>4, <2>1, Zenon DEF StaleInv
<1>6. /\ stats' \in SequencerStats /\ stats'.gap_episodes = stats.gap_episodes
      /\ stats'.snapshot_recoveries = stats.snapshot_recoveries
  <2>1. stats \in SequencerStats
    BY <1>1 DEF TypeOK
  <2>2. stats' = [OpenGap(seq, stats) EXCEPT !.reorder_overflow = @ + 1]
    BY Zenon DEF HandleOverflow, OfferOverflow
  <2>3. OpenGap(seq, stats) = stats
    BY <1>5, Zenon DEF OpenGap
  <2>4. stats' = [stats EXCEPT !.reorder_overflow = @ + 1]
    BY <2>2, <2>3, Zenon
  <2>. QED BY <2>1, <2>4, StatsFacts, Zenon
<1>7. TypeOK'
  <2>1. msgs' \in Nat /\ phase' \in {"idle", "drain", "reload"}
    BY <1>1, <1>2, SMT DEF TypeOK
  <2>2. was_stale' \in BOOLEAN
    BY <1>1, <1>3, Zenon DEF TypeOK
  <2>. QED BY <1>1, <1>2, <1>3, <1>6, <2>1, <2>2, Zenon DEF TypeOK
<1>8. StaleInv'
  <2>1. was_stale' /\ (phase' # "drain" => was_stale' = stale') /\ DOMAIN reorder' # {}
    BY <1>2, <1>3, <1>4, <1>5, Zenon
  <2>. QED BY <1>2, <1>3, <2>1, Zenon DEF StaleInv
<1>9. BufferInv'
  <2>1. \A s \in DOMAIN reorder' : s > expected'
    BY <1>1, <1>2 DEF BufferInv
  <2>2. msg' \in Nat \X Event /\ msg'[1] > expected'
    BY <1>2
  <2>3. Buffered' = Buffered
    BY <1>2 DEF Buffered
  <2>. QED BY <1>1, <1>2, <1>4, <2>1, <2>2, <2>3 DEF BufferInv
<1>10. GapInv'
  BY <1>1, <1>2, <1>3, <1>6, Zenon DEF GapInv
<1>11. OrderInv'
  BY <1>1, <1>2, <1>6, Zenon DEF OrderInv, AppliedOnceInOrder, BookContiguous
<1>12. CopyInv'
  BY <1>1, <1>2, Zenon DEF CopyInv, FirstCopyWins
<1>. QED BY <1>7, <1>8, <1>9, <1>10, <1>11, <1>12 DEF IndInv

(* The reload empties the book and the buffer and starts at the message.   *)
LEMMA ReloadPreserves ==
  ASSUME IndInv, Reload
  PROVE  IndInv'
<1>. USE SequencerAssumption, BookThreadAssumption
<1>. DEFINE seq == msg[1]
            ev == msg[2]
            L == Len(applied)
<1>1. TypeOK /\ StaleInv /\ BufferInv /\ GapInv /\ OrderInv /\ CopyInv
  BY DEF IndInv
<1>2. /\ phase = "reload" /\ expected' = seq + 1
      /\ reorder' = [s \in {} |-> 0] /\ firstCopy' = [s \in {seq} |-> ev]
      /\ applied' = Append(applied, <<seq, ev>>) /\ resetAt' = L
      /\ updates' = updates + 1 /\ msgs' = msgs
      /\ stats' = [stats EXCEPT !.snapshot_recoveries = @ + 1]
  BY Zenon DEF Reload, ResyncToSnapshot, ApplyEv
<1>3. ~stale' /\ stale' \in BOOLEAN /\ ~needs_snapshot' /\ needs_snapshot' \in BOOLEAN /\ Return
  BY Zenon DEF Reload, ResyncToSnapshot
<1>4. /\ seq \in Nat /\ ev \in Event /\ seq > expected /\ expected \in Nat
      /\ applied \in Seq(Nat \X Event) /\ L \in Nat
  BY <1>1, <1>2 DEF BufferInv, TypeOK
<1>5. /\ stats' \in SequencerStats /\ stats'.gap_episodes = stats.gap_episodes
      /\ stats'.snapshot_recoveries # 0
  <2>1. stats \in SequencerStats
    BY <1>1 DEF TypeOK
  <2>. QED BY <1>2, <2>1, StatsFacts, Zenon
<1>6. /\ GapInv' /\ recoveries' \in Nat /\ was_stale' \in BOOLEAN
      /\ phase' = "idle" /\ was_stale' = stale'
  BY <1>1, <1>3, <1>5, ReturnTimesGap
<1>7. /\ applied' \in Seq(Nat \X Event)
      /\ Len(applied') = L + 1
      /\ \A i \in 1..L : applied'[i] = applied[i]
      /\ applied'[L + 1] = <<seq, ev>>
  <2>. HIDE DEF seq, ev
  <2>. QED BY <1>2, <1>4, SMT
<1>8. Len(applied') = L + 1 /\ applied'[L + 1][1] = seq /\ applied'[L + 1][2] = ev
  BY <1>7
<1>9. DOMAIN reorder' = {} /\ DOMAIN firstCopy' = {seq} /\ firstCopy'[seq] = ev
  BY <1>2, Zenon
<1>10. TypeOK'
  <2>. HIDE DEF seq, ev, L
  <2>1. updates \in Nat /\ msgs \in Nat
    BY <1>1, Zenon DEF TypeOK
  <2>2. expected' \in Nat
    BY <1>2, <1>4
  <2>3. updates' \in Nat
    BY <1>2, <2>1
  <2>4. resetAt' \in 0..Len(applied')
    BY <1>2, <1>4, <1>8
  <2>5. phase' \in {"idle", "drain", "reload"}
    BY <1>6
  <2>. QED BY <1>2, <1>3, <1>5, <1>6, <1>7, <1>9, <2>1, <2>2, <2>3, <2>4, <2>5, Zenon DEF TypeOK
<1>11. StaleInv'
  <2>1. phase' # "reload"
    BY <1>6
  <2>. QED BY <1>3, <1>6, <1>9, <2>1, Zenon DEF StaleInv
<1>12. BufferInv'
  <2>1. IsFiniteSet(DOMAIN reorder') /\ Buffered' = 0
    BY <1>9, FS_EmptySet DEF Buffered
  <2>2. Buffered' <= reorder_capacity /\ phase' # "reload"
    BY <1>6, <2>1, SMT
  <2>. QED BY <1>9, <2>1, <2>2, Zenon DEF BufferInv
<1>13. OrderInv'
  <2>. HIDE DEF seq, ev, L
  <2>1. \A i \in 1..L : applied'[i] = applied[i] /\ applied[i][1] < expected /\ applied[i][1] \in Nat
    BY <1>1, <1>4, <1>7, SMTT(30) DEF OrderInv, L
  <2>2. \A i \in 1..Len(applied') : applied'[i][1] < expected'
    <3>1. SUFFICES ASSUME NEW i \in 1..Len(applied') PROVE applied'[i][1] < expected'
      OBVIOUS
    <3>2. CASE i \in 1..L
      BY <1>2, <1>4, <2>1, <3>2, SMTT(30)
    <3>3. CASE i = L + 1
      <4>1. applied'[i][1] = seq
        BY <1>8, <3>3, Zenon
      <4>. QED BY <1>2, <1>4, <4>1, SMTT(30)
    <3>. QED BY <1>4, <1>8, <3>2, <3>3
  <2>3. AppliedOnceInOrder'
    <3>1. SUFFICES ASSUME NEW i \in 1..Len(applied'), NEW j \in 1..Len(applied'), i < j
                   PROVE  applied'[i][1] < applied'[j][1]
      BY DEF AppliedOnceInOrder
    <3>2. i \in 1..L
      BY <1>4, <1>8, <3>1
    <3>3. CASE j \in 1..L
      BY <1>1, <2>1, <3>1, <3>2, <3>3 DEF OrderInv, AppliedOnceInOrder, L
    <3>4. CASE j = L + 1
      <4>1. applied'[j][1] = seq
        BY <1>8, <3>4, Zenon
      <4>. QED BY <1>4, <2>1, <3>2, <4>1
    <3>. QED BY <1>4, <1>8, <3>3, <3>4
  <2>4. BookContiguous'
    <3>1. \A i \in (resetAt' + 1)..Len(applied') :
            applied'[i][1] + Len(applied') + 1 = expected' + i
      <4>1. SUFFICES ASSUME NEW i \in (resetAt' + 1)..Len(applied')
                     PROVE  applied'[i][1] + Len(applied') + 1 = expected' + i
        OBVIOUS
      <4>2. i = L + 1
        BY <1>2, <1>4, <1>8, SMTT(30)
      <4>3. applied'[i][1] = seq
        BY <1>8, <4>2, Zenon
      <4>. QED BY <1>2, <1>4, <1>8, <4>2, <4>3, SMTT(30)
    <3>2. resetAt' < Len(applied')
      BY <1>2, <1>4, <1>8
    <3>. QED BY <1>5, <3>1, <3>2, Zenon DEF BookContiguous
  <2>. QED BY <2>2, <2>3, <2>4 DEF OrderInv
<1>14. CopyInv'
  <2>. HIDE DEF seq, ev, L
  <2>1. \A i \in (resetAt' + 1)..Len(applied') :
          /\ applied'[i][1] \in DOMAIN firstCopy'
          /\ applied'[i][2] = firstCopy'[applied'[i][1]]
    <3>1. SUFFICES ASSUME NEW i \in (resetAt' + 1)..Len(applied')
                   PROVE  /\ applied'[i][1] \in DOMAIN firstCopy'
                          /\ applied'[i][2] = firstCopy'[applied'[i][1]]
      OBVIOUS
    <3>2. i = L + 1
      BY <1>2, <1>4, <1>8
    <3>3. applied'[i][1] = seq /\ applied'[i][2] = ev
      BY <1>8, <3>2, Zenon
    <3>. QED BY <1>9, <3>3, Zenon
  <2>2. \A s \in DOMAIN firstCopy' : s < expected'
    BY <1>2, <1>4, <1>9
  <2>. QED BY <1>4, <1>9, <2>1, <2>2, Zenon DEF CopyInv, FirstCopyWins
<1>. QED BY <1>6, <1>10, <1>11, <1>12, <1>13, <1>14 DEF IndInv

(* Every step of the book thread preserves the inductive invariant,        *)
(* whatever message is handled.                                            *)
LEMMA AnyStep ==
  ASSUME IndInv,
         (\E seq \in Nat, ev \in Event : Handle(seq, ev)) \/ Finish \/ UNCHANGED vars
  PROVE  IndInv'
<1>1. ASSUME NEW seq \in Nat, NEW ev \in Event, Handle(seq, ev)
      PROVE  IndInv'
  BY <1>1, DropPreserves, BufferedPreserves, ApplyPreserves, OverflowPreserves DEF Handle
<1>2. CASE Finish
  BY <1>2, DrainPreserves, DrainEndPreserves, ReloadPreserves DEF Finish
<1>3. CASE UNCHANGED vars
  <2>1. TypeOK /\ StaleInv /\ BufferInv /\ GapInv /\ OrderInv /\ CopyInv
    BY DEF IndInv
  <2>2. TypeOK' /\ StaleInv' /\ GapInv'
    BY <1>3, <2>1, Zenon DEF vars, seqVars, threadVars, TypeOK, StaleInv, GapInv
  <2>3. BufferInv' /\ OrderInv' /\ CopyInv'
    BY <1>3, <2>1, Zenon DEF vars, seqVars, threadVars, BufferInv, Buffered, OrderInv,
       AppliedOnceInOrder, BookContiguous, CopyInv, FirstCopyWins
  <2>. QED BY <2>2, <2>3 DEF IndInv
<1>. QED BY <1>1, <1>2, <1>3

LEMMA StepIndInv == IndInv /\ [Next]_vars => IndInv'
<1>. SUFFICES ASSUME IndInv, [Next]_vars PROVE IndInv'
  OBVIOUS
<1>1. \A seq \in start_seq..MaxSeq : seq \in Nat
  BY SequencerAssumption, BookThreadAssumption, SMT
<1>. QED BY <1>1, AnyStep DEF Next

(* The inductive invariant holds in every reachable state.                 *)
THEOREM Invariance == Spec => []IndInv
BY InitIndInv, StepIndInv, PTL DEF Spec

(* The book never has a hole, an event twice or events out of order.       *)
THEOREM BookIsContiguous == Spec => []BookContiguous
<1>1. IndInv => BookContiguous
  BY DEF IndInv, OrderInv
<1>. QED BY <1>1, Invariance, PTL

(* No event is ever applied twice or after a later one.                    *)
THEOREM AppliesOnceInOrder == Spec => []AppliedOnceInOrder
<1>1. IndInv => AppliedOnceInOrder
  BY DEF IndInv, OrderInv
<1>. QED BY <1>1, Invariance, PTL

(* Between messages the stream is stale exactly while a hole is open.      *)
THEOREM StaleMeansHole == Spec => []StaleIffHole
<1>1. IndInv => StaleIffHole
  <2>. SUFFICES ASSUME IndInv, phase = "idle"
                PROVE  /\ stale <=> DOMAIN reorder # {}
                       /\ \A s \in DOMAIN reorder : s > expected
    BY DEF StaleIffHole
  <2>1. stale <=> DOMAIN reorder # {}
    BY Zenon DEF IndInv, StaleInv
  <2>2. \A s \in DOMAIN reorder : s > expected
    BY DEF IndInv, BufferInv
  <2>. QED BY <2>1, <2>2
<1>. QED BY <1>1, Invariance, PTL

(* A reload happens only from a full buffer and before the next message.   *)
THEOREM ReloadsOnlyWhenFull == Spec => []ReloadOnlyWhenFull
<1>1. IndInv => ReloadOnlyWhenFull
  <2>. SUFFICES ASSUME IndInv PROVE ReloadOnlyWhenFull
    OBVIOUS
  <2>1. needs_snapshot <=> phase = "reload"
    BY Zenon DEF IndInv, StaleInv
  <2>2. Buffered <= reorder_capacity /\ (phase = "reload" => Buffered = reorder_capacity)
    BY DEF IndInv, BufferInv
  <2>. QED BY <2>1, <2>2, Zenon DEF ReloadOnlyWhenFull
<1>. QED BY <1>1, Invariance, PTL

(* Every gap episode is timed exactly once.                                *)
THEOREM TimesEachGapOnce == Spec => []GapsTimedOnce
<1>1. IndInv => GapsTimedOnce
  <2>. SUFFICES ASSUME IndInv, phase = "idle"
                PROVE  stats.gap_episodes = recoveries + (IF stale THEN 1 ELSE 0)
    BY DEF GapsTimedOnce
  <2>1. phase # "drain"
    OBVIOUS
  <2>2. was_stale = stale
    BY <2>1, Zenon DEF IndInv, StaleInv
  <2>. QED BY <2>2, Zenon DEF IndInv, GapInv
<1>. QED BY <1>1, Invariance, PTL

(* Of several copies of a message the first one offered is applied.        *)
THEOREM AppliesFirstCopy == Spec => []FirstCopyWins
<1>1. IndInv => FirstCopyWins
  BY DEF IndInv, CopyInv
<1>. QED BY <1>1, Invariance, PTL

(* expected moves only past an event the same step applies, and jumps only *)
(* in a reload forced by a full buffer.                                    *)
THEOREM SkipsNothingElse == Spec => SkipsOnlyOnReload
<1>. USE SequencerAssumption, BookThreadAssumption
<1>. DEFINE Advance == /\ expected' > expected
                       /\ Len(applied') = Len(applied) + 1
                       /\ applied'[Len(applied')][1] = expected' - 1
                       /\ expected' > expected + 1 =>
                            phase = "reload" /\ Buffered = reorder_capacity
<1>1. ASSUME IndInv, Next PROVE expected' # expected => Advance
  <2>1. expected \in Nat /\ applied \in Seq(Nat \X Event)
    BY <1>1 DEF IndInv, TypeOK
  <2>2. CASE expected' = expected
    BY <2>2
  <2>3. ASSUME NEW ev, expected' = expected + 1, applied' = Append(applied, <<expected, ev>>),
               ev \in Event
        PROVE  Advance
    <3>1. Len(applied') = Len(applied) + 1 /\ applied'[Len(applied')] = <<expected, ev>>
      BY <2>1, <2>3
    <3>2. applied'[Len(applied')][1] = expected
      BY <3>1
    <3>. QED BY <2>1, <2>3, <3>1, <3>2
  <2>4. ASSUME Reload PROVE Advance
    <3>1. /\ phase = "reload" /\ expected' = msg[1] + 1
          /\ applied' = Append(applied, <<msg[1], msg[2]>>)
      BY <2>4 DEF Reload, ResyncToSnapshot, ApplyEv
    <3>2. /\ Buffered = reorder_capacity
          /\ msg[1] \in Nat /\ msg[2] \in Event /\ msg[1] > expected
      BY <1>1, <3>1 DEF IndInv, BufferInv
    <3>. DEFINE seq == msg[1]
                ev == msg[2]
    <3>. HIDE DEF seq, ev
    <3>3. Len(applied') = Len(applied) + 1 /\ applied'[Len(applied')] = <<seq, ev>>
      BY <2>1, <3>1, <3>2 DEF seq, ev
    <3>4. applied'[Len(applied')][1] = seq
      BY <3>3
    <3>. QED BY <2>1, <3>1, <3>2, <3>3, <3>4 DEF seq
  <2>5. ASSUME NEW seq \in start_seq..MaxSeq, NEW ev \in Event, HandleApply(seq, ev)
        PROVE  Advance
    <3>1. expected' = expected + 1 /\ applied' = Append(applied, <<expected, ev>>)
      BY <2>5 DEF HandleApply, OfferApply, ApplyEv
    <3>. QED BY <2>3, <3>1
  <2>6. ASSUME Drain PROVE Advance
    <3>1. /\ expected' = expected + 1 /\ expected \in DOMAIN reorder
          /\ applied' = Append(applied, <<expected, reorder[expected]>>)
      BY <2>6 DEF Drain, PopReadyTrue, ApplyEv
    <3>2. reorder[expected] \in Event
      BY <1>1, <3>1 DEF IndInv, TypeOK
    <3>. QED BY <2>3, <3>1, <3>2
  <2>7. ASSUME NEW seq \in start_seq..MaxSeq, NEW ev \in Event, Handle(seq, ev)
        PROVE  expected' = expected \/ Advance
    BY <2>5, <2>7 DEF Handle, HandleDrop, OfferDrop, HandleBuffered, OfferBuffered,
                      HandleOverflow, OfferOverflow
  <2>8. ASSUME DrainEnd PROVE expected' = expected
    BY <2>8 DEF DrainEnd, PopReadyFalse
  <2>. QED BY <1>1, <2>4, <2>6, <2>7, <2>8 DEF Next, Finish
<1>2. IndInv /\ [Next]_vars => [expected' # expected => Advance]_vars
  BY <1>1
<1>. QED BY <1>2, Invariance, PTL DEF Spec, SkipsOnlyOnReload

=============================================================================
