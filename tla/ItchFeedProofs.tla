--------------------------- MODULE ItchFeedProofs ---------------------------
(***************************************************************************)
(* Proofs about framing and parsing, for any set of files, however many    *)
(* frames they have, of whatever types and lengths, cut anywhere in their  *)
(* last frame.                                                             *)
(***************************************************************************)
EXTENDS ItchFeed, TLAPS

(* What the layout of a file says of its frames.                           *)
LEMMA FileFacts ==
  ASSUME NEW f \in Files
  PROVE  /\ Len(f) \in Nat \ {0}
         /\ \A k \in 1..Len(f) : /\ f[k] \in Frame
                                 /\ f[k].len \in Nat /\ f[k].at \in Nat
                                 /\ EndOf(f[k]) = f[k].at + 2 + f[k].len
         /\ LaidOut(f)
<1>1. f \in Seq(Frame) /\ f # <<>> /\ LaidOut(f)
  BY ItchAssumption
<1>2. Len(f) \in Nat \ {0} /\ \A k \in 1..Len(f) : f[k] \in Frame
  BY <1>1
<1>. QED BY <1>1, <1>2 DEF Frame, EndOf

(* The frames of the file being read: where they start and end.            *)
LEMMA StartFacts ==
  ASSUME ReaderInv
  PROVE  /\ Len(file) \in Nat \ {0}
         /\ \A k \in 1..Len(file) : /\ StartOf(k) = file[k].at
                                    /\ StartOf(k + 1) = EndOf(file[k])
                                    /\ EndOf(file[k]) = file[k].at + 2 + file[k].len
                                    /\ file[k].at \in Nat /\ file[k].len \in Nat
         /\ \A j, k \in 1..Len(file) : j < k => EndOf(file[j]) <= file[k].at
         /\ StartOf(1) = 0
         /\ Written = EndOf(file[Len(file)])
<1>1. file \in Files
  BY DEF ReaderInv
<1>2. Len(file) \in Nat \ {0}
  BY <1>1, FileFacts
<1>3. /\ file[1].at = 0
      /\ \A k \in 1..Len(file) - 1 : file[k + 1].at = EndOf(file[k])
      /\ \A j, k \in 1..Len(file) : j < k => EndOf(file[j]) <= file[k].at
  BY <1>1, FileFacts DEF LaidOut
<1>4. \A k \in 1..Len(file) : /\ EndOf(file[k]) = file[k].at + 2 + file[k].len
                              /\ file[k].at \in Nat /\ file[k].len \in Nat
  BY <1>1, FileFacts
<1>5. ASSUME NEW k \in 1..Len(file)
      PROVE  StartOf(k) = file[k].at /\ StartOf(k + 1) = EndOf(file[k])
  <2>1. CASE k = Len(file)
    BY <1>2, <2>1 DEF StartOf, Written
  <2>2. CASE k # Len(file)
    <3>1. k \in 1..Len(file) - 1 /\ ~(k > Len(file)) /\ ~(k + 1 > Len(file))
      BY <1>2, <2>2
    <3>. QED BY <1>3, <3>1 DEF StartOf
  <2>. QED BY <2>1, <2>2
<1>6. StartOf(1) = 0
  BY <1>2, <1>3, <1>5
<1>. QED BY <1>2, <1>3, <1>4, <1>5, <1>6 DEF Written

(* Different frames start at different places, so that a place has one     *)
(* frame.                                                                  *)
LEMMA FrameAtStart ==
  ASSUME ReaderInv, NEW k \in 1..Len(file)
  PROVE  FrameAt(file[k].at) = file[k]
<1>. DEFINE c == CHOOSE j \in 1..Len(file) : StartOf(j) = file[k].at
<1>1. Len(file) \in Nat
  BY StartFacts
<1>2. c \in 1..Len(file) /\ StartOf(c) = file[k].at
  BY StartFacts
<1>3. file[c].at = file[k].at
  BY <1>2, StartFacts
<1>4. c = k
  <2>. HIDE DEF c
  <2>1. /\ EndOf(file[c]) = file[c].at + 2 + file[c].len
        /\ EndOf(file[k]) = file[k].at + 2 + file[k].len
        /\ file[c].at \in Nat /\ file[c].len \in Nat /\ file[k].at \in Nat /\ file[k].len \in Nat
    BY <1>2, StartFacts
  <2>2. /\ c < k => EndOf(file[c]) <= file[k].at
        /\ k < c => EndOf(file[k]) <= file[c].at
    BY <1>2, StartFacts
  <2>. QED BY <1>1, <1>2, <1>3, <2>1, <2>2
<1>. QED BY <1>4 DEF FrameAt

(* The raw frame is frame number seq.                                      *)
LEMMA RawFacts ==
  ASSUME ReaderInv
  PROVE  /\ raw # NoFrame <=> seq > 0
         /\ seq > 0 => /\ seq \in 1..Len(file)
                       /\ raw.data = file[seq].at + 2 /\ raw.len = file[seq].len
                       /\ raw.sequence = seq
                       /\ RawType = file[seq].type
<1>1. seq \in Nat /\ Len(file) \in Nat /\ seq <= Len(file)
  BY StartFacts DEF ReaderInv
<1>2. CASE seq = 0
  BY <1>2 DEF ReaderInv
<1>3. CASE seq > 0
  <2>1. raw = [data |-> file[seq].at + 2, len |-> file[seq].len, sequence |-> seq]
    BY <1>1, <1>3 DEF ReaderInv
  <2>2. raw # NoFrame
    BY <1>1, <1>3, <2>1 DEF NoFrame
  <2>3. seq \in 1..Len(file)
    BY <1>1, <1>3
  <2>4. file[seq].at \in Nat
    BY <2>3, StartFacts
  <2>5. raw.data - 2 = file[seq].at
    BY <2>1, <2>4
  <2>. QED BY <1>3, <2>1, <2>2, <2>3, <2>5, FrameAtStart DEF RawType
<1>. QED BY <1>1, <1>2, <1>3

-----------------------------------------------------------------------------
LEMMA InitReader == Init => FeedInv
<1>. SUFFICES ASSUME Init PROVE FeedInv
  OBVIOUS
<1>1. file \in Files
  BY DEF Init
<1>2. Len(file) \in Nat \ {0} /\ LaidOut(file)
  BY <1>1, FileFacts
<1>3. StartOf(1) = 0
  BY <1>2 DEF StartOf, LaidOut
<1>4. ReaderInv
  BY <1>1, <1>2, <1>3 DEF Init, ReaderInv
<1>. QED BY <1>4 DEF FeedInv, ParsedInv, Init

(* When next_frame() finds a frame it is the one after the last delivered, *)
(* and when it finds none, that one is not whole or does not exist.        *)
LEMMA NextIsWhole ==
  ASSUME ReaderInv
  PROVE  /\ HasFrame => /\ seq + 1 \in 1..Len(file)
                        /\ pos = file[seq + 1].at
                        /\ FrameAt(pos) = file[seq + 1]
                        /\ EndOf(file[seq + 1]) <= size
         /\ ~HasFrame /\ seq + 1 \in 1..Len(file) => EndOf(file[seq + 1]) > size
<1>1. /\ seq \in Nat /\ Len(file) \in Nat \ {0} /\ seq <= Len(file)
      /\ pos = StartOf(seq + 1)
  BY StartFacts DEF ReaderInv
<1>2. /\ size \in Int /\ size <= Written
  <2>1. file[Len(file)].at \in Nat /\ Written \in Nat
    BY <1>1, StartFacts
  <2>. QED BY <2>1 DEF ReaderInv
<1>3. CASE seq = Len(file)
  <2>1. pos = Written /\ Written \in Nat
    BY <1>1, <1>3, StartFacts DEF StartOf
  <2>2. NoPrefix
    BY <1>2, <2>1 DEF NoPrefix
  <2>. QED BY <1>1, <1>3, <2>2 DEF HasFrame
<1>4. CASE seq # Len(file)
  <2>1. seq + 1 \in 1..Len(file)
    BY <1>1, <1>4
  <2>2. /\ pos = file[seq + 1].at /\ FrameAt(pos) = file[seq + 1]
        /\ EndOf(file[seq + 1]) = file[seq + 1].at + 2 + file[seq + 1].len
        /\ file[seq + 1].at \in Nat /\ file[seq + 1].len \in Nat
    BY <1>1, <2>1, StartFacts, FrameAtStart
  <2>. QED BY <1>2, <2>1, <2>2 DEF HasFrame, NoPrefix, Truncated
<1>. QED BY <1>3, <1>4

LEMMA FeedStep ==
  ASSUME FeedInv, [Next]_vars
  PROVE  FeedInv'
<1>0. ReaderInv /\ ParsedInv
  BY DEF FeedInv
<1>1. ASSUME UNCHANGED vars PROVE FeedInv'
  BY <1>0, <1>1 DEF FeedInv, ReaderInv, ParsedInv, vars, StartOf, Written, EventOf, Decoded, Load
<1>2. ASSUME NextFrame PROVE FeedInv'
  <2>1. /\ file' = file /\ size' = size /\ seq' = seq + 1 /\ status' = "none"
        /\ raw' = [data |-> pos + 2, len |-> FrameAt(pos).len, sequence |-> seq + 1]
        /\ pos' = pos + 2 + FrameAt(pos).len
        /\ HasFrame
    BY <1>2 DEF NextFrame
  <2>2. /\ seq + 1 \in 1..Len(file) /\ pos = file[seq + 1].at
        /\ FrameAt(pos) = file[seq + 1] /\ EndOf(file[seq + 1]) <= size
    BY <1>0, <2>1, NextIsWhole
  <2>3. seq \in Nat /\ Len(file) \in Nat
    BY <1>0, StartFacts DEF ReaderInv
  <2>4. pos' = StartOf(seq + 1 + 1)
    BY <1>0, <2>1, <2>2, StartFacts
  <2>5. (StartOf(seq + 1))' = StartOf(seq + 1 + 1)
    BY <2>1 DEF StartOf, Written
  <2>6. ReaderInv'
    <3>1. (file \in Files)' /\ (size \in file[Len(file)].at .. Written)'
      BY <1>0, <2>1 DEF ReaderInv, Written
    <3>2. (seq \in 0..Len(file))' /\ seq' > 0 /\ seq' # 0
      BY <2>1, <2>2, <2>3
    <3>3. EndOf(file[seq])' <= size'
      BY <2>1, <2>2 DEF EndOf
    <3>4. raw' = [data |-> file'[seq'].at + 2, len |-> file'[seq'].len, sequence |-> seq']
      BY <2>1, <2>2
    <3>. QED BY <2>4, <2>5, <3>1, <3>2, <3>3, <3>4 DEF ReaderInv
  <2>. QED BY <2>1, <2>6 DEF FeedInv, ParsedInv
<1>3. ASSUME ParseEmpty \/ ParseUnknown \/ ParseShort PROVE FeedInv'
  <2>1. UNCHANGED <<file, size, pos, seq, raw>> /\ status' # "Ok"
    BY <1>3 DEF ParseEmpty, ParseUnknown, ParseShort, Reject
  <2>2. ReaderInv'
    BY <1>0, <2>1 DEF ReaderInv, StartOf, Written
  <2>. QED BY <2>1, <2>2 DEF FeedInv, ParsedInv
<1>4. ASSUME NEW c \in SideBytes, ParseOk(c) PROVE FeedInv'
  <2>1. /\ UNCHANGED <<file, size, pos, seq, raw>>
        /\ event' = EventOf(RawType, c) /\ raw # NoFrame
        /\ message_length(RawType) # 0 /\ raw.len >= message_length(RawType)
    BY <1>4 DEF ParseOk, Unparsed
  <2>2. ReaderInv'
    BY <1>0, <2>1 DEF ReaderInv, StartOf, Written
  <2>3. seq > 0 /\ RawType = file[seq].type
    BY <1>0, <2>1, RawFacts
  <2>4. EventOf(file[seq].type, c)' = EventOf(file[seq].type, c)
    BY <2>1 DEF EventOf, Decoded, Load
  <2>5. ParsedInv'
    BY <1>4, <2>1, <2>3, <2>4 DEF ParsedInv
  <2>. QED BY <2>2, <2>5 DEF FeedInv
<1>. QED BY <1>1, <1>2, <1>3, <1>4 DEF Next, NextFrameEnds

(* The reader's place, the raw frame and the parsed event belong together  *)
(* in every reachable state.                                               *)
THEOREM FeedInvariance == Spec => []FeedInv
BY InitReader, FeedStep, PTL DEF Spec

-----------------------------------------------------------------------------
(* Frames come in order, numbered without a gap, none from beyond the end  *)
(* of the file, and when next_frame() says there is no more, every frame   *)
(* the file holds whole has been delivered.                                *)
THEOREM DeliversEveryFrame == Spec => []FramesDelivered
<1>1. ASSUME FeedInv PROVE FramesDelivered
  <2>0. ReaderInv
    BY <1>1 DEF FeedInv
  <2>1. /\ seq \in Nat /\ Len(file) \in Nat /\ seq <= Len(file)
        /\ pos = StartOf(seq + 1)
    BY <2>0, StartFacts DEF ReaderInv
  <2>2. size \in Int
    <3>1. file[Len(file)].at \in Nat /\ Written \in Nat
      BY <2>0, StartFacts
    <3>. QED BY <2>0, <3>1 DEF ReaderInv
  <2>3. 1..seq \subseteq WholeFrames
    <3>. SUFFICES ASSUME NEW k \in 1..seq PROVE k \in WholeFrames
      OBVIOUS
    <3>1. k \in 1..Len(file) /\ seq \in 1..Len(file)
      BY <2>1
    <3>2. EndOf(file[seq]) <= size
      BY <2>0, <2>1, <3>1 DEF ReaderInv
    <3>3. StartOf(k + 1) <= size
      <4>1. CASE k = seq
        BY <2>0, <3>1, <3>2, <4>1, StartFacts
      <4>2. CASE k < seq
        <5>1. /\ StartOf(k + 1) = EndOf(file[k])
              /\ EndOf(file[k]) <= file[seq].at
              /\ EndOf(file[seq]) = file[seq].at + 2 + file[seq].len
          BY <2>0, <3>1, <4>2, StartFacts
        <5>2. file[seq].at \in Nat /\ file[seq].len \in Nat
          BY <2>0, <3>1, StartFacts
        <5>3. EndOf(file[k]) \in Nat
          <6>1. /\ EndOf(file[k]) = file[k].at + 2 + file[k].len
                /\ file[k].at \in Nat /\ file[k].len \in Nat
            BY <2>0, <3>1, StartFacts
          <6>. QED BY <6>1
        <5>. QED BY <2>2, <3>2, <5>1, <5>2, <5>3
      <4>. QED BY <2>1, <3>1, <4>1, <4>2
    <3>. QED BY <3>1, <3>3 DEF WholeFrames
  <2>4. raw # NoFrame => /\ raw.sequence = seq
                         /\ raw.data = StartOf(seq) + 2 /\ raw.len = file[seq].len
    BY <2>0, RawFacts, StartFacts
  <2>5. ASSUME ~HasFrame PROVE WholeFrames \subseteq 1..seq
    <3>. SUFFICES ASSUME NEW k \in WholeFrames, k > seq PROVE FALSE
      BY <2>1 DEF WholeFrames
    <3>1. k \in 1..Len(file) /\ StartOf(k + 1) <= size
      BY DEF WholeFrames
    <3>2. seq + 1 \in 1..Len(file)
      BY <2>1, <3>1
    <3>3. EndOf(file[seq + 1]) > size
      BY <2>0, <2>5, <3>2, NextIsWhole
    <3>4. EndOf(file[k]) <= size /\ EndOf(file[seq + 1]) \in Nat
      BY <2>0, <3>1, <3>2, StartFacts
    <3>5. CASE k = seq + 1
      BY <2>2, <3>3, <3>4, <3>5
    <3>6. CASE k > seq + 1
      <4>1. /\ EndOf(file[seq + 1]) <= file[k].at
            /\ EndOf(file[k]) = file[k].at + 2 + file[k].len
            /\ file[k].at \in Nat /\ file[k].len \in Nat
        BY <2>0, <3>1, <3>2, <3>6, StartFacts
      <4>. QED BY <2>2, <3>3, <3>4, <4>1
    <3>. QED BY <2>1, <3>1, <3>5, <3>6
  <2>. QED BY <2>1, <2>3, <2>4, <2>5 DEF FramesDelivered
<1>. QED BY <1>1, FeedInvariance, PTL

-----------------------------------------------------------------------------
(* The tables: which fields a message of a type has and where.             *)
Laid(type) == DOMAIN BodyOf(type) \cup DOMAIN Header
SpanOf(type, f) == IF f \in DOMAIN BodyOf(type) THEN BodyOf(type)[f] ELSE Header[f]

(* Two spans of a message share no byte.                                   *)
Apart(s, t) == s[1] + s[2] <= t[1] \/ t[1] + t[2] <= s[1]

(* The fields of every type lie within the type's length and share no byte.*)
LayoutSound(type) ==
  /\ Laid(type) \subseteq Fields
  /\ \A f \in Laid(type) : /\ SpanOf(type, f)[1] \in Nat /\ SpanOf(type, f)[2] \in Nat
                           /\ SpanOf(type, f)[1] + SpanOf(type, f)[2] <= message_length(type)
  /\ \A f, g \in Laid(type) : f # g => Apart(SpanOf(type, f), SpanOf(type, g))

(* The spans of each type, by the tables.                                  *)
LEMMA Layouts ==
  ASSUME NEW type, message_length(type) # 0
  PROVE  LayoutSound(type)
<1>1. CASE type \in {"A", "F"}
  <2>1. /\ BodyOf(type) = AddFields
        /\ message_length(type) \in Nat /\ message_length(type) >= 36
    BY <1>1 DEF BodyOf, Body, message_length, Lengths
  <2>. QED BY <2>1 DEF LayoutSound, Laid, SpanOf, Apart, AddFields, Header, Fields
<1>2. CASE type = "E"
  <2>1. message_length(type) = 31
    BY <1>2 DEF message_length, Lengths
  <2>. QED BY <1>2, <2>1 DEF LayoutSound, Laid, SpanOf, Apart, BodyOf, Body, ExecuteFields, Header, Fields
<1>3. CASE type = "C"
  <2>1. message_length(type) = 36
    BY <1>3 DEF message_length, Lengths
  <2>. QED BY <1>3, <2>1 DEF LayoutSound, Laid, SpanOf, Apart, BodyOf, Body, Header, Fields
<1>4. CASE type = "X"
  <2>1. message_length(type) = 23
    BY <1>4 DEF message_length, Lengths
  <2>. QED BY <1>4, <2>1 DEF LayoutSound, Laid, SpanOf, Apart, BodyOf, Body, Header, Fields
<1>5. CASE type = "D"
  <2>1. message_length(type) = 19
    BY <1>5 DEF message_length, Lengths
  <2>. QED BY <1>5, <2>1 DEF LayoutSound, Laid, SpanOf, Apart, BodyOf, Body, Header, Fields
<1>6. CASE type = "U"
  <2>1. message_length(type) = 35
    BY <1>6 DEF message_length, Lengths
  <2>. QED BY <1>6, <2>1 DEF LayoutSound, Laid, SpanOf, Apart, BodyOf, Body, Header, Fields
<1>7. CASE type = "P"
  <2>1. message_length(type) = 44
    BY <1>7 DEF message_length, Lengths
  <2>. QED BY <1>7, <2>1 DEF LayoutSound, Laid, SpanOf, Apart, BodyOf, Body, Header, Fields
<1>8. CASE type = "S"
  <2>1. message_length(type) = 12
    BY <1>8 DEF message_length, Lengths
  <2>. QED BY <1>8, <2>1 DEF LayoutSound, Laid, SpanOf, Apart, BodyOf, Body, NoFields, Header, Fields
<1>9. CASE type \notin {"A", "F", "E", "C", "X", "D", "U", "P", "S"}
  <2>1. BodyOf(type) = NoFields
    BY <1>9 DEF BodyOf, Body
  <2>2. message_length(type) \in Nat /\ message_length(type) >= 12
    BY DEF message_length, Lengths
  <2>. QED BY <2>1, <2>2 DEF LayoutSound, Laid, SpanOf, Apart, NoFields, Header, Fields
<1>. QED BY <1>1, <1>2, <1>3, <1>4, <1>5, <1>6, <1>7, <1>8, <1>9

(* Intervals of bytes, d the start of the message.                         *)
LEMMA SpanInside ==
  ASSUME NEW d \in Nat, NEW n \in Nat, NEW m \in Nat, NEW a \in Nat, NEW w \in Nat,
         a + w <= m, n >= m
  PROVE  d + a .. d + a + w - 1 \subseteq d .. d + n - 1
OBVIOUS

LEMMA SpansDisjoint ==
  ASSUME NEW d \in Nat, NEW a \in Nat, NEW w \in Nat, NEW b \in Nat, NEW v \in Nat,
         a + w <= b \/ b + v <= a
  PROVE  (d + a .. d + a + w - 1) \cap (d + b .. d + b + v - 1) = {}
OBVIOUS

(* What an event decoded from the raw frame is made of: each field the     *)
(* type has is the span the tables give, every other is unset.             *)
LEMMA EventFields ==
  ASSUME NEW type, NEW c, LayoutSound(type)
  PROVE  LET from == EventOf(type, c).from
         IN /\ DOMAIN from = Fields
            /\ \A f \in Laid(type) : from[f] = Load(SpanOf(type, f))
            /\ \A f \in Fields \ Laid(type) : from[f] = Default
<1>. DEFINE from == EventOf(type, c).from
<1>1. from = [f \in Fields |-> IF f \in DOMAIN BodyOf(type) THEN Load(BodyOf(type)[f])
                               ELSE IF f \in DOMAIN Header THEN Load(Header[f])
                               ELSE Default]
  BY DEF EventOf, Decoded, CleanEvent, MarketEvent
<1>. HIDE DEF from
<1>2. Laid(type) \subseteq Fields
  BY DEF LayoutSound
<1>. QED BY <1>1, <1>2, Zenon DEF Laid, SpanOf, from

(* Every decoded byte is the frame's own and inside the file, no byte goes *)
(* into two fields, and nothing is left of the message before.             *)
THEOREM FieldsAreOfThisFrame == Spec => []FieldsFromThisFrame
<1>1. ASSUME FeedInv PROVE FieldsFromThisFrame
  <2>. SUFFICES ASSUME status = "Ok" PROVE FieldsFromThisFrame
    BY DEF FieldsFromThisFrame
  <2>. DEFINE type == file[seq].type
              used == {f \in Fields : event.from[f] # Default}
              Span(f) == event.from[f][1]..event.from[f][2]
  <2>0. ReaderInv /\ ParsedInv
    BY <1>1 DEF FeedInv
  <2>1. PICK c \in SideBytes : event = EventOf(type, c)
    BY <2>0 DEF ParsedInv
  <2>2. seq > 0 /\ message_length(type) # 0 /\ raw.len >= message_length(type)
    BY <2>0 DEF ParsedInv
  <2>3. /\ seq \in 1..Len(file)
        /\ raw.data = file[seq].at + 2 /\ raw.len = file[seq].len
    BY <2>0, <2>2, RawFacts
  <2>4. /\ file[seq].at \in Nat /\ file[seq].len \in Nat
        /\ EndOf(file[seq]) = file[seq].at + 2 + file[seq].len
    BY <2>0, <2>3, StartFacts
  <2>5. raw.data \in Nat /\ raw.len \in Nat /\ message_length(type) \in Nat
    <3>1. message_length(type) \in Nat
      BY DEF message_length, Lengths
    <3>. QED BY <2>3, <2>4, <3>1
  <2>6. raw.data + raw.len <= size
    BY <2>0, <2>2, <2>3, <2>4 DEF ReaderInv
  <2>7. LayoutSound(type)
    BY <2>2, Layouts
  <2>. HIDE DEF type
  <2>8. /\ \A f \in Laid(type) : event.from[f] = Load(SpanOf(type, f))
        /\ \A f \in Fields \ Laid(type) : event.from[f] = Default
    BY <2>1, <2>7, EventFields
  <2>9. \A f \in Laid(type) :
          /\ SpanOf(type, f)[1] \in Nat /\ SpanOf(type, f)[2] \in Nat
          /\ SpanOf(type, f)[1] + SpanOf(type, f)[2] <= message_length(type)
    BY <2>7 DEF LayoutSound
  <2>10. \A f \in Laid(type) : /\ event.from[f] # Default
                              /\ event.from[f][1] = raw.data + SpanOf(type, f)[1]
                              /\ event.from[f][2] = raw.data + SpanOf(type, f)[1]
                                                       + SpanOf(type, f)[2] - 1
    BY <2>8 DEF Load, Default
  <2>11. used = Laid(type)
    BY <2>7, <2>8, <2>10 DEF LayoutSound
  <2>. HIDE DEF used
  <2>12. ASSUME NEW f \in used PROVE Span(f) \subseteq raw.data..(raw.data + raw.len - 1)
    <3>1. /\ SpanOf(type, f)[1] \in Nat /\ SpanOf(type, f)[2] \in Nat
          /\ SpanOf(type, f)[1] + SpanOf(type, f)[2] <= message_length(type)
      BY <2>9, <2>11
    <3>2. Span(f) = raw.data + SpanOf(type, f)[1]
                      .. raw.data + SpanOf(type, f)[1] + SpanOf(type, f)[2] - 1
      BY <2>10, <2>11
    <3>. QED BY <2>2, <2>5, <3>1, <3>2, SpanInside
  <2>13. ASSUME NEW f \in used, NEW g \in used, f # g PROVE Span(f) \cap Span(g) = {}
    <3>1. /\ SpanOf(type, f)[1] \in Nat /\ SpanOf(type, f)[2] \in Nat
          /\ SpanOf(type, g)[1] \in Nat /\ SpanOf(type, g)[2] \in Nat
      BY <2>9, <2>11
    <3>2. /\ Span(f) = raw.data + SpanOf(type, f)[1]
                         .. raw.data + SpanOf(type, f)[1] + SpanOf(type, f)[2] - 1
          /\ Span(g) = raw.data + SpanOf(type, g)[1]
                         .. raw.data + SpanOf(type, g)[1] + SpanOf(type, g)[2] - 1
      BY <2>10, <2>11
    <3>3. Apart(SpanOf(type, f), SpanOf(type, g))
      BY <2>7, <2>11, <2>13 DEF LayoutSound
    <3>. QED BY <2>5, <3>1, <3>2, <3>3, SpansDisjoint DEF Apart
  <2>14. event.side # "None" => "side" \in used
    BY <2>1, <2>11 DEF EventOf, CleanEvent, MarketEvent, Laid
  <2>15. event.type = "Unknown" => used = DOMAIN Header
    <3>. SUFFICES ASSUME event.type = "Unknown" PROVE used = DOMAIN Header
      OBVIOUS
    <3>1. type \notin DOMAIN EventType
      BY <2>1 DEF EventOf, EventType
    <3>2. BodyOf(type) = NoFields
      BY <3>1 DEF EventType, BodyOf, Body
    <3>. QED BY <2>11, <3>2 DEF Laid, NoFields
  <2>. QED BY <2>6, <2>12, <2>13, <2>14, <2>15 DEF FieldsFromThisFrame, used
<1>. QED BY <1>1, FeedInvariance, PTL
=============================================================================
