------------------------------ MODULE ItchFeed ------------------------------
(***************************************************************************)
(* From a mapped file to events: ItchFileSource::next_frame() cuts the     *)
(* file into length-prefixed frames, itch::parse() decodes one into a      *)
(* MarketEvent the caller may have used before.                            *)
(*                                                                         *)
(* The data is abstracted to where it comes from: a decoded field is the   *)
(* span <<first, last>> of the file's bytes its value was assembled from,  *)
(* most significant byte first, or Default.  Only the bytes that steer the *)
(* code have values: the length prefixes, the types and the side byte.     *)
(***************************************************************************)
EXTENDS Integers, Sequences

CONSTANT Files   \* the files, before any is cut short: sequences of frames

(* A frame of `len` bytes follows its two-byte prefix, which is at `at`.   *)
Frame == [type : STRING, len : Nat, at : Nat]
EndOf(fr) == fr.at + 2 + fr.len

(* Each frame begins where the one before it ends, so no two overlap.      *)
LaidOut(f) == /\ f[1].at = 0
              /\ \A k \in 1..Len(f) - 1 : f[k + 1].at = EndOf(f[k])
              /\ \A j, k \in 1..Len(f) : j < k => EndOf(f[j]) <= f[k].at

ASSUME ItchAssumption == \A f \in Files : f \in Seq(Frame) /\ f # <<>> /\ LaidOut(f)

VARIABLES
  file,      \* the frames as written
  size,      \* the bytes the file has, fewer than written if it was cut short
  pos, seq,  \* the reader's position and the last frame's number
  raw,       \* the last RawFrame, or NoFrame
  status,    \* what parse() said of it, or "none"
  event      \* the caller's MarketEvent

vars == <<file, size, pos, seq, raw, status, event>>

-----------------------------------------------------------------------------
(* The two tables of itch_parser.cpp: message_length() and the fields      *)
(* parse() reads for each type, as <<offset, width>>.                      *)

Lengths == [S |-> 12, R |-> 39, H |-> 25, Y |-> 20, L |-> 26, V |-> 35, W |-> 12, K |-> 28,
            J |-> 35, h |-> 21, A |-> 36, F |-> 40, E |-> 31, C |-> 36, X |-> 23, D |-> 19,
            U |-> 35, P |-> 44, Q |-> 40, B |-> 19, I |-> 50, N |-> 20, O |-> 48]
message_length(type) == IF type \in DOMAIN Lengths THEN Lengths[type] ELSE 0

AddFields == [order_ref |-> <<11, 8>>, side |-> <<19, 1>>, size |-> <<20, 4>>,
              symbol |-> <<24, 8>>, price_ticks |-> <<32, 4>>]
ExecuteFields == [order_ref |-> <<11, 8>>, size |-> <<19, 4>>, match_number |-> <<23, 8>>]
NoFields == [f \in {} |-> <<0, 0>>]

EventType == [A |-> "Add", F |-> "Add", E |-> "Execute", C |-> "ExecuteWithPrice",
              X |-> "Cancel", D |-> "Delete", U |-> "Replace", P |-> "Trade",
              S |-> "SystemEvent"]

Body == [A |-> AddFields, F |-> AddFields,
         E |-> ExecuteFields,
         C |-> [order_ref |-> <<11, 8>>, size |-> <<19, 4>>, match_number |-> <<23, 8>>,
                price_ticks |-> <<32, 4>>],
         X |-> [order_ref |-> <<11, 8>>, size |-> <<19, 4>>],
         D |-> [order_ref |-> <<11, 8>>],
         U |-> [order_ref |-> <<11, 8>>, new_order_ref |-> <<19, 8>>, size |-> <<27, 4>>,
                price_ticks |-> <<31, 4>>],
         P |-> [order_ref |-> <<11, 8>>, side |-> <<19, 1>>, size |-> <<20, 4>>,
                symbol |-> <<24, 8>>, price_ticks |-> <<32, 4>>, match_number |-> <<36, 8>>],
         S |-> NoFields]

Header == [stock_locate |-> <<1, 2>>, timestamp_ns |-> <<5, 6>>]

Fields == {"stock_locate", "timestamp_ns", "order_ref", "new_order_ref", "match_number",
           "side", "size", "symbol", "price_ticks"}

Default == <<>>
MarketEvent == [type |-> "Unknown", side |-> "None", from |-> [f \in Fields |-> Default]]

decode_side(c) == CASE c = "B" -> "Buy" [] c = "S" -> "Sell" [] OTHER -> "None"

-----------------------------------------------------------------------------
(* The file: frame k begins, with its two-byte prefix, at StartOf(k).      *)
Written == EndOf(file[Len(file)])
StartOf(k) == IF k > Len(file) THEN Written ELSE file[k].at
FrameAt(p) == file[CHOOSE k \in 1..Len(file) : StartOf(k) = p]

NoFrame == [data |-> 0, len |-> 0, sequence |-> 0]

(* A file may end anywhere in its last frame.  One that has no byte at all *)
(* is not opened, and reads like an empty one.                             *)
Init == /\ file \in Files
        /\ size \in file[Len(file)].at .. Written
        /\ pos = 0 /\ seq = 0
        /\ raw = NoFrame /\ status = "none" /\ event = MarketEvent

NoPrefix == pos + 2 > size
TruncatedAtEnd(len) == pos + 2 + len >= size \* a fault: takes the last whole frame for cut
Truncated(len) == pos + 2 + len > size

HasFrame == ~NoPrefix /\ ~Truncated(FrameAt(pos).len)

(* The producer loop parses each frame before it asks for the next.        *)
Asks == raw = NoFrame \/ status # "none"

NextFrameEnds == Asks /\ ~HasFrame /\ UNCHANGED vars

NextFrame == /\ Asks /\ HasFrame
             /\ LET len == FrameAt(pos).len
                IN /\ raw' = [data |-> pos + 2, len |-> len, sequence |-> seq + 1]
                   /\ pos' = pos + 2 + len
             /\ seq' = seq + 1
             /\ status' = "none"
             /\ UNCHANGED <<file, size, event>>

-----------------------------------------------------------------------------
(* parse(raw.data, raw.len, event), by its outcome.                        *)

RawType == FrameAt(raw.data - 2).type
Unparsed == raw # NoFrame /\ status = "none"

Reject(st) == /\ status' = st
              /\ UNCHANGED <<file, size, pos, seq, raw, event>>

ParseEmpty == Unparsed /\ raw.len = 0 /\ Reject("ShortBuffer")
ParseUnknown == Unparsed /\ raw.len > 0 /\ message_length(RawType) = 0 /\ Reject("UnknownType")
ParseShort == /\ Unparsed /\ raw.len > 0 /\ message_length(RawType) # 0
              /\ raw.len < message_length(RawType)
              /\ Reject("ShortBuffer")

CleanEventKept == event \* a fault: the clear before decoding is skipped
CleanEvent == MarketEvent

Load(span) == <<raw.data + span[1], raw.data + span[1] + span[2] - 1>>
Decoded(layout, from) ==
  [f \in Fields |-> IF f \in DOMAIN layout THEN Load(layout[f]) ELSE from[f]]

BodyOf(type) == IF type \in DOMAIN Body THEN Body[type] ELSE NoFields
EventOf(type, c) ==
  [type |-> IF type \in DOMAIN EventType THEN EventType[type] ELSE "Unknown",
   side |-> IF "side" \in DOMAIN BodyOf(type) THEN decode_side(c) ELSE CleanEvent.side,
   from |-> Decoded(BodyOf(type), Decoded(Header, CleanEvent.from))]

ParseOk(c) == /\ Unparsed /\ raw.len > 0 /\ message_length(RawType) # 0
              /\ raw.len >= message_length(RawType)
              /\ status' = "Ok"
              /\ event' = EventOf(RawType, c)
              /\ UNCHANGED <<file, size, pos, seq, raw>>

SideBytes == {"B", "S", "other"}

Next == \/ NextFrame \/ NextFrameEnds
        \/ ParseEmpty \/ ParseUnknown \/ ParseShort
        \/ \E c \in SideBytes : ParseOk(c)

Spec == Init /\ [][Next]_vars

-----------------------------------------------------------------------------
(* What a frame's fields are made of lies in the frame: every byte decoded *)
(* is the frame's own and inside the file, no byte goes into two fields,   *)
(* and nothing is left of the message decoded before into the same event   *)
(* (itch_parser.cpp:73: "reused instances never carry stale fields").      *)
FieldsFromThisFrame ==
  status = "Ok" =>
    LET used == {f \in Fields : event.from[f] # Default}
        Span(f) == event.from[f][1]..event.from[f][2]
    IN /\ raw.data + raw.len <= size
       /\ \A f \in used : Span(f) \subseteq raw.data..(raw.data + raw.len - 1)
       /\ \A f, g \in used : f # g => Span(f) \cap Span(g) = {}
       /\ event.side # "None" => "side" \in used
       /\ event.type = "Unknown" => used = DOMAIN Header

(* The replay is the file: frames come in order and numbered without a     *)
(* gap, none reaches past the end of the file, and when next_frame() says  *)
(* there is no more, every frame the file holds whole has been delivered.  *)
WholeFrames == {k \in 1..Len(file) : StartOf(k + 1) <= size}
FramesDelivered ==
  /\ pos = StartOf(seq + 1)
  /\ 1..seq \subseteq WholeFrames
  /\ raw # NoFrame => /\ raw.sequence = seq
                      /\ raw.data = StartOf(seq) + 2 /\ raw.len = file[seq].len
  /\ ~HasFrame => 1..seq = WholeFrames

-----------------------------------------------------------------------------
(* Why: the reader stands behind the seq frames it delivered, all of them  *)
(* whole, the raw frame is the last of them, and an event that was parsed  *)
(* is the decoding of that frame.                                          *)
ReaderInv ==
  /\ file \in Files
  /\ size \in file[Len(file)].at .. Written
  /\ seq \in 0..Len(file)
  /\ pos = StartOf(seq + 1)
  /\ seq > 0 => EndOf(file[seq]) <= size
  /\ raw = IF seq = 0 THEN NoFrame
           ELSE [data |-> file[seq].at + 2, len |-> file[seq].len, sequence |-> seq]

ParsedInv ==
  status = "Ok" => /\ seq > 0
                   /\ message_length(file[seq].type) # 0
                   /\ raw.len >= message_length(file[seq].type)
                   /\ \E c \in SideBytes : event = EventOf(file[seq].type, c)

FeedInv == ReaderInv /\ ParsedInv
=============================================================================
