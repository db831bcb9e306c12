----------------------------- MODULE MCItchFeed -----------------------------
(* Files of up to two frames: every decoded type, one that is only skipped *)
(* and one that is unknown, with one byte too few, just enough and one     *)
(* byte more, or none at all.                                              *)
EXTENDS ItchFeed

Kinds ==
  UNION {{[type |-> t, len |-> message_length(t) + d] : d \in {-1, 0, 1}} :
           t \in {"A", "F", "E", "C", "X", "D", "U", "P", "S", "R"}}
    \cup {[type |-> "Z", len |-> n] : n \in {0, 12}}

Placed(kind, p) == [type |-> kind.type, len |-> kind.len, at |-> p]
const_Files == {<<Placed(a, 0)>> : a \in Kinds}
                 \cup {<<Placed(a, 0), Placed(b, 2 + a.len)>> : a, b \in Kinds}
=============================================================================
