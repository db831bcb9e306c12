---------------------------- MODULE MCBookThread ----------------------------
(* Two buffered events at most, so that replay, overflow and reload all    *)
(* happen within a few messages.                                           *)
EXTENDS BookThread

const_start_seq == 1
const_reorder_capacity == 2
const_MaxSeq == 6
const_MaxMsgs == 6
const_Event == {"a", "b"}
=============================================================================
