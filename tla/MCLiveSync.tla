----------------------------- MODULE MCLiveSync -----------------------------
(* Four updates to two levels, cut into events of one or two updates, a    *)
(* two-message channel, a snapshot that lags by up to two updates, and one *)
(* fault of each kind: an event is split over the channel, a snapshot      *)
(* falls before, inside and after an event, events are lost and repeated.  *)
EXTENDS LiveSync

const_Keys == {1, 2}
const_NoKey == 0
const_Capacity == 2
const_MaxId == 4
const_Logs == {<<1, 2, 1, 2>>, <<2, 1, 0, 2>>}
const_MaxWidth == 2
const_MaxLag == 2
const_MaxFaults == 1
=============================================================================
