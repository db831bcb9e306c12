--------------------------- MODULE MCSpscChannel ---------------------------
(* A four-slot ring and enough items to go round it almost twice, so      *)
(* that slots are reused, the ring fills and both policies act.            *)
EXTENDS SpscChannel

const_Capacity == 4
const_MaxItems == 7
=============================================================================
