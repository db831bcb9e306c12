---------------------------- MODULE BoundedFifo ----------------------------
(***************************************************************************)
(* What the producer-to-consumer hand-off promises: a bounded FIFO that    *)
(* delivers every accepted item once, in order, and that loses an item     *)
(* only when it may (the Drop policy) and never without counting it.       *)
(* SpscChannel is shown to implement it.                                   *)
(***************************************************************************)
EXTENDS Naturals, Sequences

CONSTANTS Item,      \* what can be sent
          Capacity   \* how many accepted items may await delivery

VARIABLES log,        \* the items accepted, oldest first
          delivered,  \* the items handed to the consumer, oldest first
          dropped,    \* how many items were refused
          lossy       \* may an item be refused?

vars == <<log, delivered, dropped, lossy>>

Init == /\ log = <<>>
        /\ delivered = <<>>
        /\ dropped = 0
        /\ lossy \in BOOLEAN

Accept(m) == /\ Len(log) - Len(delivered) < Capacity
             /\ log' = Append(log, m)
             /\ UNCHANGED <<delivered, dropped, lossy>>

Refuse == /\ lossy
          /\ dropped' = dropped + 1
          /\ UNCHANGED <<log, delivered, lossy>>

Deliver == /\ Len(delivered) < Len(log)
           /\ delivered' = Append(delivered, log[Len(delivered) + 1])
           /\ UNCHANGED <<log, dropped, lossy>>

Next == (\E m \in Item : Accept(m)) \/ Refuse \/ Deliver

Spec == Init /\ [][Next]_vars
=============================================================================
