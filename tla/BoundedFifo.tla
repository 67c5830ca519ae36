----------------------------- MODULE BoundedFifo -----------------------------
(***************************************************************************)
(* What a ring buffer promises: a first-in first-out queue that holds up   *)
(* to Capacity items, and that drops an item only when it is full.         *)
(***************************************************************************)
EXTENDS Naturals, Sequences

CONSTANTS Item, Capacity

VARIABLE items

Put(c) == Len(items) < Capacity /\ items' = Append(items, c)

Take == items # <<>> /\ items' = Tail(items)

FifoInit == items = <<>>

FifoNext == Take \/ \E c \in Item : Put(c)

FifoSpec == FifoInit /\ [][FifoNext]_items
=============================================================================
