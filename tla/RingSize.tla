------------------------------ MODULE RingSize ------------------------------
(* The capacity of the event ring, Queue<Event, 63> on the targets.         *)
EXTENDS Naturals

CONSTANT Size      \* events the ring holds; its array has one slot more

ASSUME SizeAssumption == Size \in Nat \ {0}

=============================================================================
