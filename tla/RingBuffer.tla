----------------------------- MODULE RingBuffer -----------------------------
(***************************************************************************)
(* utils::RingBuffer: two indices that only grow, taken modulo a capacity  *)
(* that is a power of two.  push makes room for what it adds, at the cost  *)
(* of one slot: a full ring holds Capacity - 1 items.                      *)
(***************************************************************************)
EXTENDS Integers, Sequences

CONSTANT Capacity

ASSUME CapacityAssumption == Capacity \in {2 ^ k : k \in 0 .. 6}

EmptyRing == [head |-> 0, tail |-> 0, slot |-> [i \in 0 .. Capacity - 1 |-> 0]]

Size(ring) == ring.head - ring.tail

Slot(index) == index % Capacity

\* push: the oldest item goes when the indices meet.
Push(ring, item) ==
    LET head == ring.head + 1
    IN  [head |-> head,
         tail |-> IF Slot(head) = Slot(ring.tail) THEN ring.tail + 1 ELSE ring.tail,
         slot |-> [ring.slot EXCEPT ![Slot(ring.head)] = item]]

\* operator[] for every index: what the ring holds, from the oldest.
Items(ring) == [i \in 1 .. Size(ring) |-> ring.slot[Slot(ring.tail + i - 1)]]
=============================================================================
