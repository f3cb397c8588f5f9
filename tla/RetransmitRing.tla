--------------------------- MODULE RetransmitRing ---------------------------
(***************************************************************************)
(* RetransmitRing: the messages a session has sent, in slots indexed by    *)
(* sequence number modulo the capacity, for a client that asks for a range *)
(* of them again.  Sequence numbers have SeqBits bits and 0 is none.       *)
(***************************************************************************)
EXTENDS Integers

CONSTANTS SeqBits, MaxCapacity

VARIABLE ring    \* slots, the next sequence number and, as history, those to be held

SeqSpace == 2 ^ SeqBits

ASSUME RingAssumption == SeqSpace \in Nat \ {0} /\ MaxCapacity \in Nat

\* claim: the message sent as seq overwrites the slot.
Encoded(slots, capacity, seq) == [slots EXCEPT ![seq % capacity] = seq]

\* find
FindSeq(r, seq) == seq # 0 /\ r.slots[seq % r.capacity] = seq

\* Defect: the range's end is computed in the width of a sequence number.
HoldsBelow(r, from, count) ==
    \A seq \in from .. ((from + count) % SeqSpace) - 1 : FindSeq(r, seq)

\* holds: counted by offset, so that the end of the range cannot wrap.
Holds(r, from, count) == \A i \in 0 .. count - 1 : FindSeq(r, (from + i) % SeqSpace)

SendMessage ==
    /\ ring.next < SeqSpace
    /\ ring' = [capacity |-> ring.capacity,
                slots    |-> Encoded(ring.slots, ring.capacity, ring.next),
                next     |-> ring.next + 1,
                since    |-> IF ring.next - ring.since >= ring.capacity THEN ring.since + 1 ELSE ring.since]

EmptySlots(capacity) ==
    [capacity |-> capacity, slots |-> [i \in 0 .. capacity - 1 |-> 0], next |-> 1, since |-> 1]

\* clear: a session that starts anew counts from 1 again.
ClearRing == ring.next > 1 /\ ring' = EmptySlots(ring.capacity)

RingInit == \E capacity \in 1 .. MaxCapacity : ring = EmptySlots(capacity)

RingNext == SendMessage \/ ClearRing
=============================================================================
