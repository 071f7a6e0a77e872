--------------------------- MODULE RingBufferProps ---------------------------
(***************************************************************************)
(* What must be true of RingBuffer.                                        *)
(***************************************************************************)
EXTENDS RingBuffer

Store == [value : 0..(Modulus - 1), view : Nat]

\* Every variable keeps its type; indices stay within size_t.
TypeOK ==
    /\ tailStores \in Seq(Store) /\ tailStores # <<>>
    /\ headStores \in Seq(Store) /\ headStores # <<>>
    /\ slots \in [Slot -> [item : (1..Items) \cup {Raw}, constructed : Nat,
                           destroyed : Nat]]
    /\ producer \in [pc : {"idle", "construct", "publish"}, seen : Nat, knows : Nat]
    /\ consumer \in [pc : {"idle", "take", "retire"}, seen : Nat, knows : Nat,
                     out : 0..Items]
    /\ wrote \in 0..Items /\ took \in 0..Items
    /\ destroyed \in BOOLEAN

\* No data race on a slot: the producer constructs into a slot only if it has
\* learnt of the consumer's last access to it, and the consumer reads a slot
\* only if it has learnt of its construction (the release/acquire pairing the
\* header's comment rests on).
NoDataRace ==
    /\ producer.pc = "construct" =>
           slots[SlotOf(Tl)].destroyed <= producer.knows
    /\ consumer.pc = "take" =>
           slots[SlotOf(Hd)].constructed <= consumer.knows

\* Object lifetimes: construction only in a raw slot, destruction only of an
\* object, by the consumer and by the destructor, whenever that may run; and the
\* destructor leaves no object behind, in flight or wrapped.
LifetimesPair ==
    /\ TypeOK
    /\ producer.pc = "construct" => slots[SlotOf(Tl)].item = Raw
    /\ consumer.pc = "take" => slots[SlotOf(Hd)].item # Raw
    /\ ~destroyed /\ producer.pc = "idle" /\ consumer.pc = "idle" =>
           \A i \in InFlightSlots : slots[i].item # Raw
    /\ destroyed => \A i \in Slot : slots[i].item = Raw

-----------------------------------------------------------------------------
(* The queue is a bounded FIFO.  An item enters when its index is published *)
(* and leaves when it is moved out.                                         *)

First == IF consumer.pc = "retire" THEN (Hd + 1) % Modulus ELSE Hd

Queue ==
    IF destroyed THEN <<>>
    ELSE [k \in 1..Distance(Tl, First) |->
             slots[SlotOf((First + k - 1) % Modulus)].item]

Fifo == INSTANCE BoundedFifo
    WITH q    <- Queue,
         sent <- Len(tailStores) - 1,
         got  <- consumer.out,
         open <- ~destroyed

\* Items come out once each in the order they went in, also when the indices
\* wrap around size_t, and the queue never holds more than Capacity.
ImplementsFifo == Fifo!Spec

\* The wait-free pair makes progress: every item is delivered, across full and
\* empty queues, unless the queue is destroyed.
Delivered == <>(took = Items \/ destroyed)
==============================================================================
