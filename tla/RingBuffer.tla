------------------------------ MODULE RingBuffer ------------------------------
(***************************************************************************)
(* obe::SpscRingBuffer: one producer thread in push(), one consumer thread *)
(* in pop().  Every access to shared memory is a step of its own.          *)
(*                                                                         *)
(* Memory is the C++ one, not a sequentially consistent one.  An atomic    *)
(* index is the sequence of its stores; a load by the other thread returns *)
(* any store that is not older than one it has already seen.  A release    *)
(* store carries what its thread has done to the slots (its view), and an  *)
(* acquire load that reads it learns that.  Slots are plain memory: an     *)
(* access is a data race unless the other thread's last access to the slot *)
(* is among what this thread has learnt.                                   *)
(***************************************************************************)
EXTENDS Integers, Sequences

CONSTANTS
    Width,      \* bits of size_t
    Capacity,   \* capacity_
    Items,      \* bound: the producer pushes 1, 2, ..., Items
    Raw         \* a slot that holds no object

Modulus == 2^Width

Slot == 0..(Capacity - 1)

ASSUME RingConstants ==
    /\ Width \in Nat /\ Items \in Nat
    /\ \E k \in 1..(Width - 1) : Capacity = 2^k
    /\ Raw \notin 1..Items

\* What the powers of two are for: a capacity divides the range of the indices,
\* and the range has room for more than a full queue.
ASSUME PowersOfTwo ==
    /\ Capacity \in Nat /\ Capacity >= 2
    /\ Modulus \in Nat
    /\ \E c \in 2..Modulus : Modulus = c * Capacity

VARIABLES
    tailStores, \* tail_: its stores, each [value, view]
    headStores, \* head_: the same
    slots,      \* slots_[i]: [item, constructed, destroyed]
    producer,   \* [pc, seen, knows]: in push()
    consumer,   \* [pc, seen, knows, out]: in pop()
    wrote,      \* number of objects constructed so far (the producer's clock)
    took,       \* number of objects destroyed so far (the consumer's clock)
    destroyed   \* the destructor has run

vars == <<tailStores, headStores, slots, producer, consumer, wrote, took, destroyed>>

Latest(stores) == stores[Len(stores)]
Tl == Latest(tailStores).value
Hd == Latest(headStores).value

Init ==
    /\ tailStores = <<[value |-> 0, view |-> 0]>>
    /\ headStores = <<[value |-> 0, view |-> 0]>>
    /\ slots = [i \in Slot |-> [item |-> Raw, constructed |-> 0, destroyed |-> 0]]
    /\ producer = [pc |-> "idle", seen |-> 1, knows |-> 0]
    /\ consumer = [pc |-> "idle", seen |-> 1, knows |-> 0, out |-> 0]
    /\ wrote = 0 /\ took = 0
    /\ destroyed = FALSE

-----------------------------------------------------------------------------
(* Index arithmetic and memory order. *)

UnmaskedHigh(i) == IF i < Capacity THEN i ELSE 0      \* mutant: no wrap-around
SlotOf(i) == i % Capacity      \* slots_[i & mask_]

Distance(to, from) == (to - from) % Modulus

IsFullLate(next, head) == Distance(next, head) > Capacity + 1     \* mutant
IsFull(next, head) == Distance(next, head) > Capacity

NeverCatchesUp(head, tail) == tail <= head      \* mutant: indices compared by size
IsEmpty(head, tail) == head = tail

\* The view a store carries: what its thread has done before (release).
RelaxedView(clock) == 0      \* mutant: memory_order_relaxed
ReleaseView(clock) == clock

\* What a load teaches: the view of the store it read (acquire).
Learn(knows, store) == IF store.view > knows THEN store.view ELSE knows

-----------------------------------------------------------------------------
(* push() *)

\* tail_ is the producer's own; head_ is acquired, possibly an old value.
LoadHead(j) ==
    /\ producer.pc = "idle" /\ ~destroyed
    /\ wrote < Items
    /\ j \in producer.seen..Len(headStores)

PushFull(j) ==
    /\ LoadHead(j)
    /\ IsFull((Tl + 1) % Modulus, headStores[j].value)
    /\ producer' = [producer EXCEPT !.seen = j, !.knows = Learn(@, headStores[j])]
    /\ UNCHANGED <<tailStores, headStores, slots, consumer, wrote, took, destroyed>>

PushRoom(j) ==
    /\ LoadHead(j)
    /\ ~IsFull((Tl + 1) % Modulus, headStores[j].value)
    /\ producer' = [pc |-> "construct", seen |-> j,
                    knows |-> Learn(producer.knows, headStores[j])]
    /\ UNCHANGED <<tailStores, headStores, slots, consumer, wrote, took, destroyed>>

Construct ==
    /\ producer.pc = "construct"
    /\ wrote' = wrote + 1
    /\ slots' = [slots EXCEPT ![SlotOf(Tl)] =
                    [@ EXCEPT !.item = wrote + 1, !.constructed = wrote + 1]]
    /\ producer' = [producer EXCEPT !.pc = "publish"]
    /\ UNCHANGED <<tailStores, headStores, consumer, took, destroyed>>

Publish ==
    /\ producer.pc = "publish"
    /\ tailStores' = Append(tailStores, [value |-> (Tl + 1) % Modulus,
                                         view  |-> ReleaseView(wrote)])
    /\ producer' = [producer EXCEPT !.pc = "idle"]
    /\ UNCHANGED <<headStores, slots, consumer, wrote, took, destroyed>>

-----------------------------------------------------------------------------
(* pop() *)

LoadTail(j) ==
    /\ consumer.pc = "idle" /\ ~destroyed
    /\ j \in consumer.seen..Len(tailStores)

PopEmpty(j) ==
    /\ LoadTail(j)
    /\ IsEmpty(Hd, tailStores[j].value)
    /\ consumer' = [consumer EXCEPT !.seen = j, !.knows = Learn(@, tailStores[j])]
    /\ UNCHANGED <<tailStores, headStores, slots, producer, wrote, took, destroyed>>

PopFound(j) ==
    /\ LoadTail(j)
    /\ ~IsEmpty(Hd, tailStores[j].value)
    /\ consumer' = [consumer EXCEPT !.pc = "take", !.seen = j,
                                    !.knows = Learn(@, tailStores[j])]
    /\ UNCHANGED <<tailStores, headStores, slots, producer, wrote, took, destroyed>>

\* The object is moved out and destroyed.
Take ==
    /\ consumer.pc = "take"
    /\ took' = took + 1
    /\ consumer' = [consumer EXCEPT !.pc = "retire", !.out = slots[SlotOf(Hd)].item]
    /\ slots' = [slots EXCEPT ![SlotOf(Hd)] =
                    [@ EXCEPT !.item = Raw, !.destroyed = took + 1]]
    /\ UNCHANGED <<tailStores, headStores, producer, wrote, destroyed>>

Retire ==
    /\ consumer.pc = "retire"
    /\ headStores' = Append(headStores, [value |-> (Hd + 1) % Modulus,
                                         view  |-> ReleaseView(took)])
    /\ consumer' = [consumer EXCEPT !.pc = "idle"]
    /\ UNCHANGED <<tailStores, slots, producer, wrote, took, destroyed>>

-----------------------------------------------------------------------------
(* The destructor. *)

InFlightSlots == {SlotOf((Hd + k) % Modulus) : k \in 0..(Distance(Tl, Hd) - 1)}

\* Runs when both threads are out of the queue for good.
Destroy ==
    /\ ~destroyed
    /\ producer.pc = "idle" /\ consumer.pc = "idle"
    /\ destroyed' = TRUE
    /\ slots' = [i \in Slot |->
                    IF i \in InFlightSlots THEN [slots[i] EXCEPT !.item = Raw] ELSE slots[i]]
    /\ UNCHANGED <<tailStores, headStores, producer, consumer, wrote, took>>

-----------------------------------------------------------------------------
Producer ==
    \/ \E j \in 1..Len(headStores) : PushFull(j) \/ PushRoom(j)
    \/ Construct
    \/ Publish

Consumer ==
    \/ \E j \in 1..Len(tailStores) : PopEmpty(j) \/ PopFound(j)
    \/ Take
    \/ Retire

Next == Producer \/ Consumer \/ Destroy

Spec == Init /\ [][Next]_vars

\* Both threads keep running, and a store is not ignored for ever: a load that
\* sees nothing new changes nothing, so the fair step is one that sees more.
FairSpec == Spec /\ WF_vars(Producer) /\ WF_vars(Consumer)
==============================================================================
