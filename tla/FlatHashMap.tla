---------------------------- MODULE FlatHashMap ----------------------------
(***************************************************************************)
(* obe::FlatHashMap, the order index: open addressing with linear probing, *)
(* a load limit of 7/8 and backward-shift deletion.  The three parallel    *)
(* arrays are one array of entries (a key or a value beside a state of     *)
(* kEmpty is never read).  The SplitMix64 finaliser is an arbitrary        *)
(* function of the key, picked once: nothing may depend on which it is.    *)
(***************************************************************************)
EXTENDS Integers, FiniteSets, FiniteSetsExt

CONSTANTS
    Key,
    Value,
    ValuesOf,         \* ValuesOf[key]: the values a caller stores under key
    NoValue,          \* find() returned nullptr
    kEmpty,           \* a slot whose state is kEmpty
    Hashes,           \* the hash functions, before masking
    InitialCapacity,  \* the constructor's argument
    Reserves,         \* the arguments of reserve()
    MaxLog2           \* bound: no table is larger than 2^MaxLog2

Entry == [key : Key, value : Value]

ASSUME MapConstants ==
    /\ NoValue \notin Value
    /\ kEmpty \notin Entry
    /\ ValuesOf \in [Key -> SUBSET Value]
    /\ \A hash \in Hashes : hash \in [Key -> Nat]
    /\ InitialCapacity \in Nat
    /\ Reserves \subseteq Nat
    /\ MaxLog2 \in Nat

VARIABLES
    hash,       \* the hash function
    table,      \* slot: the arrays, size: size_, capacity: capacity_
    reserved    \* the largest n given to reserve()

vars == <<hash, table, reserved>>

\* The least power of two from 2 up that is not below v.
RoundUpPow2(v) == Min({p \in {2^e : e \in 1..MaxLog2} : p >= v})

NewTable(capacity) ==
    [slot |-> [i \in 0..(capacity - 1) |-> kEmpty], size |-> 0,
     capacity |-> capacity]

Home(t, key) == hash[key] % t.capacity

\* The loop find(), insert() and erase() share: from the home of the key, slot
\* by slot, to the first that is empty or holds the key.  Without such a slot
\* the loop does not end.
StopsAt(t, key, i) == t.slot[i] # kEmpty => t.slot[i].key = key

Ends(t, key) == {i \in DOMAIN t.slot : StopsAt(t, key, i)} # {}

Probe(t, key) ==
    LET At(d) == (Home(t, key) + d) % t.capacity
    IN  At(CHOOSE d \in 0..(t.capacity - 1) :
               StopsAt(t, key, At(d)) /\ \A e \in 0..(d - 1) : ~StopsAt(t, key, At(e)))

Find(t, key) ==
    LET entry == t.slot[Probe(t, key)]
    IN  IF entry = kEmpty THEN NoValue ELSE entry.value

\* insert() past its load check: overwrite in place, or take the empty slot.
Place(t, key, value) ==
    LET i == Probe(t, key)
    IN  [t EXCEPT !.slot[i] = [key |-> key, value |-> value],
                  !.size = IF t.slot[i] = kEmpty THEN @ + 1 ELSE @]

\* rehash(): the entries go over in slot order.  (Every caller passes more
\* than capacity_, so none of these inserts grows the table again.)
Rehash(t, capacity) ==
    LET moved[s \in 0..t.capacity] ==
            IF s = 0 THEN NewTable(capacity)
            ELSE LET entry == t.slot[s - 1]
                 IN  IF entry = kEmpty THEN moved[s - 1]
                     ELSE Place(moved[s - 1], entry.key, entry.value)
    IN  moved[t.capacity]

ChecksTooLate(t) ==      \* mutant: grows when the table is full already
    IF t.size >= t.capacity THEN Rehash(t, 2 * t.capacity) ELSE t
Grown(t) ==
    IF (t.size + 1) * 8 >= t.capacity * 7 THEN Rehash(t, 2 * t.capacity) ELSE t

\* The entry at j, of home k, stays: k lies cyclically in (i, j].
NoWrapAround(i, j, k) == k > i /\ k <= j      \* mutant: not cyclic
CannotMove(i, j, k) == IF i <= j THEN k > i /\ k <= j ELSE k > i \/ k <= j

\* erase_at(): walk on from the hole; an entry whose probe passes the hole
\* moves into it and leaves the hole where it was; an empty slot ends it.
EraseAt(t, i) ==
    LET walk[d \in 0..t.capacity] ==
            IF d = 0
            THEN [slot |-> [t.slot EXCEPT ![i] = kEmpty], hole |-> i, done |-> FALSE]
            ELSE LET w == walk[d - 1]
                     j == (i + d) % t.capacity
                 IN  CASE w.done -> w
                       [] ~w.done /\ w.slot[j] = kEmpty -> [w EXCEPT !.done = TRUE]
                       [] OTHER ->
                            IF CannotMove(w.hole, j, Home(t, w.slot[j].key)) THEN w
                            ELSE [w EXCEPT !.slot[w.hole] = w.slot[j],
                                           !.slot[j] = kEmpty, !.hole = j]
    IN  [t EXCEPT !.slot = walk[t.capacity].slot, !.size = @ - 1]

\* The capacity reserve(n) asks for.
OneTooFew(n) == RoundUpPow2((n * 8) \div 7)      \* mutant: rounded down
Need(n) == RoundUpPow2((n * 8) \div 7 + 1)

-----------------------------------------------------------------------------
Init ==
    /\ hash \in Hashes
    /\ table = NewTable(RoundUpPow2(IF InitialCapacity < 8 THEN 8 ELSE InitialCapacity))
    /\ reserved = 0

Insert(key, value) ==
    /\ Ends(Grown(table), key)
    /\ table' = Place(Grown(table), key, value)
    /\ UNCHANGED <<hash, reserved>>

\* erase() of a key that is absent (FALSE) or present (TRUE).
Erase(key) ==
    /\ Ends(table, key)
    /\ table' = IF Find(table, key) = NoValue THEN table
                ELSE EraseAt(table, Probe(table, key))
    /\ UNCHANGED <<hash, reserved>>

Reserve(n) ==
    /\ table' = IF Need(n) > table.capacity THEN Rehash(table, Need(n)) ELSE table
    /\ reserved' = Max({reserved, n})
    /\ UNCHANGED hash

Next ==
    \/ \E key \in Key : \E value \in ValuesOf[key] : Insert(key, value)
    \/ \E key \in Key : Erase(key)
    \/ \E n \in Reserves : Reserve(n)

Spec == Init /\ [][Next]_vars
=============================================================================
