-------------------------- MODULE FlatHashMapProps --------------------------
(***************************************************************************)
(* What has to hold of the order index.                                    *)
(***************************************************************************)
EXTENDS FlatHashMap

\* Type correctness: parallel arrays as long as the capacity, a power of two.
TypeOK ==
    /\ hash \in Hashes
    /\ table.capacity \in {2^e : e \in 3..MaxLog2}
    /\ table.slot \in [0..(table.capacity - 1) -> Entry \cup {kEmpty}]
    /\ table.size \in 0..Cardinality(Key)
    /\ reserved \in Reserves \cup {0}

\* Every probe loop ends: find(), insert() and erase() of an absent key stop
\* only at an empty slot, so inserting, rehashing and shifting must leave one.
ProbesEnd == \E i \in 0..(table.capacity - 1) : table.slot[i] = kEmpty

\* No entry is cut off: between the home of an entry and its slot, cyclically,
\* no slot is empty, so a probe for its key reaches it.  erase_at() has to
\* restore this with every shift, at the end of the arrays too.
NoGaps ==
    \A i \in 0..(table.capacity - 1) : table.slot[i] # kEmpty =>
        LET home == Home(table, table.slot[i].key)
            dist == (i - home + table.capacity) % table.capacity
        IN  \A d \in 0..dist : table.slot[(home + d) % table.capacity] # kEmpty

\* The table is one that can be searched: a power of two of slots, every key
\* within reach of its probe, and an empty slot for the probe of an absent one.
Searchable == TypeOK /\ ProbesEnd /\ NoGaps

\* After reserve(n) a new entry up to the n-th is stored without a rehash, so
\* a book whose peak stays below its pool_capacity never reallocates its index.
ReserveHolds ==
    [][table'.size > table.size /\ table'.size <= reserved
       => table'.capacity = table.capacity]_vars

\* Whatever is inserted, overwritten, erased, shifted or rehashed, find() and
\* size() answer as a map does.
Map == INSTANCE IdMap WITH
    contents <- [key \in Key |-> Find(table, key)],
    count    <- table.size
ImplementsMap == Map!Spec
=============================================================================
