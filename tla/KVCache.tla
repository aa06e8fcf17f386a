-------------------------------- MODULE KVCache --------------------------------
(***************************************************************************)
(* core/kv_cache.py: the LRU cache of prefix states, as operators on a     *)
(* record with the keys from least to most recently used (the OrderedDict),*)
(* the memory_bytes stored with each entry and the memory counter.  Every  *)
(* public method runs under one lock, so an operator is what one call      *)
(* does.  The hit, miss and eviction counters are only reported and are    *)
(* left out.                                                               *)
(* A key is in the map at most once, so that RemoveFirst removes it.       *)
(***************************************************************************)
EXTENDS Integers, Sequences, SequencesExt, FiniteSetsExt

CONSTANTS
    PrefixHashes,    \* token prefixes, told apart by their hash
    Sizes,           \* the estimated memory the states of each prefix may have
    MaxMemoryBytes,  \* max_memory_bytes
    MaxEntries       \* max_entries; with 0 the code would evict for ever

ASSUME KVCacheAssumption ==
    /\ Sizes \in [PrefixHashes -> SUBSET Nat]
    /\ MaxMemoryBytes \in Nat
    /\ MaxEntries \in Nat \ {0}

\* The size of a prefix that is not cached is 0.
NewCache == [order |-> <<>>, size |-> [k \in PrefixHashes |-> 0], bytes |-> 0]

Cached(c) == ToSet(c.order)

\* _evict_one_locked on a cache that is not empty.
EvictOne(c) ==
    LET k == Head(c.order)
    IN  [order |-> Tail(c.order), size |-> [c.size EXCEPT ![k] = 0],
         bytes |-> c.bytes - c.size[k]]

\* n rounds of an eviction loop.
EvictMany(c, n) ==
    LET after[i \in 0 .. n] == IF i = 0 THEN c ELSE EvictOne(after[i - 1])
    IN  after[n]

\* A slip: a hit does not count as a use.
GetKeepsPlace(c, k) == c

\* get on a hit.
Get(c, k) == [c EXCEPT !.order = Append(RemoveFirst(@, k), k)]

\* Both eviction loops of put are over for an entry of m bytes.
HasRoom(c, m) ==
    /\ c.order = <<>> \/ c.bytes + m <= MaxMemoryBytes
    /\ Len(c.order) < MaxEntries

\* As few of the oldest go as make room.
MakeRoom(c, m) ==
    EvictMany(c, Min({i \in 0 .. Len(c.order) : HasRoom(EvictMany(c, i), m)}))

\* A slip: the size of the new entry is subtracted for the old one.
WithoutTheNew(c, k, m) ==
    IF k \in Cached(c)
    THEN [order |-> RemoveFirst(c.order, k), size |-> [c.size EXCEPT ![k] = 0],
          bytes |-> c.bytes - m]
    ELSE c

\* An old entry goes with the memory that was counted for it.
Without(c, k) ==
    IF k \in Cached(c)
    THEN [order |-> RemoveFirst(c.order, k), size |-> [c.size EXCEPT ![k] = 0],
          bytes |-> c.bytes - c.size[k]]
    ELSE c

Store(c, k, m) ==
    [order |-> Append(c.order, k), size |-> [c.size EXCEPT ![k] = m], bytes |-> c.bytes + m]

PutCountsNew(c, k, m) ==
    IF m > MaxMemoryBytes THEN c ELSE Store(MakeRoom(WithoutTheNew(c, k, m), m), k, m)

\* put of a state of m bytes.  One that can never fit is not stored, and an
\* older state of the same prefix then stays.
Put(c, k, m) ==
    IF m > MaxMemoryBytes THEN c ELSE Store(MakeRoom(Without(c, k), m), k, m)

\* evict_lru: until enough is freed or nothing is left.
EvictLru(c, needed) ==
    LET enough == {i \in 0 .. Len(c.order) : c.bytes - EvictMany(c, i).bytes >= needed}
    IN  EvictMany(c, Min(enough \cup {Len(c.order)}))
=============================================================================
