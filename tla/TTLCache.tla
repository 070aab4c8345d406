------------------------------ MODULE TTLCache ------------------------------
(***************************************************************************)
(* TTLCache (session_runtime.py): a bounded map whose entries expire.  A   *)
(* store is a function from keys to their entry, None if there is none.    *)
(***************************************************************************)
EXTENDS Naturals, FiniteSets, Optionals

CONSTANTS
    TTL,        \* ttl_seconds
    MaxSize     \* maxsize

ASSUME CacheAssumption == TTL \in Nat /\ MaxSize \in Nat

InUse == TTL > 0 /\ MaxSize > 0

Entry(v, now) == [value |-> v, expires |-> now + TTL]
KeysOf(store) == {k \in DOMAIN store : store[k] # None}
Expired(store, now) == {k \in KeysOf(store) : store[k].expires <= now}
Without(store, gone) == [k \in DOMAIN store |-> IF k \in gone THEN None ELSE store[k]]

Get(store, k, now) ==
    IF InUse /\ k \in KeysOf(store) \ Expired(store, now) THEN store[k].value ELSE None

\* Mutant: reading an entry renews it even if it has expired.
AfterGetRenewing(store, k, now) ==
    IF InUse /\ k \in KeysOf(store) THEN [store EXCEPT ![k].expires = now + TTL] ELSE store

\* What get leaves, in a cache that is refreshed by it.
AfterGet(store, k, now) ==
    IF ~InUse \/ k \notin KeysOf(store) THEN store
    ELSE IF k \in Expired(store, now) THEN Without(store, {k})
    ELSE [store EXCEPT ![k].expires = now + TTL]

\* The sets that may be evicted: as many as are too many, and those that expire first.
\* Of entries that expire together the older ones go, never `last`, the newest.
Overflows(store, last) ==
    {gone \in SUBSET (KeysOf(store) \ {last}) :
        /\ Cardinality(gone) = Cardinality(KeysOf(store)) - MaxSize
        /\ \A k \in gone, j \in KeysOf(store) \ gone : store[k].expires <= store[j].expires}

\* Mutant: nothing is evicted.
EvictedNone(store, last, now) == {store}

\* _evict_if_needed, of a store into which `last` was just put.
Evicted(store, last, now) ==
    LET unexpired == Without(store, Expired(store, now))
    IN  IF Cardinality(KeysOf(store)) <= MaxSize THEN {store}
        ELSE IF Cardinality(KeysOf(unexpired)) <= MaxSize THEN {unexpired}
        ELSE {Without(unexpired, gone) : gone \in Overflows(unexpired, last)}

AfterSet(store, k, v, now) ==
    IF InUse THEN Evicted([store EXCEPT ![k] = Entry(v, now)], k, now) ELSE {store}
=============================================================================
