----------------------------- MODULE ClientCache -----------------------------
(***************************************************************************)
(* ClientQCache: a cache of attribute values bounded by a cumulative cost, *)
(* behind one mutex.  lookUp and insert are called by any thread of the    *)
(* process.  The cache object itself (contains, object, insert with        *)
(* eviction of the least recently used entries) is not part of the         *)
(* repository and is modelled from its contract.                           *)
(*                                                                         *)
(* A CachedValue is an address; `heap` holds the value stored at it and    *)
(* `freed` the addresses the cache has deleted.  The time stamp of a       *)
(* CachedValue is read by nothing in the repository and is left out.       *)
(***************************************************************************)
EXTENDS Naturals, FiniteSets, SequencesExt

CONSTANTS
    Threads,
    Keys,        \* attribute ids
    Values,      \* values of attributes
    MaxCost,     \* stands for MAX_CUMMULATIVE_CACHE_COST = 1000
    MaxAllocs,   \* bound of the model on the number of CachedValues created
    NULL,        \* nullptr
    EMPTY        \* boost::any()

ASSUME MaxCost \in Nat \ {0} /\ MaxAllocs \in Nat

VARIABLES
    cache,     \* the entries, most recently used first
    mutex,     \* the thread that holds the mutex, or NULL
    heap,      \* address -> the value of the CachedValue there
    freed,     \* addresses deleted by the cache
    pc, call,  \* where each thread is, and in which call
    entry,     \* lookUp's local `entry`
    ret        \* what the thread's last lookUp returned

vars == <<cache, mutex, heap, freed, pc, call, entry, ret>>

Addresses == 1..MaxAllocs

\* cache.setCacheCapacity(MAX_CUMMULATIVE_CACHE_COST) in the constructor
CapacityNeverSet == MaxAllocs
Capacity == MaxCost

-----------------------------------------------------------------------------
(* The cache object *)

IndexOf(k) == SelectInSeq(cache, LAMBDA e : e.key = k)

\* cache.contains(attributeId)
CacheContains(k) == IndexOf(k) # 0

\* cache.object(attributeId): the entry, or nullptr
ObjectOf(k) == IF IndexOf(k) = 0 THEN NULL ELSE cache[IndexOf(k)].object

\* ... and the entry is now the most recently used
Touched(k) == <<cache[IndexOf(k)]>> \o RemoveAt(cache, IndexOf(k))

\* cache.insert(key, object) at cost 1: an entry of the key is replaced, the
\* least recently used entries make room, what leaves the cache is deleted.
Inserted(k, a) ==
    LET others == SelectSeq(cache, LAMBDA e : e.key # k)
    IN  <<[key |-> k, object |-> a]>> \o SubSeq(others, 1, Min({Len(others), Capacity - 1}))

Objects(c) == {e.object : e \in ToSet(c)}

-----------------------------------------------------------------------------
(* std::lock_guard<std::mutex> lock(mutex) *)

MutexFreeIgnored == TRUE
MutexFree == mutex = NULL

Lock(t, c) ==
    /\ pc[t] = "idle"
    /\ MutexFree
    /\ mutex' = t
    /\ pc' = [pc EXCEPT ![t] = "locked"]
    /\ call' = [call EXCEPT ![t] = c]
    /\ UNCHANGED <<cache, heap, freed, entry, ret>>

Return(t) ==
    /\ mutex' = NULL
    /\ pc' = [pc EXCEPT ![t] = "idle"]
    /\ call' = [call EXCEPT ![t] = NULL]
    /\ entry' = [entry EXCEPT ![t] = NULL]

-----------------------------------------------------------------------------
(* ClientQCache::lookUp *)

\* if (!cache.contains(attributeId)) return boost::any()
LookUpMiss(t) ==
    /\ pc[t] = "locked" /\ call[t].op = "lookUp"
    /\ ~CacheContains(call[t].key)
    /\ ret' = [ret EXCEPT ![t] = EMPTY]
    /\ Return(t)
    /\ UNCHANGED <<cache, heap, freed>>

\* entry = cache.object(attributeId), reached only past the early return
LookUpObjectUnchecked(t) ==
    /\ pc[t] = "locked" /\ call[t].op = "lookUp"
    /\ entry' = [entry EXCEPT ![t] = ObjectOf(call[t].key)]
    /\ pc' = [pc EXCEPT ![t] = "entry"]
    /\ UNCHANGED <<cache, mutex, heap, freed, call, ret>>
LookUpObject(t) ==
    /\ pc[t] = "locked" /\ call[t].op = "lookUp"
    /\ CacheContains(call[t].key)
    /\ entry' = [entry EXCEPT ![t] = ObjectOf(call[t].key)]
    /\ cache' = Touched(call[t].key)
    /\ pc' = [pc EXCEPT ![t] = "entry"]
    /\ UNCHANGED <<mutex, heap, freed, call, ret>>

\* return entry->getValue()
LookUpGetValue(t) ==
    /\ pc[t] = "entry"
    /\ ret' = [ret EXCEPT ![t] = heap[entry[t]]]
    /\ Return(t)
    /\ UNCHANGED <<cache, heap, freed>>

LookUp(t) ==
    \/ \E k \in Keys : Lock(t, [op |-> "lookUp", key |-> k])
    \/ LookUpMiss(t)
    \/ LookUpObject(t)
    \/ LookUpGetValue(t)

-----------------------------------------------------------------------------
(* ClientQCache::insert *)

InsertStoreUnlessPresent(t) ==
    /\ pc[t] = "locked" /\ call[t].op = "insert"
    /\ IF CacheContains(call[t].key)
         THEN UNCHANGED <<cache, heap, freed>>
         ELSE LET a == Cardinality(DOMAIN heap) + 1
              IN  /\ heap' = heap @@ (a :> call[t].value)
                  /\ cache' = Inserted(call[t].key, a)
                  /\ freed' = freed \cup (Objects(cache) \ Objects(cache'))
    /\ Return(t)
    /\ UNCHANGED ret

InsertStore(t) ==
    /\ pc[t] = "locked" /\ call[t].op = "insert"
    /\ LET a == Cardinality(DOMAIN heap) + 1
       IN  /\ heap' = heap @@ (a :> call[t].value)
           /\ cache' = Inserted(call[t].key, a)
           /\ freed' = freed \cup (Objects(cache) \ Objects(cache'))
    /\ Return(t)
    /\ UNCHANGED ret

Insert(t) ==
    \/ /\ Cardinality(DOMAIN heap) < MaxAllocs
       /\ \E k \in Keys, v \in Values : Lock(t, [op |-> "insert", key |-> k, value |-> v])
    \/ InsertStore(t)

-----------------------------------------------------------------------------

Init ==
    /\ cache = <<>>
    /\ mutex = NULL
    /\ heap = <<>>
    /\ freed = {}
    /\ pc = [t \in Threads |-> "idle"]
    /\ call = [t \in Threads |-> NULL]
    /\ entry = [t \in Threads |-> NULL]
    /\ ret = [t \in Threads |-> EMPTY]

Next == \E t \in Threads : LookUp(t) \/ Insert(t)

Spec == Init /\ [][Next]_vars

-----------------------------------------------------------------------------
(* Properties *)

TypeOK ==
    /\ cache \in Seq([key : Keys, object : Addresses])
    /\ mutex \in Threads \cup {NULL}
    /\ DOMAIN heap \subseteq Addresses
    /\ \A a \in DOMAIN heap : heap[a] \in Values
    /\ freed \subseteq DOMAIN heap
    /\ pc \in [Threads -> {"idle", "locked", "entry"}]
    /\ call \in [Threads -> {NULL} \cup [op : {"lookUp"}, key : Keys]
                                   \cup [op : {"insert"}, key : Keys, value : Values]]
    /\ entry \in [Threads -> Addresses \cup {NULL}]
    /\ ret \in [Threads -> Values \cup {EMPTY}]
    /\ \A t \in Threads : pc[t] = "entry" => entry[t] # NULL

\* The CachedValue that lookUp got from cache.object() is still owned by the
\* cache when lookUp reads its value, although an insert of another thread
\* replaces or evicts entries and the cache deletes them: the mutex is held
\* from contains() to getValue().
EntryAliveWhileRead ==
    \A t \in Threads : pc[t] = "entry" => entry[t] \in Objects(cache) \ freed

\* The cumulative cost of the entries (1 each) stays within the capacity the
\* constructor sets, and every CachedValue that insert allocated is owned
\* by the cache or was deleted by it: nothing leaks, nothing is both.
CostBoundedAndNothingLeaks ==
    /\ Len(cache) <= MaxCost
    /\ Objects(cache) \cup freed = DOMAIN heap
    /\ Objects(cache) \cap freed = {}
    /\ Cardinality(Objects(cache)) = Len(cache)

\* What a client finds in the cache: for every attribute id the value of its
\* entry, or nothing.
Content == [k \in Keys |-> IF CacheContains(k) THEN heap[ObjectOf(k)] ELSE EMPTY]

Cache == INSTANCE AttributeCache WITH store <- Content, pending <- call, result <- ret

\* ClientQCache implements IClientCache as AttributeCache states it: every
\* lookUp and insert, of whichever thread and in whichever interleaving,
\* takes effect at one instant of the call.  lookUp returns what the cache
\* holds for its attribute id at that instant, also when it reads the value
\* through `entry` a step after cache.object(): the value of the last insert
\* for the id or nothing, never an older one.  insert puts its value and
\* changes another id only by evicting it.
ImplementsAttributeCache == Cache!Spec

=============================================================================
