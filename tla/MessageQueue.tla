---------------------------- MODULE MessageQueue ----------------------------
(***************************************************************************)
(* The holding area for messages whose destination has no known address:   *)
(* joynr::MessageQueue (libjoynr/joynr-messaging/MessageQueue.cpp).        *)
(*                                                                         *)
(* The queue is a multimap from destination participant id to heap items   *)
(* (message + decay time), guarded by one mutex.  queueMessage,            *)
(* getNextMessageForParticipant and getQueueLength hold the mutex for one  *)
(* container operation and are single steps here.  removeOutdatedMessages  *)
(* holds it for a loop over the whole container; the loop is modelled one  *)
(* iteration per step, so that the clock advances while it runs and so     *)
(* that what the mutex excludes is visible.                                *)
(***************************************************************************)
EXTENDS Naturals, Sequences, FiniteSets, SequencesExt

CONSTANTS
    Participants,   \* destination participant ids (the multimap's keys)
    Rank,           \* Rank[p]: position of p in the keys' sort order
    Messages,       \* the messages callers may pass to queueMessage
    MaxTime,        \* bound: the clock runs from 0 to MaxTime
    MaxItems,       \* bound: number of items ever allocated by queueMessage
    NULL            \* nullptr, queue.end(), "no sweep running"

ASSUME /\ Rank \in [Participants -> Nat] /\ IsInjective(Rank)
       /\ \A m \in Messages : m.to \in Participants /\ m.expiryDate \in 0..MaxTime
       /\ MaxTime \in Nat /\ MaxItems \in Nat

VARIABLES
    queue,      \* the multimap, as the sequence its iteration yields
    now,        \* std::chrono::system_clock::now(), in milliseconds
    sweep,      \* locals of a running removeOutdatedMessages, else NULL
    ret,        \* what the last completed call returned: a size, an item
                \* (or nullptr), or a count of removed entries
    allocs,     \* number of `new MessageQueueItem` so far (item addresses)
    taken,      \* history: items handed to callers, who now own them
    deleted,    \* history: items freed by removeOutdatedMessages
    reported,   \* history: sum of the counts removeOutdatedMessages returned
    findFirst   \* the standard library of the build: TRUE if multimap::find
                \* yields the first of equal keys (libstdc++, libc++, MSVC),
                \* FALSE if any of them (all the C++ standard promises)

vars == <<queue, now, sweep, ret, allocs, taken, deleted, reported, findFirst>>

\* MessageQueueItem: the message with the decay time it was queued with.
MessageQueueItem == [ptr : 1..MaxItems, content : Messages, decayTime : 0..MaxTime]

SweepState == [now : 0..MaxTime, it : 1..MaxItems \cup {NULL}, counter : Nat]

-----------------------------------------------------------------------------
(* The container *)

Key(item) == item.content.to

\* Indices of the entries with key p: multimap::equal_range.
EqualRange(q, p) == {i \in DOMAIN q : Key(q[i]) = p}

\* Where multimap::insert puts a new entry: after every entry whose key is
\* not greater, hence behind the entries with an equal key.
LowerBound(q, p) == 1 + Cardinality({i \in DOMAIN q : Rank[Key(q[i])] < Rank[p]})
UpperBound(q, p) == 1 + Cardinality({i \in DOMAIN q : Rank[Key(q[i])] <= Rank[p]})

\* The entries multimap::find may yield.
Found(q, p) ==
    {i \in EqualRange(q, p) : findFirst => \A j \in EqualRange(q, p) : i <= j}

\* An iterator is the address of the node it points to; end() is NULL.
IteratorAt(q, i) == IF i \in DOMAIN q THEN q[i].ptr ELSE NULL
Position(q, it)  == CHOOSE i \in DOMAIN q : q[i].ptr = it

Queued == ToSet(queue)

Returned(kind, val) == [kind |-> kind, val |-> val]

\* lock_guard<mutex>: a caller enters only while no sweep holds queueMutex.
LockFree == sweep = NULL

IsOutdatedInclusive(item, t) == item.decayTime <= t
IsOutdated(item, t) == item.decayTime < t

-----------------------------------------------------------------------------
(* The operations *)

Init ==
    /\ queue = <<>>
    /\ now = 0
    /\ sweep = NULL
    /\ ret = Returned("none", NULL)
    /\ allocs = 0
    /\ taken = {}
    /\ deleted = {}
    /\ reported = 0
    /\ findFirst \in BOOLEAN

GetQueueLength ==
    /\ LockFree
    /\ ret' = Returned("size", Len(queue))
    /\ UNCHANGED <<queue, now, sweep, allocs, taken, deleted, reported, findFirst>>

InsertionPointLowerBound(q, p) == LowerBound(q, p)
InsertionPoint(q, p) == UpperBound(q, p)

\* absTtl: the expiry header is already an absolute time.
DecayTimeOfRelative(m) == now + m.expiryDate
DecayTimeOf(m) == m.expiryDate

QueueMessage(m) ==
    LET item == [ptr |-> allocs + 1, content |-> m, decayTime |-> DecayTimeOf(m)]
    IN  /\ allocs < MaxItems
        /\ LockFree
        /\ allocs' = allocs + 1
        /\ queue' = InsertAt(queue, InsertionPoint(queue, m.to), item)
        /\ ret' = Returned("size", Len(queue'))
        /\ UNCHANGED <<now, sweep, taken, deleted, reported, findFirst>>

AfterTakeKept(q, i) == q
AfterTake(q, i) == RemoveAt(q, i)

GetNextMessageForParticipant(p) ==
    /\ LockFree
    /\ \/ \E i \in Found(queue, p) :
            /\ queue' = AfterTake(queue, i)
            /\ taken' = taken \cup {queue[i]}
            /\ ret' = Returned("item", queue[i])
       \/ /\ EqualRange(queue, p) = {}
          /\ ret' = Returned("item", NULL)
          /\ UNCHANGED <<queue, taken>>
    /\ UNCHANGED <<now, sweep, allocs, deleted, reported, findFirst>>

\* removeOutdatedMessages up to the loop: an empty queue returns 0 at once,
\* otherwise the clock is read once and the iterator starts at begin().
SweepBegin ==
    /\ LockFree
    /\ \/ /\ queue = <<>>
          /\ ret' = Returned("count", 0)
          /\ UNCHANGED sweep
       \/ /\ queue # <<>>
          /\ sweep' = [now |-> now, it |-> IteratorAt(queue, 1), counter |-> 0]
          /\ UNCHANGED ret
    /\ UNCHANGED <<queue, now, allocs, taken, deleted, reported, findFirst>>

AtIterator == sweep # NULL /\ sweep.it \in {item.ptr : item \in Queued}

\* queue.erase yields the iterator of the successor, which then stands where
\* the erased entry stood.
SuccessorOfErasedSkips(i) == i + 1
SuccessorOfErased(i) == i

CounterKept(c) == c
Counted(c) == c + 1

\* Loop body, outdated entry: erase it, delete the item, count it.
SweepErase ==
    /\ AtIterator
    /\ LET i == Position(queue, sweep.it)
       IN  /\ IsOutdated(queue[i], sweep.now)
           /\ queue' = RemoveAt(queue, i)
           /\ deleted' = deleted \cup {queue[i]}
           /\ sweep' = [sweep EXCEPT !.it = IteratorAt(queue', SuccessorOfErased(i)),
                                     !.counter = Counted(@)]
    /\ UNCHANGED <<now, ret, allocs, taken, reported, findFirst>>

SuccessorStuck(i) == i
Successor(i) == i + 1

\* Loop body, entry still alive: ++queueIterator.
SweepAdvance ==
    /\ AtIterator
    /\ LET i == Position(queue, sweep.it)
       IN  /\ ~IsOutdated(queue[i], sweep.now)
           /\ sweep' = [sweep EXCEPT !.it = IteratorAt(queue, Successor(i))]
    /\ UNCHANGED <<queue, now, ret, allocs, taken, deleted, reported, findFirst>>

\* Loop exit: return the counter and release the mutex.
SweepEnd ==
    /\ sweep # NULL
    /\ sweep.it = NULL
    /\ ret' = Returned("count", sweep.counter)
    /\ reported' = reported + sweep.counter
    /\ sweep' = NULL
    /\ UNCHANGED <<queue, now, allocs, taken, deleted, findFirst>>

RemoveOutdatedMessages == SweepBegin \/ SweepErase \/ SweepAdvance \/ SweepEnd

\* Time passes, whoever holds the mutex.
Tick ==
    /\ now < MaxTime
    /\ now' = now + 1
    /\ UNCHANGED <<queue, sweep, ret, allocs, taken, deleted, reported, findFirst>>

Next ==
    \/ GetQueueLength
    \/ \E m \in Messages : QueueMessage(m)
    \/ \E p \in Participants : GetNextMessageForParticipant(p)
    \/ RemoveOutdatedMessages
    \/ Tick

Spec == Init /\ [][Next]_vars

\* The sweep is driven by a periodic timer of the queue's owner, and a
\* thread inside the loop keeps running.
Fairness == WF_vars(SweepBegin) /\ WF_vars(SweepErase \/ SweepAdvance) /\ WF_vars(SweepEnd)

FairSpec == Spec /\ Fairness

-----------------------------------------------------------------------------
(* Properties *)

TypeOK ==
    /\ queue \in Seq(MessageQueueItem)
    /\ now \in 0..MaxTime
    /\ sweep \in SweepState \cup {NULL}
    /\ ret.kind \in {"none", "size", "item", "count"}
    /\ ret.kind \in {"size", "count"} => ret.val \in 0..MaxItems
    /\ ret.kind = "item" => ret.val = NULL \/ ret.val \in MessageQueueItem
    /\ allocs \in 0..MaxItems
    /\ taken \subseteq MessageQueueItem
    /\ deleted \subseteq MessageQueueItem
    /\ reported \in Nat
    /\ findFirst \in BOOLEAN

Ptrs(items) == {item.ptr : item \in items}

\* Every item queueMessage allocated has exactly one owner: it is in the
\* container once, or with the caller getNextMessageForParticipant gave it
\* to, or freed by removeOutdatedMessages.  An item in two of these places
\* would be freed by the sweep while a caller still uses it, or delivered
\* twice; an item in none is leaked.
SingleOwner ==
    /\ Ptrs(Queued) \cup Ptrs(taken) \cup Ptrs(deleted) = 1..allocs
    /\ Cardinality(Queued) + Cardinality(taken) + Cardinality(deleted) = allocs
    /\ Len(queue) = Cardinality(Queued)

\* While removeOutdatedMessages runs, its iterator points to a node of the
\* container or is end(), and no entry before it is outdated at the time
\* the sweep read: the for loop has skipped nothing it should have erased.
SweepLoopInvariant ==
    sweep # NULL =>
        /\ sweep.it # NULL => sweep.it \in Ptrs(Queued)
        /\ LET upto == IF sweep.it = NULL THEN Len(queue) + 1
                       ELSE Position(queue, sweep.it)
           IN  \A j \in 1..(upto - 1) : ~IsOutdated(queue[j], sweep.now)

\* The counts removeOutdatedMessages returns add up to the items it freed:
\* the counter of a running sweep and the counts already returned account
\* for every deleted item.
SweepCountsRemovals ==
    reported + (IF sweep = NULL THEN 0 ELSE sweep.counter) = Cardinality(deleted)

\* With a find that yields the first entry of a key, getNextMessageForParticipant
\* hands out the messages of one participant in the order queueMessage got
\* them (item addresses count allocations): when an item is taken, no item
\* for the same participant that was queued earlier is still waiting.
FifoPerParticipant ==
    [][findFirst =>
          \A x \in taken' \ taken :
              \A y \in ToSet(queue') : Key(y) = Key(x) => x.ptr < y.ptr]_vars

\* Under the sweep timer: an entry whose decay time has passed does not stay
\* in the container for ever; removeOutdatedMessages (or a consumer) removes
\* it.
OutdatedEventuallyRemoved ==
    \A p \in 1..MaxItems :
        (\E item \in Queued : item.ptr = p /\ item.decayTime < now)
            ~> (p \notin Ptrs(Queued))

\* What the queue promises its users, MessageStore: entries come in by
\* queueMessage with the decay time of their message, leave to a caller by
\* getNextMessageForParticipant, and are otherwise dropped only after their
\* decay time has passed.
Store == INSTANCE MessageStore
             WITH Entries <- MessageQueueItem, store <- Queued, handed <- taken

ImplementsMessageStore == Store!Spec
=============================================================================
