-------------------------- MODULE ProviderListeners --------------------------
(***************************************************************************)
(* The listener registry of AbstractJoynrProvider: two maps from a name to *)
(* a vector of listeners behind one ReadWriteLock.  The four register and  *)
(* unregister calls take the lock for writing; onAttributeValueChanged,    *)
(* fireBroadcast and fireSelectiveBroadcast take it for reading, look the  *)
(* vector up and call every listener in it while they hold the lock.       *)
(*                                                                         *)
(* A thread is "idle", or inside a writing call ("write"), or inside a     *)
(* reading call: in the lookup of the map ("lookup") or in the loop over   *)
(* the vector ("loop").  The lookup lasts from one step to the next, so    *)
(* that two lookups of two threads overlap.                                *)
(***************************************************************************)
EXTENDS Naturals, FiniteSets, SequencesExt, TLC

CONSTANTS
    Threads,     \* the threads of the process that call the provider
    Names,       \* attribute and broadcast names
    Listeners,   \* addresses of listener objects
    NULL

VARIABLES
    lock,                \* ReadWriteLock lock: who holds it
    attributeListeners,  \* std::map name -> vector of listeners
    broadcastListeners,  \* std::map name -> vector of listeners
    deleted,             \* listeners that unregister has deleted
    pc,                  \* where each thread is
    call,                \* the call a thread is inside of, or NULL
    cursor,              \* the range-for's iterator, as an index
    last,                \* the range-for's end(), read when the loop starts
    notified             \* history: the listeners this call has informed

vars == <<lock, attributeListeners, broadcastListeners, deleted, pc, call,
          cursor, last, notified>>

RegisterOps   == {"registerAttributeListener", "registerBroadcastListener"}
UnregisterOps == {"unregisterAttributeListener", "unregisterBroadcastListener"}
FireOps       == {"fireBroadcast", "fireSelectiveBroadcast"}
ReadOps       == FireOps \cup {"onAttributeValueChanged"}
AttributeOps  == {"registerAttributeListener", "unregisterAttributeListener",
                  "onAttributeValueChanged"}

Call == [op : RegisterOps \cup UnregisterOps, name : Names, listener : Listeners]
            \cup [op : ReadOps, name : Names]

\* The map a call works on.
MapOf(c) == IF c.op \in AttributeOps THEN attributeListeners ELSE broadcastListeners

\* The assignment to that map.
Store(c, map) ==
    \/ c.op \in AttributeOps /\ attributeListeners' = map /\ UNCHANGED broadcastListeners
    \/ c.op \notin AttributeOps /\ broadcastListeners' = map /\ UNCHANGED attributeListeners

\* std::map::operator[]: the map afterwards; an absent key is inserted with
\* an empty vector.
Subscript(map, name) == IF name \in DOMAIN map THEN map ELSE map @@ (name :> <<>>)

\* The vector a reading call iterates.
VectorOf(c) == IF c.name \in DOMAIN MapOf(c) THEN MapOf(c)[c.name] ELSE <<>>

Registered(map) == UNION {ToSet(map[n]) : n \in DOMAIN map}

-----------------------------------------------------------------------------
(* ReadWriteLock *)

WriteLockFree == lock.writer = NULL /\ lock.readers = {}

ReadLockFreeIgnoringWriter == TRUE
ReadLockFree == lock.writer = NULL

Enter(t, c, label) ==
    /\ pc[t] = "idle"
    /\ pc' = [pc EXCEPT ![t] = label]
    /\ call' = [call EXCEPT ![t] = c]
    /\ notified' = [notified EXCEPT ![t] = <<>>]

Leave(t) ==
    /\ pc' = [pc EXCEPT ![t] = "idle"]
    /\ call' = [call EXCEPT ![t] = NULL]

\* WriteLocker locker(lock)
WriteLock(t, c) ==
    /\ WriteLockFree
    /\ Enter(t, c, "write")
    /\ lock' = [lock EXCEPT !.writer = t]
    /\ UNCHANGED <<attributeListeners, broadcastListeners, deleted, cursor, last>>

\* ReadLocker locker(lock), and the lookup begins
ReadLock(t, c) ==
    /\ ReadLockFree
    /\ Enter(t, c, "lookup")
    /\ lock' = [lock EXCEPT !.readers = @ \cup {t}]
    /\ UNCHANGED <<attributeListeners, broadcastListeners, deleted, cursor, last>>

-----------------------------------------------------------------------------
(* register and unregister *)

\* A listener is registered once, under one name, when its subscription is
\* made.
RegisterListener(t) ==
    \E c \in [op : RegisterOps, name : Names, listener : Listeners] :
        /\ c.listener \notin
               Registered(attributeListeners) \cup Registered(broadcastListeners) \cup deleted
        /\ WriteLock(t, c)

Registering(t) ==
    /\ pc[t] = "write" /\ call[t].op \in RegisterOps
    /\ Store(call[t], [Subscript(MapOf(call[t]), call[t].name)
                           EXCEPT ![call[t].name] = Append(@, call[t].listener)])
    /\ lock' = [lock EXCEPT !.writer = NULL]
    /\ Leave(t)
    /\ UNCHANGED <<deleted, cursor, last, notified>>

\* "Unregister and delete": only a listener that is registered under the name
\* is handed in.
UnregisterListener(t) ==
    \E c \in [op : UnregisterOps, name : Names, listener : Listeners] :
        /\ c.name \in DOMAIN MapOf(c)
        /\ Contains(MapOf(c)[c.name], c.listener)
        /\ WriteLock(t, c)

Unregistering(t) ==
    /\ pc[t] = "write" /\ call[t].op \in UnregisterOps
    /\ Store(call[t], [MapOf(call[t]) EXCEPT ![call[t].name] = RemoveFirst(@, call[t].listener)])
    /\ deleted' = deleted \cup {call[t].listener}
    /\ lock' = [lock EXCEPT !.writer = NULL]
    /\ Leave(t)
    /\ UNCHANGED <<cursor, last, notified>>

-----------------------------------------------------------------------------
(* onAttributeValueChanged, fireBroadcast, fireSelectiveBroadcast *)

\* The loop over `listeners` begins: begin() and end() are read once.
BeginLoop(t, vector) ==
    /\ cursor' = [cursor EXCEPT ![t] = 1]
    /\ last' = [last EXCEPT ![t] = Len(vector)]
    /\ pc' = [pc EXCEPT ![t] = "loop"]
    /\ UNCHANGED <<lock, deleted, call, notified>>

\* find(attributeName) != cend(), then attributeListeners[attributeName];
\* without the name there is nothing to iterate.
LookupAttributeInverted(t) ==
    /\ pc[t] = "lookup" /\ call[t].op = "onAttributeValueChanged"
    /\ BeginLoop(t, <<>>)
    /\ UNCHANGED <<attributeListeners, broadcastListeners>>
LookupAttribute(t) ==
    /\ pc[t] = "lookup" /\ call[t].op = "onAttributeValueChanged"
    /\ BeginLoop(t, VectorOf(call[t]))
    /\ UNCHANGED <<attributeListeners, broadcastListeners>>

\* The threads whose lookup of the same map overlaps this one.
Overlapping(t) ==
    {u \in Threads \ {t} :
        pc[u] = "lookup" /\ (call[u].op \in AttributeOps) = (call[t].op \in AttributeOps)}

\* broadcastListeners[broadcastName]: operator[] inserts an absent name, a
\* write to the map under the lock for reading.  An insertion that overlaps
\* another lookup is a data race; the node it links may be lost.
LookupBroadcast(t, op) ==
    /\ pc[t] = "lookup" /\ call[t].op = op
    /\ BeginLoop(t, VectorOf(call[t]))
    /\ \/ broadcastListeners' = Subscript(broadcastListeners, call[t].name)
       \/ /\ call[t].name \notin DOMAIN broadcastListeners
          /\ Overlapping(t) # {}
          /\ UNCHANGED broadcastListeners
    /\ UNCHANGED attributeListeners

\* One iteration of the range-for: the listener is informed.
AdvanceSkipsOne(t) == cursor' = [cursor EXCEPT ![t] = @ + 2]
Advance(t) == cursor' = [cursor EXCEPT ![t] = @ + 1]

Inform(t) ==
    /\ pc[t] = "loop" /\ cursor[t] <= last[t]
    /\ cursor[t] <= Len(VectorOf(call[t]))
    /\ notified' = [notified EXCEPT ![t] = Append(@, VectorOf(call[t])[cursor[t]])]
    /\ Advance(t)
    /\ UNCHANGED <<lock, attributeListeners, broadcastListeners, deleted, pc, call, last>>

\* ~ReadLocker
ReadLockKept(t) == UNCHANGED lock
ReleaseRead(t) == lock' = [lock EXCEPT !.readers = @ \ {t}]

\* The loop is over and the call returns.
ReadUnlock(t) ==
    /\ pc[t] = "loop" /\ cursor[t] > last[t]
    /\ ReleaseRead(t)
    /\ Leave(t)
    /\ UNCHANGED <<attributeListeners, broadcastListeners, deleted, cursor, last, notified>>

OnAttributeValueChanged(t) ==
    \/ \E n \in Names : ReadLock(t, [op |-> "onAttributeValueChanged", name |-> n])
    \/ LookupAttribute(t)

FireBroadcast(t) ==
    \/ \E n \in Names : ReadLock(t, [op |-> "fireBroadcast", name |-> n])
    \/ LookupBroadcast(t, "fireBroadcast")

FireSelectiveBroadcast(t) ==
    \/ \E n \in Names : ReadLock(t, [op |-> "fireSelectiveBroadcast", name |-> n])
    \/ LookupBroadcast(t, "fireSelectiveBroadcast")

-----------------------------------------------------------------------------

Init ==
    /\ lock = [writer |-> NULL, readers |-> {}]
    /\ attributeListeners = <<>>
    /\ broadcastListeners = <<>>
    /\ deleted = {}
    /\ pc = [t \in Threads |-> "idle"]
    /\ call = [t \in Threads |-> NULL]
    /\ cursor = [t \in Threads |-> 1]
    /\ last = [t \in Threads |-> 0]
    /\ notified = [t \in Threads |-> <<>>]

Next ==
    \E t \in Threads :
        \/ RegisterListener(t) \/ Registering(t)
        \/ UnregisterListener(t) \/ Unregistering(t)
        \/ OnAttributeValueChanged(t)
        \/ FireBroadcast(t)
        \/ FireSelectiveBroadcast(t)
        \/ Inform(t)
        \/ ReadUnlock(t)

Spec == Init /\ [][Next]_vars

\* A thread that is inside a call goes on with it: the map is stored, the
\* vector looked up, a listener informed (its callback returns), the lock
\* released.  Nothing obliges a thread to call the provider, and a call that
\* waits for the lock is promised nothing.
Proceed(t) ==
    \/ Registering(t) \/ Unregistering(t)
    \/ LookupAttribute(t)
    \/ \E op \in FireOps : LookupBroadcast(t, op)
    \/ Inform(t)
    \/ ReadUnlock(t)

Fairness == \A t \in Threads : WF_vars(Proceed(t))

FairSpec == Spec /\ Fairness

-----------------------------------------------------------------------------
(* Properties *)

IsListenerMap(map) ==
    /\ DOMAIN map \subseteq Names
    /\ \A n \in DOMAIN map : map[n] \in Seq(Listeners) /\ IsInjective(map[n])

TypeOK ==
    /\ lock \in [writer : Threads \cup {NULL}, readers : SUBSET Threads]
    /\ IsListenerMap(attributeListeners)
    /\ IsListenerMap(broadcastListeners)
    /\ deleted \subseteq Listeners
    /\ pc \in [Threads -> {"idle", "write", "lookup", "loop"}]
    /\ call \in [Threads -> Call \cup {NULL}]
    /\ cursor \in [Threads -> 1..(Cardinality(Listeners) + 1)]
    /\ last \in [Threads -> 0..Cardinality(Listeners)]
    /\ notified \in [Threads -> Seq(Listeners)]
    /\ \A t \in Threads :
        /\ (pc[t] = "idle") <=> (call[t] = NULL)
        /\ pc[t] = "loop" => cursor[t] <= last[t] + 1

\* The vector a thread iterates in onAttributeValueChanged, fireBroadcast or
\* fireSelectiveBroadcast stays as it was when the loop read begin() and
\* end(), and none of its listeners is deleted, although unregister of
\* another thread erases from that vector and deletes the listener: the
\* iterators of the range-for stay valid and no deleted listener is called.
IterationStable ==
    \A t \in Threads :
        pc[t] = "loop" =>
            /\ Len(VectorOf(call[t])) = last[t]
            /\ ToSet(VectorOf(call[t])) \cap deleted = {}

\* A notification reaches every listener registered under the name, once
\* and in the order of registration: when the loop of a reading call is
\* over, what it has informed is the vector of the name.
EveryListenerInformedOnce ==
    \A t \in Threads :
        (pc[t] = "loop" /\ cursor[t] > last[t]) => notified[t] = VectorOf(call[t])

\* Every call gives the lock back: a register or unregister after its
\* store, a notification after a loop that ends, over however many
\* listeners and whatever the other threads register, unregister and fire
\* meanwhile.  A lock that is kept would shut every later register out.
Holds(t) == lock.writer = t \/ t \in lock.readers

LockGivenBack == \A t \in Threads : Holds(t) ~> ~Holds(t)

\* A thread inserts into a map only while no other thread is inside a lookup
\* of that map: ReadLocker admits several threads, and std::map allows
\* concurrent calls only if all of them are const.  fireBroadcast and
\* fireSelectiveBroadcast use operator[], which inserts the name if no
\* listener was ever registered for it.
NoDataRace ==
    \A t \in Threads :
        (/\ pc[t] = "lookup"
         /\ call[t].op \in FireOps
         /\ call[t].name \notin DOMAIN broadcastListeners) => Overlapping(t) = {}

=============================================================================
