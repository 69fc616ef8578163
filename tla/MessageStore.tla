---------------------------- MODULE MessageStore ----------------------------
(***************************************************************************)
(* What a holding area for undeliverable messages promises, whatever       *)
(* container and locking implement it: an entry is put with the decay time *)
(* of its message, leaves to exactly one taker, and is otherwise dropped   *)
(* only once its decay time lies in the past.                              *)
(***************************************************************************)
EXTENDS Naturals

CONSTANTS
    Entries,    \* records with fields content (the message) and decayTime
    MaxTime     \* bound on the clock

VARIABLES
    store,      \* the entries held
    handed,     \* the entries given to takers
    now         \* the clock

vars == <<store, handed, now>>

TypeOK ==
    /\ store \subseteq Entries
    /\ handed \subseteq Entries
    /\ now \in 0..MaxTime

Init ==
    /\ store = {}
    /\ handed = {}
    /\ now = 0

Put(e) ==
    /\ e \notin store \cup handed
    /\ e.decayTime = e.content.expiryDate
    /\ store' = store \cup {e}
    /\ UNCHANGED <<handed, now>>

Take(e) ==
    /\ e \in store
    /\ store' = store \ {e}
    /\ handed' = handed \cup {e}
    /\ UNCHANGED now

Expire(e) ==
    /\ e \in store
    /\ e.decayTime < now
    /\ store' = store \ {e}
    /\ UNCHANGED <<handed, now>>

Tick ==
    /\ now < MaxTime
    /\ now' = now + 1
    /\ UNCHANGED <<store, handed>>

Next ==
    \/ \E e \in Entries : Put(e) \/ Take(e) \/ Expire(e)
    \/ Tick

Spec == Init /\ [][Next]_vars
=============================================================================
