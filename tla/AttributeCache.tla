---------------------------- MODULE AttributeCache ----------------------------
(***************************************************************************)
(* What IClientCache (common/include/joynr/IClientCache.h) promises the    *)
(* clients that share it: lookUp returns the value stored for an attribute *)
(* id, or an empty boost::any if none exists; insert overwrites the value  *)
(* of its id.  A call takes effect at one instant between its beginning    *)
(* and its return, whatever other clients call meanwhile.  Being a cache,  *)
(* an insert may let the values of other ids go.                           *)
(***************************************************************************)
CONSTANTS
    Threads,    \* the clients
    Keys,       \* attribute ids
    Values,     \* values of attributes
    EMPTY,      \* boost::any()
    NULL

VARIABLES
    store,      \* store[k]: the value stored for k, or EMPTY
    pending,    \* pending[t]: the call t has made and not yet seen take effect
    result      \* result[t]: what the last lookUp of t returned

vars == <<store, pending, result>>

Calls == [op : {"lookUp"}, key : Keys] \cup [op : {"insert"}, key : Keys, value : Values]

PendingIs(t, op) == pending[t] # NULL /\ pending[t].op = op

TypeOK ==
    /\ store \in [Keys -> Values \cup {EMPTY}]
    /\ pending \in [Threads -> Calls \cup {NULL}]
    /\ result \in [Threads -> Values \cup {EMPTY}]

Init ==
    /\ store = [k \in Keys |-> EMPTY]
    /\ pending = [t \in Threads |-> NULL]
    /\ result = [t \in Threads |-> EMPTY]

Invoke(t, c) ==
    /\ pending[t] = NULL
    /\ pending' = [pending EXCEPT ![t] = c]
    /\ UNCHANGED <<store, result>>

LookUp(t) ==
    /\ PendingIs(t, "lookUp")
    /\ result' = [result EXCEPT ![t] = store[pending[t].key]]
    /\ pending' = [pending EXCEPT ![t] = NULL]
    /\ UNCHANGED store

Insert(t) ==
    /\ PendingIs(t, "insert")
    /\ store' \in [Keys -> Values \cup {EMPTY}]
    /\ store'[pending[t].key] = pending[t].value
    /\ \A k \in Keys \ {pending[t].key} : store'[k] \in {store[k], EMPTY}
    /\ pending' = [pending EXCEPT ![t] = NULL]
    /\ UNCHANGED result

Next ==
    \E t \in Threads :
        \/ \E c \in Calls : Invoke(t, c)
        \/ LookUp(t)
        \/ Insert(t)

Spec == Init /\ [][Next]_vars
=============================================================================
