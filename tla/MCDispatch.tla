------------------------------ MODULE MCDispatch ------------------------------
(***************************************************************************)
(* Dispatch for TLC: two workers, two subscriptions, and the messages that *)
(* run() and the callback tell apart.                                      *)
(***************************************************************************)
EXTENDS Dispatch, TLC

CONSTANTS w1, w2, s1, s2, q1, o1

MCWorkers == {w1, w2}
MCSubscriptions == {s1, s2}
MCRequests == {q1}
MCOneWayRequests == {o1}

Message(type, s, error, expiry) ==
    [type |-> type, subscriptionId |-> s, error |-> error, expiryDate |-> expiry]

\* Replies and publications of s1, with and without an error, in time and
\* late; a publication of s2; a request (a handler outside the model); a
\* type run() has no handler for.
MCInbound ==
    {Message("subscriptionReply", s1, e, x) : e \in BOOLEAN, x \in {0, MaxTime}}
    \cup {Message("subscriptionPublication", s1, e, MaxTime) : e \in BOOLEAN}
    \cup { Message("subscriptionPublication", s2, FALSE, MaxTime),
           Message("request", s2, FALSE, 0),
           Message("ping", s2, FALSE, MaxTime) }

WorkerSymmetry == Permutations(MCWorkers)
=============================================================================
