------------------------------ MODULE Dispatch ------------------------------
(***************************************************************************)
(* Dispatch of received messages on a pool of worker threads:              *)
(*                                                                         *)
(*   ReceivedMessageRunnable (libjoynr/joynr-messaging/dispatcher/         *)
(*   ReceivedMessageRunnable.cpp): one runnable per received message;      *)
(*   run() drops an expired message and calls the dispatcher's handler     *)
(*   for the type;                                                         *)
(*   SubscriptionCallback (libjoynr/include/joynr/SubscriptionCallback.h): *)
(*   what the handlers of subscription replies and publications execute,   *)
(*   one call to the subscription manager, the future or the listener      *)
(*   per step;                                                             *)
(*   AbstractJoynrMessagingConnector (libjoynr/joynr-messaging/            *)
(*   AbstractJoynrMessagingConnector.cpp): the proxy's side, which hands   *)
(*   requests to the message sender.                                       *)
(*                                                                         *)
(* The dispatcher, the thread pool, the subscription manager and the       *)
(* message sender are not part of the repository; what the model needs of  *)
(* them (a work queue, a lookup of the callback by subscription id,        *)
(* unregisterSubscription) is written from their contract.  What the       *)
(* dispatcher does with a request or a reply is outside the model.         *)
(***************************************************************************)
EXTENDS Naturals, Sequences, FiniteSets

CONSTANTS
    Workers,        \* threads of the pool
    Subscriptions,  \* subscription ids
    Requests,       \* the requests the proxy may send
    OneWayRequests, \* the one-way requests the proxy may send
    Inbound,        \* the messages the dispatcher may be given
    MaxTime,        \* bound: the clock runs from 0 to MaxTime
    MaxSubmitted,   \* bound: runnables ever created
    NULL

ASSUME /\ \A m \in Inbound :
            /\ m.type \in STRING
            /\ m.subscriptionId \in Subscriptions \cup {NULL}
            /\ m.error \in BOOLEAN /\ m.expiryDate \in 0..MaxTime
       /\ MaxTime \in Nat /\ MaxSubmitted \in Nat

VARIABLES
    pool,           \* the work queue of the thread pool
    submitted,      \* number of runnables created so far
    pc,             \* pc[w]: "idle", "run" or "execute"
    job,            \* job[w]: the runnable worker w is running
    plan,           \* plan[w]: the calls of execute() still to be made
    registered,     \* the subscription manager: ids that have a callback
    sent,           \* history: what the connector gave the message sender
    futureLog,      \* history: calls on the futures
    listenerLog,    \* history: calls on the listeners
    dispatched,     \* history: handler calls made by run(), and when
    now,            \* the wall clock
    ndebug,         \* the build: TRUE when assert() is compiled out
    aborted         \* the process was ended by a failed assert()

vars == <<pool, submitted, pc, job, plan, registered, futureLog, listenerLog,
          dispatched, now, ndebug, aborted, sent>>

Runnable == [id : 1..MaxSubmitted, message : Inbound, decayTime : 0..MaxTime]

\* if / else if chain of run(): the handler of each type.
Handler ==
    [ request |-> "handleRequestReceived",
      reply |-> "handleReplyReceived",
      oneWay |-> "handleOneWayRequestReceived",
      subscriptionRequest |-> "handleSubscriptionRequestReceived",
      broadcastSubscriptionRequest |-> "handleBroadcastSubscriptionRequestReceived",
      subscriptionReply |-> "handleSubscriptionReplyReceived",
      subscriptionPublication |-> "handlePublicationReceived",
      subscriptionStop |-> "handleSubscriptionStopReceived" ]

Calls == {"unregisterSubscription", "futureOnError", "futureOnSuccess",
          "listenerOnError", "listenerOnSubscribed", "listenerOnReceive"}

-----------------------------------------------------------------------------
(* AbstractJoynrMessagingConnector *)

\* The arguments of joynrMessageSender->sendRequest and sendOneWayRequest:
\* the two participant ids of the connector and the request.
Outbound(type, payload) ==
    [type |-> type, from |-> "proxyParticipantId", to |-> "providerParticipantId",
     payload |-> payload]

SendRequest(q) == sent' = sent \cup {Outbound("request", q)}

SendOneWayRequest(r) == sent' = sent \cup {Outbound("oneWay", r)}

ProxyStep ==
    /\ ~aborted
    /\ UNCHANGED <<pool, submitted, pc, job, plan, registered, futureLog, listenerLog,
                   dispatched, now, ndebug, aborted>>

\* operationRequest(replyCaller, request); a request is sent once
OperationRequest(q) ==
    /\ ProxyStep
    /\ Outbound("request", q) \notin sent
    /\ SendRequest(q)

\* operationOneWayRequest(request)
OperationOneWayRequest(r) ==
    /\ ProxyStep
    /\ Outbound("oneWay", r) \notin sent
    /\ SendOneWayRequest(r)

-----------------------------------------------------------------------------
(* ReceivedMessageRunnable *)

\* ObjectWithDecayTime(message.getHeaderExpiryDate())
DecayTimeFromNow(m) == now + m.expiryDate
DecayTimeOf(m) == m.expiryDate

\* Dispatcher::receive: a runnable for the message goes to the pool.
Receive(m) ==
    /\ ~aborted
    /\ submitted < MaxSubmitted
    /\ submitted' = submitted + 1
    /\ pool' = Append(pool, [id |-> submitted', message |-> m,
                             decayTime |-> DecayTimeOf(m)])
    /\ UNCHANGED <<pc, job, plan, registered, futureLog, listenerLog,
                   dispatched, now, ndebug, aborted, sent>>

\* A free worker takes the next runnable.
Take(w) ==
    /\ ~aborted
    /\ pc[w] = "idle"
    /\ pool # <<>>
    /\ job' = [job EXCEPT ![w] = Head(pool)]
    /\ pool' = Tail(pool)
    /\ pc' = [pc EXCEPT ![w] = "run"]
    /\ UNCHANGED <<submitted, plan, registered, futureLog, listenerLog,
                   dispatched, now, ndebug, aborted, sent>>

\* ObjectWithDecayTime::isExpired
IsExpired(r) == r.decayTime < now

\* if (isExpired()) { return; } at the head of run()
DropsNothing(r) == FALSE
Drops(r) == IsExpired(r)

Finish(w) ==
    /\ pc' = [pc EXCEPT ![w] = "idle"]
    /\ job' = [job EXCEPT ![w] = NULL]
    /\ plan' = [plan EXCEPT ![w] = <<>>]

\* SubscriptionCallback::execute(const SubscriptionReply&), error carried.
ExecuteErrorReplyReportsFirst ==
    <<"futureOnError", "listenerOnError", "unregisterSubscription">>
ExecuteErrorReply ==
    <<"unregisterSubscription", "futureOnError", "listenerOnError">>

\* SubscriptionCallback::execute(const SubscriptionReply&), no error.
ExecuteSuccessReplyListenerFirst == <<"listenerOnSubscribed", "futureOnSuccess">>
ExecuteSuccessReply == <<"futureOnSuccess", "listenerOnSubscribed">>

\* SubscriptionCallback::execute(SubscriptionPublication&&): the interpreter
\* calls onError for a carried error, else onSuccess with the values.
ExecutePublication(m) ==
    IF m.error THEN <<"listenerOnError">> ELSE <<"listenerOnReceive">>

\* What the handler of a type does with the message: replies and
\* publications of a subscription are executed by the callback registered
\* for their id; the other handlers are outside the model.
Execute(m) ==
    CASE m.type = "subscriptionReply" /\ registered[m.subscriptionId] ->
            IF m.error THEN ExecuteErrorReply ELSE ExecuteSuccessReply
      [] m.type = "subscriptionPublication" /\ registered[m.subscriptionId] ->
            ExecutePublication(m)
      [] OTHER -> <<>>

\* ReceivedMessageRunnable::run
Run(w) ==
    /\ ~aborted
    /\ pc[w] = "run"
    /\ LET m == job[w].message
       IN  \/ /\ Drops(job[w])
              /\ Finish(w)
              /\ UNCHANGED <<dispatched, aborted>>
           \/ /\ ~Drops(job[w])
              /\ m.type \in DOMAIN Handler
              /\ dispatched' = dispatched \cup
                    {[job |-> job[w], handler |-> Handler[m.type], at |-> now]}
              /\ \/ /\ Execute(m) = <<>>
                    /\ Finish(w)
                 \/ /\ Execute(m) # <<>>
                    /\ plan' = [plan EXCEPT ![w] = Execute(m)]
                    /\ pc' = [pc EXCEPT ![w] = "execute"]
                    /\ UNCHANGED job
              /\ UNCHANGED aborted
           \/ /\ ~Drops(job[w])
              /\ m.type \notin DOMAIN Handler
              /\ aborted' = ~ndebug
              /\ Finish(w)
              /\ UNCHANGED dispatched
    /\ UNCHANGED <<pool, submitted, registered, futureLog, listenerLog, now, ndebug,
                   sent>>

-----------------------------------------------------------------------------
(* SubscriptionCallback::execute, call by call *)

\* Worker w makes the next call of its plan.
Call(w, name) ==
    /\ ~aborted
    /\ pc[w] = "execute"
    /\ Head(plan[w]) = name
    /\ \/ /\ Len(plan[w]) = 1
          /\ Finish(w)
       \/ /\ Len(plan[w]) > 1
          /\ plan' = [plan EXCEPT ![w] = Tail(@)]
          /\ UNCHANGED <<pc, job>>
    /\ UNCHANGED <<pool, submitted, dispatched, now, ndebug, aborted, sent>>

Logged(name, w) == [call |-> name, job |-> job[w]]

UnregisterSubscription(w) ==
    /\ Call(w, "unregisterSubscription")
    /\ registered' = [registered EXCEPT ![job[w].message.subscriptionId] = FALSE]
    /\ UNCHANGED <<futureLog, listenerLog>>

FutureCall(w) ==
    \E name \in {"futureOnError", "futureOnSuccess"} :
        /\ Call(w, name)
        /\ futureLog' = futureLog \cup {Logged(name, w)}
        /\ UNCHANGED <<registered, listenerLog>>

ListenerCall(w) ==
    \E name \in {"listenerOnError", "listenerOnSubscribed", "listenerOnReceive"} :
        /\ Call(w, name)
        /\ listenerLog' = listenerLog \cup {Logged(name, w)}
        /\ UNCHANGED <<registered, futureLog>>

-----------------------------------------------------------------------------

Tick ==
    /\ now < MaxTime
    /\ now' = now + 1
    /\ UNCHANGED <<pool, submitted, pc, job, plan, registered, futureLog,
                   listenerLog, dispatched, ndebug, aborted, sent>>

Init ==
    /\ pool = <<>>
    /\ submitted = 0
    /\ pc = [w \in Workers |-> "idle"]
    /\ job = [w \in Workers |-> NULL]
    /\ plan = [w \in Workers |-> <<>>]
    /\ registered = [s \in Subscriptions |-> TRUE]
    /\ sent = {}
    /\ futureLog = {}
    /\ listenerLog = {}
    /\ dispatched = {}
    /\ now = 0
    /\ ndebug \in BOOLEAN
    /\ aborted = FALSE

Worker(w) ==
    \/ Take(w)
    \/ Run(w)
    \/ UnregisterSubscription(w)
    \/ FutureCall(w)
    \/ ListenerCall(w)

Proxy ==
    \/ \E q \in Requests : OperationRequest(q)
    \/ \E r \in OneWayRequests : OperationOneWayRequest(r)

Next ==
    \/ Proxy
    \/ \E m \in Inbound : Receive(m)
    \/ \E w \in Workers : Worker(w)
    \/ Tick

Spec == Init /\ [][Next]_vars

-----------------------------------------------------------------------------
(* Properties *)

TypeOK ==
    /\ pool \in Seq(Runnable)
    /\ submitted \in 0..MaxSubmitted
    /\ pc \in [Workers -> {"idle", "run", "execute"}]
    /\ \A w \in Workers :
          /\ pc[w] = "idle" <=> job[w] = NULL
          /\ pc[w] # "idle" => job[w] \in Runnable
          /\ pc[w] = "execute" <=> plan[w] # <<>>
    /\ plan \in [Workers -> Seq(Calls)]
    /\ registered \in [Subscriptions -> BOOLEAN]
    /\ sent \subseteq {Outbound("request", q) : q \in Requests}
                     \cup {Outbound("oneWay", r) : r \in OneWayRequests}
    /\ futureLog \subseteq [call : Calls, job : Runnable]
    /\ listenerLog \subseteq [call : Calls, job : Runnable]
    /\ dispatched \subseteq
          [job : Runnable, handler : {Handler[t] : t \in DOMAIN Handler}, at : 0..MaxTime]
    /\ now \in 0..MaxTime
    /\ ndebug \in BOOLEAN /\ aborted \in BOOLEAN

\* run() hands no message to a handler after the expiry date of the message:
\* the runnable's decay time is the absolute expiry date of its message and
\* isExpired() is asked before the type is looked at.
ExpiredNeverDispatched ==
    \A d \in dispatched : d.job.message.expiryDate >= d.at

\* execute(SubscriptionReply) with an error: when the future or the listener
\* learns of the error, the subscription is already unregistered, so that no
\* message looked up from then on finds the callback.
UnregisteredBeforeErrorReported ==
    \A e \in futureLog \cup listenerLog :
        e.call \in {"futureOnError", "listenerOnError"}
            /\ e.job.message.type = "subscriptionReply"
            => ~registered[e.job.message.subscriptionId]

\* execute(SubscriptionReply): whenever the listener is told of a reply, the
\* future was resolved with that reply first; a listener that reads the
\* future inside onSubscribed or onError finds the result.
FutureResolvedBeforeListenerTold ==
    \A e \in listenerLog :
        e.job.message.type = "subscriptionReply" =>
            \E f \in futureLog :
                f.job = e.job /\ (f.call = "futureOnError" <=> e.call = "listenerOnError")

TornDown(s) ==
    \E e \in listenerLog :
        /\ e.call = "listenerOnError"
        /\ e.job.message.type = "subscriptionReply"
        /\ e.job.message.subscriptionId = s

\* "Mutated under a single table-wide lock to avoid races between
\* reply-arrival and subscription-teardown": once the listener of a
\* subscription was told of the error its SubscriptionReply carried, it gets
\* no further call for that subscription.
NoCallbackAfterTeardown ==
    [][\A e \in listenerLog' \ listenerLog :
          ~TornDown(e.job.message.subscriptionId)]_vars
=============================================================================
