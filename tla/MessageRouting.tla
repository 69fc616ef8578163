--------------------------- MODULE MessageRouting ---------------------------
(***************************************************************************)
(* The path of an inbound message through the cluster controller:          *)
(*                                                                         *)
(*   MqttMessagingSkeleton (cluster-controller/mqtt/                       *)
(*   MqttMessagingSkeleton.cpp) decodes and validates the text the MQTT    *)
(*   client hands it, learns the sender's reply address and routes;        *)
(*   the MessageRouter keeps the routing table, forwards to a transport    *)
(*   sender or parks the message in the MessageQueue, and delivers what    *)
(*   is parked for a participant when its address is learned;              *)
(*   the MessageQueue (module MessageQueue) is swept by a timer.           *)
(*                                                                         *)
(* The router's source is not part of the repository: its operations are   *)
(* written from its contract and named Router...                           *)
(*                                                                         *)
(* Every receiver is a transport thread inside onTextMessageReceived.      *)
(* Decoding and validation touch no shared state and are one step; every   *)
(* later step is one access to the routing table or to the queue, each     *)
(* under its own lock.                                                     *)
(***************************************************************************)
EXTENDS Naturals, FiniteSets, Sequences

CONSTANTS
    Receivers,            \* transport threads delivering raw messages
    Participants,         \* participant ids
    Rank,                 \* sort order of the participant ids (MessageQueue)
    Addresses,            \* transport addresses
    SerializedAddresses,  \* what a reply-address header may hold
    AddressOf,            \* deserializeFromJson on a reply-address header:
                          \* the address, or NULL for std::invalid_argument
    RawMessages,          \* the texts the transport may deliver
    MaxTime,              \* bound: the clock runs from 0 to MaxTime
    MaxItems,             \* bound: items ever allocated by the queue
    MaxReceived,          \* bound: raw messages ever delivered
    FindFirst,            \* the value of MessageQueue's findFirst
    NULL

VARIABLES
    queue, now, sweep, ret, allocs, taken, deleted, reported,
    findFirst,      \* MessageQueue
    routingTable,   \* the router's table: participant -> address, or NULL
    pc,             \* pc[t]: where receiver t is inside onTextMessageReceived
    msg,            \* msg[t]: the JoynrMessage receiver t decoded
    received,       \* number of raw messages delivered so far
    outcome,        \* history: outcome[id], what became of the id-th message
    sent            \* history: what was handed to a transport sender, and
                    \* where to

queueVars == <<queue, now, sweep, ret, allocs, taken, deleted, reported, findFirst>>
vars == <<queueVars, routingTable, pc, msg, received, outcome, sent>>

\* The values of JoynrMessage::VALUE_MESSAGE_TYPE_... that
\* ReceivedMessageRunnable::run has a handler for.
KnownTypes ==
    { "request", "reply", "oneWay", "subscriptionRequest",
      "broadcastSubscriptionRequest", "subscriptionReply",
      "subscriptionPublication", "subscriptionStop" }

\* A decoded message; id numbers the deliveries (it is not the message id
\* header: a redelivered text gets a new id).
JoynrMessage ==
    [id : 1..MaxReceived, type : {r.type : r \in RawMessages},
     from : Participants, to : Participants,
     replyAddress : SerializedAddresses, expiryDate : 0..MaxTime]

ASSUME /\ AddressOf \in [SerializedAddresses -> Addresses \cup {NULL}]
       /\ \A r \in RawMessages :
            /\ r.parses \in BOOLEAN /\ r.payloadEmpty \in BOOLEAN
            /\ r.hasExpiry \in BOOLEAN /\ r.expiryDate \in 0..MaxTime
            /\ r.from \in Participants /\ r.to \in Participants
            /\ r.replyAddress \in SerializedAddresses
       /\ MaxReceived \in Nat /\ MaxItems >= MaxReceived

MQ == INSTANCE MessageQueue WITH Messages <- JoynrMessage

Outcomes ==
    {"none", "malformed", "badReplyAddress", "inFlight", "queued", "sent",
     "failureReported", "expired"}

-----------------------------------------------------------------------------
(* MqttMessagingSkeleton::onTextMessageReceived *)

\* The message deserializeFromJson yields for a text that parses; a text
\* without the expiry header yields a message without an expiry date.
Decoded(raw, id) ==
    [id |-> id, type |-> raw.type, from |-> raw.from, to |-> raw.to,
     replyAddress |-> raw.replyAddress,
     expiryDate |-> IF raw.hasExpiry THEN raw.expiryDate ELSE NULL]

\* The three checks before transmit; a text that fails one is dropped.
PassesValidationExpiryUnchecked(raw) == raw.type # "" /\ ~raw.payloadEmpty
PassesValidation(raw) == raw.type # "" /\ ~raw.payloadEmpty /\ raw.hasExpiry

Goto(t, label) == pc' = [pc EXCEPT ![t] = label]
Settle(id, what) == outcome' = [outcome EXCEPT ![id] = what]

OnTextMessageReceived(t, raw) ==
    /\ pc[t] = "idle"
    /\ received < MaxReceived
    /\ received' = received + 1
    /\ \/ /\ raw.parses /\ PassesValidation(raw)
          /\ msg' = [msg EXCEPT ![t] = Decoded(raw, received')]
          /\ Goto(t, "transmit")
          /\ Settle(received', "inFlight")
       \/ /\ ~(raw.parses /\ PassesValidation(raw))
          /\ Settle(received', "malformed")
          /\ UNCHANGED <<pc, msg>>
    /\ UNCHANGED <<queueVars, routingTable, sent>>

-----------------------------------------------------------------------------
(* The router, from its contract *)

Expired(m) == m.expiryDate < now

\* addNextHop: the entry of p is overwritten.
RouterAddNextHop(p, address) ==
    routingTable' = [routingTable EXCEPT ![p] = address]

\* A message is handed to the transport sender of an address unless it has
\* expired; a message taken from the queue is checked like any other.
RouterForward(m, address) ==
    \/ /\ Expired(m)
       /\ Settle(m.id, "expired")
       /\ UNCHANGED sent
    \/ /\ ~Expired(m)
       /\ sent' = sent \cup {[msg |-> m, address |-> address]}
       /\ Settle(m.id, "sent")

\* After a hop is learned the router takes the messages parked for that
\* participant, one getNextMessageForParticipant per step, until it yields
\* nullptr.
RouterDeliverQueued(t) ==
    /\ pc[t] = "deliver"
    /\ MQ!GetNextMessageForParticipant(msg[t].from)
    /\ \/ /\ ret'.val = NULL
          /\ Goto(t, "route")
          /\ UNCHANGED <<sent, outcome>>
       \/ /\ ret'.val # NULL
          /\ RouterForward(ret'.val.content, routingTable[msg[t].from])
          /\ UNCHANGED pc
    /\ UNCHANGED <<routingTable, msg, received>>

\* route: an expired message is dropped, a resolved one goes to the sender
\* of its address, an unresolved one is parked in a second step (the lock of
\* the table is released before the lock of the queue is taken).
RouterRoute(t) ==
    LET m == msg[t]
        address == routingTable[m.to]
    IN  \/ /\ Expired(m) \/ address # NULL
           /\ RouterForward(m, address)
           /\ Goto(t, "idle")
        \/ /\ ~Expired(m) /\ address = NULL
           /\ Goto(t, "enqueue")
           /\ UNCHANGED <<sent, outcome>>

\* route, the sender reports a delivery failure: a runtime exception.
RouterRouteThrows(t) ==
    /\ ~Expired(msg[t]) /\ routingTable[msg[t].to] # NULL
    /\ Goto(t, "idle")
    /\ UNCHANGED sent

RouterEnqueue(t) ==
    /\ pc[t] = "enqueue"
    /\ MQ!QueueMessage(msg[t])
    /\ Settle(msg[t].id, "queued")
    /\ Goto(t, "idle")
    /\ UNCHANGED <<routingTable, msg, received, sent>>

-----------------------------------------------------------------------------
(* MqttMessagingSkeleton::transmit *)

\* The types whose sender expects an answer and names its reply address.
CarriesReplyAddress(m) ==
    m.type \in {"request", "subscriptionRequest", "broadcastSubscriptionRequest"}

\* catch (std::invalid_argument): the message is not routed.
OnInvalidReplyAddressRoutes(t) ==
    /\ Goto(t, "route")
    /\ UNCHANGED outcome

OnInvalidReplyAddress(t) ==
    /\ Goto(t, "idle")
    /\ Settle(msg[t].id, "badReplyAddress")

\* transmit up to the call of route.
Transmit(t) ==
    /\ pc[t] = "transmit"
    /\ LET address == AddressOf[msg[t].replyAddress]
       IN  \/ /\ ~CarriesReplyAddress(msg[t])
              /\ Goto(t, "route")
              /\ UNCHANGED <<routingTable, outcome>>
           \/ /\ CarriesReplyAddress(msg[t]) /\ address # NULL
              /\ RouterAddNextHop(msg[t].from, address)
              /\ Goto(t, "deliver")
              /\ UNCHANGED outcome
           \/ /\ CarriesReplyAddress(msg[t]) /\ address = NULL
              /\ OnInvalidReplyAddress(t)
              /\ UNCHANGED routingTable
    /\ UNCHANGED <<queueVars, msg, received, sent>>

\* catch (JoynrRuntimeException) around route: onFailure(e) is called.
OnSendFailureSwallowed(t) ==
    UNCHANGED outcome

OnSendFailure(t) ==
    Settle(msg[t].id, "failureReported")

\* try { messageRouter.route(message) } catch { onFailure(e) }
Route(t) ==
    /\ pc[t] = "route"
    /\ \/ RouterRoute(t)
       \/ RouterRouteThrows(t) /\ OnSendFailure(t)
    /\ UNCHANGED <<queueVars, routingTable, msg, received>>

-----------------------------------------------------------------------------

Init ==
    /\ MQ!Init /\ findFirst = FindFirst
    /\ routingTable = [p \in Participants |-> NULL]
    /\ pc = [t \in Receivers |-> "idle"]
    /\ msg = [t \in Receivers |-> NULL]
    /\ received = 0
    /\ outcome = [id \in 1..MaxReceived |-> "none"]
    /\ sent = {}

Receiver(t) ==
    \/ \E raw \in RawMessages : OnTextMessageReceived(t, raw)
    \/ Transmit(t)
    \/ RouterDeliverQueued(t)
    \/ Route(t)
    \/ RouterEnqueue(t)

\* The timer thread sweeping the queue, and the clock.
Environment ==
    /\ MQ!RemoveOutdatedMessages \/ MQ!Tick
    /\ UNCHANGED <<routingTable, pc, msg, received, outcome, sent>>

Next == (\E t \in Receivers : Receiver(t)) \/ Environment

Spec == Init /\ [][Next]_vars

-----------------------------------------------------------------------------
(* Properties *)

TypeOK ==
    /\ MQ!TypeOK
    /\ routingTable \in [Participants -> Addresses \cup {NULL}]
    /\ pc \in [Receivers -> {"idle", "transmit", "deliver", "route", "enqueue"}]
    /\ \A t \in Receivers : pc[t] # "idle" => msg[t] \in JoynrMessage
    /\ received \in 0..MaxReceived
    /\ outcome \in [1..MaxReceived -> Outcomes]
    /\ sent \subseteq [msg : JoynrMessage, address : Addresses]

Ids(items) == {item.content.id : item \in items}

\* No message that passed the skeleton's validation disappears: at every
\* moment it is with exactly the party its outcome names - a receiver still
\* inside onTextMessageReceived, the queue (or the sweep that freed it), a
\* transport sender, the onFailure callback, or dropped as expired or for
\* its reply address.  A route() whose exception is swallowed, or a queued
\* item taken and forgotten, breaks it.
NoSilentLoss ==
    \A id \in 1..MaxReceived :
        /\ outcome[id] = "none" <=> id > received
        /\ outcome[id] = "inFlight" <=>
              \E t \in Receivers : pc[t] # "idle" /\ msg[t].id = id
        /\ outcome[id] = "queued" <=> id \in Ids(MQ!Queued) \cup Ids(deleted)
        /\ outcome[id] = "sent" <=> \E s \in sent : s.msg.id = id
        /\ id \in Ids(taken) => outcome[id] \in {"sent", "expired"}

\* A message that expects an answer is forwarded or parked only after the
\* reply address of its sender is in the routing table: transmit() does not
\* route a request whose reply address it could not decode.
ReplyPathLearnedBeforeForward ==
    \A m \in {s.msg : s \in sent} \cup {item.content : item \in MQ!Queued} :
        CarriesReplyAddress(m) => routingTable[m.from] # NULL

\* "Envelopes past their expiry are dropped without side effects": a
\* receiver leaving transmit() with an expired message has not changed the
\* routing table.
ExpiredHasNoSideEffect ==
    [][\A t \in Receivers :
          pc[t] = "transmit" /\ pc'[t] # "transmit" /\ Expired(msg[t])
              => routingTable' = routingTable]_vars

\* "The boundary validation rejects anything not in the known set": what
\* the skeleton lets through to a sender or into the queue has a type that
\* ReceivedMessageRunnable::run can dispatch.
OnlyKnownTypesForwarded ==
    \A m \in {s.msg : s \in sent} \cup {item.content : item \in MQ!Queued} :
        m.type \in KnownTypes

\* "Parked for later delivery once a hop is learned": when no receiver is
\* at work, no message is parked for a participant whose address the
\* routing table knows.
NoStrandedMessage ==
    (\A t \in Receivers : pc[t] = "idle") =>
        \A item \in MQ!Queued : routingTable[MQ!Key(item)] = NULL
=============================================================================
