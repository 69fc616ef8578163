# TLA+ models of the joynr cluster-controller core

This directory holds a model-checking project for the C++ sources under
`src/cpp`: the message queue, the MQTT ingress skeleton and the router it
drives, the dispatch of received messages, subscription callbacks, the
provider's listener registry, the client cache and access control.
`PROJECT.json` is the machine-readable index (components, runs, the map from
definitions to source lines, hazards, findings); this file explains it.

All modules are plain TLA+ and are checked with TLC:

    tlc -workers 2 -config <run>.cfg <MC module>

## 1. Inventory

### 1.1 What is in the repository

The repository is a slice of joynr. Some classes are present with their
implementation, some only as an interface or through their unit test, and some
that the others call are absent (`MessageRouter`, `Dispatcher`,
`SubscriptionManager`, `AccessController`, `JoynrMessage`). What is absent is
modelled from `spec.md` and marked `spec_modelled` in the map.

| Component | Source | State | Operations |
|---|---|---|---|
| MessageQueue | `libjoynr/joynr-messaging/MessageQueue.cpp` | `queue`: multimap participant id -> heap item (message, decay time); `queueMutex` | `queueMessage`, `getNextMessageForParticipant`, `removeOutdatedMessages`, `getQueueLength` |
| MQTT ingress skeleton | `cluster-controller/mqtt/MqttMessagingSkeleton.cpp` | none of its own (reference to the router) | `onTextMessageReceived` (decode, validate), `transmit` (learn reply address, route, report failure) |
| Router | absent; contract in `spec.md` 4.2, outbound interface `cluster-controller/include/joynr/IMessageSender.h` | routing table participant -> address, the MessageQueue | `addNextHop`, `route`, delivery of queued messages once a hop is learned |
| Received-message dispatch | `libjoynr/joynr-messaging/dispatcher/ReceivedMessageRunnable.cpp`, `libjoynr/include/joynr/IDispatcher.h` | the message and its decay time; the dispatcher's caller tables | `run` (expiry check, switch on type), `addReplyCaller`, `removeReplyCaller`, `addRequestCaller`, `removeRequestCaller`, `receive` |
| Subscription callback | `libjoynr/include/joynr/SubscriptionCallback.h`, `libjoynr/subscription/SubscriptionPublication.cpp` | listener, future, subscription manager | `execute(SubscriptionReply)`, `execute(SubscriptionPublication)`, `onError`, `onSuccess` |
| Provider listener registry | `libjoynr/include/joynr/AbstractJoynrProvider.h` | `attributeListeners`, `broadcastListeners` (name -> vector of listeners), `ReadWriteLock lock` | `registerAttributeListener`, `unregisterAttributeListener`, `registerBroadcastListener`, `unregisterBroadcastListener`, `onAttributeValueChanged`, `fireBroadcast`, `fireSelectiveBroadcast` |
| Client cache | `common/cache/ClientQCache.cpp`, `common/include/joynr/IClientCache.h` | cost-bounded cache of `CachedValue`, `mutex` | `lookUp`, `insert` |
| Access-control validator | `cluster-controller/access-control/AceValidator.h` (declaration) | three optional entries | `isValid`, `isMediatorValid`, `isOwnerValid` |
| Consumer-permission resolver | absent; protocol visible in `tests/unit-tests/AccessControllerTest.cpp` | per check: waiting for the interface-level or operation-level answer | `hasConsumerPermission`, the lookup's `consumerPermission` / `operationNeeded` callbacks |
| Publication value | `libjoynr/subscription/SubscriptionPublication.cpp`, `libjoynr/include/joynr/SubscriptionPublication.h` | subscription id, `shared_ptr` to the error, the `BaseReply` | constructors, copy, move, setters, `operator==`, `serialize`, `PrintTo` |
| Proxy connector | `libjoynr/joynr-messaging/AbstractJoynrMessagingConnector.cpp` | ids, qos, cache pointer | `operationRequest`, `operationOneWayRequest`, `sendRequest`, `sendOneWayRequest` (pure delegation) |
| Serializer | `common/include/joynr/serializer/Serializer.h`, `libjoynr/subscription/SubscriptionPublicationSerializer.h` | none | archive lookup, JSON (de)serialisation |
| Runtime wiring | `runtimes/cluster-controller-runtime/JoynrClusterControllerRuntime.h` | pointers to all of the above | `start`, `stop`, ... (declarations only) |
| Test fixtures | `tests/unit-tests/*.cpp`, `tests/utils/LibJoynrMockObjects.h` | | |

### 1.2 How the components interact

    MQTT client thread          worker threads            timer thread
          |                          |                         |
    onTextMessageReceived      ReceivedMessageRunnable::run   removeOutdatedMessages
          |  decode, validate        |  isExpired? switch(type)     |
    transmit                         v                              |
          |  addNextHop(from, reply) Dispatcher handlers            |
          |  route(message)            |  reply / subscription      |
          v                            v  callbacks                 v
       Router --- routing table     SubscriptionCallback       MessageQueue
          |  resolved: IMessageSender::sendMessage(address, message, onFailure)
          |  unresolved: MessageQueue::queueMessage
          |  hop learned: getNextMessageForParticipant until nullptr

* Calls: the skeleton calls the router; the router calls the queue and the
  transport senders; the runnable calls the dispatcher; the dispatcher calls
  the callbacks; a provider calls its listeners.
* Shared state: the queue (one mutex), the routing table (its own lock), the
  listener maps (one reader/writer lock), the cache (one mutex). Every thread
  of the process may call every operation.
* Callbacks: `onFailure` of a send, the future and the listener of a
  subscription, the attribute and broadcast listeners of a provider.
* Time: every message carries an absolute expiry date; the queue's sweep, the
  router and the runnable compare it with the wall clock.

### 1.3 What is hard

* The sweep iterates the multimap while other threads insert and erase; only
  the mutex keeps its iterator valid and its loop invariant true.
* The clock advances between the moment a decay time is compared and the
  moment the message is used; an item returned by
  `getNextMessageForParticipant` may be expired.
* The skeleton changes the routing table *before* the router looks at the
  expiry date, and validates the type only for emptiness.
* Lookup in the routing table and insertion into the queue are two critical
  sections; a hop learned between them finds nothing to deliver.
* Reply, publication and stop messages of one subscription are dispatched by
  different worker threads, in any order, possibly twice (MQTT redelivery).
* `fireBroadcast` writes to a `std::map` under a read lock.
* Listeners run while the registry's lock is held.

### 1.4 What makes each component correct

| Component | Properties |
|---|---|
| MessageQueue | every item has exactly one owner (container, caller or freed); the sweep removes exactly the entries outdated at the time it read, counts them, and never drops a live one; entries of one participant leave in arrival order; an outdated entry is eventually removed; the queue implements the abstract MessageStore |
| Ingress + Router | a malformed message changes nothing; a request is forwarded only after its reply hop was learned; nothing is sent after its expiry; the last hop learned wins; a failed send is reported exactly once; a queued message is delivered once its hop is known |
| Dispatch | an expired message reaches no handler; every known type reaches exactly its handler; an unknown type never gets this far |
| Subscription callback | the subscription is unregistered before anyone learns of its error; the future is resolved before the listener is told; no call on the listener after its error |
| Listener registry | no write to a map while another thread reads or writes it; a loop over a vector never sees it change; every listener registered is informed once per notification; every call gives the lock back |
| Client cache | cumulative cost within capacity; no entry read after the cache deleted it; a lookup yields the last value inserted for the key or nothing, and every call takes effect at one instant: the cache implements the atomic `AttributeCache` |
| Access control | the owner's permissions within what the master allows; the permission callback fires exactly once, `true` only for YES; the operation-level lookup only for a request that decodes; a check whose lookup answers ends with a verdict |

Section 4 says which of these are checked and hold, section 5 which do not
hold of the code, and section 6 which are not checked because the code that
would keep them is not in the repository (the router's expiry check, the
validator, the access controller).


## 2. Plan

Modules, in the order they are written. The first two are the path every
inbound message takes and come first.

| # | Module | What it is | State |
|---|---|---|---|
| 1 | `MessageQueue`, `MessageStore`, `MCMessageQueue` | the queue with its mutex, its sweep loop and the clock; the abstract store it implements | done |
| 2 | `MessageRouting`, `MCMessageRouting` | the MQTT skeleton, the router and the queue composed (`INSTANCE MessageQueue`); receiver threads, the delivery of parked messages, the sweep and the clock interleave | done |
| 3 | `Dispatch`, `MCDispatch` | worker threads running `ReceivedMessageRunnable`, and `SubscriptionCallback::execute` call by call; late, duplicated and reordered replies and publications; the proxy connector handing requests to the sender | done, without the caller tables of the dispatcher |
| 4 | `ProviderListeners`, `MCProviderListeners` | the reader/writer lock and the two listener maps; overlapping lookups for data races | done |
| 5 | `ClientCache`, `AttributeCache`, `MCClientCache` | the cost-bounded cache behind its mutex, with the addresses of the cached values; the atomic cache of `IClientCache` that it implements | done |
| 6 | `AccessControl`, `MCAccessControl` | the two-step permission check, written from its contract | done as a protocol model; no property of code rests on it (section 3.6) |
| 7 | `Publication`, `MCPublication` | `SubscriptionPublication` as a value with a shared error object, and the serializer's entry points applied to it | done |
| 8 | composition of 2 and 3 | a message accepted by the skeleton, routed to the local dispatcher and dispatched | not written: the code between the two is not in the repository (section 6) |

What is left, and why it stays open:

* Step 8. `MessageRouting` ends at the transport sender and `Dispatch` begins
  at `Dispatcher::receive`. What joins them is an in-process address in the
  routing table, an in-process sender and the dispatcher's `receive`; none
  of the three is in the repository, and `spec.md` names them without giving
  their steps. A composition would check glue that was made up for it.
* The caller tables of `IDispatcher` (`addReplyCaller`, `removeReplyCaller`,
  `addRequestCaller`, `removeRequestCaller`): a reply racing the timeout of
  its caller, a request racing the removal of its provider. The repository
  declares the four methods and has no body for any of them; the connector
  only delegates to a message sender that is absent as well. A property of
  such a table would be a property of the model's own invention.
* `AceValidator`: `AceValidator.h` declares the constructor and the three
  checks; the rules they apply are in no file of the repository.
* An abstract one-shot correlation for the subscription, with a refinement
  like `ImplementsMessageStore` and `ImplementsAttributeCache`: a refinement
  is a temporal formula, the run would go without symmetry, and the state
  space of `dispatch_safety` grows several times over.
  `UnregisteredBeforeErrorReported` states the same promise as an invariant.
* Liveness of what waits: a register or unregister gets the lock although
  readers keep arriving (needs the policy of `ReadWriteLock`, which is not in
  the repository); every submitted runnable is run (`run()` and `execute`
  have no loop and no wait, so this is a property of the thread pool).
* The listener called under the lock calling back into the provider (hazard
  at `AbstractJoynrProvider.h:118`): needs a model of what a listener does,
  and the repository has no listener but the mocks of the tests.

## 3. Modules

Every module has the same layout: constants with their assumptions, the
variables with what they stand for in the code, one action per operation or
per step of an operation, `Init`, `Next`, `Spec`, and the properties at the
end. A definition that is the deliberately wrong form of the one after it
(`SuccessorOfErasedSkips` before `SuccessorOfErased`) is a mutation of the code; section 4.3
says what they are for. History variables are written by the actions and read
only by properties.

Code that the repository calls and does not contain is written from
`spec.md`; `PROJECT.json` marks those definitions `spec_modelled`.

### 3.1 MessageQueue

`MessageQueue.tla` models `MessageQueue.cpp`.

| Code | Model |
|---|---|
| `queue` (multimap, sorted by key, equal keys in insertion order) | `queue`, the sequence an iteration of the multimap yields; `Rank` gives the keys' order |
| `queueMutex` | `LockFree`: a call enters only while no sweep is running; the other three operations hold the mutex for one step |
| `new MessageQueueItem` | `allocs + 1` is the new item's address |
| `queueMessage` | `QueueMessage(m)`: insert at `InsertionPoint` (upper bound of the key), return the size |
| `getNextMessageForParticipant` | `GetNextMessageForParticipant(p)`: `Found` is what `find` may yield; erase and return it, or return `NULL` |
| `removeOutdatedMessages` | `SweepBegin` (empty check, read the clock, `begin()`), `SweepErase` / `SweepAdvance` (one iteration), `SweepEnd` (return the counter); `SuccessorOfErased` is the iterator `erase` returns, `Successor` is `++it`, `Counted` is `counter++` |
| `getQueueLength` | `GetQueueLength` |
| `system_clock::now()` | `now`, advanced by `Tick` at any time, also during a sweep |

`taken`, `deleted` and `reported` are history variables: who got an item and
what the sweeps returned.

`findFirst` is the standard library of the build, chosen in `Init` and never
changed: the C++ standard lets `multimap::find` yield any of several equal
keys (`FALSE`), libstdc++, libc++ and MSVC yield the first (`TRUE`).
`MessageRouting` fixes it with its constant `FindFirst`.

`MessageStore.tla` is the abstract specification: a set of entries, `Put`,
`Take`, `Expire` (only when the decay time is in the past) and `Tick`.
`MessageQueue` implements it under the mapping `store <- ToSet(queue)`,
`handed <- taken`.

### 3.2 MessageRouting

`MessageRouting.tla` models `MqttMessagingSkeleton.cpp` and the router it
calls, over an instance `MQ` of `MessageQueue`. The router is not in the
repository; `RouterAddNextHop`, `RouterDeliverQueued`, `RouterRoute`,
`RouterForward` and `RouterEnqueue` follow `spec.md` 4.2 and 5.

A receiver is a transport thread inside `onTextMessageReceived`; `pc[t]` says
where.

| Code | Model |
|---|---|
| `onTextMessageReceived`: deserialize, catch `std::invalid_argument`, the three validation checks | `OnTextMessageReceived(t, raw)`: one step, since it touches no shared state. A raw message is a record of what the code tells apart (`parses`, `type`, `payloadEmpty`, `hasExpiry`, sender, destination, reply address, expiry date); `Decoded` makes the `JoynrMessage` of it |
| `transmit`: request-like types carry a reply address | `CarriesReplyAddress(m)` |
| `transmit`: deserialize the reply address, `addNextHop` | `Transmit(t)`; `AddressOf` is the deserializer, `NULL` for `std::invalid_argument`; `OnInvalidReplyAddress` is the `catch` that returns without routing |
| the router delivering what was parked for the sender | `RouterDeliverQueued(t)`: one `getNextMessageForParticipant` per step, until it yields `nullptr` |
| `try { route } catch (JoynrRuntimeException) { onFailure }` | `Route(t)`: `RouterRoute` (drop if expired, send if resolved, else go on to park), or `RouterRouteThrows` with `OnSendFailure` |
| `queueMessage` for an unresolved destination | `RouterEnqueue(t)`, a step of its own: the table's lock is released before the queue's mutex is taken |
| the timer thread and the clock | `Environment`: `MQ!RemoveOutdatedMessages` or `MQ!Tick` |

`outcome[id]` (history) says what became of the id-th raw message; `sent`
(history) what was handed to a transport sender, to which address and when.

### 3.3 Dispatch

`Dispatch.tla` models `ReceivedMessageRunnable.cpp`,
`SubscriptionCallback.h` and `AbstractJoynrMessagingConnector.cpp`. The thread
pool (`Take`, `Finish`), `Dispatcher::receive`, the lookup of the callback by
subscription id (`Execute`) and `unregisterSubscription` are outside the
repository and follow `spec.md` 3, 4.6 and 5. The dispatcher's handlers of
the other message types are a step that records the type and the message in
`dispatched` and no more.

| Code | Model |
|---|---|
| `Dispatcher::receive` (declared in `IDispatcher.h`, body absent) | `Receive(m)`: a runnable with the message and its decay time joins `pool`; written from `spec.md` 4.6 |
| constructor: `ObjectWithDecayTime(message.getHeaderExpiryDate())` | `DecayTimeOf(m)`: the absolute expiry date |
| `run()`: `if (isExpired()) return;` | `Drops(r)` |
| `run()`: the `if / else if` chain over the type | `Handler`, a function from the eight types to their handlers |
| `run()`: the final `else { assert(false); }` | third disjunct of `Run`: the process aborts in a debug build and goes on in a release build (`ndebug`, chosen in `Init`) |
| `execute(const SubscriptionReply&)` | `ExecuteErrorReply`, `ExecuteSuccessReply`: the calls it makes, in the order the code makes them |
| `execute(SubscriptionPublication&&)` | `ExecutePublication(m)` |
| one call of `execute` | `UnregisterSubscription(w)`, `FutureCall(w)`, `ListenerCall(w)`: the worker makes the next call of its `plan`; other workers run between two calls, because the callback holds no lock |
| the arguments of `joynrMessageSender->sendRequest(proxyParticipantId, providerParticipantId, ...)` | `Outbound(type, payload)`: what goes out carries the proxy's and the provider's participant id |
| `operationRequest` → `sendRequest` | `OperationRequest(q)`: `SendRequest(q)` hands the request to the sender, which is all the connector does; the request is recorded in `sent` |
| `operationOneWayRequest` → `sendOneWayRequest` | `OperationOneWayRequest(r)`: likewise |

`futureLog`, `listenerLog`, `sent` and `dispatched` are history variables.
The reply caller that the sender registers for a request, its timeout and the
handler of a reply are not modelled (section 6).

### 3.4 ProviderListeners

`ProviderListeners.tla` models `AbstractJoynrProvider.h`. The bodies of the
four register/unregister methods live in the `.cpp`, which is not in the
repository; they follow the comments of their declarations and the design
note on the listener registries in `spec.md` 9 (append under the write lock; remove the
first occurrence and delete the listener).

| Code | Model |
|---|---|
| `ReadWriteLock lock` | `lock = [writer, readers]`; `WriteLockFree`, `ReadLockFree` |
| `WriteLocker`, `ReadLocker` | `WriteLock(t, c)`, `ReadLock(t, c)`; `Leave(t)` at the end of the scope |
| `attributeListeners`, `broadcastListeners` | functions from the names present to sequences of listeners |
| `find(attributeName)` and the `if (it != end())` | `LookupAttribute(t)`: reads only; for an absent name there is nothing to iterate |
| `broadcastListeners[broadcastName]` | `LookupBroadcast(t, op)` with `Subscript(map, name)`: an absent name is inserted. Two overlapping lookups that both insert are a data race; of the outcomes a build can produce the model keeps "both inserts happen" and "one is lost" |
| the range-for over the vector | `BeginLoop` reads `end()` into `last`; `Inform(t)` calls the listener at `cursor` and advances; `ReadUnlock(t)` after the last, where `ReleaseRead(t)` is the destructor of the `ReadLocker` |
| the three notifying methods | `OnAttributeValueChanged`, `FireBroadcast`, `FireSelectiveBroadcast`, each the disjunction of its steps |

A lookup lasts from one step to the next so that the lookups of two readers
overlap. The filter parameters of a selective broadcast are data and left
out. `notified` (history) is what a loop has informed so far.

`Proceed(t)` is the disjunction of the steps a thread takes once it is inside
a call (the store of a register or unregister, the lookup, `Inform`,
`ReadUnlock`), and `FairSpec` makes it weakly fair for every thread.

### 3.5 ClientCache

`ClientCache.tla` models `ClientQCache.cpp`. The cache template itself
(`contains`, `object`, `insert` with eviction of the least recently used
entries and deletion of what leaves) is outside the repository; `IndexOf`,
`CacheContains`, `ObjectOf`, `Touched` and `Inserted` follow its contract.

| Code | Model |
|---|---|
| `cache.setCacheCapacity(MAX_CUMMULATIVE_CACHE_COST)` | `Capacity == MaxCost` |
| `std::lock_guard<std::mutex>` | `Lock(t, c)` guarded by `MutexFree`; `Return(t)` releases |
| `lookUp`: `if (!cache.contains(id)) return boost::any()` | `LookUpMiss(t)` |
| `lookUp`: `entry = cache.object(id)` | `LookUpObject(t)`: `entry[t]` is an address |
| `lookUp`: `return entry->getValue()` | `LookUpGetValue(t)`: reads `heap` at that address |
| `insert`: `new CachedValue`, `cache.insert(id, entry)` | `InsertStore(t)`: a new address, `Inserted`, and what left the cache joins `freed` |

The steps of one call are separate actions although the mutex makes them
atomic: the properties hold *because* of the mutex, and the mutation that
ignores it shows the difference.

`AttributeCache.tla` is the cache as `IClientCache.h` describes it to its
clients, without mutex, addresses or steps: `store` maps every attribute id
to its value or to nothing and `pending[t]` is the call a client has made.
`Invoke(t, c)` begins a call; `LookUp(t)` gives it `store` at its id and
`Insert(t)` overwrites the value of its id and may let other ids go (the
interface does not say that a value stays; `ClientQCache` evicts at its
capacity), each at one instant and ending the call. `ClientCache`
instantiates it with `store <- Content` (for every id the value at the
address of its entry), `pending <- call` and `result <- ret`. `Lock` is the
`Invoke` of the abstract cache, `LookUpObject` a stuttering step,
`LookUpMiss` and `LookUpGetValue` its `LookUp`, `InsertStore` its `Insert`.
In the abstract cache the value of an id is that of its last insert until
the id goes, so that a lookup never yields an older one.

### 3.6 AccessControl

`AccessController` is not in the repository; `AccessControllerTest.cpp` shows
how it is driven, and `spec.md` 3 and 4.5 give its contract.
`AccessControl.tla` is written from that contract, and every definition of it
is `spec_modelled`: `HasConsumerPermission(c)` starts the interface-level
lookup; the lookup answers later with `ConsumerPermission(c)` (the callback
takes any permission, ASK included) or with `OperationNeeded(c)`, which
decodes the request and resolves at operation level, or refuses if the
payload is no request (`Decodes(c)`, `Refuse(c)`). `Verdict(c, permission)`
is what the caller's callback gets, `Grants(permission)` the boolean it
carries. How the lookup derives a permission from the entries is outside the
repository, so a lookup may answer any permission.

The module records the protocol for the day the class is at hand. Its run
checks that the model is well formed (`TypeOK`); it states no property of the
check itself, because a property over definitions written from the contract
would hold of the contract and say nothing of code.

`AceValidator.h` declares the validator and gives no body; it is not
modelled (section 6).

### 3.7 Publication

`Publication.tla` models `SubscriptionPublication.cpp`,
`SubscriptionPublication.h` and the entry points of `Serializer.h`. An object
is a record of its members; `error` is an address of `heap` (the exception
objects that `shared_ptr` keeps alive) or `NULL`. The archives (muesli) and
`util::invokeOn` are outside the repository: an archive writes the record of
the members that `serialize()` hands to it, the error by value.

| Code | Model |
|---|---|
| the two constructors, `NULL_RESPONSE` | `NullResponse`, `FromReply(r)`, `Construct(o)` |
| `setSubscriptionId`, `setError`, the getters | `SetSubscriptionId(o, id)`, `SetError(o)` (null, the error of another object, or a new exception), `GetSubscriptionId`, `GetError` |
| `operator=(const&)`, `operator=(&&)` (defaulted) | `CopyAssign(o, from)` shares the address; `MoveAssign(o, from)` leaves a null error and an empty response behind, and either string a build may leave |
| `operator==`, `operator!=` | `Equals(p, q)`, `NotEquals(p, q)`: the pointers first, then the exceptions they point to |
| `serialize(Archive&)`, `MUESLI_REGISTER_TYPE` | `Serialized(p)` |
| `PrintTo` | `PrintTo(o)`: the subscription id and the error's address |
| `getArchive` | `GetArchive(id, registered)`: the position of the first registered archive with the id, 0 for `std::invalid_argument` |
| `getOutputArchive` / `getInputArchive` and the call of the archive | `Save(id, o)`, `Load(id, o)`: `Throw`, or `Write(o)` / `Read(o)` |
| `serializeToJson`, `deserializeFromJson` | `SerializeToJson(o)`, `DeserializeFromJson(o)`: `Write` and `Read` without the lookup |

A stream that does not parse is not modelled here; `MessageRouting` has it
where the skeleton decodes a message.

## 4. Runs

    tlc -workers 2 -config <cfg> <module>

### 4.1 Runs that pass

| Run | Module, cfg | Distinct states | Checks | Shows |
|---|---|---|---|---|
| `mq` | `MCMessageQueue`, `MessageQueue.cfg` | 254,650 | `TypeOK`, `SingleOwner`, `SweepLoopInvariant`, `SweepCountsRemovals`, `ImplementsMessageStore`, `FifoPerParticipant`, `OutdatedEventuallyRemoved` | for both behaviours of `find` and with the sweep timer fair: no item is lost, duplicated or freed while a caller owns it; the sweep's loop skips nothing after an `erase` and returns the number it removed; the queue drops only entries whose decay time has passed (refinement of `MessageStore`); where `find` yields the first entry, messages of one participant leave in arrival order; an outdated entry does not stay for ever |
| `route_safety` | `MCMessageRouting`, `MessageRouting_safety.cfg` | 1,022,620 | `TypeOK`, `NoSilentLoss`, `ReplyPathLearnedBeforeForward` | two receivers, the sweep and the clock interleaved: every accepted message is with exactly one party at every moment; no request is forwarded or parked before its reply path is in the table |
| `dispatch_safety` | `MCDispatch`, `Dispatch_safety.cfg` | 770,244 | `TypeOK`, `ExpiredNeverDispatched`, `UnregisteredBeforeErrorReported`, `FutureResolvedBeforeListenerTold` | a proxy and two workers, both builds: no handler gets an expired message however long the runnable waited; `execute` unregisters before it reports an error and resolves the future before it tells the listener |
| `listeners_safety` | `MCProviderListeners`, `ProviderListeners_safety.cfg` | 115,767 | `TypeOK`, `IterationStable`, `EveryListenerInformedOnce`, `LockGivenBack` | two threads: a loop over the listeners never sees its vector change or a deleted listener, and informs every listener of the name once, in the order of registration; a thread that took the lock, for writing or for reading, gives it back whatever the other thread does meanwhile |
| `cache_safety` | `MCClientCache`, `ClientCache_safety.cfg` | 87,541 | `TypeOK`, `EntryAliveWhileRead`, `CostBoundedAndNothingLeaks`, `ImplementsAttributeCache` | two threads, three keys, capacity two: no `CachedValue` is read after the cache deleted it, none leaks, the cost stays within the capacity; every behaviour of the two threads is a behaviour of `AttributeCache`, in which each call happens at one instant, so that a lookup yields what the cache holds for its id and never an older value than the last insert |
| `access_safety` | `MCAccessControl`, `AccessControl_safety.cfg` | 2,197 | `TypeOK` | three checks in flight: the protocol written from the contract is well formed, and a check is over exactly when it has its permission. The run says nothing of code (section 3.6) |
| `publication` | `MCPublication`, `Publication.cfg` | 472,800 | `TypeOK`, `EqualsIsEqualityOfValues`, `RoundTripPreservesValue` | two objects constructed, set, copied, moved, printed, written and read in any order: `operator==` is equality of values whether two objects share an exception or hold two equal ones; what is read from the stream equals what was written, by the registered archive or by the JSON entry points, and an id without a registered archive throws |

Between them these runs take every action and every disjunct of every
`Next`.

### 4.2 Runs that find a violation

Each checks one statement of `spec.md` (or of a comment) against what the
code does; section 5 discusses them.

| Run | Cfg | Property | Counterexample |
|---|---|---|---|
| `route_expired` | `MessageRouting_expired.cfg` | `ExpiredHasNoSideEffect` | a request whose expiry date has passed when `transmit` runs: `addNextHop` is called all the same, `route` drops the message afterwards |
| `route_types` | `MessageRouting_types.cfg` | `OnlyKnownTypesForwarded` | a message of type "ping" passes validation and is parked |
| `route_stranded` | `MessageRouting_stranded.cfg` | `NoStrandedMessage` | receiver 1 finds no address for p1 and is about to park a reply; receiver 2 learns p1's address and drains the empty queue; receiver 1 parks |
| `dispatch_teardown` | `Dispatch_teardown.cfg` | `NoCallbackAfterTeardown` | both workers find the callback of the subscription, one for its error reply, one for another of its messages; the first executes the error reply to its end; the second calls the listener |
| `listeners_race` | `ProviderListeners_race.cfg` | `NoDataRace` | two threads in `fireBroadcast` for names without listeners, both under the read lock, both inserting |

### 4.3 Mutations

For every property of a passing run `PROJECT.json` names a mutation: a
definition of the model replaced by the form a plausible bug would give it
(the operator defined just before it). Under the run's own configuration TLC
finds the property violated for each of them, which shows that the property
depends on that piece of code:

| Property | Mutation |
|---|---|
| `SingleOwner` | `getNextMessageForParticipant` returns the item and leaves it in the container |
| `SweepLoopInvariant` | the sweep advances the iterator after `erase` |
| `SweepCountsRemovals` | the sweep does not count an erased entry |
| `ImplementsMessageStore` | outdated means `<=` instead of `<` |
| `FifoPerParticipant` | insertion at the lower bound of the key |
| `OutdatedEventuallyRemoved` | the sweep does not advance past a live entry |
| `NoSilentLoss` | the `catch` around `route` swallows the exception |
| `ReplyPathLearnedBeforeForward` | `transmit` routes after a reply address that does not decode |
| `ExpiredNeverDispatched` | `run()` without the `isExpired()` return |
| `UnregisteredBeforeErrorReported` | `execute` reports first and unregisters last |
| `FutureResolvedBeforeListenerTold` | `execute` calls the listener first |
| `IterationStable` | `ReadLocker` does not wait for a writer |
| `EveryListenerInformedOnce` | the test of `find`'s result fails for a name that is present |
| `EntryAliveWhileRead` | `lock_guard` missing |
| `CostBoundedAndNothingLeaks` | the constructor does not set the capacity |
| `ImplementsAttributeCache` | `insert` keeps an entry that is present (a missing `lock_guard`, with which a lookup returns the value of an entry replaced since, violates it as well) |
| `LockGivenBack` | a notification returns and keeps the lock for reading |
| `EqualsIsEqualityOfValues` | `operator==` compares the pointers only |
| `RoundTripPreservesValue` | `serialize()` leaves the error out |
| the `TypeOK`s | a decay time relative to `now`, validation without the expiry header, a cursor that skips, a lookup without the `contains` test, a verdict without a resolved permission, a `PrintTo` that writes the message of the error |

### 4.4 Bounds

| Bound | Value | Why it is enough |
|---|---|---|
| participants | 2 | one key with several entries next to another key: all the multimap's order can show |
| `MaxTime` (queue) | 2 | every relation between a decay time and `now` (before, equal, after), and a tick during a sweep |
| `MaxItems` | 3 | two entries of one key beside one of another; two adjacent outdated entries (what a loop that skips after `erase` needs); an outdated entry between live ones |
| receivers | 2 | every race in routing is between two threads: one in `route`, one in `addNextHop` and the drain |
| `MaxReceived` | 3 | a message parked, the request that teaches its hop, and a third that arrives meanwhile |
| `MaxTime` (routing, dispatch) | 1 | expiry dates 0 and `MaxTime`: one message that expires at the tick and one that never does |
| raw messages | 13 | one of every kind the skeleton tells apart: requests with each reply address (two that decode, one that does not) and replies, each expiring at 0 and at `MaxTime`; an unknown type; one message failing each of the four checks of `onTextMessageReceived` |
| workers | 2 | the callback has no lock: one worker inside `execute`, one entering |
| `MaxSubmitted` | 3 | an error reply, a publication found before the unregistration, and a duplicate |
| threads (listeners, cache) | 2 | a reader/writer lock and a mutex tell apart "one inside" and "another wants in" |
| names, listeners | 2, 2 | a present and an absent name; a vector of two, so that a removal changes what a stale `end()` means |
| keys, `MaxCost` | 3, 2 | `MaxCost` stands for the capacity of 1000 at cost 1 per entry; three keys overflow a capacity of two, so that eviction, replacement and a miss after eviction all happen |
| values, `MaxAllocs` | 2, 4 | an older and a newer value of a key; four inserts fill the cache, evict and replace |
| checks | 3 | permission checks whose callbacks interleave, each with a payload that decodes or does not |
| requests, one-way requests | 1, 1 | the proxy hands over one of each while the workers dispatch |
| objects (publication) | 2 | one written and one read, one copied or moved from the other |
| subscription ids, responses | 1, 1 | beside the empty ones: equal and unequal members |
| exceptions, `MaxErrors` | 2, 3 | two objects holding equal errors at two addresses, unequal errors, or one error shared; the third allocation lets an object read from a stream hold a copy of an error while both originals are still alive |
| archive ids | 2 | one registered for input and output, one not registered |

Symmetry sets (`Permutations` of receivers, of workers, of threads and
listeners) are used only in runs that check invariants alone. `mq`,
`listeners_safety`, `cache_safety` and `publication` check temporal formulas
and use none; `access_safety` is small enough without.

### 4.5 Fairness

Two runs assume fairness (`FairSpec`), each of the steps the code owes and
of nothing else:

* `mq`: weak fairness of `SweepBegin`, because the owner of the queue calls
  `removeOutdatedMessages` from a periodic timer (`spec.md` 4.1), and of the
  loop body and `SweepEnd`, because a thread that holds the mutex and is
  running is scheduled. Nothing is assumed of producers, consumers or the
  clock.
* `listeners_safety`: weak fairness of `Proceed(t)`, the steps of a thread
  that is inside a call. Such a thread holds the lock and waits for nothing,
  and the callback of a listener returns (it hands the value to the
  publication manager). Nothing is assumed of a thread that is about to call:
  it may never call, and a call that waits for the lock is enabled only now
  and then, so that weak fairness promises it nothing; strong fairness would
  assume a policy of `ReadWriteLock` that the repository does not show.

The other runs check safety under `Spec`.

### 4.6 Deadlock

Deadlock is checked in the runs of the queue, of routing, of the listener
registry, of the cache and of the publication: some thread can always enter a
call or leave the one it is in. It is switched off in two places, where the system may stop:
`Dispatch` (a failed `assert` ends the process, and the bounded stream of
messages ends with idle workers) and `AccessControl` (a finite set of checks,
each of which ends).

## 5. Findings

1. **An expired request still changes the routing table**
   (`MqttMessagingSkeleton.cpp:48`, run `route_expired`). `transmit` calls
   `addNextHop(from, replyAddress)` before anything compares the expiry date
   with the clock; `route` drops the message afterwards. A late or redelivered
   request therefore overwrites the routing entry of its sender. `spec.md`
   8 says an expired envelope is dropped without side effects.
2. **Validation lets unknown types through** (`MqttMessagingSkeleton.cpp:73`,
   run `route_types`). Only an empty type is rejected. A message of a type
   `ReceivedMessageRunnable::run` has no branch for is routed and parked like
   any other, which makes the `assert(false)` of
   `ReceivedMessageRunnable.cpp:78` reachable from the network; `Dispatch`
   shows both outcomes (abort in a debug build, silence in a release build).
3. **A parked message can miss the hop it waits for**
   (`MqttMessagingSkeleton.cpp:61`, run `route_stranded`). The lookup in the
   routing table and the insertion into the queue are two critical sections
   under two locks. A hop learned between them drains an empty queue, and the
   message stays parked although its address is known, until another hop for
   the participant is learned or the sweep removes it. `spec.md` promises
   delivery "once a hop is learned" and does not say how the two are
   serialized: a gap of the specification.
4. **A listener is called after it was told of the error**
   (`SubscriptionCallback.h:79`, run `dispatch_teardown`). `execute` of an
   error reply unregisters the subscription and then calls `onError`, but a
   worker that found the callback before the unregistration delivers its
   publication afterwards; the callback has no lock and does not ask whether
   it is still registered. `spec.md` 5 says the table-wide lock avoids races
   between reply arrival and teardown.
5. **`fireBroadcast` writes to a `std::map` under a read lock**
   (`AbstractJoynrProvider.h:154`, also `:137`, run `listeners_race`).
   `broadcastListeners[broadcastName]` inserts the name if no listener was
   registered for it; `ReadLocker` admits several threads at once; two of
   them inserting is undefined behaviour. `onAttributeValueChanged` uses
   `find` and is not affected.

Observations that no run is about:

* `spec.md` 9 says the queue does not preserve arrival order. With the
  standard libraries in use it does, per participant (`FifoPerParticipant`
  is stated for `findFirst`); with what the C++ standard promises of
  `multimap::find` it does not.
* `SubscriptionPublication.cpp:84-85`: in `PrintTo`, `<<` binds tighter than
  `?:`, so the stream receives the pointer and the chosen string is
  discarded; on a stream that has failed the conditional would call
  `getMessage()` through a null error. It affects test output only;
  `Publication!PrintTo` records what is written.
* `spec.md` 4.6 has a publication that carries an error unregister the
  subscription and take the error path of the future;
  `SubscriptionCallback::onError` calls the listener's `onError` and nothing
  else (`ExecutePublication`).
* `getArchive` depends on what `util::invokeOn` returns when no archive
  matched; the model follows the name of the variable it is assigned to
  (`foundSerializer`).

## 6. What is not modelled

* The archives behind the serializer (muesli) and a stream that does not
  parse in `Publication`; `SubscriptionPublicationSerializer.h` declares the
  two specialisations and no more.
* `JoynrClusterControllerRuntime.h`: a class declaration, members and method
  signatures without a body; what the runtime does with them is in a `.cpp`
  that the repository does not have.
* The capabilities registrar: the repository has its unit test against mocks
  (`CapabilitiesRegistrarTest.cpp`), not the class. The request callers of
  `IDispatcher` that it fills are left out with it.
* The message sender between the connector and the router
  (`JoynrMessageSender`): an outbound request ends in `sent` of `Dispatch`
  and is not handed to `MessageRouting`. With it go the reply caller it
  registers for a request, the timeout of that caller and the dispatcher's
  handler of a reply: that the caller of a request is told exactly once, of
  a value, an error or the timeout, is a promise of `spec.md` that no code of
  the repository keeps or breaks.
* `AceValidator`: the header declares the constructor, `isValid`,
  `isMediatorValid` and `isOwnerValid`; the rules are in a `.cpp` that the
  repository does not have. That an owner entry stays within the master
  entry is therefore not checked.
* What the consumer-permission check promises (one answer per check, `true`
  only for YES, the operation-level lookup only for a request that decodes):
  `AccessControl` has the protocol, and the run checks its type invariant
  only (section 3.6).
* The router's comparison of the expiry date with the clock before it sends:
  the router is not in the repository, `RouterForward` has the guard from
  `spec.md` 4.2, and no property is stated over it.
* How the local domain access controller computes a permission from the
  entries: neither the repository nor `spec.md` says, and a lookup of the
  model may answer any permission.
* The composition of `MessageRouting` and `Dispatch` (section 2, step 8).
* A clock that is set back: `isExpired()` and the sweep read
  `std::chrono::system_clock`; the models let `now` only grow.
* Payload contents, logging, the wording of errors, the generated value types
  and the mocks of the unit tests.

`PROJECT.json` lists four hazards without a property and says why: the queue
has no bound on its length (`MessageQueue.cpp:44`), an item taken from the
queue may have expired since it was parked, and it is the absent router that
has to look (`MessageQueue.cpp:56`), a listener is called while the
registry's lock is held (`AbstractJoynrProvider.h:118`), and `PrintTo`
dereferences the error on a failed stream (`SubscriptionPublication.cpp:84`).

What the map does not cover of the files under `src/` is, apart from the
runtime's declaration, licence headers, include lists, documentation comments
and the pure declarations of `IMessageSender.h`, `IBroadcastListener.h`,
`IDispatcher.h`, `IClientCache.h`, `SubscriptionPublicationSerializer.h` and
`AceValidator.h`. The definitions that stand for the bodies behind
declarations, and those that stand for what a unit test expects of an absent
class, are written from `spec.md` and marked `spec_modelled`; they are not
mapped to the declarations or to the tests, which they do not translate.
