----------------------------- MODULE Publication -----------------------------
(***************************************************************************)
(* SubscriptionPublication (libjoynr/subscription/SubscriptionPublication  *)
(* .cpp, include/joynr/SubscriptionPublication.h): the value a provider    *)
(* publishes to a subscriber, a BaseReply with a subscription id and an    *)
(* error held through a shared_ptr; and the entry points of the serializer *)
(* (common/include/joynr/serializer/Serializer.h) that write and read it.  *)
(*                                                                         *)
(* An exception object is an address of `heap`; copies of a publication    *)
(* share it, a publication read from a stream gets a new one.  The archive *)
(* classes themselves are outside the repository: what an archive writes   *)
(* is the record of the fields that serialize() hands to it.               *)
(***************************************************************************)
EXTENDS Naturals, FiniteSets, SequencesExt

CONSTANTS
    Objects,                   \* the SubscriptionPublication variables of a program
    SubscriptionIds,           \* non-empty subscription ids
    Responses,                 \* non-empty contents of a BaseReply
    Exceptions,                \* values of JoynrRuntimeException
    ArchiveIds,                \* ids a caller may ask an archive for
    RegisteredOutputArchives,  \* muesli::RegisteredOutputArchives, in order
    RegisteredInputArchives,   \* muesli::RegisteredInputArchives, in order
    MaxErrors,                 \* bound: exception objects ever allocated
    EMPTY,                     \* the empty string, the empty response
    NULL                       \* nullptr

ASSUME /\ RegisteredOutputArchives \in Seq(ArchiveIds)
       /\ RegisteredInputArchives \in Seq(ArchiveIds)
       /\ MaxErrors \in Nat

VARIABLES
    pub,      \* pub[o]: the members of object o
    heap,     \* address -> the exception stored there
    stream,   \* what the last archive wrote, or NULL
    thrown,   \* the last call of the serializer threw std::invalid_argument
    printed   \* what the last PrintTo wrote, or NULL

vars == <<pub, heap, stream, thrown, printed>>

Addresses == 1..MaxErrors

SubscriptionPublication ==
    [subscriptionId : SubscriptionIds \cup {EMPTY},
     error : Addresses \cup {NULL},
     response : Responses \cup {EMPTY}]

\* SubscriptionPublication(), NULL_RESPONSE
NullResponse == [subscriptionId |-> EMPTY, error |-> NULL, response |-> EMPTY]

\* SubscriptionPublication(BaseReply&&)
FromReply(r) == [NullResponse EXCEPT !.response = r]

GetSubscriptionId(p) == p.subscriptionId
GetError(p) == p.error

\* operator==: equal pointers, or two exceptions that compare equal
EqualsByPointer(p, q) == p = q
Equals(p, q) ==
    /\ p.error # GetError(q) =>
          /\ p.error # NULL /\ GetError(q) # NULL
          /\ heap[p.error] = heap[GetError(q)]
    /\ p.subscriptionId = GetSubscriptionId(q)
    /\ p.response = q.response

NotEquals(p, q) == ~Equals(p, q)

\* serialize(Archive&): the base class, the subscription id and the error,
\* under the registered type name; a pointer is written as what it points to
SerializedWithoutError(p) ==
    [typeName |-> "joynr.SubscriptionPublication", response |-> p.response,
     subscriptionId |-> p.subscriptionId, error |-> NULL]
Serialized(p) ==
    [typeName |-> "joynr.SubscriptionPublication", response |-> p.response,
     subscriptionId |-> p.subscriptionId,
     error |-> IF p.error = NULL THEN NULL ELSE heap[p.error]]

\* getArchive: the first registered archive with the id; 0 stands for
\* std::invalid_argument("no serializer registered for id")
GetArchive(id, registered) == SelectInSeq(registered, LAMBDA a : a = id)

GetOutputArchive(id) == GetArchive(id, RegisteredOutputArchives)
GetInputArchive(id) == GetArchive(id, RegisteredInputArchives)

-----------------------------------------------------------------------------
(* The operations on an object *)

Assign(o, p) ==
    /\ pub' = [pub EXCEPT ![o] = p]
    /\ UNCHANGED <<stream, thrown, printed>>

Construct(o) ==
    /\ \E p \in {NullResponse} \cup {FromReply(r) : r \in Responses} : Assign(o, p)
    /\ UNCHANGED heap

SetSubscriptionId(o, id) ==
    /\ Assign(o, [pub[o] EXCEPT !.subscriptionId = id])
    /\ UNCHANGED heap

\* setError with nullptr, with the error of another object (getError), or
\* with an exception made for the call
SetError(o) ==
    \/ /\ \E e \in {NULL} \cup {GetError(pub[x]) : x \in Objects} :
             Assign(o, [pub[o] EXCEPT !.error = e])
       /\ UNCHANGED heap
    \/ /\ Len(heap) < MaxErrors
       /\ \E e \in Exceptions : heap' = Append(heap, e)
       /\ Assign(o, [pub[o] EXCEPT !.error = Len(heap')])

\* operator=(const SubscriptionPublication&), member by member
CopyAssign(o, from) ==
    /\ Assign(o, pub[from])
    /\ UNCHANGED heap

\* operator=(SubscriptionPublication&&): a moved-from shared_ptr is null and
\* a moved-from vector empty; a moved-from string is unspecified
MoveAssign(o, from) ==
    /\ o # from
    /\ \E id \in {EMPTY, pub[from].subscriptionId} :
          pub' = [pub EXCEPT ![o] = pub[from],
                             ![from] = [NullResponse EXCEPT !.subscriptionId = id]]
    /\ UNCHANGED <<heap, stream, thrown, printed>>

\* PrintTo: operator<< binds tighter than ?: so that the stream gets the
\* pointer, and neither "null" nor the message of the error
PrintToMessage(o) ==
    /\ printed' = [subscriptionId |-> pub[o].subscriptionId,
                   error |-> IF pub[o].error = NULL THEN NULL ELSE heap[pub[o].error]]
    /\ UNCHANGED <<pub, heap, stream, thrown>>
PrintTo(o) ==
    /\ printed' = [subscriptionId |-> pub[o].subscriptionId, error |-> pub[o].error]
    /\ UNCHANGED <<pub, heap, stream, thrown>>

-----------------------------------------------------------------------------
(* The serializer *)

\* ArchiveVariantWrapper::operator() on an output archive
Write(o) ==
    /\ stream' = Serialized(pub[o])
    /\ UNCHANGED <<pub, heap>>

\* ... and on an input archive: the members are set from the stream, the
\* error points to a new exception
Read(o) ==
    /\ stream # NULL
    /\ \/ /\ stream.error = NULL
          /\ UNCHANGED heap
       \/ /\ stream.error # NULL /\ Len(heap) < MaxErrors
          /\ heap' = Append(heap, stream.error)
    /\ pub' = [pub EXCEPT ![o] =
                  [subscriptionId |-> stream.subscriptionId,
                   response |-> stream.response,
                   error |-> IF stream.error = NULL THEN NULL ELSE Len(heap')]]
    /\ UNCHANGED stream

Throw ==
    /\ thrown' = TRUE
    /\ UNCHANGED <<pub, heap, stream, printed>>

\* getOutputArchive(id, stream), then archive(value)
Save(id, o) ==
    \/ GetOutputArchive(id) = 0 /\ Throw
    \/ GetOutputArchive(id) # 0 /\ Write(o) /\ thrown' = FALSE /\ UNCHANGED printed

\* getInputArchive(id, stream), then archive(value)
Load(id, o) ==
    \/ GetInputArchive(id) = 0 /\ Throw
    \/ GetInputArchive(id) # 0 /\ Read(o) /\ thrown' = FALSE /\ UNCHANGED printed

SerializeToJson(o) == Write(o) /\ UNCHANGED <<thrown, printed>>

DeserializeFromJson(o) == Read(o) /\ UNCHANGED <<thrown, printed>>

-----------------------------------------------------------------------------

Init ==
    /\ pub = [o \in Objects |-> NullResponse]
    /\ heap = <<>>
    /\ stream = NULL
    /\ thrown = FALSE
    /\ printed = NULL

Next ==
    \E o \in Objects :
        \/ Construct(o)
        \/ \E id \in SubscriptionIds : SetSubscriptionId(o, id)
        \/ SetError(o)
        \/ \E from \in Objects : CopyAssign(o, from) \/ MoveAssign(o, from)
        \/ PrintTo(o)
        \/ \E id \in ArchiveIds : Save(id, o) \/ Load(id, o)
        \/ SerializeToJson(o) \/ DeserializeFromJson(o)

Spec == Init /\ [][Next]_vars

-----------------------------------------------------------------------------
(* Properties *)

\* What a publication is to its reader: the error by value.
ValueOf(p) == [p EXCEPT !.error = IF @ = NULL THEN NULL ELSE heap[@]]

TypeOK ==
    /\ pub \in [Objects -> SubscriptionPublication]
    /\ heap \in Seq(Exceptions) /\ Len(heap) <= MaxErrors
    /\ \A o \in Objects : pub[o].error \in DOMAIN heap \cup {NULL}
    /\ stream = NULL \/ stream \in [typeName : {"joynr.SubscriptionPublication"},
                                    subscriptionId : SubscriptionIds \cup {EMPTY},
                                    response : Responses \cup {EMPTY},
                                    error : Exceptions \cup {NULL}]
    /\ thrown \in BOOLEAN
    /\ printed = NULL \/ printed \in [subscriptionId : SubscriptionIds \cup {EMPTY},
                                      error : Addresses \cup {NULL}]

\* operator== is equality of values: two publications compare equal exactly
\* if they have the same subscription id, response and error, whether they
\* share the exception object (copies) or hold two of them (one was read
\* from a stream, or the same error was set twice).  With it operator== is
\* reflexive, symmetric and transitive.
EqualsIsEqualityOfValues ==
    \A a, b \in Objects : Equals(pub[a], pub[b]) <=> ValueOf(pub[a]) = ValueOf(pub[b])

\* A publication read from the stream compares equal to the object it was
\* written from, for as long as that object is what the stream holds:
\* serialize() hands every member to the archive, the error by value, and
\* operator== looks through the two pointers.
RoundTripPreservesValue ==
    [][\A a, b \in Objects :
          Read(b) /\ stream = Serialized(pub[a]) => Equals(pub[b], pub[a])']_vars

=============================================================================
