---------------------------- MODULE AccessControl ----------------------------
(***************************************************************************)
(* The consumer-permission check of the access controller, as the unit     *)
(* test drives it (tests/unit-tests/AccessControllerTest.cpp): for every   *)
(* message, hasConsumerPermission asks the local domain access controller  *)
(* for the permission at the level of the interface.  The answer comes     *)
(* through a callback, at any later time: a permission, or                 *)
(* operationNeeded; then the request is decoded for its operation and the  *)
(* permission is looked up for that operation.  The caller's callback gets *)
(* the verdict.  AccessController itself is not part of the repository:   *)
(* every definition here is written from its contract.  How the lookup     *)
(* derives its answer is outside the repository as well, and a lookup may  *)
(* answer any permission.                                                  *)
(***************************************************************************)
EXTENDS Naturals, Sequences

CONSTANTS
    Checks,     \* the messages whose sender is checked
    NULL

Permission == {"YES", "ASK", "NO"}

VARIABLES
    phase,      \* phase[c]: "idle", "interfaceLevel" or "done"
    decodes,    \* decodes[c]: the payload of the message is a Request
    lookups,    \* history, lookups[c]: the lookups made, by level
    resolved,   \* history, resolved[c]: the permission the check ended with
    verdicts    \* history, verdicts[c]: what the caller's callback was given

vars == <<phase, decodes, lookups, resolved, verdicts>>

\* The caller is told true for the permission YES and for no other.
Grants(permission) == permission = "YES"

Verdict(c, permission) ==
    /\ verdicts' = [verdicts EXCEPT ![c] = Append(@, Grants(permission))]
    /\ resolved' = [resolved EXCEPT ![c] = permission]
    /\ phase' = [phase EXCEPT ![c] = "done"]

\* AccessController::hasConsumerPermission: the interface-level lookup is
\* sent off.
HasConsumerPermission(c) ==
    /\ phase[c] = "idle"
    /\ phase' = [phase EXCEPT ![c] = "interfaceLevel"]
    /\ lookups' = [lookups EXCEPT ![c] = Append(@, "interface")]
    /\ UNCHANGED <<decodes, resolved, verdicts>>

\* IGetConsumerPermissionCallback::consumerPermission(permission): the
\* callback takes any permission, ASK included.
ConsumerPermission(c) ==
    /\ phase[c] = "interfaceLevel"
    /\ \E p \in Permission : Verdict(c, p)
    /\ UNCHANGED <<decodes, lookups>>

\* The payload of the message is read as a Request, for its operation.
Decodes(c) == decodes[c]

\* A message whose payload is no Request is refused.
Refuse(c) == Verdict(c, "NO")

\* IGetConsumerPermissionCallback::operationNeeded(): the permission is looked
\* up for the operation of the request, if the payload is one.
OperationNeeded(c) ==
    /\ phase[c] = "interfaceLevel"
    /\ \/ /\ ~Decodes(c)
          /\ Refuse(c)
          /\ UNCHANGED lookups
       \/ /\ Decodes(c)
          /\ lookups' = [lookups EXCEPT ![c] = Append(@, "operation")]
          /\ \E p \in Permission : Verdict(c, p)
    /\ UNCHANGED decodes

Init ==
    /\ phase = [c \in Checks |-> "idle"]
    /\ decodes \in [Checks -> BOOLEAN]
    /\ lookups = [c \in Checks |-> <<>>]
    /\ resolved = [c \in Checks |-> NULL]
    /\ verdicts = [c \in Checks |-> <<>>]

Next ==
    \E c \in Checks :
        HasConsumerPermission(c) \/ ConsumerPermission(c) \/ OperationNeeded(c)

Spec == Init /\ [][Next]_vars

-----------------------------------------------------------------------------
(* Properties *)

TypeOK ==
    /\ phase \in [Checks -> {"idle", "interfaceLevel", "done"}]
    /\ decodes \in [Checks -> BOOLEAN]
    /\ lookups \in [Checks -> Seq({"interface", "operation"})]
    /\ resolved \in [Checks -> Permission \cup {NULL}]
    /\ verdicts \in [Checks -> Seq(BOOLEAN)]
    /\ \A c \in Checks : phase[c] = "done" <=> resolved[c] # NULL
=============================================================================
