-------------------------- MODULE MCMessageRouting --------------------------
(***************************************************************************)
(* MessageRouting for TLC: two receivers, two participants, two addresses, *)
(* and one raw message of every kind the skeleton tells apart.             *)
(***************************************************************************)
EXTENDS MessageRouting, TLC

CONSTANTS r1, r2, p1, p2, a1, a2, s1, s2, garbage

MCReceivers == {r1, r2}
MCParticipants == {p1, p2}
MCRank == p1 :> 1 @@ p2 :> 2
MCAddresses == {a1, a2}
MCSerializedAddresses == {s1, s2, garbage}
MCAddressOf == s1 :> a1 @@ s2 :> a2 @@ garbage :> NULL

\* p1 is a remote consumer: it sends requests to p2 and names its reply
\* address; p2 answers.  Expiry dates: 0 is over after the first tick,
\* MaxTime never is.
WellFormed(type, from, to, reply, expiry) ==
    [parses |-> TRUE, type |-> type, payloadEmpty |-> FALSE, hasExpiry |-> TRUE,
     from |-> from, to |-> to, replyAddress |-> reply, expiryDate |-> expiry]

Requests ==
    {WellFormed("request", p1, p2, s, e) : s \in MCSerializedAddresses, e \in {0, MaxTime}}

Replies ==
    {WellFormed("reply", p2, p1, garbage, e) : e \in {0, MaxTime}}

UnknownType == WellFormed("ping", p2, p1, garbage, MaxTime)

Malformed ==
    { [WellFormed("reply", p2, p1, garbage, 0) EXCEPT !.parses = FALSE],
      [WellFormed("reply", p2, p1, garbage, 0) EXCEPT !.type = ""],
      [WellFormed("reply", p2, p1, garbage, 0) EXCEPT !.payloadEmpty = TRUE],
      [WellFormed("reply", p2, p1, garbage, 0) EXCEPT !.hasExpiry = FALSE] }

MCRawMessages == Requests \cup Replies \cup {UnknownType} \cup Malformed

ReceiverSymmetry == Permutations(MCReceivers)
=============================================================================
