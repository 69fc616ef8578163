--------------------------- MODULE MCMessageQueue ---------------------------
(***************************************************************************)
(* MessageQueue for TLC: two destinations, every expiry date on the clock, *)
(* three allocations.                                                      *)
(***************************************************************************)
EXTENDS MessageQueue, TLC

CONSTANTS p1, p2

MCParticipants == {p1, p2}
MCRank == p1 :> 1 @@ p2 :> 2
MCMessages == [to : MCParticipants, expiryDate : 0..MaxTime]
=============================================================================
