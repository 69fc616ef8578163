---------------------------- MODULE MCPublication ----------------------------
(***************************************************************************)
(* Publication for TLC: two objects, so that one is written and the other  *)
(* read, copied or moved; two exceptions and three addresses, so that two  *)
(* objects hold equal errors at different addresses and unequal ones, and  *)
(* an object read from a stream holds a copy while both are alive.         *)
(***************************************************************************)
EXTENDS Publication

MCRegisteredArchives == <<"json">>
MCArchiveIds == {"json", "xml"}

=============================================================================
