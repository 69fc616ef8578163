--------------------------- MODULE MCAccessControl ---------------------------
(***************************************************************************)
(* AccessControl for TLC: three checks in flight.                          *)
(***************************************************************************)
EXTENDS AccessControl

CONSTANTS c1, c2, c3

MCChecks == {c1, c2, c3}

=============================================================================
