---------------------------- MODULE MCClientCache ----------------------------
(***************************************************************************)
(* ClientCache for TLC: two threads, three attribute ids in a cache of     *)
(* capacity two, so that an insert evicts.                                 *)
(***************************************************************************)
EXTENDS ClientCache

CONSTANTS t1, t2, k1, k2, k3, v1, v2

MCThreads == {t1, t2}
MCKeys == {k1, k2, k3}
MCValues == {v1, v2}

=============================================================================
