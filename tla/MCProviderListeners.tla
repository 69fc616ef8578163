------------------------- MODULE MCProviderListeners -------------------------
(***************************************************************************)
(* ProviderListeners for TLC: two threads, two names, two listeners.       *)
(***************************************************************************)
EXTENDS ProviderListeners

CONSTANTS t1, t2, n1, n2, l1, l2

MCThreads == {t1, t2}
MCNames == {n1, n2}
MCListeners == {l1, l2}

ThreadSymmetry == Permutations(MCThreads) \cup Permutations(MCListeners)

=============================================================================
