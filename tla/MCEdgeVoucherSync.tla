-------------------------- MODULE MCEdgeVoucherSync --------------------------
(* TLC instances of EdgeVoucherSync.                                       *)
EXTENDS EdgeVoucherSync, TLC

Symmetry == Permutations(Ops) \cup Permutations(Docs) \cup Permutations(Senders)
=============================================================================
