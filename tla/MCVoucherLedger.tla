--------------------------- MODULE MCVoucherLedger ---------------------------
(* TLC instances of VoucherLedger: sessions, keys and documents are model    *)
(* values; sessions run the same program and may be permuted.                *)
EXTENDS VoucherLedger, TLC

SessionSymmetry == Permutations(Sessions)

=============================================================================
