--------------------------- MODULE MCEventStreams ---------------------------
(* TLC instances of EventStreams: on the stock stream an item is created   *)
(* and adjusted; on the POS stream it is sold.                             *)
EXTENDS EventStreams, TLC

CONSTANTS item, adjust, sale, stock, pos

AllOps == {item, adjust, sale}
TwoOps == {item, sale}
MCStreams == {stock, pos}
MCStreamOf == [o \in Ops |-> IF o = sale THEN pos ELSE stock]
MCKind == [o \in Ops |-> IF o = item THEN "create" ELSE IF o = sale THEN "sale" ELSE "adjust"]
MCCreator == [o \in Ops |-> item]

\* The item's name or code is taken, the cashier lost access, the sale's till
\* changed, stock would go negative.
StockDisagreements == {<<item, "name">>, <<adjust, "negative">>, <<sale, "negative">>}
SaleDisagreements ==
    {<<item, "name">>, <<item, "taken">>, <<sale, "access">>, <<sale, "till">>, <<sale, "negative">>}

Symmetry == Permutations(Appliers) \cup Permutations(Reviewers)
=============================================================================
