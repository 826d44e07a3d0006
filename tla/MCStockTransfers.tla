-------------------------- MODULE MCStockTransfers --------------------------
EXTENDS StockTransfers, TLC

\* Users and requests are interchangeable.
Symmetric == Permutations(Users) \cup Permutations(Editors)
=============================================================================
