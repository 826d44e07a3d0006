--------------------------- MODULE MCDurableOutbox ---------------------------
(* TLC instances of DurableOutbox: actor a1 captures o1 and o2; actor a2 of  *)
(* another company may take over the session.  o2 may depend on o1.          *)
EXTENDS DurableOutbox, TLC

CONSTANTS o1, o2, a1, a2, c1, c2

MCOps == {o1, o2}
MCActors == {a1, a2}
MCOwner == (o1 :> a1) @@ (o2 :> a1)
MCCompany == (a1 :> c1) @@ (a2 :> c2)
NoParents == (o1 :> {}) @@ (o2 :> {})
ChainParents == (o1 :> {}) @@ (o2 :> {o1})

=============================================================================
