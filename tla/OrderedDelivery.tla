--------------------------- MODULE OrderedDelivery ---------------------------
(***************************************************************************)
(* What the LAN-to-cloud voucher pipeline promises, without the pipeline:  *)
(* the cloud accepts batches of vouchers into one order, posts them one by *)
(* one in that order, each exactly once, and the LAN learns of a prefix of *)
(* what was posted.  A LAN restored from a backup may forget               *)
(* confirmations; nothing else is ever undone.                             *)
(***************************************************************************)
EXTENDS Naturals, Sequences

CONSTANTS Ops, Docs

VARIABLES
    accepted,    \* sequence of accepted vouchers <<op, doc>>
    ledger,      \* sequence of the operations posted
    confirmed    \* positions in the ledger the LAN knows as posted

vars == <<accepted, ledger, confirmed>>

Init ==
    /\ accepted = << >>
    /\ ledger = << >>
    /\ confirmed = {}

\* Append a batch of operations and vouchers that were never accepted before.
Accept ==
    /\ accepted' \in Seq(Ops \X Docs)
    /\ Len(accepted') > Len(accepted)
    /\ SubSeq(accepted', 1, Len(accepted)) = accepted
    /\ \A i, j \in 1 .. Len(accepted') :
          i # j => /\ accepted'[i][1] # accepted'[j][1]
                   /\ accepted'[i][2] # accepted'[j][2]
    /\ UNCHANGED <<ledger, confirmed>>

Post ==
    /\ Len(ledger) < Len(accepted)
    /\ ledger' = Append(ledger, accepted[Len(ledger) + 1][1])
    /\ UNCHANGED <<accepted, confirmed>>

Confirm ==
    /\ \E k \in 1 .. Len(ledger) : confirmed' = 1 .. k
    /\ confirmed \subseteq confirmed'
    /\ UNCHANGED <<accepted, ledger>>

Forget ==
    /\ \E k \in 0 .. Len(ledger) : confirmed' = 1 .. k
    /\ confirmed' \subseteq confirmed
    /\ UNCHANGED <<accepted, ledger>>

Next == Accept \/ Post \/ Confirm \/ Forget

Spec == Init /\ [][Next]_vars
=============================================================================
