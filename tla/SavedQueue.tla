----------------------------- MODULE SavedQueue -----------------------------
(***************************************************************************)
(* What the outbox promises to the people who capture vouchers offline,    *)
(* without tabs, leases, requests or replays: an operation is booked after *)
(* everything its actor captured before it, once the operations it depends *)
(* on are acknowledged, in the company it was captured for; it is shown as *)
(* acknowledged only when it is booked; and what is shown for good stays.  *)
(*                                                                         *)
(* An operation that is shown for review may be booked, then or later: the *)
(* answer was unclear, or the request that carried it is still on its way. *)
(***************************************************************************)
EXTENDS Naturals

CONSTANTS
    Ops,     \* operations
    Owner,   \* the actor that captured an operation
    Company, \* the company of an actor
    Parents  \* the operations an operation depends on

VARIABLES
    shown,  \* what the device shows for an operation
    place,  \* its place in the queue
    books   \* the vouchers in the ledgers: operation and company

vars == <<shown, place, books>>

Voucher(o) == <<o, Company[Owner[o]]>>
InBooks(o) == Voucher(o) \in books

Earlier(a, b) ==
    /\ Owner[a] = Owner[b]
    /\ shown[a] # "nothing" /\ shown[b] # "nothing"
    /\ place[a] < place[b]

Init ==
    /\ shown = [o \in Ops |-> "nothing"]
    /\ place = [o \in Ops |-> 0]
    /\ books = {}

\* A captured operation goes behind all others.
Capture(o) ==
    /\ shown[o] = "nothing" /\ shown' = [shown EXCEPT ![o] = "saved"]
    /\ \A b \in Ops : place'[o] > place[b]
    /\ \A b \in Ops \ {o} : place'[b] = place[b]
    /\ UNCHANGED books

Book(o) ==
    /\ shown[o] # "nothing" /\ ~InBooks(o)
    /\ \A b \in Ops : Earlier(b, o) => InBooks(b)
    /\ \A p \in Parents[o] : Owner[p] = Owner[o] /\ shown[p] = "acknowledged"
    /\ books' = books \cup {Voucher(o)}
    /\ UNCHANGED <<shown, place>>

Show(o, what) ==
    /\ shown[o] = "saved"
    /\ shown' = [shown EXCEPT ![o] = what]
    /\ UNCHANGED <<place, books>>

Acknowledge(o)  == InBooks(o) /\ Show(o, "acknowledged")
AskForReview(o) == Show(o, "review")

Next == \E o \in Ops : Capture(o) \/ Book(o) \/ Acknowledge(o) \/ AskForReview(o)

Spec == Init /\ [][Next]_vars
=============================================================================
