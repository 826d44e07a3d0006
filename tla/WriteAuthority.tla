--------------------------- MODULE WriteAuthority ---------------------------
(***************************************************************************)
(* What the fence and the handover promise, without saying how: there is   *)
(* one authority to write the business data, it is held in terms, and a    *)
(* term belongs to one site.  A write commits in the term in force.  When  *)
(* the authority comes back to the cloud, its users wait until no write of *)
(* the factory is missing in its books.                                    *)
(*                                                                         *)
(* No row is read before it is used here, no process has a configuration   *)
(* of its own and no transaction is open while the authority moves.        *)
(***************************************************************************)
EXTENDS Integers

VARIABLES
    term,    \* the newest term: its site, its epoch and how far it is
    missing, \* how many writes of the factory the cloud does not have yet
    last     \* the last business write

vars == <<term, missing, last>>

Sites == {"cloud", "lan"}
\* A term is granted to a site that gets "ready", its site is "active" as long
\* as it may write, and a term that is "over" never comes back.
Statuses == {"ready", "active", "over"}
Terms == [site : Sites, epoch : Nat, status : Statuses]

Init ==
    /\ term = [site |-> "cloud", epoch |-> 1, status |-> "active"]
    /\ missing = 0
    /\ last = [site |-> "cloud", epoch |-> 0, role |-> "users", pending |-> 0]

\* A newer term, of the other site only when the authority is not in use.
Grant ==
    /\ term' \in Terms
    /\ term'.epoch > term.epoch
    /\ term'.status # "over"
    /\ term.status = "active" => term'.site = term.site
    /\ UNCHANGED <<missing, last>>

Turn(from, to) ==
    /\ term.status = from
    /\ term' = [term EXCEPT !.status = to]
    /\ UNCHANGED <<missing, last>>

Start == Turn("ready", "active")
Stop  == Turn("active", "ready")
End   == Turn("ready", "over") \/ Turn("active", "over")

\* A write commits in the term in force, at its site.
Write(site, role) ==
    /\ term.status = "active" /\ term.site = site
    /\ last' = [site |-> site, epoch |-> term.epoch, role |-> role,
                pending |-> missing]
    /\ UNCHANGED term

Capture == Write("lan", "users") /\ missing' = missing + 1
Apply   == Write("cloud", "apply") /\ missing > 0 /\ missing' = missing - 1
Serve   == Write("cloud", "users") /\ missing = 0 /\ UNCHANGED missing

Next == Grant \/ Start \/ Stop \/ End \/ Capture \/ Apply \/ Serve

Spec == Init /\ [][Next]_vars
=============================================================================
