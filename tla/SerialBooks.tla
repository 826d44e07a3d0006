---------------------------- MODULE SerialBooks ----------------------------
(***************************************************************************)
(* What the books of one company promise their users, without sessions and *)
(* without locks: every operation happens in one step, and its conditions  *)
(* hold of the books it changes, at that moment.                           *)
(*                                                                         *)
(* Two allowances are the code's own: Deleted Items restores any voucher   *)
(* that is not live (one that its document has replaced in the meantime    *)
(* included), and a reversal it brought back does not keep its original    *)
(* from being corrected.                                                   *)
(***************************************************************************)
EXTENDS Integers, Sequences, FiniteSets

CONSTANTS Clients, Documents, Dates, Amounts

VARIABLES
  books,    \* vouchers in the order they were posted
  last,     \* the last number given
  closes    \* closed period ends and their journals, oldest first

vars == <<books, last, closes>>

Init == books = <<>> /\ last = 0 /\ closes = <<>>

-----------------------------------------------------------------------------
Ids == DOMAIN books

DateOpen(d) == closes = <<>> \/ d > closes[Len(closes)].end

Identity(kind, id, n) == [kind |-> kind, id |-> id, n |-> n]

Unused(k) == \A v \in Ids : books[v].key # k

\* The vouchers ever posted under an identity of this kind.
Posted(kind, id) ==
  {v \in Ids : books[v].key.kind = kind /\ books[v].key.id = id}

Current(k) == {v \in Posted("document", k) : ~books[v].retired}

Linked(v) == {r \in Ids : books[r].of = v}

LiveLink(v) == \E r \in Linked(v) : books[r].live

ExactKey(v) == Identity("exact", v, 0)

IsReversal(row) == row.of # 0 \/ row.key.kind = "exact"

\* v has a live reversal that never came out of Deleted Items.
Reversed(v) ==
  \E r \in Ids : /\ books[r].of = v \/ books[r].key = ExactKey(v)
                 /\ books[r].live /\ ~books[r].restored

\* Income and expense through date e.
Balance(e) ==
  LET sum[n \in 0 .. Len(books)] ==
        IF n = 0 THEN 0
        ELSE sum[n - 1] + (IF books[n].live /\ books[n].date <= e
                           THEN books[n].amount ELSE 0)
  IN sum[Len(books)]

Entry(k, d, a, original, number) ==
  [date |-> d, amount |-> a, live |-> TRUE, retired |-> FALSE, key |-> k,
   of |-> original, no |-> number, restored |-> FALSE]

-----------------------------------------------------------------------------
Post(c, d, a) ==
  LET k == Identity("client", c, 0) IN
  /\ Unused(k)
  /\ DateOpen(d)
  /\ books' = Append(books, Entry(k, d, a, 0, last + 1))
  /\ last' = last + 1
  /\ UNCHANGED closes

\* A voucher that may be corrected.
Correctable(v) ==
  books[v].live /\ DateOpen(books[v].date) /\ ~Reversed(v)

Edit(v, d, a) ==
  /\ Correctable(v)
  /\ books[v].of = 0
  /\ DateOpen(d)
  /\ books' = [books EXCEPT ![v] = [@ EXCEPT !.date = d, !.amount = a]]
  /\ UNCHANGED <<last, closes>>

Delete(v) ==
  /\ Correctable(v)
  /\ books' = [books EXCEPT ![v] = [@ EXCEPT !.live = FALSE]]
  /\ UNCHANGED <<last, closes>>

Restore(v) ==
  /\ ~books[v].live
  /\ DateOpen(books[v].date)
  /\ books[v].of # 0 => ~LiveLink(books[v].of)
  /\ books' = [books EXCEPT ![v] = [@ EXCEPT !.live = TRUE,
                                             !.restored = IsReversal(books[v])]]
  /\ UNCHANGED <<last, closes>>

Reverse(v, d) ==
  LET k == Identity("link", v, Cardinality(Linked(v)) + 1) IN
  /\ books[v].live
  /\ books[v].of = 0
  /\ ~LiveLink(v)
  /\ ~Reversed(v)
  /\ Unused(k)
  /\ DateOpen(d)
  /\ books' = Append(books, Entry(k, d, -books[v].amount, v, last + 1))
  /\ last' = last + 1
  /\ UNCHANGED closes

ReverseExactly(v, d) ==
  LET k == ExactKey(v) IN
  /\ books[v].live
  /\ books[v].key.kind # "exact"
  /\ Unused(k)
  /\ DateOpen(d)
  /\ books' = Append(books, Entry(k, d, -books[v].amount, 0, 0))
  /\ UNCHANGED <<last, closes>>

\* The books without the journal that document k has now.
Retired(k) ==
  [v \in Ids |-> IF v \in Current(k)
                 THEN [books[v] EXCEPT !.live = FALSE, !.retired = TRUE]
                 ELSE books[v]]

MayRetire(k) ==
  \A v \in Current(k) : books[v].live => DateOpen(books[v].date)

Replace(k, d, a) ==
  LET key == Identity("document", k, Cardinality(Posted("document", k))) IN
  /\ MayRetire(k)
  /\ Unused(key)
  /\ DateOpen(d)
  /\ books' = Append(Retired(k), Entry(key, d, a, 0, 0))
  /\ UNCHANGED <<last, closes>>

Remove(k) ==
  /\ Current(k) # {}
  /\ MayRetire(k)
  /\ books' = Retired(k)
  /\ UNCHANGED <<last, closes>>

\* The journal of a close is the opposite of the balance it closes.
Close(e) ==
  LET k == Identity("close", e, Cardinality(Posted("close", e)) + 1) IN
  /\ DateOpen(e)
  /\ Unused(k)
  /\ books' = Append(books, Entry(k, e, -Balance(e), 0, 0))
  /\ closes' = Append(closes, [end |-> e, voucher |-> Len(books) + 1])
  /\ UNCHANGED last

Reopen ==
  /\ closes # <<>>
  /\ LET v == closes[Len(closes)].voucher IN
     books' = [books EXCEPT ![v] = [@ EXCEPT !.live = FALSE]]
  /\ closes' = SubSeq(closes, 1, Len(closes) - 1)
  /\ UNCHANGED last

Next ==
  \/ \E c \in Clients, d \in Dates, a \in Amounts : Post(c, d, a)
  \/ \E v \in Ids, d \in Dates, a \in Amounts : Edit(v, d, a)
  \/ \E v \in Ids : Delete(v)
  \/ \E v \in Ids : Restore(v)
  \/ \E v \in Ids, d \in Dates : Reverse(v, d)
  \/ \E v \in Ids, d \in Dates : ReverseExactly(v, d)
  \/ \E k \in Documents, d \in Dates, a \in Amounts : Replace(k, d, a)
  \/ \E k \in Documents : Remove(k)
  \/ \E e \in Dates : Close(e)
  \/ Reopen

Spec == Init /\ [][Next]_vars

=============================================================================
