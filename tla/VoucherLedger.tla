---------------------------- MODULE VoucherLedger ----------------------------
(***************************************************************************)
(* The books of one company: posted vouchers, their posting identities,    *)
(* the gapless number counter and the fiscal closes, under concurrent      *)
(* database transactions (READ COMMITTED).                                 *)
(*                                                                         *)
(* A transaction runs in two or three steps: Begin* takes the row and      *)
(* advisory locks the code takes first and evaluates the code's checks on  *)
(* the committed state; Write takes the shared period lock inside the      *)
(* closed-period trigger, allocates the number and meets the unique index; *)
(* Commit publishes it.  Rollback may end it at any point (a refusal, an   *)
(* error, a deadlock victim or a lost connection).  A replay of a posted   *)
(* request returns the stored voucher and changes nothing.                 *)
(*                                                                         *)
(* A voucher is abstracted to its date, its effect on income and expense   *)
(* (one signed amount), its flags, its posting identity and its links.     *)
(***************************************************************************)
EXTENDS Integers, Sequences, FiniteSets

CONSTANTS
  Sessions,     \* database transactions that may run at the same time
  Operations,   \* the operations in use, a subset of AllOperations
  Clients,      \* journals entered by users: request id and payload digest
  Documents,    \* source documents that keep one derived journal (containers)
  Dates,        \* accounting dates, a set of positive integers
  Amounts,      \* effects of a journal on income and expense
  MaxVouchers   \* bound: vouchers ever inserted

ASSUME LedgerAssumption ==
  /\ Dates \subseteq Nat \ {0}
  /\ Amounts \subseteq Int
  /\ MaxVouchers \in Nat

VARIABLES
  vouchers,   \* vouchers, indexed by id in commit order
  requests,   \* accounting_posting_requests: live posting identities
  counter,    \* voucher_number_sequences.last_value
  closures,   \* fiscal_period_closures with status CLOSED, oldest first
  tx          \* the open transaction of every session

vars == <<vouchers, requests, counter, closures, tx>>

-----------------------------------------------------------------------------
(* Posting identities: the idempotency key of each kind of writer. *)

ClientKey(c) == [kind |-> "client", id |-> c, n |-> 0]
DocumentKey(k, g) == [kind |-> "document", id |-> k, n |-> g]
LinkKey(v, attempt) == [kind |-> "link", id |-> v, n |-> attempt]
ExactKey(v) == [kind |-> "exact", id |-> v, n |-> 0]
CloseKey(e, attempt) == [kind |-> "close", id |-> e, n |-> attempt]

NoKey == [kind |-> "none", id |-> 0, n |-> 0]

Keys == [kind : {"none", "client", "document", "link", "exact", "close"},
         id : Clients \cup Documents \cup Nat, n : Nat]

(* A vouchers row; no is 0 for a number the caller gave.  restored stands   *)
(* for the audit log's "restore" row of a reversal.                         *)
Voucher == [date : Dates, amount : Int, live : BOOLEAN, retired : BOOLEAN,
            key : Keys, of : Nat, no : Nat, restored : BOOLEAN]

(* An unreleased accounting_posting_requests row. *)
Request == [key : Keys, voucher : Nat]

Closure == [end : Dates, voucher : Nat]

Posting == {"post", "sync", "reverse", "exact", "close"}
Updating == {"edit", "delete", "restore", "sync", "remove", "reopen"}
Numbered == {"post", "reverse"}
Exclusive == {"close", "reopen"}

AllOperations == Posting \cup Updating

Tx == [pc : {"idle", "checked", "written"}, op : AllOperations \cup {"none"},
       row : Nat, key : Keys, date : Dates \cup {0}, amount : Int, of : Nat, no : Nat]

Idle == [pc |-> "idle", op |-> "none", row |-> 0, key |-> NoKey,
         date |-> 0, amount |-> 0, of |-> 0, no |-> 0]

Init ==
  /\ vouchers = <<>>
  /\ requests = {}
  /\ counter = 0
  /\ closures = <<>>
  /\ tx = [s \in Sessions |-> Idle]

-----------------------------------------------------------------------------
(* What a transaction reads. *)

Ids == DOMAIN vouchers

(* The latest closed date, 0 when nothing is closed. *)
ClosedThrough ==
  IF closures = <<>> THEN 0 ELSE closures[Len(closures)].end

PeriodOpen(d) == d > ClosedThrough

Posted(k) == \E q \in requests : q.key = k

(* The live reversals of v, by link or by the exact-reversal identity. *)
LiveReversals(v) ==
  {r \in Ids : /\ vouchers[r].live
               /\ \/ vouchers[r].of = v
                  \/ \E q \in requests : q.key = ExactKey(v) /\ q.voucher = r}

(* The unretired journal of document k (at most one), found by its number. *)
JournalOf(k) ==
  {v \in Ids : /\ vouchers[v].key.kind = "document"
               /\ vouchers[v].key.id = k
               /\ ~vouchers[v].retired}

Generation(k) ==
  Cardinality({v \in Ids : /\ vouchers[v].key.kind = "document"
                           /\ vouchers[v].key.id = k
                           /\ vouchers[v].retired})

ReversalAttempts(v) == Cardinality({r \in Ids : vouchers[r].of = v})

CloseAttempts(e) ==
  Cardinality({v \in Ids : /\ vouchers[v].key.kind = "close"
                           /\ vouchers[v].key.id = e})

(* Income and expense through date e, earlier closing journals included. *)
Balance(e) ==
  LET sum[n \in 0 .. Len(vouchers)] ==
        IF n = 0 THEN 0
        ELSE sum[n - 1] + (IF vouchers[n].live /\ vouchers[n].date <= e
                           THEN vouchers[n].amount ELSE 0)
  IN sum[Len(vouchers)]

-----------------------------------------------------------------------------
(* Locks, derived from the open transactions. *)

Open(s) == tx[s].pc # "idle"
Written(s) == tx[s].pc = "written"

(* Restore reads the voucher without a lock; its UPDATE locks the row. *)
HoldsRow(s, v) == tx[s].row = v /\ Open(s) /\ (tx[s].op = "restore" => Written(s))

RowFree(s, v) == \A o \in Sessions \ {s} : ~HoldsRow(o, v)

\* Mutant: the request is looked up without its advisory lock.
KeyUnlocked(k) == TRUE

(* The posting advisory lock; a document's own row lock covers its key. *)
KeyFree(k) ==
  \A o \in Sessions : Open(o) /\ tx[o].key.kind = k.kind => tx[o].key.id # k.id

\* Mutant: the trigger checks the new date only.
TouchesNewDate(t) == {d \in Dates : t.op \in Posting \cup {"edit"} /\ d = t.date}

(* The dates the closed-period trigger checks for transaction t. *)
Touches(t) ==
  {d \in Dates :
     \/ t.op \in Posting \cup {"edit"} /\ d = t.date
     \/ t.row \in Ids /\ d = vouchers[t.row].date
        /\ \/ t.op \in {"edit", "delete"}
           \/ t.op = "restore" /\ ~vouchers[t.row].live
           \/ t.op \in {"sync", "remove"} /\ vouchers[t.row].live}

HoldsShared(s) == Written(s) /\ Touches(tx[s]) # {}
HoldsExclusive(s) == Open(s) /\ tx[s].op \in Exclusive

SharedFree(s) == \A o \in Sessions \ {s} : ~HoldsExclusive(o)

\* Mutant: a close does not wait for writers.
NoOtherClose(s) == \A o \in Sessions \ {s} : ~HoldsExclusive(o)

ExclusiveFree(s) ==
  \A o \in Sessions \ {s} : ~HoldsExclusive(o) /\ ~HoldsShared(o)

\* Mutant: the counter is read without FOR UPDATE.
CounterUnlocked(s) == TRUE

CounterFree(s) ==
  \A o \in Sessions \ {s} : ~(Written(o) /\ tx[o].op \in Numbered)

(* The original that t leaves with a live linked reversal, 0 for none. *)
LinksTo(t) ==
  IF t.op = "restore" THEN vouchers[t.row].of ELSE t.of

\* Mutant: the unique index does not wait for a writer that is still open.
UniqueLinkChecksCommitted(s) ==
  LET o == LinksTo(tx[s]) IN
  o # 0 => \A r \in Ids : vouchers[r].of = o /\ vouchers[r].live => r = tx[s].row

(* vouchers_reversal_of_live_unique: an insert or update that would make a  *)
(* second live reversal waits for an open writer and fails on a committed   *)
(* one.                                                                     *)
UniqueLinkAllows(s) ==
  LET o == LinksTo(tx[s]) IN
  o # 0 =>
    /\ \A r \in Ids : vouchers[r].of = o /\ vouchers[r].live => r = tx[s].row
    /\ \A p \in Sessions \ {s} : Written(p) => LinksTo(tx[p]) # o

-----------------------------------------------------------------------------
(* Begin: locks and checks of each operation. *)

Room ==
  Len(vouchers)
    + Cardinality({o \in Sessions : Open(o) /\ tx[o].op \in Posting})
  < MaxVouchers

Start(s, t) ==
  /\ t.op \in Operations
  /\ tx[s].pc = "idle"
  /\ tx' = [tx EXCEPT ![s] = t]

BeginPost(s, c, d, a) ==
  /\ Room
  /\ KeyFree(ClientKey(c))
  /\ ~Posted(ClientKey(c))
  /\ Start(s, [Idle EXCEPT !.pc = "checked", !.op = "post",
                           !.key = ClientKey(c), !.date = d, !.amount = a])
  /\ UNCHANGED <<vouchers, requests, counter, closures>>

MayEdit(v, d) ==
  /\ vouchers[v].live
  /\ PeriodOpen(vouchers[v].date)
  /\ PeriodOpen(d)
  /\ vouchers[v].of = 0
  /\ LiveReversals(v) = {}

BeginEdit(s, v, d, a) ==
  /\ RowFree(s, v)
  /\ MayEdit(v, d)
  /\ Start(s, [Idle EXCEPT !.pc = "checked", !.op = "edit", !.row = v,
                           !.date = d, !.amount = a])
  /\ UNCHANGED <<vouchers, requests, counter, closures>>

\* Mutant: a delete does not look for a live reversal.
MayDeleteReversed(v) == vouchers[v].live /\ PeriodOpen(vouchers[v].date)

MayDelete(v) ==
  /\ vouchers[v].live
  /\ PeriodOpen(vouchers[v].date)
  /\ LiveReversals(v) = {}

BeginDelete(s, v) ==
  /\ RowFree(s, v)
  /\ MayDelete(v)
  /\ Start(s, [Idle EXCEPT !.pc = "checked", !.op = "delete", !.row = v])
  /\ UNCHANGED <<vouchers, requests, counter, closures>>

(* Deleted Items: the row is read before the transaction and not again. *)
BeginRestore(s, v) ==
  /\ ~vouchers[v].live
  /\ ~vouchers[v].retired
  /\ Start(s, [Idle EXCEPT !.pc = "checked", !.op = "restore", !.row = v])
  /\ UNCHANGED <<vouchers, requests, counter, closures>>

MayReverse(v, d) ==
  /\ vouchers[v].live
  /\ vouchers[v].of = 0
  /\ LiveReversals(v) = {}
  /\ PeriodOpen(d)

BeginReverse(s, v, d) ==
  /\ Room
  /\ RowFree(s, v)
  /\ MayReverse(v, d)
  /\ LET k == LinkKey(v, ReversalAttempts(v) + 1) IN
     /\ KeyFree(k)
     /\ ~Posted(k)
     /\ Start(s, [Idle EXCEPT !.pc = "checked", !.op = "reverse", !.row = v,
                              !.key = k, !.date = d, !.amount = -vouchers[v].amount,
                              !.of = v])
  /\ UNCHANGED <<vouchers, requests, counter, closures>>

(* The older route: locked original, own identity, no link, caller's number. *)
BeginExactReversal(s, v, d) ==
  /\ Room
  /\ RowFree(s, v)
  /\ vouchers[v].live
  /\ vouchers[v].key.kind # "exact"
  /\ KeyFree(ExactKey(v))
  /\ ~Posted(ExactKey(v))
  /\ Start(s, [Idle EXCEPT !.pc = "checked", !.op = "exact", !.row = v,
                           !.key = ExactKey(v), !.date = d,
                           !.amount = -vouchers[v].amount])
  /\ UNCHANGED <<vouchers, requests, counter, closures>>

(* A document's journal is replaced whole: the old one (live or deleted) is *)
(* retired and the new one posted under the next identity generation.       *)
BeginSync(s, k, d, a) ==
  /\ Room
  /\ KeyFree(DocumentKey(k, 0))
  /\ \A v \in JournalOf(k) : RowFree(s, v)
  /\ LET old == JournalOf(k) IN
     Start(s, [Idle EXCEPT !.pc = "checked", !.op = "sync",
                 !.row = IF old = {} THEN 0 ELSE CHOOSE v \in old : TRUE,
                 !.key = DocumentKey(k, Generation(k) + Cardinality(old)),
                 !.date = d, !.amount = a])
  /\ UNCHANGED <<vouchers, requests, counter, closures>>

(* The document no longer carries an amount: its journal is only retired. *)
BeginRemove(s, k) ==
  /\ KeyFree(DocumentKey(k, 0))
  /\ \E v \in JournalOf(k) :
       /\ RowFree(s, v)
       /\ Start(s, [Idle EXCEPT !.pc = "checked", !.op = "remove", !.row = v,
                                !.key = DocumentKey(k, 0)])
  /\ UNCHANGED <<vouchers, requests, counter, closures>>

(* Under the exclusive period lock the close posts the opposite of the      *)
(* balance; nothing guarded is open, so the write is done at once.          *)
BeginClose(s, e) ==
  /\ Room
  /\ ExclusiveFree(s)
  /\ PeriodOpen(e)
  /\ Start(s, [Idle EXCEPT !.pc = "written", !.op = "close",
                           !.key = CloseKey(e, CloseAttempts(e) + 1),
                           !.date = e, !.amount = -Balance(e)])
  /\ UNCHANGED <<vouchers, requests, counter, closures>>

(* Only the latest close can be reopened; its journal is soft-deleted with  *)
(* the trigger bypassed.                                                    *)
BeginReopen(s) ==
  /\ ExclusiveFree(s)
  /\ closures # <<>>
  /\ LET v == closures[Len(closures)].voucher IN
     /\ RowFree(s, v)
     /\ Start(s, [Idle EXCEPT !.pc = "written", !.op = "reopen", !.row = v])
  /\ UNCHANGED <<vouchers, requests, counter, closures>>

-----------------------------------------------------------------------------
(* Write, Commit, Rollback. *)

(* The number is the counter's next value; the row lock on the counter is   *)
(* held until the transaction ends.                                         *)
NextNumber(t) == IF t.op \in Numbered THEN counter + 1 ELSE 0

(* The trigger: shared period lock, then the closures as committed now. *)
PeriodGuard(s) ==
  Touches(tx[s]) # {} => /\ SharedFree(s)
                         /\ \A d \in Touches(tx[s]) : PeriodOpen(d)

Write(s) ==
  /\ tx[s].pc = "checked"
  /\ tx[s].op = "restore" => RowFree(s, tx[s].row)
  /\ tx[s].op \in Numbered => CounterFree(s)
  /\ PeriodGuard(s)
  /\ UniqueLinkAllows(s)
  /\ tx' = [tx EXCEPT ![s].pc = "written", ![s].no = NextNumber(tx[s])]
  /\ UNCHANGED <<vouchers, requests, counter, closures>>

(* A reversal, by its link or by its identity. *)
IsReversal(v) == v.of # 0 \/ v.key.kind = "exact"

Updated(t, v) ==
  CASE t.op = "edit" -> [v EXCEPT !.date = t.date, !.amount = t.amount]
    [] t.op \in {"delete", "reopen"} -> [v EXCEPT !.live = FALSE]
    [] t.op = "restore" -> [v EXCEPT !.live = TRUE, !.restored = IsReversal(v)]
    [] t.op \in {"sync", "remove"} -> [v EXCEPT !.live = FALSE, !.retired = TRUE]

\* Mutant: a reversal is stored without its date.
InsertedUndated(t) ==
  [date |-> IF t.op = "reverse" THEN 0 ELSE t.date, amount |-> t.amount,
   live |-> TRUE, retired |-> FALSE, key |-> t.key, of |-> t.of, no |-> t.no,
   restored |-> FALSE]

Inserted(t) ==
  [date |-> t.date, amount |-> t.amount, live |-> TRUE, retired |-> FALSE,
   key |-> t.key, of |-> t.of, no |-> t.no, restored |-> FALSE]

(* Existing rows after t; retiring also releases the posting identity. *)
RowsAfter(t) ==
  IF t.op \in Updating /\ t.row \in Ids
  THEN [vouchers EXCEPT ![t.row] = Updated(t, @)]
  ELSE vouchers

Released(t) ==
  {q \in requests : t.op \in {"sync", "remove"} /\ q.voucher = t.row}

Commit(s) ==
  LET t == tx[s]
      id == Len(vouchers) + 1
  IN
  /\ Written(s)
  /\ vouchers' = IF t.op \in Posting THEN Append(RowsAfter(t), Inserted(t))
                 ELSE RowsAfter(t)
  /\ requests' = (requests \ Released(t))
                   \cup (IF t.op \in Posting THEN {[key |-> t.key, voucher |-> id]}
                         ELSE {})
  /\ counter' = IF t.op \in Numbered THEN t.no ELSE counter
  /\ closures' = CASE t.op = "close" -> Append(closures, [end |-> t.date, voucher |-> id])
                   [] t.op = "reopen" -> SubSeq(closures, 1, Len(closures) - 1)
                   [] OTHER -> closures
  /\ tx' = [tx EXCEPT ![s] = Idle]

Rollback(s) ==
  /\ Open(s)
  /\ tx' = [tx EXCEPT ![s] = Idle]
  /\ UNCHANGED <<vouchers, requests, counter, closures>>

Next ==
  \E s \in Sessions :
    \/ \E c \in Clients, d \in Dates, a \in Amounts : BeginPost(s, c, d, a)
    \/ \E v \in Ids, d \in Dates, a \in Amounts : BeginEdit(s, v, d, a)
    \/ \E v \in Ids : BeginDelete(s, v)
    \/ \E v \in Ids : BeginRestore(s, v)
    \/ \E v \in Ids, d \in Dates : BeginReverse(s, v, d)
    \/ \E v \in Ids, d \in Dates : BeginExactReversal(s, v, d)
    \/ \E k \in Documents, d \in Dates, a \in Amounts : BeginSync(s, k, d, a)
    \/ \E k \in Documents : BeginRemove(s, k)
    \/ \E e \in Dates : BeginClose(s, e)
    \/ BeginReopen(s)
    \/ Write(s)
    \/ Commit(s)
    \/ Rollback(s)

Spec == Init /\ [][Next]_vars

-----------------------------------------------------------------------------
(* Correctness. *)

(* Types of the tables and of the open transactions. *)
TypeOK ==
  /\ vouchers \in Seq(Voucher) /\ Len(vouchers) <= MaxVouchers
  /\ requests \subseteq Request
  /\ counter \in Nat
  /\ closures \in Seq(Closure)
  /\ tx \in [Sessions -> Tx]

(* Through every closed period end, income and expense are exactly zero,    *)
(* whatever other transactions were open while the period was closed        *)
(* (closeFiscalPeriod against the closed-period trigger).                   *)
BooksClosedAtZero ==
  \A i \in 1 .. Len(closures) : Balance(closures[i].end) = 0

(* The engine's numbers in the books are 1 to the counter, each used once:  *)
(* a rolled back transaction releases its number and concurrent postings    *)
(* never share one (allocateVoucherNumberTx).                               *)
NumbersGapless ==
  LET numbered == {v \in Ids : vouchers[v].no # 0} IN
  /\ {vouchers[v].no : v \in numbered} = 1 .. counter
  /\ Cardinality(numbered) = counter

(* A posting identity is used by one voucher for ever: retries, concurrent  *)
(* submissions, reposted documents and reopened closes never post the same  *)
(* request twice (findExisting, currentGenerationIdentityTx, attempts).     *)
PostedOnce ==
  \A v, w \in Ids : vouchers[v].key = vouchers[w].key => v = w

(* A live linked reversal that was never taken out of Deleted Items is the  *)
(* mirror of its original, and the original is still in the books unless    *)
(* its document replaced it or a reopened close removed it                  *)
(* (assertVoucherEditableTx and reverseVoucherTx on the same row lock).     *)
ReversalMirrors ==
  \A r \in Ids :
    LET o == vouchers[r].of IN
    o # 0 /\ vouchers[r].live /\ ~vouchers[r].restored =>
      /\ vouchers[r].amount = -vouchers[o].amount
      /\ vouchers[o].live \/ vouchers[o].retired \/ vouchers[o].key.kind = "close"

(* No step but a reopen changes a voucher dated in a closed period, and no  *)
(* voucher enters one: the books closed by a close stay as it closed them   *)
(* (erp_vouchers_closed_period_guard).                                      *)
FrozenStep ==
  Len(closures') >= Len(closures) =>
    /\ \A v \in Ids : ~PeriodOpen(vouchers[v].date) =>
         /\ vouchers'[v].date = vouchers[v].date
         /\ vouchers'[v].amount = vouchers[v].amount
         /\ vouchers'[v].live = vouchers[v].live
    /\ \A v \in Ids' : ~PeriodOpen(vouchers'[v].date) =>
         v \in Ids /\ ~PeriodOpen(vouchers[v].date)

ClosedBooksFrozen == [][FrozenStep]_vars

(* Transactions are serializable although most of their checks are made     *)
(* before their locks are complete: every commit is one operation of        *)
(* SerialBooks, allowed by the books it changes, and nothing else changes   *)
(* the books.                                                               *)
Serial == INSTANCE SerialBooks WITH
  books <- vouchers, last <- counter, closes <- closures

ImplementsSerialBooks == Serial!Spec

=============================================================================
