------------------------- MODULE VoucherRecordsProofs -------------------------
(***************************************************************************)
(* What the books of VoucherLedger record, for every value of its          *)
(* constants: numbers without gaps, posting identities used once,          *)
(* reversals that mirror their originals, types, a balance of zero through *)
(* every closed period, and that every commit is one operation of          *)
(* SerialBooks.  Each theorem has an inductive invariant of its own; the   *)
(* rows' shape and the locks come from FrozenInv.                          *)
(*                                                                         *)
(* Balance is a recursive function.  What it yields is found by induction  *)
(* over a set of numbers (SetInduction): running sums exist (SumsExist),   *)
(* so Balance is the last of them (TotalIsSum), and sums over rows of the  *)
(* same effects are the same (SumsAgree).                                  *)
(***************************************************************************)
EXTENDS VoucherLedgerProofs, FiniteSetTheorems, FunctionTheorems,
        WellFoundedInduction

-----------------------------------------------------------------------------
(* Steps. *)

\* A session opens a transaction.
Begins(s) ==
  \/ \E c \in Clients, d \in Dates, a \in Amounts : BeginPost(s, c, d, a)
  \/ \E v \in Ids, d \in Dates, a \in Amounts : BeginEdit(s, v, d, a)
  \/ \E v \in Ids : BeginDelete(s, v)
  \/ \E v \in Ids : BeginRestore(s, v)
  \/ \E v \in Ids, d \in Dates : BeginReverse(s, v, d)
  \/ \E v \in Ids, d \in Dates : BeginExactReversal(s, v, d)
  \/ \E k \in Documents, d \in Dates, a \in Amounts : BeginSync(s, k, d, a)
  \/ \E k \in Documents : BeginRemove(s, k)
  \/ \E e \in Dates : BeginClose(s, e)
  \/ BeginReopen(s)

\* A step that leaves the tables alone changes one transaction.
LEMMA TablesKept ==
  ASSUME Shape, NEW s \in Sessions, Begins(s) \/ Write(s) \/ Rollback(s)
  PROVE  /\ UNCHANGED <<vouchers, requests, counter, closures>>
         /\ \A o \in Sessions \ {s} : tx'[o] = tx[o]
<1>1. CASE Begins(s)
  <2>1. PICK t : Begun(s, t)
    BY <1>1, BeginIsBegun DEF Begins
  <2>2. QED
    BY <2>1 DEF Begun, Shape
<1>2. CASE Write(s)
  BY <1>2 DEF Write, Shape
<1>3. CASE Rollback(s)
  BY <1>3 DEF Rollback, Shape
<1>4. QED
  BY <1>1, <1>2, <1>3

\* What Write and Rollback leave of a transaction.
LEMMA WriteFields ==
  ASSUME Shape, NEW s \in Sessions, Write(s)
  PROVE  /\ tx[s].pc = "checked" /\ tx'[s].pc = "written"
         /\ tx'[s].op = tx[s].op /\ tx'[s].row = tx[s].row /\ tx'[s].key = tx[s].key
         /\ tx'[s].date = tx[s].date /\ tx'[s].amount = tx[s].amount
         /\ tx'[s].of = tx[s].of /\ tx'[s].no = NextNumber(tx[s])
<1>1. TxShape(tx[s])
  BY DEF Shape
<1>2. tx[s].pc = "checked" /\ tx'[s] = [tx[s] EXCEPT !.pc = "written", !.no = NextNumber(tx[s])]
  BY <1>1 DEF Write, Shape, TxShape
<1>3. QED
  BY <1>1, <1>2 DEF TxShape

\* A rollback resets its own transaction and nothing else.
LEMMA RollbackFields ==
  ASSUME Shape, NEW s \in Sessions, Rollback(s) \/ Commit(s)
  PROVE  tx'[s] = Idle /\ tx'[s].pc = "idle" /\ \A o \in Sessions \ {s} : tx'[o] = tx[o]
BY DEF Rollback, Commit, Shape, Idle

\* An update never touches a row's identity, link or number, and a restore
\* marks a reversal.
LEMMA UpdatedKeeps ==
  ASSUME NEW t, NEW v, RowShape(v), t.op \in Updating
  PROVE  /\ Updated(t, v).key = v.key /\ Updated(t, v).of = v.of /\ Updated(t, v).no = v.no
         /\ t.op = "restore" => Updated(t, v).restored = IsReversal(v)
         /\ t.op # "restore" => Updated(t, v).restored = v.restored
         /\ t.op = "edit" => Updated(t, v).live = v.live
         /\ t.op \notin {"edit", "restore"} => ~Updated(t, v).live
         /\ t.op \in {"sync", "remove"} => Updated(t, v).retired
         /\ t.op \notin {"sync", "remove"} => Updated(t, v).retired = v.retired
<1>1. CASE t.op = "edit"
  BY <1>1 DEF Updated, RowShape
<1>2. CASE t.op \in {"delete", "reopen"}
  BY <1>2 DEF Updated, RowShape
<1>3. CASE t.op = "restore"
  BY <1>3 DEF Updated, RowShape
<1>4. CASE t.op \in {"sync", "remove"}
  BY <1>4 DEF Updated, RowShape
<1>5. QED
  BY <1>1, <1>2, <1>3, <1>4 DEF Updating

\* The ids after a commit, and what each of them holds.
LEMMA CommitIds ==
  ASSUME FrozenInv, NEW s \in Sessions, Commit(s)
  PROVE  /\ Ids = 1 .. Len(vouchers) /\ Len(vouchers) \in Nat
         /\ Ids' = Ids \cup (IF tx[s].op \in Posting THEN {Len(vouchers) + 1} ELSE {})
         /\ Len(vouchers) + 1 \notin Ids
         /\ \A v \in Ids : /\ vouchers'[v].key = vouchers[v].key
                           /\ vouchers'[v].of = vouchers[v].of
                           /\ vouchers'[v].no = vouchers[v].no
         /\ tx[s].op \in Posting =>
              LET new == vouchers'[Len(vouchers) + 1] IN
              /\ new.key = tx[s].key /\ new.of = tx[s].of /\ new.no = tx[s].no
              /\ new.amount = tx[s].amount
<1>1. Shape /\ Shape'
  BY CommitKeepsShape DEF FrozenInv
<1>2. Ids = 1 .. Len(vouchers) /\ Len(vouchers) \in Nat
  BY <1>1 DEF Shape, Ids
<1>3. Ids' = 1 .. Len(vouchers')
  BY <1>1 DEF Shape, Ids
<1>4. Len(vouchers') = Len(vouchers) + (IF tx[s].op \in Posting THEN 1 ELSE 0)
  BY <1>1, CommitRows
<1>5. Ids' = Ids \cup (IF tx[s].op \in Posting THEN {Len(vouchers) + 1} ELSE {})
  BY <1>2, <1>3, <1>4
<1>6. ASSUME NEW v \in Ids
      PROVE  /\ vouchers'[v].key = vouchers[v].key
             /\ vouchers'[v].of = vouchers[v].of
             /\ vouchers'[v].no = vouchers[v].no
  <2>1. RowShape(vouchers[v])
    BY <1>1 DEF Shape
  <2>2. vouchers'[v] = IF tx[s].op \in Updating /\ v = tx[s].row
                       THEN Updated(tx[s], vouchers[v]) ELSE vouchers[v]
    BY <1>1, CommitRows
  <2>3. CASE tx[s].op \in Updating /\ v = tx[s].row
    BY <2>1, <2>2, <2>3, UpdatedKeeps
  <2>4. CASE ~(tx[s].op \in Updating /\ v = tx[s].row)
    BY <2>2, <2>4
  <2>5. QED
    BY <2>3, <2>4
<1>7. tx[s].op \in Posting => vouchers'[Len(vouchers) + 1] = Inserted(tx[s])
  BY <1>1, CommitRows
<1>8. QED
  BY <1>2, <1>5, <1>6, <1>7 DEF Inserted

\* Every step is one of four kinds.
LEMMA Steps ==
  ASSUME Next
  PROVE  \E s \in Sessions : Begins(s) \/ Write(s) \/ Commit(s) \/ Rollback(s)
BY DEF Next, Begins

-----------------------------------------------------------------------------
(* What a transaction has found and taken when it begins. *)

\* The identities that no step releases, and the number of vouchers that have
\* carried an identity of a kind.
Kept == {"client", "link", "exact"}
Used(kind, id) ==
  Cardinality({v \in Ids : vouchers[v].key.kind = kind /\ vouchers[v].key.id = id})

\* No live linked reversal of v that was never deleted and restored.
Unreversed(v) ==
  \A r \in Ids : vouchers[r].of = v /\ vouchers[r].live => vouchers[r].restored

Started(s, t) ==
  /\ t.pc # "idle" /\ t.no = 0
  /\ t.pc = "written" => t.op \notin Numbered
  /\ t.op \in {"post", "reverse", "exact"} =>
       t.key.kind \in Kept /\ ~Posted(t.key) /\ KeyFree(t.key)
  /\ t.op = "sync" =>
       /\ t.key.kind = "document" /\ KeyFree(t.key)
       /\ t.key.n = Used("document", t.key.id)
  /\ t.op = "close" =>
       /\ t.key.kind = "close" /\ ExclusiveFree(s)
       /\ t.key.n = Used("close", t.key.id) + 1
  /\ t.op \in {"sync", "remove"} /\ t.row \in Ids => vouchers[t.row].key.kind = "document"
  /\ t.op # "reverse" => t.of = 0
  /\ t.op = "reverse" =>
       /\ t.row \in Ids /\ t.of = t.row
       /\ vouchers[t.row].live /\ t.amount = -vouchers[t.row].amount
  /\ t.op = "edit" => vouchers[t.row].of = 0
  /\ t.op \in {"edit", "delete"} => t.row \in Ids /\ Unreversed(t.row)
  /\ t.op = "close" => t.amount = -Balance(t.date)
  /\ t.op = "reopen" => /\ Len(closures) \in 1 .. Len(closures) /\ closures # <<>>
                        /\ t.row = closures[Len(closures)].voucher

\* There are finitely many vouchers.
LEMMA FiniteIds == Shape => IsFiniteSet(Ids)
BY FS_Interval DEF Shape, Ids

\* The generation a document's journal is posted under is the number of its
\* journals, retired or not.
LEMMA GenerationIsUsed ==
  ASSUME Shape, NEW k
  PROVE  Generation(k) + Cardinality(JournalOf(k)) = Used("document", k)
<1> DEFINE all == {v \in Ids : vouchers[v].key.kind = "document" /\ vouchers[v].key.id = k}
           old == {v \in Ids : /\ vouchers[v].key.kind = "document"
                               /\ vouchers[v].key.id = k
                               /\ vouchers[v].retired}
           now == JournalOf(k)
<1>1. IsFiniteSet(Ids)
  BY FiniteIds
<1>2. all \in SUBSET Ids
  OBVIOUS
<1>3. old = all \ now
  BY DEF JournalOf
<1>4. all \cap now = now
  BY DEF JournalOf
<1>5. Used("document", k) = Cardinality(all) /\ Generation(k) = Cardinality(old)
  BY DEF Used, Generation
<1> HIDE DEF all, old, now
<1>6. IsFiniteSet(all)
  BY <1>1, <1>2, FS_Subset
<1>7. Cardinality(old) = Cardinality(all) - Cardinality(now)
  BY <1>3, <1>4, <1>6, FS_Difference
<1>8. IsFiniteSet(now)
  BY <1>4, <1>6, FS_Intersection
<1>9. Cardinality(all) \in Nat /\ Cardinality(now) \in Nat
  BY <1>6, <1>8, FS_CardinalityType
<1>10. QED
  BY <1>5, <1>7, <1>9 DEF now

\* Every begin action starts a transaction so.
LEMMA BeginIsStarted ==
  ASSUME Shape, NEW s \in Sessions, Begins(s)
  PROVE  Started(s, tx'[s])
<1> USE DEF Start, Idle, Numbered, Kept
<1>0. \A t : tx' = [tx EXCEPT ![s] = t] => tx'[s] = t
  BY DEF Shape
<1>1. ASSUME NEW c \in Clients, NEW d \in Dates, NEW a \in Amounts, BeginPost(s, c, d, a)
      PROVE  Started(s, tx'[s])
  <2>1. tx'[s] = [Idle EXCEPT !.pc = "checked", !.op = "post",
                              !.key = ClientKey(c), !.date = d, !.amount = a]
    BY <1>0, <1>1 DEF BeginPost
  <2>2. ClientKey(c).kind = "client" /\ ~Posted(ClientKey(c)) /\ KeyFree(ClientKey(c))
    BY <1>1 DEF BeginPost, ClientKey
  <2>3. QED
    BY <2>1, <2>2 DEF Started
<1>2. ASSUME NEW v \in Ids, NEW d \in Dates, NEW a \in Amounts, BeginEdit(s, v, d, a)
      PROVE  Started(s, tx'[s])
  <2>1. tx'[s] = [Idle EXCEPT !.pc = "checked", !.op = "edit", !.row = v,
                              !.date = d, !.amount = a]
    BY <1>0, <1>2 DEF BeginEdit
  <2>2. vouchers[v].of = 0 /\ Unreversed(v)
    BY <1>2 DEF BeginEdit, MayEdit, LiveReversals, Unreversed
  <2>3. QED
    BY <2>1, <2>2 DEF Started
<1>3. ASSUME NEW v \in Ids, BeginDelete(s, v) PROVE Started(s, tx'[s])
  <2>1. tx'[s] = [Idle EXCEPT !.pc = "checked", !.op = "delete", !.row = v]
    BY <1>0, <1>3 DEF BeginDelete
  <2>2. Unreversed(v)
    BY <1>3 DEF BeginDelete, MayDelete, LiveReversals, Unreversed
  <2>3. QED
    BY <2>1, <2>2 DEF Started
<1>4. ASSUME NEW v \in Ids, BeginRestore(s, v) PROVE Started(s, tx'[s])
  <2>1. tx'[s] = [Idle EXCEPT !.pc = "checked", !.op = "restore", !.row = v]
    BY <1>0, <1>4 DEF BeginRestore
  <2>2. QED
    BY <2>1 DEF Started
<1>5. ASSUME NEW v \in Ids, NEW d \in Dates, BeginReverse(s, v, d)
      PROVE  Started(s, tx'[s])
  <2> DEFINE k == LinkKey(v, ReversalAttempts(v) + 1)
  <2>1. tx'[s] = [Idle EXCEPT !.pc = "checked", !.op = "reverse", !.row = v,
                              !.key = k, !.date = d, !.amount = -vouchers[v].amount,
                              !.of = v]
    BY <1>0, <1>5 DEF BeginReverse
  <2>2. k.kind = "link" /\ ~Posted(k) /\ KeyFree(k) /\ vouchers[v].live
    BY <1>5 DEF BeginReverse, LinkKey, MayReverse
  <2> HIDE DEF k
  <2>3. QED
    BY <2>1, <2>2 DEF Started
<1>6. ASSUME NEW v \in Ids, NEW d \in Dates, BeginExactReversal(s, v, d)
      PROVE  Started(s, tx'[s])
  <2>1. tx'[s] = [Idle EXCEPT !.pc = "checked", !.op = "exact", !.row = v,
                              !.key = ExactKey(v), !.date = d,
                              !.amount = -vouchers[v].amount]
    BY <1>0, <1>6 DEF BeginExactReversal
  <2>2. ExactKey(v).kind = "exact" /\ ~Posted(ExactKey(v)) /\ KeyFree(ExactKey(v))
    BY <1>6 DEF BeginExactReversal, ExactKey
  <2>3. QED
    BY <2>1, <2>2 DEF Started
<1>7. ASSUME NEW k \in Documents, NEW d \in Dates, NEW a \in Amounts, BeginSync(s, k, d, a)
      PROVE  Started(s, tx'[s])
  <2> DEFINE row == IF JournalOf(k) = {} THEN 0 ELSE CHOOSE v \in JournalOf(k) : TRUE
             key == DocumentKey(k, Generation(k) + Cardinality(JournalOf(k)))
  <2>1. tx'[s] = [Idle EXCEPT !.pc = "checked", !.op = "sync", !.row = row,
                              !.key = key, !.date = d, !.amount = a]
    BY <1>0, <1>7 DEF BeginSync
  <2>2. key.kind = "document" /\ key.id = k /\ key.n = Used("document", k)
    BY GenerationIsUsed DEF DocumentKey
  <2>3. KeyFree(key)
    BY <1>7, <2>2 DEF BeginSync, KeyFree, DocumentKey
  <2>4. row = 0 \/ row \in JournalOf(k)
    OBVIOUS
  <2>5. row \in Ids => vouchers[row].key.kind = "document"
    <3>1. 0 \notin Ids
      BY DEF Shape, Ids
    <3>2. \A v \in JournalOf(k) : vouchers[v].key.kind = "document"
      BY DEF JournalOf
    <3> HIDE DEF row
    <3>3. QED
      BY <2>4, <3>1, <3>2
  <2> HIDE DEF row, key
  <2>6. QED
    BY <2>1, <2>2, <2>3, <2>5 DEF Started
<1>8. ASSUME NEW k \in Documents, BeginRemove(s, k) PROVE Started(s, tx'[s])
  <2>1. PICK v \in JournalOf(k) :
          Start(s, [Idle EXCEPT !.pc = "checked", !.op = "remove", !.row = v,
                                !.key = DocumentKey(k, 0)])
    BY <1>8 DEF BeginRemove
  <2>2. tx'[s] = [Idle EXCEPT !.pc = "checked", !.op = "remove", !.row = v,
                              !.key = DocumentKey(k, 0)]
    BY <1>0, <2>1
  <2>3. vouchers[v].key.kind = "document"
    BY DEF JournalOf
  <2>4. QED
    BY <2>2, <2>3 DEF Started
<1>9. ASSUME NEW e \in Dates, BeginClose(s, e) PROVE Started(s, tx'[s])
  <2> DEFINE key == CloseKey(e, CloseAttempts(e) + 1)
  <2>1. /\ tx'[s] = [Idle EXCEPT !.pc = "written", !.op = "close", !.key = key,
                                 !.date = e, !.amount = -Balance(e)]
        /\ ExclusiveFree(s)
    BY <1>0, <1>9 DEF BeginClose
  <2>2. key.kind = "close" /\ key.id = e /\ key.n = Used("close", e) + 1
    BY DEF CloseKey, CloseAttempts, Used
  <2> HIDE DEF key
  <2>3. QED
    BY <2>1, <2>2 DEF Started
<1>10. ASSUME BeginReopen(s) PROVE Started(s, tx'[s])
  <2> DEFINE v == closures[Len(closures)].voucher
  <2>1. tx'[s] = [Idle EXCEPT !.pc = "written", !.op = "reopen", !.row = v]
    BY <1>0, <1>10 DEF BeginReopen
  <2>2. Len(closures) \in 1 .. Len(closures) /\ closures # <<>>
    BY <1>10 DEF BeginReopen, Shape
  <2>3. v = closures[Len(closures)].voucher
    OBVIOUS
  <2> HIDE DEF v
  <2>4. QED
    BY <2>1, <2>2, <2>3 DEF Started
<1>11. QED
  BY <1>1, <1>2, <1>3, <1>4, <1>5, <1>6, <1>7, <1>8, <1>9, <1>10 DEF Begins

-----------------------------------------------------------------------------
(* Numbers. *)

\* The counter's row lock gives the next number to one open transaction.
NumbersInv ==
  /\ counter \in Nat
  /\ \A v \in Ids : vouchers[v].no \in 0 .. counter
  /\ \A n \in 1 .. counter : \E v \in Ids : vouchers[v].no = n
  /\ \A v, w \in Ids : vouchers[v].no # 0 /\ vouchers[v].no = vouchers[w].no => v = w
  /\ \A s \in Sessions : Open(s) =>
       tx[s].no = IF Written(s) /\ tx[s].op \in Numbered THEN counter + 1 ELSE 0
  /\ \A s, o \in Sessions :
       /\ Written(s) /\ tx[s].op \in Numbered
       /\ Written(o) /\ tx[o].op \in Numbered
       => s = o

\* The empty books have no numbers.
LEMMA NumbersInit == Init => NumbersInv
BY DEF Init, NumbersInv, Ids, Idle, Open, Written

\* Every step keeps the numbering.
LEMMA NumbersNext ==
  ASSUME FrozenInv, NumbersInv, [Next]_vars
  PROVE  NumbersInv'
<1>0. Shape
  BY DEF FrozenInv
<1>1. ASSUME NEW s \in Sessions, Begins(s) \/ Rollback(s) PROVE NumbersInv'
  <2>1. UNCHANGED <<vouchers, counter>> /\ \A o \in Sessions \ {s} : tx'[o] = tx[o]
    BY <1>0, <1>1, TablesKept
  <2>2. ~(Written(s) /\ tx[s].op \in Numbered)'
    BY <1>0, <1>1, BeginIsStarted, RollbackFields DEF Written, Started
  <2>3. Open(s)' => tx'[s].no = 0
    BY <1>0, <1>1, BeginIsStarted, RollbackFields DEF Open, Started
  <2>4. QED
    BY <2>1, <2>2, <2>3 DEF NumbersInv, Ids, Open, Written
<1>2. ASSUME NEW s \in Sessions, Write(s) PROVE NumbersInv'
  <2>1. UNCHANGED <<vouchers, counter>> /\ \A o \in Sessions \ {s} : tx'[o] = tx[o]
    BY <1>0, <1>2, TablesKept
  <2>2. /\ tx'[s].pc = "written" /\ tx'[s].op = tx[s].op
        /\ tx'[s].no = IF tx[s].op \in Numbered THEN counter + 1 ELSE 0
    BY <1>0, <1>2, WriteFields DEF NextNumber
  <2>3. tx[s].op \in Numbered =>
          \A o \in Sessions \ {s} : ~(Written(o) /\ tx[o].op \in Numbered)
    BY <1>2 DEF Write, CounterFree
  <2>4. QED
    BY <2>1, <2>2, <2>3 DEF NumbersInv, Ids, Open, Written
<1>3. ASSUME NEW s \in Sessions, Commit(s) PROVE NumbersInv'
  <2> DEFINE new == Len(vouchers) + 1
  <2>1. /\ Ids' = Ids \cup (IF tx[s].op \in Posting THEN {new} ELSE {})
        /\ new \notin Ids
        /\ \A v \in Ids : vouchers'[v].no = vouchers[v].no
        /\ tx[s].op \in Posting => vouchers'[new].no = tx[s].no
    BY <1>3, CommitIds
  <2> HIDE DEF new
  <2>2. Written(s) /\ Open(s) /\ counter' = IF tx[s].op \in Numbered THEN tx[s].no ELSE counter
    BY <1>3 DEF Commit, Written, Open
  <2>3. tx[s].no = IF tx[s].op \in Numbered THEN counter + 1 ELSE 0
    BY <2>2 DEF NumbersInv
  <2>4. Numbered \subseteq Posting
    BY DEF Numbered, Posting
  <2>5. tx'[s].pc = "idle" /\ \A o \in Sessions \ {s} : tx'[o] = tx[o]
    BY <1>0, <1>3, RollbackFields
  <2>6. CASE tx[s].op \in Numbered
    <3>1. counter' = counter + 1 /\ Ids' = Ids \cup {new} /\ vouchers'[new].no = counter + 1
      BY <2>1, <2>2, <2>3, <2>4, <2>6
    <3>2. \A o \in Sessions \ {s} : ~(Written(o) /\ tx[o].op \in Numbered)
      BY <2>2, <2>6 DEF NumbersInv
    <3>3. \A o \in Sessions : Open(o)' =>
            tx'[o].no = 0 /\ ~(Written(o) /\ tx[o].op \in Numbered)'
      BY <2>5, <3>2 DEF NumbersInv, Open, Written
    <3>4. counter' \in Nat /\ \A v \in Ids' : vouchers'[v].no \in 0 .. counter'
      BY <2>1, <3>1 DEF NumbersInv
    <3>5. \A n \in 1 .. counter' : \E v \in Ids' : vouchers'[v].no = n
      <4> SUFFICES ASSUME NEW n \in 1 .. counter' PROVE \E v \in Ids' : vouchers'[v].no = n
        OBVIOUS
      <4>1. CASE n = counter + 1
        BY <3>1, <4>1
      <4>2. CASE n # counter + 1
        <5>1. n \in 1 .. counter
          BY <3>1, <4>2 DEF NumbersInv
        <5>2. QED
          BY <2>1, <3>1, <5>1 DEF NumbersInv
      <4>3. QED
        BY <4>1, <4>2
    <3>6. \A v, w \in Ids' : vouchers'[v].no # 0 /\ vouchers'[v].no = vouchers'[w].no => v = w
      <4>1. \A v \in Ids : vouchers'[v].no # counter + 1
        BY <2>1 DEF NumbersInv
      <4>2. QED
        BY <2>1, <3>1, <4>1 DEF NumbersInv
    <3>7. QED
      BY <3>3, <3>4, <3>5, <3>6 DEF NumbersInv, Open, Written
  <2>7. CASE tx[s].op \notin Numbered
    <3>1. counter' = counter /\ (tx[s].op \in Posting => vouchers'[new].no = 0)
      BY <2>1, <2>2, <2>3, <2>7
    <3>2. /\ counter' \in Nat /\ \A v \in Ids' : vouchers'[v].no \in 0 .. counter'
          /\ \A n \in 1 .. counter' : \E v \in Ids' : vouchers'[v].no = n
          /\ \A v, w \in Ids' : vouchers'[v].no # 0 /\ vouchers'[v].no = vouchers'[w].no => v = w
      BY <2>1, <3>1 DEF NumbersInv
    <3>3. QED
      BY <2>5, <3>1, <3>2 DEF NumbersInv, Open, Written
  <2>8. QED
    BY <2>6, <2>7
<1>4. CASE UNCHANGED vars
  BY <1>4 DEF vars, NumbersInv, Ids, Open, Written
<1>5. QED
  BY <1>1, <1>2, <1>3, <1>4, Steps

\* The numbering invariant gives numbers without gaps.
LEMMA NumbersGive ==
  ASSUME Shape, NumbersInv
  PROVE  NumbersGapless
<1> DEFINE numbered == {v \in Ids : vouchers[v].no # 0}
           f == [v \in numbered |-> vouchers[v].no]
<1>1. {vouchers[v].no : v \in numbered} = 1 .. counter
  BY DEF NumbersInv
<1>2. IsFiniteSet(1 .. counter) /\ Cardinality(1 .. counter) = counter
  BY FS_Interval DEF NumbersInv
<1>3. f \in Bijection(numbered, 1 .. counter)
  <2>1. f \in [numbered -> 1 .. counter]
    BY DEF NumbersInv
  <2>2. \A v, w \in numbered : f[v] = f[w] => v = w
    BY DEF NumbersInv
  <2>3. \A n \in 1 .. counter : \E v \in numbered : f[v] = n
    BY DEF NumbersInv
  <2>4. QED
    BY <2>1, <2>2, <2>3, Fun_IsBij
<1>4. Cardinality(numbered) = counter
  <2>1. IsFiniteSet(Ids)
    BY FiniteIds
  <2>2. IsFiniteSet(numbered)
    <3>1. numbered \in SUBSET Ids
      OBVIOUS
    <3> HIDE DEF numbered
    <3>2. QED
      BY <2>1, <3>1, FS_Subset
  <2>3. ExistsBijection(numbered, 1 .. counter)
    BY <1>3 DEF ExistsBijection
  <2>4. QED
    BY <1>2, <2>2, <2>3, FS_Bijection
<1>5. QED
  BY <1>1, <1>4 DEF NumbersGapless

\* The engine's numbers are 1 to the counter, each used once, for any number of
\* concurrent postings and rollbacks (allocateVoucherNumberTx).
THEOREM NumbersHaveNoGaps == Spec => []NumbersGapless
<1>1. Spec => []FrozenInv
  BY FrozenInit, FrozenNext, PTL DEF Spec
<1>2. FrozenInv /\ NumbersInv /\ [Next]_vars => NumbersInv'
  BY NumbersNext
<1>3. FrozenInv /\ NumbersInv => NumbersGapless
  BY NumbersGive DEF FrozenInv
<1>4. QED
  BY <1>1, <1>2, <1>3, NumbersInit, PTL DEF Spec

-----------------------------------------------------------------------------
(* Posting identities. *)

\* Who may post under an identity: one open transaction at a time.
OnePoster ==
  \A s, o \in Sessions :
    /\ Open(s) /\ tx[s].op \in Posting
    /\ Open(o) /\ tx[o].op \in Posting
    /\ tx[s].key.kind = tx[o].key.kind /\ tx[s].key.id = tx[o].key.id
    => s = o

\* An identity about to be posted is new: it was looked up and is locked, or
\* its generation or attempt counts every voucher of its kind.
NewIdentity(t) ==
  /\ t.op \in {"post", "reverse", "exact"} => t.key.kind \in Kept /\ ~Posted(t.key)
  /\ t.op = "sync" => t.key.kind = "document" /\ t.key.n = Used("document", t.key.id)
  /\ t.op = "close" => t.key.kind = "close" /\ t.key.n = Used("close", t.key.id) + 1

\* An identity in the books is looked up or counted by the next one.
Counted(k) ==
  /\ k.kind \in Kept => Posted(k)
  /\ k.kind = "document" => k.n \in Nat /\ k.n < Used("document", k.id)
  /\ k.kind = "close" => k.n \in Nat /\ k.n <= Used("close", k.id)

IdentitiesInv ==
  /\ PostedOnce
  /\ OnePoster
  /\ \A q \in requests : q.voucher \in Ids /\ vouchers[q.voucher].key = q.key
  /\ \A v \in Ids : Counted(vouchers[v].key)
  /\ \A s \in Sessions : Open(s) =>
       /\ NewIdentity(tx[s])
       /\ tx[s].op \in {"sync", "remove"} /\ tx[s].row \in Ids =>
            vouchers[tx[s].row].key.kind = "document"

\* The empty books have no identities.
LEMMA IdentitiesInit == Init => IdentitiesInv
BY DEF Init, IdentitiesInv, PostedOnce, OnePoster, Ids, Idle, Open

\* Nothing that the identities depend on changes but one transaction, which is
\* closed or goes on with the same identity.
LEMMA IdentitiesKept ==
  ASSUME IdentitiesInv, NEW s \in Sessions,
         UNCHANGED <<vouchers, requests>>,
         \A o \in Sessions \ {s} : tx'[o] = tx[o],
         \/ tx'[s].pc = "idle"
         \/ /\ Open(s) /\ tx'[s].op = tx[s].op
            /\ tx'[s].key = tx[s].key /\ tx'[s].row = tx[s].row
  PROVE  IdentitiesInv'
<1>1. Ids' = Ids /\ (\A k : Posted(k)' = Posted(k)) /\ \A k, i : Used(k, i)' = Used(k, i)
  BY DEF Ids, Posted, Used
<1>2. PostedOnce'
  BY <1>1 DEF IdentitiesInv, PostedOnce
<1>3. OnePoster'
  BY DEF IdentitiesInv, OnePoster, Open
<1>4. \A o \in Sessions : Open(o)' =>
        /\ Open(o) /\ tx'[o].op = tx[o].op
        /\ tx'[o].key = tx[o].key /\ tx'[o].row = tx[o].row
  BY DEF Open
<1>5. \A o \in Sessions : Open(o)' =>
        /\ NewIdentity(tx[o])'
        /\ tx'[o].op \in {"sync", "remove"} /\ tx'[o].row \in Ids' =>
             vouchers'[tx'[o].row].key.kind = "document"
  BY <1>1, <1>4 DEF IdentitiesInv, NewIdentity
<1>6. QED
  BY <1>1, <1>2, <1>3, <1>5 DEF IdentitiesInv, Counted

\* A transaction that begins takes an identity that is new and free.
LEMMA IdentitiesBegin ==
  ASSUME FrozenInv, IdentitiesInv, NEW s \in Sessions, Begins(s)
  PROVE  IdentitiesInv'
<1>1. Shape
  BY DEF FrozenInv
<1>2. Started(s, tx'[s])
  BY <1>1, BeginIsStarted
<1>3. UNCHANGED <<vouchers, requests>> /\ \A o \in Sessions \ {s} : tx'[o] = tx[o]
  BY <1>1, TablesKept
<1>4. Ids' = Ids /\ (\A k : Posted(k)' = Posted(k)) /\ \A k, i : Used(k, i)' = Used(k, i)
  BY <1>3 DEF Ids, Posted, Used
<1>5. PostedOnce'
  BY <1>3, <1>4 DEF IdentitiesInv, PostedOnce
<1>6. OnePoster'
  <2>1. ASSUME NEW o \in Sessions \ {s}, Open(o), tx[o].op \in Posting, tx'[s].op \in Posting,
               tx'[s].key.kind = tx[o].key.kind, tx'[s].key.id = tx[o].key.id
        PROVE  FALSE
    <3>1. CASE tx'[s].op \in {"post", "reverse", "exact", "sync"}
      BY <1>2, <2>1, <3>1 DEF Started, KeyFree
    <3>2. CASE tx'[s].op = "close"
      <4>1. tx[o].key.kind = "close" /\ tx[o].op = "close"
        BY <1>2, <2>1, <3>2 DEF Started, IdentitiesInv, NewIdentity, Posting, Kept
      <4>2. QED
        BY <1>2, <2>1, <3>2, <4>1 DEF Started, ExclusiveFree, HoldsExclusive, Exclusive
    <3>3. QED
      BY <2>1, <3>1, <3>2 DEF Posting
  <2>2. QED
    BY <1>3, <2>1 DEF IdentitiesInv, OnePoster, Open
<1>7. NewIdentity(tx[s])'
  BY <1>2, <1>4 DEF Started, NewIdentity
<1>8. tx'[s].op \in {"sync", "remove"} /\ tx'[s].row \in Ids' =>
        vouchers'[tx'[s].row].key.kind = "document"
  BY <1>2, <1>3, <1>4 DEF Started
<1>9. ASSUME NEW o \in Sessions \ {s}, Open(o)'
      PROVE  /\ NewIdentity(tx[o])'
             /\ tx'[o].op \in {"sync", "remove"} /\ tx'[o].row \in Ids' =>
                  vouchers'[tx'[o].row].key.kind = "document"
  <2>1. tx'[o] = tx[o] /\ Open(o)
    BY <1>3, <1>9 DEF Open
  <2>2. QED
    BY <1>3, <1>4, <2>1 DEF IdentitiesInv, NewIdentity
<1>10. QED
  BY <1>3, <1>4, <1>5, <1>6, <1>7, <1>8, <1>9 DEF IdentitiesInv, Counted

\* A commit adds its own voucher, if any, to those of its kind.
LEMMA CommitUses ==
  ASSUME FrozenInv, NEW s \in Sessions, Commit(s), NEW kind, NEW id
  PROVE  /\ Used(kind, id) \in Nat
         /\ Used(kind, id)' = Used(kind, id)
              + (IF /\ tx[s].op \in Posting
                    /\ tx[s].key.kind = kind /\ tx[s].key.id = id THEN 1 ELSE 0)
<1> DEFINE new == Len(vouchers) + 1
           all == {v \in Ids : vouchers[v].key.kind = kind /\ vouchers[v].key.id = id}
           then == {v \in Ids' : vouchers'[v].key.kind = kind /\ vouchers'[v].key.id = id}
<1>1. /\ Ids' = Ids \cup (IF tx[s].op \in Posting THEN {new} ELSE {})
      /\ new \notin Ids
      /\ \A v \in Ids : vouchers'[v].key = vouchers[v].key
      /\ tx[s].op \in Posting => vouchers'[new].key = tx[s].key
  BY CommitIds
<1>3. then = IF /\ tx[s].op \in Posting
                /\ tx[s].key.kind = kind /\ tx[s].key.id = id THEN all \cup {new} ELSE all
  <2> HIDE DEF new
  <2>1. QED
    BY <1>1
<1>4. new \notin all
  BY <1>1
<1>5. Used(kind, id) = Cardinality(all) /\ Used(kind, id)' = Cardinality(then)
  BY DEF Used
<1>6. IsFiniteSet(Ids) /\ all \in SUBSET Ids
  BY FiniteIds DEF FrozenInv
<1> HIDE DEF all, then, new
<1>7. IsFiniteSet(all)
  BY <1>6, FS_Subset
<1>8. Cardinality(all) \in Nat /\ Cardinality(all \cup {new}) = Cardinality(all) + 1
  BY <1>4, <1>7, FS_AddElement, FS_CardinalityType
<1>9. QED
  BY <1>3, <1>5, <1>8

\* Committing keeps the identities: what is released belongs to documents.
LEMMA IdentitiesCommit ==
  ASSUME FrozenInv, IdentitiesInv, NEW s \in Sessions, Commit(s)
  PROVE  IdentitiesInv'
<1>0. PICK t : t = tx[s]
  OBVIOUS
<1> DEFINE new == Len(vouchers) + 1
<1>1. /\ Ids = 1 .. Len(vouchers) /\ Len(vouchers) \in Nat
      /\ Ids' = Ids \cup (IF t.op \in Posting THEN {new} ELSE {})
      /\ new \notin Ids
      /\ \A v \in Ids : vouchers'[v].key = vouchers[v].key
      /\ t.op \in Posting => vouchers'[new].key = t.key
  BY <1>0, CommitIds
<1>2. 0 \notin Ids'
  BY <1>1
<1>3. Open(s) /\ tx'[s].pc = "idle" /\ \A o \in Sessions \ {s} : tx'[o] = tx[o]
  BY RollbackFields DEF Commit, Written, Open, FrozenInv
<1>4. requests' = (requests \ Released(t))
                    \cup (IF t.op \in Posting THEN {[key |-> t.key, voucher |-> new]} ELSE {})
  BY <1>0 DEF Commit
<1>5. /\ NewIdentity(t)
      /\ t.op \in {"sync", "remove"} /\ t.row \in Ids => vouchers[t.row].key.kind = "document"
  BY <1>0, <1>3 DEF IdentitiesInv
<1>6. \A q \in Released(t) : q.key.kind = "document"
  BY <1>5 DEF Released, IdentitiesInv
<1>7. \A kind, id :
        /\ Used(kind, id) \in Nat
        /\ Used(kind, id)' = Used(kind, id)
             + (IF t.op \in Posting /\ t.key.kind = kind /\ t.key.id = id THEN 1 ELSE 0)
  BY <1>0, CommitUses
<1>8. t.op \in Posting => \A v \in Ids : vouchers[v].key # t.key
  <2> SUFFICES ASSUME t.op \in Posting, NEW v \in Ids, vouchers[v].key = t.key PROVE FALSE
    OBVIOUS
  <2>0. Counted(t.key)
    BY DEF IdentitiesInv
  <2>1. CASE t.op \in {"post", "reverse", "exact"}
    BY <1>5, <2>0, <2>1 DEF NewIdentity, Counted
  <2>2. CASE t.op = "sync"
    BY <1>5, <1>7, <2>0, <2>2 DEF NewIdentity, Counted
  <2>3. CASE t.op = "close"
    BY <1>5, <1>7, <2>0, <2>3 DEF NewIdentity, Counted
  <2>4. QED
    BY <2>1, <2>2, <2>3 DEF Posting
<1> HIDE DEF new
<1>9. PostedOnce'
  BY <1>1, <1>8 DEF PostedOnce, IdentitiesInv
<1>10. OnePoster'
  BY <1>3 DEF OnePoster, IdentitiesInv, Open
<1>11. \A q \in requests' : q.voucher \in Ids' /\ vouchers'[q.voucher].key = q.key
  BY <1>1, <1>4 DEF IdentitiesInv
<1>12. \A k : Posted(k) /\ k.kind # "document" => Posted(k)'
  BY <1>4, <1>6 DEF Posted
<1>13. t.op \in Posting => Posted(t.key)'
  <2>1. t.op \in Posting => [key |-> t.key, voucher |-> new] \in requests'
    BY <1>4
  <2>2. QED
    BY <2>1 DEF Posted
<1>14. ASSUME NEW v \in Ids' PROVE Counted(vouchers[v].key)'
  <2>1. PICK k : k = vouchers'[v].key
    OBVIOUS
  <2>2. CASE v \in Ids
    <3>1. Counted(k)
      BY <1>1, <2>1, <2>2 DEF IdentitiesInv
    <3>2. /\ Used("document", k.id)' \in Nat /\ Used("document", k.id) \in Nat
          /\ Used("document", k.id) <= Used("document", k.id)'
      BY <1>7
    <3>3. /\ Used("close", k.id)' \in Nat /\ Used("close", k.id) \in Nat
          /\ Used("close", k.id) <= Used("close", k.id)'
      BY <1>7
    <3>4. Counted(k)'
      BY <1>12, <3>1, <3>2, <3>3 DEF Counted, Kept
    <3>5. QED
      BY <2>1, <3>4 DEF Counted, Posted, Used
  <2>3. CASE v \notin Ids
    <3>1. t.op \in Posting /\ k = t.key
      BY <1>1, <2>1, <2>3
    <3>2. /\ k.kind = "document" => t.op = "sync"
          /\ k.kind = "close" => t.op = "close"
      BY <1>5, <3>1 DEF NewIdentity, Posting, Kept
    <3>3. k.kind = "document" => k.n = Used("document", k.id)
      BY <1>5, <3>1, <3>2 DEF NewIdentity
    <3>4. k.kind = "close" => k.n = Used("close", k.id) + 1
      BY <1>5, <3>1, <3>2 DEF NewIdentity
    <3>5. /\ k.kind = "document" => /\ Used("document", k.id) \in Nat
                                    /\ Used("document", k.id)' = Used("document", k.id) + 1
          /\ k.kind = "close" => /\ Used("close", k.id) \in Nat
                                 /\ Used("close", k.id)' = Used("close", k.id) + 1
      BY <1>7, <3>1
    <3>6. Counted(k)'
      BY <1>13, <3>1, <3>3, <3>4, <3>5 DEF Counted
    <3>7. QED
      BY <2>1, <3>6 DEF Counted, Posted, Used
  <2>4. QED
    BY <2>2, <2>3
<1>15. ASSUME NEW o \in Sessions, Open(o)'
       PROVE  /\ NewIdentity(tx[o])'
              /\ tx'[o].op \in {"sync", "remove"} /\ tx'[o].row \in Ids' =>
                   vouchers'[tx'[o].row].key.kind = "document"
  <2>1. o # s /\ tx'[o] = tx[o] /\ Open(o)
    BY <1>3, <1>15 DEF Open
  <2>2. PICK p : p = tx[o]
    OBVIOUS
  <2>3. NewIdentity(p) /\ (p.op \in {"sync", "remove"} /\ p.row \in Ids =>
          vouchers[p.row].key.kind = "document")
    BY <2>1, <2>2 DEF IdentitiesInv
  <2>4. p.row \in {0} \cup Ids
    BY <2>2 DEF FrozenInv, Shape, TxShape
  <2>5. t.op \in Posting /\ p.op \in Posting =>
          ~(t.key.kind = p.key.kind /\ t.key.id = p.key.id)
    BY <1>0, <1>3, <2>1, <2>2 DEF IdentitiesInv, OnePoster
  <2>6. p.op \in Posting /\ ~Posted(p.key) => ~Posted(p.key)'
    BY <1>4, <2>5 DEF Posted
  <2>7. p.op \in Posting => Used(p.key.kind, p.key.id)' = Used(p.key.kind, p.key.id)
    BY <1>7, <2>5
  <2>8. NewIdentity(p)'
    <3>1. p.op \in {"post", "reverse", "exact"} => p.key.kind \in Kept /\ ~Posted(p.key)'
      BY <2>3, <2>6 DEF NewIdentity, Posting
    <3>2. p.op = "sync" => p.key.kind = "document" /\ p.key.n = Used("document", p.key.id)'
      BY <2>3, <2>7 DEF NewIdentity, Posting
    <3>3. p.op = "close" => p.key.kind = "close" /\ p.key.n = Used("close", p.key.id)' + 1
      BY <2>3, <2>7 DEF NewIdentity, Posting
    <3>4. QED
      BY <3>1, <3>2, <3>3 DEF NewIdentity
  <2>9. NewIdentity(tx[o])'
    BY <2>1, <2>2, <2>8 DEF NewIdentity, Posted, Used
  <2>10. QED
    BY <1>1, <1>2, <2>1, <2>2, <2>3, <2>4, <2>9
<1>16. QED
  BY <1>9, <1>10, <1>11, <1>14, <1>15 DEF IdentitiesInv

\* Every step keeps the identities posted once.
LEMMA IdentitiesNext ==
  ASSUME FrozenInv, IdentitiesInv, [Next]_vars
  PROVE  IdentitiesInv'
<1>1. ASSUME NEW s \in Sessions, Write(s) PROVE IdentitiesInv'
  BY <1>1, TablesKept, WriteFields, IdentitiesKept DEF FrozenInv, Open
<1>2. ASSUME NEW s \in Sessions, Rollback(s) PROVE IdentitiesInv'
  BY <1>2, TablesKept, RollbackFields, IdentitiesKept DEF FrozenInv
<1>3. CASE UNCHANGED vars
  <2>1. /\ UNCHANGED <<vouchers, requests, tx>> /\ Ids' = Ids
        /\ \A k : Posted(k)' = Posted(k)
        /\ \A k, i : Used(k, i)' = Used(k, i)
    BY <1>3 DEF vars, Ids, Posted, Used
  <2>2. PostedOnce' /\ OnePoster'
    BY <2>1 DEF IdentitiesInv, PostedOnce, OnePoster, Open
  <2>3. QED
    BY <2>1, <2>2 DEF IdentitiesInv, Counted, NewIdentity, Open
<1>4. QED
  BY <1>1, <1>2, <1>3, IdentitiesBegin, IdentitiesCommit, Steps

\* No request is posted twice: an identity belongs to one voucher for ever,
\* through retries, reposted documents and repeated closes (findExisting,
\* currentGenerationIdentityTx and the attempts of reversals and closes).
THEOREM IdentitiesPostOnce == Spec => []PostedOnce
<1>1. Spec => []FrozenInv
  BY FrozenInit, FrozenNext, PTL DEF Spec
<1>2. FrozenInv /\ IdentitiesInv /\ [Next]_vars => IdentitiesInv'
  BY IdentitiesNext
<1>3. IdentitiesInv => PostedOnce
  BY DEF IdentitiesInv
<1>4. QED
  BY <1>1, <1>2, <1>3, IdentitiesInit, PTL DEF Spec

-----------------------------------------------------------------------------
(* Reversals. *)

\* What a transaction found about the row it locked still holds.
Fits(t) ==
  /\ t.op # "reverse" => t.of = 0
  /\ t.op = "reverse" =>
       /\ t.row \in Ids /\ t.of = t.row
       /\ vouchers[t.row].live /\ t.amount = -vouchers[t.row].amount
  /\ t.op = "edit" => vouchers[t.row].of = 0
  /\ t.op \in {"edit", "delete"} => t.row \in Ids /\ Unreversed(t.row)
  /\ t.op = "reopen" => t.row \in Ids /\ vouchers[t.row].key.kind = "close"
  /\ t.op = "close" => t.key.kind = "close"

MirrorsInv ==
  /\ ReversalMirrors
  /\ \A r \in Ids : vouchers[r].of # 0 => vouchers[r].of \in Ids
  /\ \A i \in 1 .. Len(closures) : vouchers[closures[i].voucher].key.kind = "close"
  /\ \A s \in Sessions : Open(s) => Fits(tx[s])

\* The empty books have no reversals.
LEMMA MirrorsInit == Init => MirrorsInv
BY DEF Init, MirrorsInv, ReversalMirrors, Ids, Idle, Open

\* The closures after a commit are old ones and the one it made.
LEMMA CommitClosures ==
  ASSUME FrozenInv, NEW s \in Sessions, Commit(s), NEW i \in 1 .. Len(closures')
  PROVE  \/ \E j \in 1 .. Len(closures) : closures'[i].voucher = closures[j].voucher
         \/ tx[s].op = "close" /\ closures'[i].voucher = Len(vouchers) + 1
<1> USE DEF FrozenInv
<1>1. CASE tx[s].op = "close"
  <2>1. closures' = Append(closures, [end |-> tx[s].date, voucher |-> Len(vouchers) + 1])
    BY <1>1 DEF Commit
  <2>2. closures \in Seq(Closure)
    BY DEF Shape
  <2>3. QED
    BY <1>1, <2>1, <2>2
<1>2. CASE tx[s].op = "reopen"
  <2>1. closures # <<>>
    BY <1>2 DEF Commit, PeriodLocks, HoldsExclusive, Open, Written, Exclusive
  <2>2. closures' = SubSeq(closures, 1, Len(closures) - 1)
    BY <1>2 DEF Commit
  <2>3. closures \in Seq(Closure)
    BY DEF Shape
  <2>4. i \in 1 .. Len(closures) - 1 /\ closures'[i] = closures[i]
    BY <2>1, <2>2, <2>3
  <2>5. QED
    BY <2>3, <2>4
<1>3. CASE tx[s].op \notin Exclusive
  BY <1>3 DEF Commit, Exclusive
<1>4. QED
  BY <1>1, <1>2, <1>3 DEF Exclusive

\* What a commit does to the rows that were there.
LEMMA CommitOldRows ==
  ASSUME FrozenInv, MirrorsInv, NEW s \in Sessions, Commit(s), NEW v \in Ids
  PROVE  /\ ~(tx[s].op \in Updating /\ v = tx[s].row) => vouchers'[v] = vouchers[v]
         /\ vouchers'[v].amount # vouchers[v].amount =>
              tx[s].op = "edit" /\ v = tx[s].row
         /\ vouchers'[v].live /\ ~vouchers'[v].restored /\ vouchers[v].of # 0 =>
              vouchers[v].live /\ ~vouchers[v].restored
         /\ vouchers[v].live => \/ vouchers'[v].live \/ vouchers'[v].retired
                                \/ v = tx[s].row /\ tx[s].op \in {"delete", "reopen"}
         /\ vouchers[v].retired => vouchers'[v].retired
<1>1. Shape /\ RowShape(vouchers[v])
  BY DEF FrozenInv, Shape
<1>2. vouchers'[v] = IF tx[s].op \in Updating /\ v = tx[s].row
                     THEN Updated(tx[s], vouchers[v]) ELSE vouchers[v]
  BY <1>1, CommitRows
<1>3. CASE tx[s].op \in Updating /\ v = tx[s].row
  <2>1. vouchers'[v] = Updated(tx[s], vouchers[v])
    BY <1>2, <1>3
  <2>2. tx[s].op # "edit" => vouchers'[v].amount = vouchers[v].amount
    BY <1>1, <1>3, <2>1, UpdatedFields
  <2>3. /\ tx[s].op = "restore" => vouchers'[v].restored = IsReversal(vouchers[v])
        /\ tx[s].op # "restore" => vouchers'[v].restored = vouchers[v].restored
        /\ tx[s].op = "edit" => vouchers'[v].live = vouchers[v].live
        /\ tx[s].op \notin {"edit", "restore"} => ~vouchers'[v].live
        /\ tx[s].op \in {"sync", "remove"} => vouchers'[v].retired
        /\ tx[s].op \notin {"sync", "remove"} => vouchers'[v].retired = vouchers[v].retired
    BY <1>1, <1>3, <2>1, UpdatedKeeps
  <2>4. tx[s].op = "restore" => vouchers'[v].live
    BY <1>1, <1>3, <2>1, UpdatedFields
  <2>5. QED
    BY <1>3, <2>2, <2>3, <2>4 DEF Updating, IsReversal
<1>4. CASE ~(tx[s].op \in Updating /\ v = tx[s].row)
  BY <1>2, <1>4
<1>5. QED
  BY <1>3, <1>4

\* A reversal that is live and was never restored mirrors its original after a
\* commit: the original's row is locked while it is reversed or changed.
LEMMA MirrorsCommit ==
  ASSUME FrozenInv, MirrorsInv, NEW s \in Sessions, Commit(s)
  PROVE  MirrorsInv'
<1>0. PICK t : t = tx[s]
  OBVIOUS
<1> DEFINE new == Len(vouchers) + 1
<1>1. /\ Ids = 1 .. Len(vouchers) /\ Len(vouchers) \in Nat
      /\ Ids' = Ids \cup (IF t.op \in Posting THEN {new} ELSE {})
      /\ new \notin Ids
      /\ \A v \in Ids : /\ vouchers'[v].key = vouchers[v].key
                        /\ vouchers'[v].of = vouchers[v].of
      /\ t.op \in Posting => /\ vouchers'[new].key = t.key /\ vouchers'[new].of = t.of
                             /\ vouchers'[new].amount = t.amount
  BY <1>0, CommitIds
<1>2. 0 \notin Ids'
  BY <1>1
<1>3. /\ Open(s) /\ Written(s) /\ tx'[s].pc = "idle"
      /\ \A o \in Sessions \ {s} : tx'[o] = tx[o]
  BY RollbackFields DEF Commit, Written, Open, FrozenInv
<1>4. Fits(t)
  BY <1>0, <1>3 DEF MirrorsInv
<1>5. \A v \in Ids :
        /\ ~(t.op \in Updating /\ v = t.row) => vouchers'[v] = vouchers[v]
        /\ vouchers'[v].amount # vouchers[v].amount => t.op = "edit" /\ v = t.row
        /\ vouchers'[v].live /\ ~vouchers'[v].restored /\ vouchers[v].of # 0 =>
             vouchers[v].live /\ ~vouchers[v].restored
        /\ vouchers[v].live => \/ vouchers'[v].live \/ vouchers'[v].retired
                               \/ v = t.row /\ t.op \in {"delete", "reopen"}
        /\ vouchers[v].retired => vouchers'[v].retired
  BY <1>0, CommitOldRows
<1>6. \A o \in Sessions \ {s}, v \in Ids : HoldsRow(o, v) => v # t.row
  <2>1. \A v \in Ids : v = t.row => HoldsRow(s, v)
    BY <1>0, <1>3 DEF HoldsRow
  <2>2. QED
    BY <2>1 DEF FrozenInv, RowLocks
<1> HIDE DEF new
<1>7. \A r \in Ids' : vouchers'[r].of # 0 => vouchers'[r].of \in Ids'
  BY <1>1, <1>4 DEF MirrorsInv, Fits
<1>8. ReversalMirrors'
  <2> SUFFICES ASSUME NEW r \in Ids', NEW o, o = vouchers'[r].of, o # 0,
                      vouchers'[r].live, ~vouchers'[r].restored
               PROVE  /\ vouchers'[r].amount = -vouchers'[o].amount
                      /\ \/ vouchers'[o].live \/ vouchers'[o].retired
                         \/ vouchers'[o].key.kind = "close"
    BY DEF ReversalMirrors
  <2>1. CASE r \in Ids
    <3>1. o = vouchers[r].of /\ o \in Ids /\ vouchers[r].live /\ ~vouchers[r].restored
      BY <1>1, <1>5, <2>1 DEF MirrorsInv
    <3>2. /\ vouchers[r].amount = -vouchers[o].amount
          /\ \/ vouchers[o].live \/ vouchers[o].retired
             \/ vouchers[o].key.kind = "close"
      BY <2>1, <3>1 DEF MirrorsInv, ReversalMirrors
    <3>3. ~(t.op \in {"edit", "delete"} /\ o = t.row)
      BY <1>4, <2>1, <3>1 DEF Fits, Unreversed
    <3>4. vouchers'[r].amount = vouchers[r].amount /\ vouchers'[o].amount = vouchers[o].amount
      BY <1>4, <1>5, <2>1, <3>1, <3>3 DEF Fits
    <3>5. \/ vouchers'[o].live \/ vouchers'[o].retired
          \/ vouchers'[o].key.kind = "close"
      BY <1>1, <1>4, <1>5, <3>1, <3>2, <3>3 DEF Fits
    <3>6. QED
      BY <3>2, <3>4, <3>5
  <2>2. CASE r \notin Ids
    <3>1. t.op \in Posting /\ o = t.of /\ vouchers'[r].amount = t.amount
      BY <1>1, <2>2
    <3>2. /\ t.op = "reverse" /\ o = t.row /\ o \in Ids /\ vouchers[o].live
          /\ t.amount = -vouchers[o].amount
      BY <1>4, <3>1 DEF Fits
    <3>3. vouchers'[o] = vouchers[o]
      BY <1>5, <3>2 DEF Updating
    <3>4. QED
      BY <3>1, <3>2, <3>3
  <2>3. QED
    BY <2>1, <2>2
<1>9. \A i \in 1 .. Len(closures') : vouchers'[closures'[i].voucher].key.kind = "close"
  <2> SUFFICES ASSUME NEW i \in 1 .. Len(closures')
               PROVE  vouchers'[closures'[i].voucher].key.kind = "close"
    OBVIOUS
  <2>1. CASE \E j \in 1 .. Len(closures) : closures'[i].voucher = closures[j].voucher
    <3>1. PICK j \in 1 .. Len(closures) : closures'[i].voucher = closures[j].voucher
      BY <2>1
    <3>2. closures[j].voucher \in Ids
      BY DEF FrozenInv, Shape
    <3>3. QED
      BY <1>1, <3>1, <3>2 DEF MirrorsInv
  <2>2. CASE t.op = "close" /\ closures'[i].voucher = new
    BY <1>1, <1>4, <2>2 DEF Fits, Posting
  <2>3. QED
    BY <1>0, <2>1, <2>2, CommitClosures DEF new
<1>10. ASSUME NEW o \in Sessions, Open(o)' PROVE Fits(tx[o])'
  <2>1. o # s /\ tx'[o] = tx[o] /\ Open(o)
    BY <1>3, <1>10 DEF Open
  <2>2. PICK p : p = tx[o]
    OBVIOUS
  <2>3. Fits(p)
    BY <2>1, <2>2 DEF MirrorsInv
  <2>4. p.row \in Ids /\ p.op # "restore" =>
          p.row # t.row /\ vouchers'[p.row] = vouchers[p.row]
    BY <1>5, <1>6, <2>1, <2>2 DEF HoldsRow
  <2>5. p.op \in {"edit", "delete"} => Unreversed(p.row)'
    <3> SUFFICES ASSUME p.op \in {"edit", "delete"}, NEW r \in Ids',
                        vouchers'[r].of = p.row, vouchers'[r].live, ~vouchers'[r].restored
                 PROVE  FALSE
      BY DEF Unreversed
    <3>1. p.row \in Ids /\ Unreversed(p.row) /\ p.row # 0 /\ p.row # t.row
      BY <1>1, <1>2, <2>3, <2>4 DEF Fits
    <3>2. CASE r \in Ids
      BY <1>1, <1>5, <3>1, <3>2 DEF Unreversed
    <3>3. CASE r \notin Ids
      BY <1>1, <1>4, <3>1, <3>3 DEF Fits
    <3>4. QED
      BY <3>2, <3>3
  <2>6. Fits(p)'
    BY <1>1, <2>3, <2>4, <2>5 DEF Fits
  <2>7. QED
    BY <2>1, <2>2, <2>6 DEF Fits, Unreversed
<1>11. QED
  BY <1>7, <1>8, <1>9, <1>10 DEF MirrorsInv

\* Every step keeps reversals the mirrors of their originals.
LEMMA MirrorsNext ==
  ASSUME FrozenInv, MirrorsInv, [Next]_vars
  PROVE  MirrorsInv'
<1>0. Shape
  BY DEF FrozenInv
<1>1. ASSUME UNCHANGED <<vouchers, closures>>, \A o \in Sessions : Open(o)' => Fits(tx[o])'
      PROVE  MirrorsInv'
  BY <1>1 DEF MirrorsInv, ReversalMirrors, Ids
<1>2. ASSUME UNCHANGED vouchers, NEW t, Fits(t) PROVE Fits(t)'
  BY <1>2 DEF Fits, Unreversed, Ids
<1>3. ASSUME NEW s \in Sessions, Begins(s) PROVE MirrorsInv'
  <2>1. PICK t : t = tx'[s]
    OBVIOUS
  <2>2. Fits(t)
    <3>1. Started(s, t)
      BY <1>0, <1>3, <2>1, BeginIsStarted
    <3>2. t.op = "reopen" => t.row \in Ids /\ vouchers[t.row].key.kind = "close"
      BY <1>0, <3>1 DEF Started, MirrorsInv, Shape
    <3>3. QED
      BY <3>1, <3>2 DEF Started, Fits
  <2>3. /\ UNCHANGED <<vouchers, closures>>
        /\ \A o \in Sessions \ {s} : tx'[o] = tx[o]
    BY <1>0, <1>3, TablesKept
  <2>4. \A o \in Sessions : Open(o)' => Fits(tx[o])'
    <3> SUFFICES ASSUME NEW o \in Sessions, Open(o)' PROVE Fits(tx[o])'
      OBVIOUS
    <3>1. PICK p : p = tx'[o]
      OBVIOUS
    <3>2. Fits(p)
      BY <2>1, <2>2, <2>3, <3>1 DEF MirrorsInv, Open
    <3>3. Fits(p)'
      BY <1>2, <2>3, <3>2
    <3>4. QED
      BY <3>1, <3>3 DEF Fits, Unreversed
  <2>5. QED
    BY <1>1, <2>3, <2>4
<1>4. ASSUME NEW s \in Sessions, Write(s) \/ Rollback(s) PROVE MirrorsInv'
  <2>1. /\ UNCHANGED <<vouchers, closures>>
        /\ \A o \in Sessions \ {s} : tx'[o] = tx[o]
    BY <1>0, <1>4, TablesKept
  <2>2. \A o \in Sessions : Open(o)' =>
          /\ Open(o) /\ tx'[o].op = tx[o].op /\ tx'[o].row = tx[o].row
          /\ tx'[o].key = tx[o].key /\ tx'[o].of = tx[o].of /\ tx'[o].amount = tx[o].amount
    BY <1>0, <1>4, <2>1, WriteFields, RollbackFields DEF Open
  <2>3. \A o \in Sessions : Open(o)' => Fits(tx[o])'
    BY <2>1, <2>2 DEF MirrorsInv, Fits, Unreversed, Ids
  <2>4. QED
    BY <1>1, <2>1, <2>3
<1>5. CASE UNCHANGED vars
  <2>1. \A o \in Sessions : Open(o)' => Fits(tx[o])'
    BY <1>5 DEF vars, MirrorsInv, Fits, Unreversed, Ids, Open
  <2>2. QED
    BY <1>1, <1>5, <2>1 DEF vars
<1>6. QED
  BY <1>3, <1>4, <1>5, MirrorsCommit, Steps

\* A reversal in the books mirrors its original, and the original stays in the
\* books with it, for any interleaving of edits, deletions, restores and
\* reversals (assertVoucherEditableTx, reverseVoucherTx).
THEOREM ReversalsMirror == Spec => []ReversalMirrors
<1>1. Spec => []FrozenInv
  BY FrozenInit, FrozenNext, PTL DEF Spec
<1>2. FrozenInv /\ MirrorsInv /\ [Next]_vars => MirrorsInv'
  BY MirrorsNext
<1>3. MirrorsInv => ReversalMirrors
  BY DEF MirrorsInv
<1>4. QED
  BY <1>1, <1>2, <1>3, MirrorsInit, PTL DEF Spec

-----------------------------------------------------------------------------
(* Balances. *)

\* Induction over a set of numbers.
LEMMA SetInduction ==
  ASSUME NEW T \in SUBSET Nat, 0 \in T, \A n \in T : n + 1 \in T
  PROVE  T = Nat
<1> DEFINE Missing == Nat \ T
           Less    == OpToRel(<, Nat)
<1> SUFFICES ASSUME Missing # {} PROVE FALSE
  OBVIOUS
<1>1. PICK x \in Missing : \A y \in Missing : ~(<<y, x>> \in Less)
  <2> HIDE DEF Missing, Less
  <2>1. IsWellFoundedOn(Less, Nat)
    BY NatLessThanWellFounded DEF Less
  <2>2. Missing \subseteq Nat
    BY DEF Missing
  <2>3. QED
    BY <2>1, <2>2, WFMin
<1>2. x \in Nat /\ x # 0
  OBVIOUS
<1>3. x - 1 \in Nat /\ x - 1 < x
  BY <1>2
<1>4. <<x - 1, x>> \in Less
  BY <1>2, <1>3 DEF OpToRel
<1>5. x - 1 \in T
  BY <1>1, <1>3, <1>4
<1>6. x = (x - 1) + 1
  BY <1>2
<1>7. QED
  BY <1>5, <1>6

\* What a voucher adds to the income and expense through date e.
Effect(v, e) == IF v.live /\ v.date <= e THEN v.amount ELSE 0

\* f holds the running sums over the first n rows.
Sums(f, rows, e, n) ==
  f = [m \in 0 .. n |-> IF m = 0 THEN 0
                        ELSE f[m - 1] + (IF rows[m].live /\ rows[m].date <= e
                                         THEN rows[m].amount ELSE 0)]

\* Running sums exist for any number of rows.
LEMMA SumsExist ==
  ASSUME NEW rows, NEW e, NEW n \in Nat
  PROVE  \E f : Sums(f, rows, e, n)
<1> DEFINE T == {k \in Nat : \E f : Sums(f, rows, e, k)}
<1>1. 0 \in T
  <2> DEFINE f == [m \in 0 .. 0 |-> 0]
  <2>1. Sums(f, rows, e, 0)
    BY DEF Sums
  <2>2. QED
    BY <2>1
<1>2. ASSUME NEW k \in T PROVE k + 1 \in T
  <2>1. PICK f : Sums(f, rows, e, k)
    OBVIOUS
  <2> DEFINE g == [m \in 0 .. k + 1 |->
                     IF m = k + 1 THEN f[k] + Effect(rows[k + 1], e) ELSE f[m]]
  <2>2. \A m \in 0 .. k : f[m] = IF m = 0 THEN 0 ELSE f[m - 1] + Effect(rows[m], e)
    BY <2>1 DEF Sums, Effect
  <2>3. ASSUME NEW m \in 0 .. k + 1
        PROVE  g[m] = IF m = 0 THEN 0 ELSE g[m - 1] + Effect(rows[m], e)
    <3>1. CASE m = k + 1
      <4>1. m # 0 /\ m - 1 = k /\ g[k] = f[k]
        BY <3>1
      <4>2. QED
        BY <3>1, <4>1
    <3>2. CASE m \in 1 .. k
      <4>1. m # 0 /\ g[m] = f[m] /\ g[m - 1] = f[m - 1]
        BY <3>2
      <4>2. QED
        BY <2>2, <3>2, <4>1
    <3>3. CASE m = 0
      BY <2>2, <3>3
    <3>4. QED
      BY <3>1, <3>2, <3>3
  <2>4. Sums(g, rows, e, k + 1)
    <3>1. g = [m \in 0 .. k + 1 |-> g[m]]
      OBVIOUS
    <3> HIDE DEF g
    <3>2. QED
      BY <2>3, <3>1 DEF Sums, Effect
  <2>5. QED
    BY <2>4
<1> HIDE DEF T
<1>3. T = Nat
  <2>1. T \in SUBSET Nat
    BY DEF T
  <2>2. QED
    BY <1>1, <1>2, <2>1, SetInduction
<1>4. QED
  BY <1>3 DEF T

\* Running sums are integers if the rows' effects are.
LEMMA SumsTyped ==
  ASSUME NEW rows, NEW e, NEW n \in Nat, NEW f, Sums(f, rows, e, n),
         \A m \in 1 .. n : Effect(rows[m], e) \in Int
  PROVE  \A m \in 0 .. n : f[m] \in Int
<1> DEFINE T == {k \in Nat : k <= n => f[k] \in Int}
<1>1. \A m \in 0 .. n : f[m] = IF m = 0 THEN 0 ELSE f[m - 1] + Effect(rows[m], e)
  BY DEF Sums, Effect
<1>2. 0 \in T
  BY <1>1
<1>3. ASSUME NEW k \in T PROVE k + 1 \in T
  <2>1. CASE k + 1 <= n
    <3>1. k + 1 \in 1 .. n /\ k <= n /\ (k + 1) - 1 = k
      BY <2>1
    <3>2. f[k + 1] = f[k] + Effect(rows[k + 1], e)
      BY <1>1, <3>1
    <3>3. QED
      BY <3>1, <3>2
  <2>2. QED
    BY <2>1
<1> HIDE DEF T
<1>4. T = Nat
  <2>1. T \in SUBSET Nat
    BY DEF T
  <2>2. QED
    BY <1>2, <1>3, <2>1, SetInduction
<1>5. QED
  BY <1>4 DEF T

\* Rows of the same effects have the same sums.
LEMMA SumsAgree ==
  ASSUME NEW rows, NEW other, NEW e, NEW n \in Nat, NEW k \in Nat, NEW f, NEW g,
         Sums(f, rows, e, n), Sums(g, other, e, k), n <= k,
         \A m \in 1 .. n : Effect(other[m], e) = Effect(rows[m], e)
  PROVE  g[n] = f[n]
<1> DEFINE T == {m \in Nat : m <= n => g[m] = f[m]}
<1>1. \A m \in 0 .. n : f[m] = IF m = 0 THEN 0 ELSE f[m - 1] + Effect(rows[m], e)
  BY DEF Sums, Effect
<1>2. \A m \in 0 .. n : g[m] = IF m = 0 THEN 0 ELSE g[m - 1] + Effect(other[m], e)
  BY DEF Sums, Effect
<1>3. 0 \in T
  BY <1>1, <1>2
<1>4. ASSUME NEW m \in T PROVE m + 1 \in T
  <2>1. CASE m + 1 <= n
    <3>1. m + 1 \in 1 .. n /\ m <= n /\ (m + 1) - 1 = m
      BY <2>1
    <3>2. /\ f[m + 1] = f[m] + Effect(rows[m + 1], e)
          /\ g[m + 1] = g[m] + Effect(other[m + 1], e)
      BY <1>1, <1>2, <3>1
    <3>3. QED
      BY <3>1, <3>2
  <2>2. QED
    BY <2>1
<1> HIDE DEF T
<1>5. T = Nat
  <2>1. T \in SUBSET Nat
    BY DEF T
  <2>2. QED
    BY <1>3, <1>4, <2>1, SetInduction
<1>6. QED
  BY <1>5 DEF T

\* The model's balance, of given rows.
Total(rows, e) ==
  LET sum[n \in 0 .. Len(rows)] ==
        IF n = 0 THEN 0
        ELSE sum[n - 1] + (IF rows[n].live /\ rows[n].date <= e
                           THEN rows[n].amount ELSE 0)
  IN sum[Len(rows)]

\* A total is the last of the running sums.
LEMMA TotalIsSum ==
  ASSUME NEW rows, NEW e, Len(rows) \in Nat
  PROVE  \E f : Sums(f, rows, e, Len(rows)) /\ Total(rows, e) = f[Len(rows)]
<1> DEFINE n == Len(rows)
           sum == CHOOSE f : Sums(f, rows, e, n)
<1>1. Sums(sum, rows, e, n)
  BY SumsExist
<1>2. Total(rows, e) = sum[n]
  BY DEF Total, Sums
<1>3. QED
  BY <1>1, <1>2

\* A total of integer amounts is an integer.
LEMMA TotalTyped ==
  ASSUME NEW rows, NEW e, Len(rows) \in Nat,
         \A v \in 1 .. Len(rows) : rows[v].amount \in Int
  PROVE  Total(rows, e) \in Int
<1>1. PICK f : Sums(f, rows, e, Len(rows)) /\ Total(rows, e) = f[Len(rows)]
  BY TotalIsSum
<1>2. \A v \in 1 .. Len(rows) : Effect(rows[v], e) \in Int
  BY DEF Effect
<1>3. \A m \in 0 .. Len(rows) : f[m] \in Int
  BY <1>1, <1>2, SumsTyped
<1>4. QED
  BY <1>1, <1>3

\* While the effects of the old rows stay, a total changes by the new row's.
LEMMA TotalChange ==
  ASSUME NEW rows, NEW other, NEW e, Len(rows) \in Nat, Len(other) \in Nat,
         \A v \in 1 .. Len(rows) : Effect(other[v], e) = Effect(rows[v], e)
  PROVE  /\ Len(other) = Len(rows) => Total(other, e) = Total(rows, e)
         /\ Len(other) = Len(rows) + 1 =>
              Total(other, e) = Total(rows, e) + Effect(other[Len(rows) + 1], e)
<1> DEFINE n == Len(rows)
           k == Len(other)
<1>1. PICK f : Sums(f, rows, e, n) /\ Total(rows, e) = f[n]
  BY TotalIsSum
<1>2. PICK g : Sums(g, other, e, k) /\ Total(other, e) = g[k]
  BY TotalIsSum
<1>3. n <= k => g[n] = f[n]
  BY <1>1, <1>2, SumsAgree
<1>4. k = n + 1 => g[k] = g[n] + Effect(other[n + 1], e)
  <2> SUFFICES ASSUME k = n + 1 PROVE g[k] = g[n] + Effect(other[n + 1], e)
    OBVIOUS
  <2>0. n \in Nat /\ k \in Nat
    OBVIOUS
  <2> HIDE DEF n, k
  <2>1. n + 1 \in 0 .. k /\ n + 1 # 0 /\ (n + 1) - 1 = n
    BY <2>0
  <2>2. g[n + 1] = g[n] + Effect(other[n + 1], e)
    BY <1>2, <2>1 DEF Sums, Effect
  <2>3. QED
    BY <2>2
<1>5. n \in Nat /\ k \in Nat
  OBVIOUS
<1> HIDE DEF n, k
<1>6. /\ k = n => Total(other, e) = Total(rows, e)
      /\ k = n + 1 => Total(other, e) = Total(rows, e) + Effect(other[n + 1], e)
  BY <1>1, <1>2, <1>3, <1>4, <1>5
<1>7. QED
  BY <1>6 DEF n, k

\* The balance of the books is the total of their rows.
LEMMA BalanceIsTotal == \A e : Balance(e) = Total(vouchers, e)
BY DEF Balance, Total

-----------------------------------------------------------------------------
(* Types. *)

\* The transactions that will insert a voucher.
Posters == {s \in Sessions : Open(s) /\ tx[s].op \in Posting}

\* There is room for the voucher of each of them.
TypesInv ==
  /\ TypeOK
  /\ IsFiniteSet(Posters)
  /\ Len(vouchers) + Cardinality(Posters) <= MaxVouchers

\* The empty books are typed.
LEMMA TypesInit == Init => TypesInv
<1> SUFFICES ASSUME Init PROVE TypesInv
  OBVIOUS
<1>1. NoKey \in Keys
  BY DEF NoKey, Keys
<1>2. Idle \in Tx
  BY <1>1 DEF Idle, Tx
<1>3. TypeOK
  BY <1>2, LedgerAssumption DEF Init, TypeOK
<1>4. Posters = {}
  BY DEF Init, Posters, Open, Idle
<1>5. QED
  BY <1>3, <1>4, FS_EmptySet, LedgerAssumption DEF TypesInv, Init

\* What the model counts is a natural number.
LEMMA CountsTyped ==
  ASSUME Shape, NEW k
  PROVE  /\ Generation(k) \in Nat /\ Cardinality(JournalOf(k)) \in Nat
         /\ ReversalAttempts(k) \in Nat /\ CloseAttempts(k) \in Nat
<1>1. \A S \in SUBSET Ids : Cardinality(S) \in Nat
  BY FiniteIds, FS_Subset, FS_CardinalityType
<1>2. QED
  BY <1>1 DEF Generation, JournalOf, ReversalAttempts, CloseAttempts

\* Every begin action starts a typed transaction, and one that will insert a
\* voucher has found room for it.
LEMMA BeginIsTyped ==
  ASSUME Shape, TypeOK, NEW s \in Sessions, Begins(s)
  PROVE  tx'[s] \in Tx /\ (tx'[s].op \in Posting => Room)
<1> USE DEF Start, Idle, Posting, Updating
<1>0. \A t : tx' = [tx EXCEPT ![s] = t] => tx'[s] = t
  BY DEF Shape
<1>1. /\ \A v \in Ids : v \in Nat /\ vouchers[v].amount \in Int
      /\ \A d \in Dates : d \in Nat
      /\ \A a \in Amounts : a \in Int
  <2>1. vouchers \in Seq(Voucher)
    BY DEF TypeOK
  <2>2. \A v \in Ids : v \in Nat /\ vouchers[v] \in Voucher
    BY <2>1 DEF Ids
  <2>3. \A v \in Ids : vouchers[v].amount \in Int
    BY <2>2 DEF Voucher
  <2>4. QED
    BY <2>2, <2>3, LedgerAssumption
<1>2. NoKey \in Keys
  BY DEF NoKey, Keys
<1>3. ASSUME NEW c \in Clients, NEW d \in Dates, NEW a \in Amounts, BeginPost(s, c, d, a)
      PROVE  tx'[s] \in Tx /\ Room
  <2>1. ClientKey(c) \in Keys
    BY DEF ClientKey, Keys
  <2>2. tx'[s] = [pc |-> "checked", op |-> "post", row |-> 0, key |-> ClientKey(c),
                  date |-> d, amount |-> a, of |-> 0, no |-> 0]
    <3> DEFINE t == [Idle EXCEPT !.pc = "checked", !.op = "post",
                                 !.key = ClientKey(c), !.date = d, !.amount = a]
    <3>1. tx' = [tx EXCEPT ![s] = t]
      BY <1>3 DEF BeginPost
    <3>2. tx'[s] = t
      BY <1>0, <3>1
    <3>3. QED
      BY <3>2
  <2>3. QED
    BY <1>1, <1>3, <2>1, <2>2 DEF BeginPost, AllOperations, Tx
<1>4. ASSUME NEW v \in Ids, NEW d \in Dates, NEW a \in Amounts, BeginEdit(s, v, d, a)
      PROVE  tx'[s] \in Tx /\ tx'[s].op = "edit"
  <2>1. tx'[s] = [pc |-> "checked", op |-> "edit", row |-> v, key |-> NoKey,
                  date |-> d, amount |-> a, of |-> 0, no |-> 0]
    <3> DEFINE t == [Idle EXCEPT !.pc = "checked", !.op = "edit", !.row = v,
                                 !.date = d, !.amount = a]
    <3>1. tx' = [tx EXCEPT ![s] = t]
      BY <1>4 DEF BeginEdit
    <3>2. tx'[s] = t
      BY <1>0, <3>1
    <3>3. QED
      BY <3>2
  <2>2. QED
    BY <1>1, <1>2, <2>1 DEF AllOperations, Tx
<1>5. ASSUME NEW v \in Ids, NEW op \in {"delete", "restore"},
             tx' = [tx EXCEPT ![s] = [Idle EXCEPT !.pc = "checked", !.op = op, !.row = v]]
      PROVE  tx'[s] \in Tx /\ tx'[s].op = op
  <2>1. tx'[s] = [pc |-> "checked", op |-> op, row |-> v, key |-> NoKey,
                  date |-> 0, amount |-> 0, of |-> 0, no |-> 0]
    BY <1>0, <1>5
  <2>2. QED
    BY <1>1, <1>2, <2>1 DEF AllOperations, Tx
<1>6. ASSUME NEW v \in Ids, NEW d \in Dates, BeginReverse(s, v, d)
      PROVE  tx'[s] \in Tx /\ Room
  <2> DEFINE k == LinkKey(v, ReversalAttempts(v) + 1)
  <2>1. k \in Keys
    BY <1>1, CountsTyped DEF LinkKey, Keys
  <2>2. tx'[s] = [pc |-> "checked", op |-> "reverse", row |-> v, key |-> k,
                  date |-> d, amount |-> -vouchers[v].amount, of |-> v, no |-> 0]
    <3> DEFINE t == [Idle EXCEPT !.pc = "checked", !.op = "reverse", !.row = v,
                                 !.key = k, !.date = d,
                                 !.amount = -vouchers[v].amount, !.of = v]
    <3>1. tx' = [tx EXCEPT ![s] = t]
      BY <1>6 DEF BeginReverse
    <3>2. tx'[s] = t
      BY <1>0, <3>1
    <3>3. QED
      BY <3>2
  <2> HIDE DEF k
  <2>3. -vouchers[v].amount \in Int
    BY <1>1
  <2>4. QED
    BY <1>1, <1>6, <2>1, <2>2, <2>3 DEF BeginReverse, AllOperations, Tx
<1>7. ASSUME NEW v \in Ids, NEW d \in Dates, BeginExactReversal(s, v, d)
      PROVE  tx'[s] \in Tx /\ Room
  <2>1. ExactKey(v) \in Keys
    BY <1>1 DEF ExactKey, Keys
  <2>2. tx'[s] = [pc |-> "checked", op |-> "exact", row |-> v, key |-> ExactKey(v),
                  date |-> d, amount |-> -vouchers[v].amount, of |-> 0, no |-> 0]
    <3> DEFINE t == [Idle EXCEPT !.pc = "checked", !.op = "exact", !.row = v,
                                 !.key = ExactKey(v), !.date = d,
                                 !.amount = -vouchers[v].amount]
    <3>1. tx'[s] = t
      BY <1>0, <1>7 DEF BeginExactReversal
    <3>2. QED
      BY <3>1
  <2>3. -vouchers[v].amount \in Int
    BY <1>1
  <2>4. QED
    BY <1>1, <1>7, <2>1, <2>2, <2>3 DEF BeginExactReversal, AllOperations, Tx
<1>8. ASSUME NEW k \in Documents, NEW d \in Dates, NEW a \in Amounts, BeginSync(s, k, d, a)
      PROVE  tx'[s] \in Tx /\ Room
  <2> DEFINE row == IF JournalOf(k) = {} THEN 0 ELSE CHOOSE v \in JournalOf(k) : TRUE
             key == DocumentKey(k, Generation(k) + Cardinality(JournalOf(k)))
  <2>1. row = 0 \/ row \in JournalOf(k)
    OBVIOUS
  <2>2. row \in Nat
    BY <1>1, <2>1 DEF JournalOf
  <2>3. key \in Keys
    BY CountsTyped DEF DocumentKey, Keys
  <2>4. tx'[s] = [pc |-> "checked", op |-> "sync", row |-> row, key |-> key,
                  date |-> d, amount |-> a, of |-> 0, no |-> 0]
    <3> DEFINE t == [Idle EXCEPT !.pc = "checked", !.op = "sync", !.row = row,
                                 !.key = key, !.date = d, !.amount = a]
    <3>1. tx' = [tx EXCEPT ![s] = t]
      BY <1>8 DEF BeginSync
    <3>2. tx'[s] = t
      BY <1>0, <3>1
    <3>3. QED
      BY <3>2
  <2> HIDE DEF row, key
  <2>5. QED
    BY <1>1, <1>8, <2>2, <2>3, <2>4 DEF BeginSync, AllOperations, Tx
<1>9. ASSUME NEW k \in Documents, BeginRemove(s, k)
       PROVE  tx'[s] \in Tx /\ tx'[s].op = "remove"
  <2>1. PICK v \in JournalOf(k) :
          Start(s, [Idle EXCEPT !.pc = "checked", !.op = "remove", !.row = v,
                                !.key = DocumentKey(k, 0)])
    BY <1>9 DEF BeginRemove
  <2>2. tx'[s] = [pc |-> "checked", op |-> "remove", row |-> v, key |-> DocumentKey(k, 0),
                  date |-> 0, amount |-> 0, of |-> 0, no |-> 0]
    <3> DEFINE t == [Idle EXCEPT !.pc = "checked", !.op = "remove", !.row = v,
                                 !.key = DocumentKey(k, 0)]
    <3>1. tx' = [tx EXCEPT ![s] = t]
      BY <2>1
    <3>2. tx'[s] = t
      BY <1>0, <3>1
    <3>3. QED
      BY <3>2
  <2>3. v \in Nat /\ DocumentKey(k, 0) \in Keys
    BY <1>1 DEF JournalOf, DocumentKey, Keys
  <2>4. QED
    BY <2>2, <2>3 DEF AllOperations, Tx
<1>10. ASSUME NEW e \in Dates, BeginClose(s, e) PROVE tx'[s] \in Tx /\ Room
  <2> DEFINE key == CloseKey(e, CloseAttempts(e) + 1)
  <2>1. key \in Keys
    BY <1>1, CountsTyped DEF CloseKey, Keys
  <2>2. tx'[s] = [pc |-> "written", op |-> "close", row |-> 0, key |-> key,
                  date |-> e, amount |-> -Balance(e), of |-> 0, no |-> 0]
    <3> DEFINE t == [Idle EXCEPT !.pc = "written", !.op = "close", !.key = key,
                                 !.date = e, !.amount = -Balance(e)]
    <3>1. tx' = [tx EXCEPT ![s] = t]
      BY <1>10 DEF BeginClose
    <3>2. tx'[s] = t
      BY <1>0, <3>1
    <3>3. QED
      BY <3>2
  <2>3. -Balance(e) \in Int
    <3>1. Len(vouchers) \in Nat /\ Ids = 1 .. Len(vouchers)
      BY DEF Shape, Ids
    <3>2. Total(vouchers, e) \in Int
      BY <1>1, <3>1, TotalTyped
    <3>3. QED
      BY <3>2, BalanceIsTotal
  <2> HIDE DEF key
  <2>4. QED
    BY <1>10, <2>1, <2>2, <2>3 DEF BeginClose, AllOperations, Tx
<1>11. ASSUME BeginReopen(s) PROVE tx'[s] \in Tx /\ tx'[s].op = "reopen"
  <2> DEFINE v == closures[Len(closures)].voucher
  <2>1. tx'[s] = [pc |-> "written", op |-> "reopen", row |-> v, key |-> NoKey,
                  date |-> 0, amount |-> 0, of |-> 0, no |-> 0]
    BY <1>0, <1>11 DEF BeginReopen
  <2>2. v \in Ids
    BY <1>11 DEF BeginReopen, Shape
  <2> HIDE DEF v
  <2>3. QED
    BY <1>1, <1>2, <2>1, <2>2 DEF AllOperations, Tx
<1>12. QED
  BY <1>3, <1>4, <1>5, <1>6, <1>7, <1>8, <1>9, <1>10, <1>11
  DEF Begins, BeginDelete, BeginRestore

\* One transaction changes at a time: the number of posters changes by at most
\* one.
LEMMA PostersChange ==
  ASSUME Shape, IsFiniteSet(Posters), NEW s \in Sessions,
         \A o \in Sessions \ {s} : tx'[o] = tx[o]
  PROVE  /\ IsFiniteSet(Posters')
         /\ Cardinality(Posters) \in Nat
         /\ s \in Posters /\ s \in Posters' => Posters' = Posters
         /\ s \notin Posters /\ s \notin Posters' => Posters' = Posters
         /\ s \notin Posters /\ s \in Posters' =>
              Cardinality(Posters') = Cardinality(Posters) + 1
         /\ s \in Posters /\ s \notin Posters' =>
              Cardinality(Posters') = Cardinality(Posters) - 1
<1>1. \A o \in Sessions \ {s} : o \in Posters' <=> o \in Posters
  BY DEF Posters, Open
<1>2. Posters \subseteq Sessions /\ Posters' \subseteq Sessions
  BY DEF Posters
<1>3. Posters' \subseteq Posters \cup {s}
  BY <1>1, <1>2
<1>4. IsFiniteSet(Posters \cup {s})
  BY FS_AddElement
<1>5. IsFiniteSet(Posters')
  BY <1>3, <1>4, FS_Subset
<1>6. Cardinality(Posters) \in Nat
  BY FS_CardinalityType
<1>7. s \notin Posters /\ s \in Posters' => Posters' = Posters \cup {s}
  BY <1>1, <1>2
<1>8. s \in Posters /\ s \notin Posters' => Posters' = Posters \ {s}
  BY <1>1, <1>2
<1> HIDE DEF Posters
<1>9. s \notin Posters /\ s \in Posters' => Cardinality(Posters') = Cardinality(Posters) + 1
  BY <1>7, FS_AddElement
<1>10. s \in Posters /\ s \notin Posters' => Cardinality(Posters') = Cardinality(Posters) - 1
  BY <1>8, FS_RemoveElement
<1>11. (s \in Posters <=> s \in Posters') => Posters' = Posters
  BY <1>1, <1>2
<1>12. QED
  BY <1>5, <1>6, <1>9, <1>10, <1>11

\* Every step but a commit keeps the types.
LEMMA TypesKept ==
  ASSUME Shape, TypesInv, NEW s \in Sessions, Begins(s) \/ Write(s) \/ Rollback(s)
  PROVE  TypesInv'
<1>1. /\ UNCHANGED <<vouchers, requests, counter, closures>>
      /\ \A o \in Sessions \ {s} : tx'[o] = tx[o]
  BY TablesKept
<1>2. tx'[s] \in Tx
  <2>1. CASE Begins(s)
    BY <2>1, BeginIsTyped DEF TypesInv
  <2>2. CASE Write(s)
    <3>1. tx[s] \in Tx /\ counter \in Nat
      BY DEF TypesInv, TypeOK
    <3>2. NextNumber(tx[s]) \in Nat
      BY <3>1 DEF NextNumber
    <3>3. tx'[s] = [tx[s] EXCEPT !.pc = "written", !.no = NextNumber(tx[s])]
      BY <2>2, <3>1 DEF Write, Shape, Tx
    <3>4. QED
      BY <3>1, <3>2, <3>3 DEF Tx
  <2>3. CASE Rollback(s)
    <3>1. NoKey \in Keys
      BY DEF NoKey, Keys
    <3>2. tx'[s] = Idle
      BY <2>3, RollbackFields
    <3>3. QED
      BY <3>1, <3>2 DEF Idle, Tx
  <2>4. QED
    BY <2>1, <2>2, <2>3
<1>3. tx' \in [Sessions -> Tx]
  <2>1. tx \in [Sessions -> Tx] /\ \E t : tx' = [tx EXCEPT ![s] = t]
    <3>1. Begins(s) => \E t : Begun(s, t)
      BY BeginIsBegun DEF Begins
    <3>2. Write(s) => \E t : tx' = [tx EXCEPT ![s] = t]
      <4> SUFFICES ASSUME Write(s) PROVE \E t : tx' = [tx EXCEPT ![s] = t]
        OBVIOUS
      <4>1. tx' = [tx EXCEPT ![s] = tx'[s]]
        BY DEF Write, Shape
      <4>2. QED
        BY <4>1
    <3>3. QED
      BY <3>1, <3>2 DEF TypesInv, TypeOK, Begun, Rollback
  <2>2. PICK t : tx' = [tx EXCEPT ![s] = t]
    BY <2>1
  <2>3. QED
    BY <1>2, <2>1, <2>2
<1>4. TypeOK'
  BY <1>1, <1>3 DEF TypesInv, TypeOK
<1>5. Len(vouchers) \in Nat /\ MaxVouchers \in Nat
  BY LedgerAssumption DEF Shape
<1>6. s \in Posters' /\ s \notin Posters => Room
  <2>1. Write(s) => tx'[s].op = tx[s].op /\ Open(s)
    BY WriteFields DEF Open
  <2>2. Rollback(s) => s \notin Posters'
    BY RollbackFields DEF Posters, Open
  <2>3. Begins(s) /\ s \in Posters' => Room
    BY BeginIsTyped DEF TypesInv, Posters
  <2>4. QED
    BY <2>1, <2>2, <2>3 DEF Posters
<1>7. Room => Len(vouchers) + Cardinality(Posters) < MaxVouchers
  BY DEF Room, Posters
<1>8. IsFiniteSet(Posters') /\ Len(vouchers) + Cardinality(Posters') <= MaxVouchers
  <2>1. Cardinality(Posters') \in Nat
    BY <1>1, PostersChange, FS_CardinalityType DEF TypesInv
  <2> HIDE DEF Posters
  <2>2. QED
    BY <1>1, <1>5, <1>6, <1>7, <2>1, PostersChange DEF TypesInv
<1>9. QED
  BY <1>1, <1>4, <1>8 DEF TypesInv

\* A commit keeps the types.
LEMMA TypesCommit ==
  ASSUME FrozenInv, TypesInv, NEW s \in Sessions, Commit(s)
  PROVE  TypesInv'
<1>0. Shape /\ Shape' /\ Written(s) /\ Open(s)
  BY CommitKeepsShape DEF FrozenInv, Commit, Written, Open
<1>1. PICK t : t = tx[s]
  OBVIOUS
<1> DEFINE n == Len(vouchers)
<1>2. /\ vouchers \in Seq(Voucher) /\ n \in Nat /\ Ids = 1 .. n
      /\ counter \in Nat /\ requests \subseteq Request /\ closures \in Seq(Closure)
      /\ tx \in [Sessions -> Tx]
  BY DEF TypesInv, TypeOK, Ids
<1>3. t \in Tx /\ t.no \in Nat /\ t.of \in Nat /\ t.key \in Keys /\ t.amount \in Int
  <2>1. t \in Tx
    BY <1>1, <1>2
  <2>2. QED
    BY <2>1 DEF Tx
<1>4. t.op \in Posting \cup {"edit"} => t.date \in Dates
  BY <1>0, <1>1 DEF Shape, TxShape, Open
<1>5. t.op \in Posting => Inserted(t) \in Voucher
  BY <1>3, <1>4 DEF Inserted, Voucher
<1>6. ASSUME NEW v \in Ids PROVE vouchers'[v] \in Voucher
  <2>1. vouchers[v] \in Voucher
    BY <1>2
  <2>2. vouchers'[v] = IF t.op \in Updating /\ v = t.row
                       THEN Updated(t, vouchers[v]) ELSE vouchers[v]
    BY <1>0, <1>1, CommitRows
  <2>3. ASSUME t.op \in Updating PROVE Updated(t, vouchers[v]) \in Voucher
    <3>1. CASE t.op = "edit"
      BY <1>3, <1>4, <2>1, <3>1 DEF Updated, Voucher
    <3>2. CASE t.op \in {"delete", "reopen"}
      BY <2>1, <3>2 DEF Updated, Voucher
    <3>3. CASE t.op = "restore"
      BY <2>1, <3>3 DEF Updated, IsReversal, Voucher
    <3>4. CASE t.op \in {"sync", "remove"}
      BY <2>1, <3>4 DEF Updated, Voucher
    <3>5. QED
      BY <2>3, <3>1, <3>2, <3>3, <3>4 DEF Updating
  <2>4. QED
    BY <2>1, <2>2, <2>3
<1>7. /\ Len(vouchers') = n + (IF t.op \in Posting THEN 1 ELSE 0)
      /\ vouchers' = [v \in 1 .. Len(vouchers') |-> vouchers'[v]]
      /\ t.op \in Posting => vouchers'[n + 1] = Inserted(t)
  BY <1>0, <1>1, CommitRows
<1>8. vouchers' \in Seq(Voucher)
  <2> HIDE DEF n
  <2>1. Len(vouchers') \in Nat
    BY <1>2, <1>7
  <2>2. \A v \in 1 .. Len(vouchers') : vouchers'[v] \in Voucher
    BY <1>2, <1>5, <1>6, <1>7
  <2>3. \E m \in Nat : vouchers' \in [1 .. m -> Voucher]
    BY <1>7, <2>1, <2>2
  <2>4. QED
    BY <2>3, SeqDef
<1>9. /\ \A o \in Sessions \ {s} : tx'[o] = tx[o]
      /\ s \notin Posters'
      /\ s \in Posters <=> t.op \in Posting
  BY <1>0, <1>1, RollbackFields DEF Posters, Open
<1>10. IsFiniteSet(Posters') /\ Len(vouchers') + Cardinality(Posters') <= MaxVouchers
  <2>1. Cardinality(Posters') \in Nat
    BY <1>0, <1>9, PostersChange, FS_CardinalityType DEF TypesInv
  <2> HIDE DEF Posters
  <2>2. QED
    BY <1>0, <1>2, <1>7, <1>9, <2>1, PostersChange, LedgerAssumption DEF TypesInv
<1>11. Len(vouchers') <= MaxVouchers
  <2>1. Cardinality(Posters') \in Nat /\ Len(vouchers') \in Nat
    BY <1>2, <1>7, <1>10, FS_CardinalityType
  <2>2. QED
    BY <1>10, <2>1, LedgerAssumption
<1>12. requests' \subseteq Request
  <2>1. requests' = (requests \ Released(t))
                      \cup (IF t.op \in Posting THEN {[key |-> t.key, voucher |-> n + 1]}
                            ELSE {})
    BY <1>1 DEF Commit
  <2>2. [key |-> t.key, voucher |-> n + 1] \in Request
    BY <1>2, <1>3 DEF Request
  <2>3. QED
    BY <1>2, <2>1, <2>2
<1>13. counter' \in Nat
  BY <1>1, <1>2, <1>3 DEF Commit
<1>14. closures' \in Seq(Closure)
  BY <1>0 DEF Shape
<1>15. tx' \in [Sessions -> Tx]
  <2>1. NoKey \in Keys
    BY DEF NoKey, Keys
  <2>2. Idle \in Tx
    BY <2>1 DEF Idle, Tx
  <2>3. QED
    BY <1>2, <2>2 DEF Commit
<1>16. QED
  BY <1>8, <1>10, <1>11, <1>12, <1>13, <1>14, <1>15 DEF TypesInv, TypeOK

\* Every step keeps the types.
LEMMA TypesNext ==
  ASSUME FrozenInv, TypesInv, [Next]_vars
  PROVE  TypesInv'
<1>1. CASE Next
  BY <1>1, Steps, TypesKept, TypesCommit DEF FrozenInv
<1>2. CASE UNCHANGED vars
  BY <1>2 DEF vars, TypesInv, TypeOK, Posters, Open
<1>3. QED
  BY <1>1, <1>2

\* The tables and the open transactions keep their types, and no more vouchers
\* are inserted than the bound allows: a closing journal's amount is an integer
\* whatever the books hold (closeFiscalPeriod).
THEOREM TypeCorrect == Spec => []TypeOK
<1>1. Spec => []FrozenInv
  BY FrozenInit, FrozenNext, PTL DEF Spec
<1>2. FrozenInv /\ TypesInv /\ [Next]_vars => TypesInv'
  BY TypesNext
<1>3. TypesInv => TypeOK
  BY DEF TypesInv
<1>4. QED
  BY <1>1, <1>2, <1>3, TypesInit, PTL DEF Spec

-----------------------------------------------------------------------------
(* The balance at a close. *)

\* Closes follow each other; a closing journal is dated at the end of its
\* period; a close holds the balance it found and a reopen the last close.
BooksInv ==
  /\ \A i \in 1 .. Len(closures) : Total(vouchers, closures[i].end) = 0
  /\ \A i, j \in 1 .. Len(closures) : i < j => closures[i].end < closures[j].end
  /\ \A i \in 1 .. Len(closures) : vouchers[closures[i].voucher].date = closures[i].end
  /\ \A s \in Sessions : Open(s) =>
       /\ tx[s].op = "close" => tx[s].amount = -Total(vouchers, tx[s].date)
       /\ tx[s].op = "reopen" => /\ closures # <<>>
                                 /\ tx[s].row = closures[Len(closures)].voucher

\* The empty books have no closes.
LEMMA BooksInit == Init => BooksInv
BY DEF Init, BooksInv, Open, Idle

\* What the balances need of the types.
LEMMA LedgerTyped ==
  ASSUME Shape, TypesInv
  PROVE  /\ Ids = 1 .. Len(vouchers) /\ Len(vouchers) \in Nat
         /\ \A v \in Ids : vouchers[v].amount \in Int /\ vouchers[v].date \in Nat
         /\ Len(closures) \in Nat
         /\ \A i \in 1 .. Len(closures) :
              closures[i].end \in Nat /\ closures[i].voucher \in Ids
<1>1. vouchers \in Seq(Voucher) /\ closures \in Seq(Closure)
  BY DEF TypesInv, TypeOK
<1>2. \A v \in Ids : vouchers[v] \in Voucher
  BY <1>1 DEF Ids
<1>3. \A i \in 1 .. Len(closures) : closures[i] \in Closure
  BY <1>1
<1>4. \A v \in Ids : vouchers[v].amount \in Int /\ vouchers[v].date \in Nat
  BY <1>2, LedgerAssumption DEF Voucher
<1>5. \A i \in 1 .. Len(closures) : closures[i].end \in Nat
  BY <1>3, LedgerAssumption DEF Closure
<1>6. QED
  BY <1>1, <1>4, <1>5 DEF Shape, Ids

\* Every period end is closed.
LEMMA EndsAreClosed ==
  ASSUME Shape, TypesInv, BooksInv
  PROVE  /\ ClosedThrough \in Nat
         /\ \A i \in 1 .. Len(closures) : closures[i].end <= ClosedThrough
<1>1. /\ Len(closures) \in Nat
      /\ \A i \in 1 .. Len(closures) : closures[i].end \in Nat
  BY LedgerTyped
<1>2. CASE closures = <<>>
  BY <1>2 DEF ClosedThrough
<1>3. CASE closures # <<>>
  <2>1. Len(closures) \in 1 .. Len(closures)
    BY <1>1, <1>3 DEF Shape
  <2>2. ClosedThrough = closures[Len(closures)].end
    BY <1>3 DEF ClosedThrough
  <2>3. QED
    BY <1>1, <2>1, <2>2 DEF BooksInv
<1>4. QED
  BY <1>2, <1>3

\* A step that leaves closed books alone leaves their balances alone.
LEMMA ClosedTotalsKept ==
  ASSUME FrozenInv, TypesInv, TypesInv', BooksInv, NEW s \in Sessions, Commit(s),
         tx[s].op # "reopen", NEW e \in Nat, e <= ClosedThrough
  PROVE  Total(vouchers', e) = Total(vouchers, e)
<1>0. Shape /\ Shape'
  BY CommitKeepsShape DEF FrozenInv
<1>1. /\ Ids = 1 .. Len(vouchers) /\ Len(vouchers) \in Nat
      /\ \A v \in Ids : vouchers[v].date \in Nat
      /\ ClosedThrough \in Nat
  BY <1>0, LedgerTyped, EndsAreClosed
<1>2. /\ Ids' = 1 .. Len(vouchers') /\ Len(vouchers') \in Nat
      /\ \A v \in Ids' : vouchers'[v].date \in Nat
  <2>1. vouchers' \in Seq(Voucher)
    BY DEF TypesInv, TypeOK
  <2>2. \A v \in Ids' : vouchers'[v] \in Voucher
    BY <2>1 DEF Ids
  <2>3. \A v \in Ids' : vouchers'[v].date \in Nat
    BY <2>2, LedgerAssumption DEF Voucher
  <2>4. Len(vouchers') \in Nat /\ Ids' = 1 .. Len(vouchers')
    BY <2>1 DEF Ids
  <2>5. QED
    BY <2>3, <2>4
<1>3. Len(closures') >= Len(closures)
  <2>1. tx[s].op = "close" =>
          closures' = Append(closures, [end |-> tx[s].date, voucher |-> Len(vouchers) + 1])
    BY DEF Commit
  <2>2. tx[s].op # "close" => closures' = closures
    BY DEF Commit
  <2>3. QED
    BY <1>0, <2>1, <2>2 DEF Shape
<1>4. /\ \A v \in Ids : ~PeriodOpen(vouchers[v].date) =>
           /\ vouchers'[v].date = vouchers[v].date
           /\ vouchers'[v].amount = vouchers[v].amount
           /\ vouchers'[v].live = vouchers[v].live
      /\ \A v \in Ids' : ~PeriodOpen(vouchers'[v].date) =>
           v \in Ids /\ ~PeriodOpen(vouchers[v].date)
  BY <1>3, CommitFreezes DEF FrozenStep
<1>5. \A d \in Nat : d <= e => ~PeriodOpen(d)
  BY <1>1 DEF PeriodOpen
<1>6. Len(vouchers') = Len(vouchers) \/ Len(vouchers') = Len(vouchers) + 1
  BY <1>0, <1>1, CommitRows
<1>7. ASSUME NEW v \in Ids PROVE Effect(vouchers'[v], e) = Effect(vouchers[v], e)
  <2>1. v \in Ids'
    BY <1>1, <1>2, <1>6
  <2>2. CASE vouchers[v].date <= e
    <3>1. ~PeriodOpen(vouchers[v].date)
      BY <1>1, <1>5, <2>2
    <3>2. QED
      BY <1>4, <3>1 DEF Effect
  <2>3. CASE ~(vouchers[v].date <= e)
    <3>1. ~(vouchers'[v].date <= e)
      BY <1>1, <1>2, <1>4, <1>5, <2>1, <2>3
    <3>2. QED
      BY <2>3, <3>1 DEF Effect
  <2>4. QED
    BY <2>2, <2>3
<1>8. ASSUME Len(vouchers') = Len(vouchers) + 1
      PROVE  Effect(vouchers'[Len(vouchers) + 1], e) = 0
  <2>1. Len(vouchers) + 1 \in Ids' /\ Len(vouchers) + 1 \notin Ids
    BY <1>1, <1>2, <1>8
  <2>2. ~(vouchers'[Len(vouchers) + 1].date <= e)
    BY <1>2, <1>4, <1>5, <2>1
  <2>3. QED
    BY <2>2 DEF Effect
<1>9. Total(vouchers, e) \in Int
  BY <1>0, LedgerTyped, TotalTyped
<1>10. QED
  BY <1>1, <1>2, <1>6, <1>7, <1>8, <1>9, TotalChange

\* A commit that holds no period lock changes no balance at all.
LEMMA UnguardedTotalsKept ==
  ASSUME FrozenInv, TypesInv, NEW s \in Sessions, Commit(s),
         ~HoldsShared(s), tx[s].op \notin Exclusive, NEW e
  PROVE  Total(vouchers', e) = Total(vouchers, e)
<1>0. Shape /\ Shape' /\ Written(s)
  BY CommitKeepsShape DEF FrozenInv, Commit
<1>1. Touches(tx[s]) = {}
  BY <1>0 DEF HoldsShared
<1>2. tx[s].op \notin Posting \cup {"edit"}
  <2>1. tx[s].op \in Posting \cup {"edit"} => tx[s].date \in Dates
    BY <1>0 DEF Shape, TxShape, Written
  <2>2. QED
    BY <1>1, <2>1 DEF Touches
<1>3. Len(vouchers') = Len(vouchers)
  <2>1. Len(vouchers') = Len(vouchers) + 0
    BY <1>0, <1>2, CommitRows
  <2>2. QED
    BY <1>0, <2>1 DEF Shape
<1>4. ASSUME NEW v \in Ids PROVE Effect(vouchers'[v], e) = Effect(vouchers[v], e)
  <2>1. RowShape(vouchers[v])
    BY <1>0 DEF Shape
  <2>2. vouchers[v].date \in Dates
    BY <2>1 DEF RowShape
  <2>3. CASE tx[s].op \in Updating /\ v = tx[s].row
    <3>1. /\ tx[s].op \in {"restore", "sync", "remove"}
          /\ tx[s].op = "restore" => vouchers[v].live
          /\ tx[s].op \in {"sync", "remove"} => ~vouchers[v].live
      BY <1>1, <1>2, <2>2, <2>3 DEF Touches, Updating, Exclusive
    <3>2. vouchers'[v] = Updated(tx[s], vouchers[v])
      BY <1>0, <2>3, CommitRows
    <3>3. /\ vouchers'[v].date = vouchers[v].date
          /\ vouchers'[v].amount = vouchers[v].amount
          /\ vouchers'[v].live <=> vouchers[v].live
      BY <2>1, <2>3, <3>1, <3>2, UpdatedFields
    <3>4. QED
      BY <3>3 DEF Effect
  <2>4. CASE ~(tx[s].op \in Updating /\ v = tx[s].row)
    BY <1>0, <2>4, CommitRows
  <2>5. QED
    BY <2>3, <2>4
<1>5. Len(vouchers) \in Nat /\ Ids = 1 .. Len(vouchers)
  BY <1>0 DEF Shape, Ids
<1>6. QED
  BY <1>3, <1>4, <1>5, TotalChange

\* The closing journal takes the balance through its date to zero.
LEMMA CloseZeroes ==
  ASSUME FrozenInv, TypesInv, BooksInv, NEW s \in Sessions, Commit(s), tx[s].op = "close"
  PROVE  /\ Total(vouchers', tx[s].date) = 0
         /\ vouchers'[Len(vouchers) + 1].date = tx[s].date
<1>0. Shape /\ Shape' /\ Open(s)
  BY CommitKeepsShape DEF FrozenInv, Commit, Open, Written
<1> DEFINE e == tx[s].date
           n == Len(vouchers)
<1>1. /\ n \in Nat /\ Ids = 1 .. n
      /\ \A v \in Ids : vouchers[v].amount \in Int
  BY <1>0, LedgerTyped
<1>2. /\ Len(vouchers') = n + 1
      /\ \A v \in Ids : vouchers'[v] = vouchers[v]
      /\ vouchers'[n + 1] = Inserted(tx[s])
  BY <1>0, CommitRows DEF Posting, Updating
<1>3. e \in Nat
  BY <1>0, LedgerAssumption DEF Shape, TxShape, Open, Posting
<1>4. tx[s].amount = -Total(vouchers, e)
  BY <1>0 DEF BooksInv
<1>5. Effect(vouchers'[n + 1], e) = -Total(vouchers, e)
  BY <1>2, <1>3, <1>4 DEF Inserted, Effect
<1>6. Total(vouchers, e) \in Int
  BY <1>1, TotalTyped
<1>7. Total(vouchers', e) = Total(vouchers, e) + Effect(vouchers'[n + 1], e)
  <2>1. Len(vouchers') \in Nat
    BY <1>1, <1>2
  <2>2. QED
    BY <1>1, <1>2, <2>1, TotalChange
<1>8. QED
  BY <1>2, <1>5, <1>6, <1>7 DEF Inserted

\* A reopen takes its closing journal out of the books; the periods closed
\* before it do not reach that journal's date.
LEMMA ReopenKeeps ==
  ASSUME FrozenInv, TypesInv, BooksInv, NEW s \in Sessions, Commit(s), tx[s].op = "reopen",
         NEW e \in Nat, e < closures[Len(closures)].end
  PROVE  Total(vouchers', e) = Total(vouchers, e)
<1>0. Shape /\ Shape' /\ Open(s)
  BY CommitKeepsShape DEF FrozenInv, Commit, Open, Written
<1>1. /\ Len(vouchers) \in Nat /\ Ids = 1 .. Len(vouchers) /\ Len(closures) \in Nat
      /\ \A i \in 1 .. Len(closures) : closures[i].end \in Nat
  BY <1>0, LedgerTyped
<1>2. closures # <<>> /\ tx[s].row = closures[Len(closures)].voucher
  BY <1>0 DEF BooksInv
<1>3. Len(closures) \in 1 .. Len(closures)
  BY <1>0, <1>1, <1>2 DEF Shape
<1>4. vouchers[tx[s].row].date = closures[Len(closures)].end
  BY <1>2, <1>3 DEF BooksInv
<1>5. ASSUME NEW v \in Ids PROVE Effect(vouchers'[v], e) = Effect(vouchers[v], e)
  <2>1. vouchers'[v] = IF v = tx[s].row THEN Updated(tx[s], vouchers[v]) ELSE vouchers[v]
    BY <1>0, CommitRows DEF Updating
  <2>2. CASE v = tx[s].row
    <3>1. RowShape(vouchers[v])
      BY <1>0 DEF Shape
    <3>2. vouchers'[v].date = vouchers[v].date
      BY <2>1, <2>2, <3>1, UpdatedFields DEF Updating
    <3>3. ~(vouchers[v].date <= e)
      BY <1>1, <1>3, <1>4, <2>2
    <3>4. QED
      BY <3>2, <3>3 DEF Effect
  <2>3. CASE v # tx[s].row
    BY <2>1, <2>3
  <2>4. QED
    BY <2>2, <2>3
<1>6. Len(vouchers') = Len(vouchers)
  BY <1>0, <1>1, CommitRows DEF Posting
<1>7. QED
  BY <1>1, <1>5, <1>6, TotalChange
\* A commit keeps the closed periods at zero: what it writes is open, or it is
\* the closing journal, or the reopened one.
LEMMA BooksCommit ==
  ASSUME FrozenInv, TypesInv, BooksInv, NEW s \in Sessions, Commit(s)
  PROVE  BooksInv'
<1>0. Shape /\ Shape' /\ Open(s) /\ Written(s) /\ TypesInv'
  BY CommitKeepsShape, TypesCommit DEF FrozenInv, Commit, Open, Written
<1> DEFINE n == Len(closures)
<1>1. /\ n \in Nat /\ Len(vouchers) \in Nat
      /\ \A i \in 1 .. n : closures[i].end \in Nat /\ closures[i].voucher \in Ids
      /\ \A i \in 1 .. n : closures[i].end <= ClosedThrough
      /\ ClosedThrough \in Nat
  BY <1>0, LedgerTyped, EndsAreClosed
<1>2. tx'[s].pc = "idle" /\ \A o \in Sessions \ {s} : tx'[o] = tx[o]
  BY <1>0, RollbackFields
\* Other sessions that close or reopen.
<1>3. ASSUME NEW o \in Sessions, Open(o)', tx'[o].op \in Exclusive
      PROVE  /\ o # s /\ Open(o) /\ tx'[o] = tx[o]
             /\ tx[s].op \notin Exclusive /\ ~HoldsShared(s)
  <2>1. o # s /\ Open(o) /\ tx'[o] = tx[o]
    BY <1>2, <1>3 DEF Open
  <2>2. HoldsExclusive(o)
    BY <1>3, <2>1 DEF HoldsExclusive
  <2>3. ExclusiveFree(o)
    BY <2>2 DEF FrozenInv, PeriodLocks
  <2>4. QED
    BY <1>0, <2>1, <2>3 DEF ExclusiveFree, HoldsExclusive
<1>4. \A o \in Sessions : Open(o)' =>
        /\ tx'[o].op = "close" => tx'[o].amount = -Total(vouchers', tx'[o].date)
        /\ tx'[o].op = "reopen" => /\ closures' # <<>>
                                   /\ tx'[o].row = closures'[Len(closures')].voucher
  <2> SUFFICES ASSUME NEW o \in Sessions, Open(o)'
               PROVE  /\ tx'[o].op = "close" =>
                           tx'[o].amount = -Total(vouchers', tx'[o].date)
                      /\ tx'[o].op = "reopen" =>
                           /\ closures' # <<>>
                           /\ tx'[o].row = closures'[Len(closures')].voucher
    OBVIOUS
  <2>1. CASE tx'[o].op = "close"
    <3>1. Open(o) /\ tx'[o] = tx[o] /\ tx[s].op \notin Exclusive /\ ~HoldsShared(s)
      BY <1>3, <2>1 DEF Exclusive
    <3>2. Total(vouchers', tx[o].date) = Total(vouchers, tx[o].date)
      BY <3>1, UnguardedTotalsKept
    <3>3. QED
      BY <2>1, <3>1, <3>2 DEF BooksInv
  <2>2. CASE tx'[o].op = "reopen"
    <3>1. Open(o) /\ tx'[o] = tx[o] /\ tx[s].op \notin Exclusive
      BY <1>3, <2>2 DEF Exclusive
    <3>2. closures' = closures
      BY <3>1 DEF Commit, Exclusive
    <3>3. QED
      BY <2>2, <3>1, <3>2 DEF BooksInv
  <2>3. QED
    BY <2>1, <2>2
\* The closed periods that stay closed.
<1>5. ASSUME NEW i \in 1 .. n, tx[s].op = "reopen" => i < n
      PROVE  /\ Total(vouchers', closures[i].end) = 0
             /\ vouchers'[closures[i].voucher].date = closures[i].end
  <2>1. PICK e, v : e = closures[i].end /\ v = closures[i].voucher
    OBVIOUS
  <2>2. e \in Nat /\ e <= ClosedThrough /\ v \in Ids
    BY <1>1, <2>1
  <2>3. Total(vouchers, e) = 0 /\ vouchers[v].date = e
    BY <2>1 DEF BooksInv
  <2>4. CASE tx[s].op = "reopen"
    <3>1. i < n /\ n \in 1 .. n
      BY <1>1, <1>5, <2>4
    <3>2. e < closures[n].end
      BY <2>1, <3>1 DEF BooksInv
    <3>3. Total(vouchers', e) = Total(vouchers, e)
      BY <2>2, <2>4, <3>2, ReopenKeeps
    <3>4. vouchers'[v].date = vouchers[v].date
      <4>1. RowShape(vouchers[v])
        BY <1>0, <2>2 DEF Shape
      <4>2. vouchers'[v] = IF v = tx[s].row THEN Updated(tx[s], vouchers[v])
                                            ELSE vouchers[v]
        BY <1>0, <2>2, <2>4, CommitRows DEF Updating
      <4>3. Updated(tx[s], vouchers[v]).date = vouchers[v].date
        BY <2>4, <4>1, UpdatedFields DEF Updating
      <4>4. QED
        BY <4>2, <4>3
    <3>5. QED
      BY <2>1, <2>3, <3>3, <3>4
  <2>5. CASE tx[s].op # "reopen"
    <3>1. Total(vouchers', e) = Total(vouchers, e)
      BY <1>0, <2>2, <2>5, ClosedTotalsKept
    <3>2. Len(closures') >= Len(closures)
      <4>1. tx[s].op = "close" =>
              closures' = Append(closures, [end |-> tx[s].date,
                                            voucher |-> Len(vouchers) + 1])
        BY DEF Commit
      <4>2. tx[s].op # "close" => closures' = closures
        BY <2>5 DEF Commit
      <4>3. QED
        BY <1>0, <4>1, <4>2 DEF Shape
    <3>3. ~PeriodOpen(vouchers[v].date)
      BY <1>1, <2>2, <2>3 DEF PeriodOpen
    <3>4. vouchers'[v].date = vouchers[v].date
      BY <2>2, <3>2, <3>3, CommitFreezes DEF FrozenStep
    <3>5. QED
      BY <2>1, <2>3, <3>1, <3>4
  <2>6. QED
    BY <2>4, <2>5
<1>6. CASE tx[s].op = "close"
  <2> DEFINE new == [end |-> tx[s].date, voucher |-> Len(vouchers) + 1]
  <2>1. closures' = Append(closures, new)
    BY <1>6 DEF Commit
  <2>2. /\ Len(closures') = n + 1 /\ closures'[n + 1] = new
        /\ \A i \in 1 .. n : closures'[i] = closures[i]
    BY <1>0, <2>1 DEF Shape
  <2>3. tx[s].date \in Dates /\ PeriodOpen(tx[s].date)
    <3>1. tx[s].date \in Dates
      BY <1>0, <1>6 DEF Shape, TxShape, Open, Posting
    <3>2. tx[s].date \in Touches(tx[s])
      BY <1>6, <3>1 DEF Touches, Posting
    <3>3. QED
      BY <1>0, <1>6, <3>1, <3>2 DEF FrozenInv, Guarded
  <2>4. \A i \in 1 .. n : closures[i].end < tx[s].date
    <3>1. tx[s].date \in Nat /\ tx[s].date > ClosedThrough
      BY <2>3, LedgerAssumption DEF PeriodOpen
    <3> HIDE DEF n
    <3>2. QED
      BY <1>1, <3>1
  <2>5. /\ Total(vouchers', new.end) = 0
        /\ vouchers'[new.voucher].date = new.end
    BY <1>6, CloseZeroes
  <2>6. new.end = tx[s].date
    OBVIOUS
  <2> HIDE DEF new, n
  <2>7. \A i \in 1 .. n + 1 : i \in 1 .. n \/ i = n + 1
    BY <1>1
  <2>8. \A i \in 1 .. Len(closures') :
          /\ Total(vouchers', closures'[i].end) = 0
          /\ vouchers'[closures'[i].voucher].date = closures'[i].end
    BY <1>5, <1>6, <2>2, <2>5, <2>7
  <2>9. \A i, j \in 1 .. Len(closures') : i < j => closures'[i].end < closures'[j].end
    <3> SUFFICES ASSUME NEW i \in 1 .. n + 1, NEW j \in 1 .. n + 1, i < j
                 PROVE  closures'[i].end < closures'[j].end
      BY <2>2
    <3>1. i \in 1 .. n /\ closures'[i] = closures[i]
      BY <1>1, <2>2
    <3>2. CASE j \in 1 .. n
      BY <2>2, <3>1, <3>2 DEF BooksInv, n
    <3>3. CASE j = n + 1
      BY <2>2, <2>4, <2>6, <3>1, <3>3
    <3>4. QED
      BY <2>7, <3>2, <3>3
  <2>10. QED
    BY <1>4, <2>8, <2>9 DEF BooksInv
<1>7. CASE tx[s].op = "reopen"
  <2>1. closures # <<>>
    BY <1>0, <1>7 DEF BooksInv
  <2>2. closures' = SubSeq(closures, 1, n - 1)
    BY <1>7 DEF Commit
  <2>3. closures \in Seq(Closure)
    BY <1>0 DEF Shape
  <2>4. n >= 1 /\ Len(closures') = n - 1 /\ \A i \in 1 .. n - 1 : closures'[i] = closures[i]
    <3>1. n \in Nat /\ n >= 1 /\ \A i \in 1 .. n - 1 : closures[i] \in Closure
      BY <2>1, <2>3
    <3> HIDE DEF n
    <3>2. /\ Len(SubSeq(closures, 1, n - 1)) = IF 1 <= n - 1 THEN (n - 1) - 1 + 1 ELSE 0
          /\ \A i \in 1 .. (n - 1) - 1 + 1 : SubSeq(closures, 1, n - 1)[i] = closures[1 + i - 1]
      BY <3>1, SubSeqProperties
    <3>3. QED
      BY <2>2, <3>1, <3>2
  <2> HIDE DEF n
  <2>5. \A i \in 1 .. n - 1 : i \in 1 .. n /\ i < n
    BY <1>1, <2>4
  <2>6. \A i \in 1 .. Len(closures') :
          /\ Total(vouchers', closures'[i].end) = 0
          /\ vouchers'[closures'[i].voucher].date = closures'[i].end
    BY <1>5, <2>4, <2>5
  <2>7. \A i, j \in 1 .. Len(closures') : i < j => closures'[i].end < closures'[j].end
    BY <2>4, <2>5 DEF BooksInv, n
  <2>8. QED
    BY <1>4, <2>6, <2>7 DEF BooksInv
<1>8. CASE tx[s].op \notin Exclusive
  <2>1. closures' = closures
    BY <1>8 DEF Commit, Exclusive
  <2>2. \A i \in 1 .. Len(closures') :
          /\ Total(vouchers', closures'[i].end) = 0
          /\ vouchers'[closures'[i].voucher].date = closures'[i].end
    BY <1>5, <1>8, <2>1 DEF Exclusive
  <2>3. \A i, j \in 1 .. Len(closures') : i < j => closures'[i].end < closures'[j].end
    BY <2>1 DEF BooksInv
  <2>4. QED
    BY <1>4, <2>2, <2>3 DEF BooksInv
<1>9. QED
  BY <1>6, <1>7, <1>8 DEF Exclusive

\* Every step keeps the closed periods at zero.
LEMMA BooksNext ==
  ASSUME FrozenInv, TypesInv, BooksInv, [Next]_vars
  PROVE  BooksInv'
<1>0. Shape
  BY DEF FrozenInv
<1>1. ASSUME NEW s \in Sessions, UNCHANGED <<vouchers, closures>>,
             \A o \in Sessions \ {s} : tx'[o] = tx[o],
             Open(s)' =>
               /\ tx'[s].op = "close" => tx'[s].amount = -Total(vouchers, tx'[s].date)
               /\ tx'[s].op = "reopen" => /\ closures # <<>>
                                          /\ tx'[s].row = closures[Len(closures)].voucher
      PROVE  BooksInv'
  BY <1>1 DEF BooksInv, Open
<1>2. ASSUME NEW s \in Sessions, Begins(s) PROVE BooksInv'
  <2>1. /\ UNCHANGED <<vouchers, closures>>
        /\ \A o \in Sessions \ {s} : tx'[o] = tx[o]
    BY <1>0, <1>2, TablesKept
  <2>2. /\ tx'[s].op = "close" => tx'[s].amount = -Balance(tx'[s].date)
        /\ tx'[s].op = "reopen" => /\ closures # <<>>
                                   /\ tx'[s].row = closures[Len(closures)].voucher
    BY <1>0, <1>2, BeginIsStarted DEF Started
  <2>3. QED
    BY <1>1, <2>1, <2>2, BalanceIsTotal
<1>3. ASSUME NEW s \in Sessions, Write(s) PROVE BooksInv'
  <2>1. /\ UNCHANGED <<vouchers, closures>>
        /\ \A o \in Sessions \ {s} : tx'[o] = tx[o]
        /\ Open(s) /\ tx'[s].op = tx[s].op /\ tx'[s].row = tx[s].row
        /\ tx'[s].date = tx[s].date /\ tx'[s].amount = tx[s].amount
    BY <1>0, <1>3, TablesKept, WriteFields DEF Open
  <2>2. QED
    BY <1>1, <2>1 DEF BooksInv
<1>4. ASSUME NEW s \in Sessions, Rollback(s) PROVE BooksInv'
  <2>1. /\ UNCHANGED <<vouchers, closures>>
        /\ \A o \in Sessions \ {s} : tx'[o] = tx[o]
        /\ ~Open(s)'
    BY <1>0, <1>4, TablesKept, RollbackFields DEF Open
  <2>2. QED
    BY <1>1, <2>1
<1>5. CASE UNCHANGED vars
  BY <1>5 DEF vars, BooksInv, Open
<1>6. QED
  BY <1>2, <1>3, <1>4, <1>5, BooksCommit, Steps

\* Through every closed period end income and expense are exactly zero, however
\* postings, corrections, closes and reopens interleave (closeFiscalPeriod and
\* reopenFiscalPeriod against the closed-period trigger).
THEOREM BooksCloseAtZero == Spec => []BooksClosedAtZero
<1>1. Spec => []FrozenInv
  BY FrozenInit, FrozenNext, PTL DEF Spec
<1>2. FrozenInv /\ TypesInv /\ [Next]_vars => TypesInv'
  BY TypesNext
<1>3. FrozenInv /\ TypesInv /\ BooksInv /\ [Next]_vars => BooksInv'
  BY BooksNext
<1>4. BooksInv => BooksClosedAtZero
  BY BalanceIsTotal DEF BooksInv, BooksClosedAtZero
<1>5. QED
  BY <1>1, <1>2, <1>3, <1>4, TypesInit, BooksInit, PTL DEF Spec

-----------------------------------------------------------------------------
(* Serializability. *)

\* Every live reversal of v came back from Deleted Items.
Unmatched(v) ==
  \A r \in Ids :
    vouchers[r].live /\ (vouchers[r].of = v \/ vouchers[r].key = ExactKey(v)) =>
      vouchers[r].restored

\* What a transaction found when it began, and the identity it will post under.
Found(t) ==
  /\ t.op \in {"post", "edit", "sync"} => t.amount \in Amounts
  /\ t.op = "post" => t.key.id \in Clients /\ t.key = ClientKey(t.key.id)
  /\ t.op \in {"edit", "delete", "reverse", "exact"} => t.row \in Ids /\ vouchers[t.row].live
  /\ t.op \in {"edit", "delete", "reverse"} => Unmatched(t.row)
  /\ t.op \in {"edit", "reverse"} => vouchers[t.row].of = 0
  /\ t.op \in {"reverse", "exact"} => t.amount = -vouchers[t.row].amount
  /\ t.op = "reverse" => t.key = LinkKey(t.row, ReversalAttempts(t.row) + 1)
  /\ t.op = "exact" => t.key = ExactKey(t.row) /\ vouchers[t.row].key.kind # "exact"
  /\ t.op = "restore" =>
       /\ t.row \in Ids
       /\ vouchers[t.row].live => vouchers[t.row].restored = IsReversal(vouchers[t.row])
  /\ t.op \in {"sync", "remove"} =>
       /\ t.key.id \in Documents /\ t.key = DocumentKey(t.key.id, t.key.n)
       /\ JournalOf(t.key.id) = {t.row} \ {0}
  /\ t.op = "remove" => t.row # 0
  /\ t.op = "close" => t.key = CloseKey(t.date, t.key.n)

\* One transaction at a time replaces the journal of a document.
Replaces(s) == Open(s) /\ tx[s].op \in {"sync", "remove"}

OneReplacer ==
  \A s, o \in Sessions :
    Replaces(s) /\ Replaces(o) /\ tx[s].key.id = tx[o].key.id => s = o

OneJournal ==
  \A v, w \in Ids :
    /\ vouchers[v].key.kind = "document" /\ ~vouchers[v].retired
    /\ vouchers[w].key.kind = "document" /\ ~vouchers[w].retired
    /\ vouchers[v].key.id = vouchers[w].key.id
    => v = w

\* A transaction that has written a live link has the only one.
OneLink ==
  \A s \in Sessions : Written(s) /\ LinksTo(tx[s]) # 0 =>
    /\ \A r \in Ids : vouchers[r].of = LinksTo(tx[s]) /\ vouchers[r].live => r = tx[s].row
    /\ \A o \in Sessions : Written(o) /\ LinksTo(tx[o]) = LinksTo(tx[s]) => o = s

SerialInv ==
  /\ OneReplacer
  /\ OneJournal
  /\ OneLink
  /\ \A s \in Sessions : Open(s) => Found(tx[s])

\* The empty books have no transactions.
LEMMA SerialInit == Init => SerialInv
BY DEF Init, SerialInv, OneReplacer, OneJournal, OneLink, Replaces, Ids, Idle,
       Open, Written

\* A voucher under an identity that is never released is found by its request.
LEMMA RequestFound ==
  ASSUME IdentitiesInv, NEW r \in Ids, vouchers[r].key.kind \in Kept
  PROVE  \E q \in requests : q.key = vouchers[r].key /\ q.voucher = r
<1>1. PICK q \in requests : q.key = vouchers[r].key
  BY DEF IdentitiesInv, Counted, Posted
<1>2. q.voucher \in Ids /\ vouchers[q.voucher].key = q.key
  BY DEF IdentitiesInv
<1>3. QED
  BY <1>1, <1>2 DEF IdentitiesInv, PostedOnce

\* A voucher without live reversals is unmatched.
LEMMA NoReversals ==
  ASSUME IdentitiesInv, NEW v, LiveReversals(v) = {}
  PROVE  Unmatched(v)
<1> SUFFICES ASSUME NEW r \in Ids, vouchers[r].live,
                    vouchers[r].of = v \/ vouchers[r].key = ExactKey(v)
             PROVE  FALSE
  BY DEF Unmatched
<1>1. CASE vouchers[r].of = v
  BY <1>1 DEF LiveReversals
<1>2. CASE vouchers[r].key = ExactKey(v)
  <2>1. vouchers[r].key.kind \in Kept
    BY <1>2 DEF ExactKey, Kept
  <2>2. PICK q \in requests : q.key = ExactKey(v) /\ q.voucher = r
    BY <1>2, <2>1, RequestFound
  <2>3. QED
    BY <2>2 DEF LiveReversals
<1>3. QED
  BY <1>1, <1>2

\* Every begin action finds what its transaction relies on.
LEMMA BeginFinds ==
  ASSUME Shape, IdentitiesInv, OneJournal, NEW s \in Sessions, Begins(s)
  PROVE  /\ Found(tx'[s])
         /\ tx'[s].op \in {"sync", "remove"} => KeyFree(tx'[s].key)
<1> USE DEF Start, Idle
<1>0. \A t : tx' = [tx EXCEPT ![s] = t] => tx'[s] = t
  BY DEF Shape
<1>1. ASSUME NEW c \in Clients, NEW d \in Dates, NEW a \in Amounts, BeginPost(s, c, d, a)
      PROVE  Found(tx'[s]) /\ tx'[s].op = "post"
  <2>1. tx'[s] = [Idle EXCEPT !.pc = "checked", !.op = "post",
                              !.key = ClientKey(c), !.date = d, !.amount = a]
    BY <1>0, <1>1 DEF BeginPost
  <2>2. ClientKey(c).id = c
    BY DEF ClientKey
  <2>3. QED
    BY <2>1, <2>2 DEF Found
<1>2. ASSUME NEW v \in Ids, NEW d \in Dates, NEW a \in Amounts, BeginEdit(s, v, d, a)
      PROVE  Found(tx'[s]) /\ tx'[s].op = "edit"
  <2>1. tx'[s] = [Idle EXCEPT !.pc = "checked", !.op = "edit", !.row = v,
                              !.date = d, !.amount = a]
    BY <1>0, <1>2 DEF BeginEdit
  <2>2. vouchers[v].live /\ vouchers[v].of = 0 /\ Unmatched(v)
    BY <1>2, NoReversals DEF BeginEdit, MayEdit
  <2>3. QED
    BY <2>1, <2>2 DEF Found
<1>3. ASSUME NEW v \in Ids, BeginDelete(s, v)
      PROVE  Found(tx'[s]) /\ tx'[s].op = "delete"
  <2>1. tx'[s] = [Idle EXCEPT !.pc = "checked", !.op = "delete", !.row = v]
    BY <1>0, <1>3 DEF BeginDelete
  <2>2. vouchers[v].live /\ Unmatched(v)
    BY <1>3, NoReversals DEF BeginDelete, MayDelete
  <2>3. QED
    BY <2>1, <2>2 DEF Found
<1>4. ASSUME NEW v \in Ids, BeginRestore(s, v)
      PROVE  Found(tx'[s]) /\ tx'[s].op = "restore"
  <2>1. tx'[s] = [Idle EXCEPT !.pc = "checked", !.op = "restore", !.row = v]
    BY <1>0, <1>4 DEF BeginRestore
  <2>2. ~vouchers[v].live
    BY <1>4 DEF BeginRestore
  <2>3. QED
    BY <2>1, <2>2 DEF Found
<1>5. ASSUME NEW v \in Ids, NEW d \in Dates, BeginReverse(s, v, d)
      PROVE  Found(tx'[s]) /\ tx'[s].op = "reverse"
  <2> DEFINE k == LinkKey(v, ReversalAttempts(v) + 1)
  <2>1. tx'[s] = [Idle EXCEPT !.pc = "checked", !.op = "reverse", !.row = v,
                              !.key = k, !.date = d, !.amount = -vouchers[v].amount,
                              !.of = v]
    BY <1>0, <1>5 DEF BeginReverse
  <2>2. vouchers[v].live /\ vouchers[v].of = 0 /\ Unmatched(v)
    BY <1>5, NoReversals DEF BeginReverse, MayReverse
  <2>3. k = LinkKey(v, ReversalAttempts(v) + 1)
    OBVIOUS
  <2> HIDE DEF k
  <2>4. QED
    BY <2>1, <2>2, <2>3 DEF Found
<1>6. ASSUME NEW v \in Ids, NEW d \in Dates, BeginExactReversal(s, v, d)
      PROVE  Found(tx'[s]) /\ tx'[s].op = "exact"
  <2>1. tx'[s] = [Idle EXCEPT !.pc = "checked", !.op = "exact", !.row = v,
                              !.key = ExactKey(v), !.date = d,
                              !.amount = -vouchers[v].amount]
    BY <1>0, <1>6 DEF BeginExactReversal
  <2>2. vouchers[v].live /\ vouchers[v].key.kind # "exact"
    BY <1>6 DEF BeginExactReversal
  <2>3. QED
    BY <2>1, <2>2 DEF Found
<1>7. ASSUME NEW k \in Documents, NEW d \in Dates, NEW a \in Amounts, BeginSync(s, k, d, a)
      PROVE  Found(tx'[s]) /\ tx'[s].op = "sync" /\ KeyFree(tx'[s].key)
  <2> DEFINE row == IF JournalOf(k) = {} THEN 0 ELSE CHOOSE v \in JournalOf(k) : TRUE
             n == Generation(k) + Cardinality(JournalOf(k))
             key == DocumentKey(k, n)
  <2>1. tx'[s] = [Idle EXCEPT !.pc = "checked", !.op = "sync", !.row = row,
                              !.key = key, !.date = d, !.amount = a]
    BY <1>0, <1>7 DEF BeginSync
  <2>2. JournalOf(k) = {row} \ {0}
    <3>1. 0 \notin Ids
      BY DEF Shape, Ids
    <3>2. \A v, w \in JournalOf(k) : v = w /\ v # 0
      BY <3>1 DEF JournalOf, OneJournal
    <3>3. JournalOf(k) # {} => row \in JournalOf(k)
      OBVIOUS
    <3>4. QED
      BY <3>2, <3>3
  <2>3. key.id = k /\ key = DocumentKey(key.id, key.n)
    BY DEF DocumentKey
  <2>4. KeyFree(key)
    BY <1>7 DEF BeginSync, KeyFree, DocumentKey
  <2> HIDE DEF row, key
  <2>5. QED
    BY <2>1, <2>2, <2>3, <2>4 DEF Found
<1>8. ASSUME NEW k \in Documents, BeginRemove(s, k)
      PROVE  Found(tx'[s]) /\ tx'[s].op = "remove" /\ KeyFree(tx'[s].key)
  <2>1. PICK v \in JournalOf(k) :
          Start(s, [Idle EXCEPT !.pc = "checked", !.op = "remove", !.row = v,
                                !.key = DocumentKey(k, 0)])
    BY <1>8 DEF BeginRemove
  <2>2. tx'[s] = [Idle EXCEPT !.pc = "checked", !.op = "remove", !.row = v,
                              !.key = DocumentKey(k, 0)]
    BY <1>0, <2>1
  <2>3. v # 0 /\ JournalOf(k) = {v} \ {0}
    <3>1. 0 \notin Ids
      BY DEF Shape, Ids
    <3>2. QED
      BY <3>1 DEF JournalOf, OneJournal
  <2>4. DocumentKey(k, 0).id = k /\ DocumentKey(k, 0) = DocumentKey(k, DocumentKey(k, 0).n)
    BY DEF DocumentKey
  <2>5. KeyFree(DocumentKey(k, 0))
    BY <1>8 DEF BeginRemove
  <2>6. QED
    BY <2>2, <2>3, <2>4, <2>5 DEF Found
<1>9. ASSUME NEW e \in Dates, BeginClose(s, e)
      PROVE  Found(tx'[s]) /\ tx'[s].op = "close"
  <2> DEFINE n == CloseAttempts(e) + 1
  <2>1. tx'[s] = [Idle EXCEPT !.pc = "written", !.op = "close", !.key = CloseKey(e, n),
                              !.date = e, !.amount = -Balance(e)]
    BY <1>0, <1>9 DEF BeginClose
  <2>2. CloseKey(e, n) = CloseKey(e, CloseKey(e, n).n)
    BY DEF CloseKey
  <2> HIDE DEF n
  <2>3. QED
    BY <2>1, <2>2 DEF Found
<1>10. ASSUME BeginReopen(s) PROVE Found(tx'[s]) /\ tx'[s].op = "reopen"
  <2> DEFINE v == closures[Len(closures)].voucher
  <2>1. tx'[s] = [Idle EXCEPT !.pc = "written", !.op = "reopen", !.row = v]
    BY <1>0, <1>10 DEF BeginReopen
  <2> HIDE DEF v
  <2>2. QED
    BY <2>1 DEF Found
<1>11. QED
  BY <1>1, <1>2, <1>3, <1>4, <1>5, <1>6, <1>7, <1>8, <1>9, <1>10 DEF Begins

\* A row another transaction holds is not changed by a commit.
LEMMA HeldRowKept ==
  ASSUME FrozenInv, NEW s \in Sessions, Commit(s),
         NEW p \in Sessions \ {s}, NEW v \in Ids, HoldsRow(p, v)
  PROVE  vouchers'[v] = vouchers[v] /\ v # tx[s].row
<1>1. v = tx[s].row => HoldsRow(s, v)
  BY DEF Commit, HoldsRow, Open, Written
<1>2. v # tx[s].row
  BY <1>1 DEF FrozenInv, RowLocks
<1>3. QED
  BY <1>2, CommitRows DEF FrozenInv

\* What a commit does to the life of a row: only a restore brings one back,
\* and only a replacement retires one.
LEMMA CommitLife ==
  ASSUME FrozenInv, NEW s \in Sessions, Commit(s), NEW v \in Ids
  PROVE  /\ vouchers'[v].live =>
              \/ vouchers[v].live /\ vouchers'[v].restored = vouchers[v].restored
              \/ /\ tx[s].op = "restore" /\ v = tx[s].row
                 /\ vouchers'[v].restored = IsReversal(vouchers[v])
         /\ ~(tx[s].op \in {"sync", "remove"} /\ v = tx[s].row) =>
              vouchers'[v].retired = vouchers[v].retired
         /\ tx[s].op \in {"sync", "remove"} /\ v = tx[s].row => vouchers'[v].retired
<1>1. Shape /\ RowShape(vouchers[v])
  BY DEF FrozenInv, Shape
<1>2. vouchers'[v] = IF tx[s].op \in Updating /\ v = tx[s].row
                     THEN Updated(tx[s], vouchers[v]) ELSE vouchers[v]
  BY <1>1, CommitRows
<1>3. CASE tx[s].op \in Updating /\ v = tx[s].row
  BY <1>1, <1>2, <1>3, UpdatedKeeps DEF Updating
<1>4. CASE ~(tx[s].op \in Updating /\ v = tx[s].row)
  BY <1>2, <1>4 DEF Updating
<1>5. QED
  BY <1>3, <1>4

\* The voucher a commit appends: its link and its identity.
LEMMA CommitNew ==
  ASSUME FrozenInv, MirrorsInv, SerialInv, NEW s \in Sessions, Commit(s),
         NEW r \in Ids', r \notin Ids
  PROVE  /\ tx[s].op \in Posting /\ r = Len(vouchers) + 1
         /\ vouchers'[r] = Inserted(tx[s])
         /\ vouchers'[r].key = tx[s].key /\ vouchers'[r].of = tx[s].of
         /\ ~vouchers'[r].retired
         /\ vouchers'[r].of # 0 =>
              tx[s].op = "reverse" /\ vouchers'[r].of = tx[s].row /\ LinksTo(tx[s]) = tx[s].row
         /\ vouchers'[r].key.kind = "exact" =>
              tx[s].op = "exact" /\ vouchers'[r].key = ExactKey(tx[s].row)
         /\ vouchers'[r].key.kind = "document" => tx[s].op = "sync"
<1>0. PICK t : t = tx[s]
  OBVIOUS
<1>1. t.op \in Posting /\ r = Len(vouchers) + 1
  BY <1>0, CommitIds
<1>2. vouchers'[r] = Inserted(t)
  BY <1>0, <1>1, CommitRows DEF FrozenInv
<1>3. Fits(t) /\ Found(t)
  BY <1>0 DEF MirrorsInv, SerialInv, Commit, Written, Open
<1>4. t.of # 0 => t.op = "reverse" /\ t.of = t.row /\ LinksTo(t) = t.row
  BY <1>1, <1>3 DEF Fits, LinksTo
<1>5. /\ t.key.kind = "exact" => t.op = "exact" /\ t.key = ExactKey(t.row)
      /\ t.key.kind = "document" => t.op = "sync"
  <2>1. t.op = "post" => t.key.kind = "client"
    BY <1>3 DEF Found, ClientKey
  <2>2. t.op = "reverse" => t.key.kind = "link"
    BY <1>3 DEF Found, LinkKey
  <2>3. t.op = "exact" => t.key.kind = "exact" /\ t.key = ExactKey(t.row)
    BY <1>3 DEF Found, ExactKey
  <2>4. t.op = "sync" => t.key.kind = "document"
    BY <1>3 DEF Found, DocumentKey
  <2>5. t.op = "close" => t.key.kind = "close"
    BY <1>3 DEF Found, CloseKey
  <2>6. QED
    BY <1>1, <2>1, <2>2, <2>3, <2>4, <2>5 DEF Posting
<1>6. QED
  BY <1>0, <1>1, <1>2, <1>4, <1>5 DEF Inserted

\* A voucher whose row is locked stays unmatched.
LEMMA UnmatchedKept ==
  ASSUME FrozenInv, MirrorsInv, SerialInv, NEW s \in Sessions, Commit(s),
         NEW p \in Sessions \ {s}, NEW v \in Ids, HoldsRow(p, v), Unmatched(v)
  PROVE  Unmatched(v)'
<1> SUFFICES ASSUME NEW r \in Ids', vouchers'[r].live,
                    vouchers'[r].of = v \/ vouchers'[r].key = ExactKey(v)
             PROVE  vouchers'[r].restored
  BY DEF Unmatched, ExactKey
<1>1. v # 0 /\ v # tx[s].row
  BY HeldRowKept DEF FrozenInv, Shape, Ids
<1>2. CASE r \in Ids
  <2>1. vouchers'[r].of = vouchers[r].of /\ vouchers'[r].key = vouchers[r].key
    BY <1>2, CommitIds
  <2>2. CASE vouchers[r].live /\ vouchers'[r].restored = vouchers[r].restored
    BY <1>2, <2>1, <2>2 DEF Unmatched
  <2>3. CASE vouchers'[r].restored = IsReversal(vouchers[r])
    <3>1. vouchers[r].of # 0 \/ vouchers[r].key.kind = "exact"
      BY <1>1, <2>1 DEF ExactKey
    <3>2. QED
      BY <2>3, <3>1 DEF IsReversal
  <2>4. QED
    BY <1>2, <2>2, <2>3, CommitLife
<1>3. CASE r \notin Ids
  <2>1. /\ vouchers'[r].of # 0 => vouchers'[r].of = tx[s].row
        /\ vouchers'[r].key.kind = "exact" => vouchers'[r].key = ExactKey(tx[s].row)
    BY <1>3, CommitNew
  <2>2. QED
    BY <1>1, <2>1 DEF ExactKey
<1>4. QED
  BY <1>2, <1>3

\* The attempts to reverse a voucher are counted under its row lock.
LEMMA AttemptsKept ==
  ASSUME FrozenInv, MirrorsInv, SerialInv, NEW s \in Sessions, Commit(s),
         NEW p \in Sessions \ {s}, NEW v \in Ids, HoldsRow(p, v)
  PROVE  ReversalAttempts(v)' = ReversalAttempts(v)
<1>1. v # 0 /\ v # tx[s].row
  BY HeldRowKept DEF FrozenInv, Shape, Ids
<1>2. \A r \in Ids : r \in Ids' /\ vouchers'[r].of = vouchers[r].of
  BY CommitIds
<1>3. \A r \in Ids' : r \notin Ids /\ vouchers'[r].of # 0 => vouchers'[r].of = tx[s].row
  BY CommitNew
<1>4. {r \in Ids' : vouchers'[r].of = v} = {r \in Ids : vouchers[r].of = v}
  BY <1>1, <1>2, <1>3
<1>5. QED
  BY <1>4 DEF ReversalAttempts

\* A commit changes the journal of the document it replaces, if any.
LEMMA JournalKept ==
  ASSUME FrozenInv, MirrorsInv, SerialInv, NEW s \in Sessions, Commit(s), NEW k,
         tx[s].op \in {"sync", "remove"} => tx[s].key.id # k
  PROVE  JournalOf(k)' = JournalOf(k)
<1>0. Found(tx[s])
  BY DEF SerialInv, Commit, Written, Open
<1>1. ASSUME NEW v \in Ids
      PROVE  v \in JournalOf(k)' <=> v \in JournalOf(k)
  <2>1. v \in Ids' /\ vouchers'[v].key = vouchers[v].key
    BY CommitIds
  <2>2. CASE tx[s].op \in {"sync", "remove"} /\ v = tx[s].row
    <3>1. v # 0
      BY DEF FrozenInv, Shape, Ids
    <3>2. v \in JournalOf(tx[s].key.id)
      BY <1>0, <2>2, <3>1 DEF Found
    <3>3. vouchers[v].key.id # k
      BY <2>2, <3>2 DEF JournalOf
    <3>4. QED
      BY <2>1, <3>3 DEF JournalOf
  <2>3. CASE ~(tx[s].op \in {"sync", "remove"} /\ v = tx[s].row)
    BY <2>1, <2>3, CommitLife DEF JournalOf
  <2>4. QED
    BY <2>2, <2>3
<1>2. ASSUME NEW v \in Ids', v \notin Ids PROVE v \notin JournalOf(k)'
  <2>1. vouchers'[v].key.kind = "document" => tx[s].op = "sync" /\ vouchers'[v].key = tx[s].key
    BY <1>2, CommitNew
  <2>2. QED
    BY <2>1 DEF JournalOf
<1>3. JournalOf(k) \subseteq Ids /\ JournalOf(k)' \subseteq Ids'
  BY DEF JournalOf
<1>4. Ids \subseteq Ids'
  BY CommitIds
<1>5. QED
  BY <1>1, <1>2, <1>3, <1>4

\* The journal of the document it replaces is the new one, if any.
LEMMA JournalReplaced ==
  ASSUME FrozenInv, MirrorsInv, SerialInv, NEW s \in Sessions, Commit(s),
         tx[s].op \in {"sync", "remove"}, NEW k, k = tx[s].key.id
  PROVE  JournalOf(k)' \subseteq {Len(vouchers) + 1}
<1>1. Found(tx[s])
  BY DEF SerialInv, Commit, Written, Open
<1>2. Ids \subseteq Ids'
  BY CommitIds
<1>3. ASSUME NEW v \in Ids', v \in Ids,
             vouchers'[v].key.kind = "document", vouchers'[v].key.id = k
      PROVE  vouchers'[v].retired
  <2>1. vouchers'[v].key = vouchers[v].key
    BY <1>3, CommitIds
  <2>2. CASE v = tx[s].row
    BY <1>3, <2>2, CommitLife
  <2>3. CASE v # tx[s].row
    <3>1. v \notin JournalOf(k)
      BY <1>1, <2>3 DEF Found
    <3>2. vouchers[v].retired
      BY <1>3, <2>1, <3>1 DEF JournalOf
    <3>3. vouchers'[v].retired = vouchers[v].retired
      BY <1>3, <2>3, CommitLife
    <3>4. QED
      BY <3>2, <3>3
  <2>4. QED
    BY <2>2, <2>3
<1>4. \A v \in Ids' : v \notin Ids => v = Len(vouchers) + 1
  BY CommitNew
<1>5. {v \in Ids' : /\ vouchers'[v].key.kind = "document"
                    /\ vouchers'[v].key.id = k
                    /\ ~vouchers'[v].retired} \subseteq {Len(vouchers) + 1}
  BY <1>3, <1>4
<1>6. QED
  BY <1>5 DEF JournalOf

\* What a transaction found stays so while others commit: its row is locked,
\* or its document.
LEMMA FoundKept ==
  ASSUME FrozenInv, MirrorsInv, SerialInv, NEW s \in Sessions, Commit(s),
         NEW p \in Sessions \ {s}, Open(p), NEW t, t = tx[p]
  PROVE  Found(t)'
<1>1. Found(t) /\ Ids \subseteq Ids'
  BY CommitIds DEF SerialInv
<1>2. ASSUME t.row \in Ids, t.op # "restore"
      PROVE  HoldsRow(p, t.row) /\ vouchers'[t.row] = vouchers[t.row]
  <2>1. HoldsRow(p, t.row)
    BY <1>2 DEF HoldsRow
  <2>2. QED
    BY <1>2, <2>1, HeldRowKept
<1>3. t.op \in {"edit", "delete", "reverse"} => Unmatched(t.row)'
  BY <1>1, <1>2, UnmatchedKept DEF Found
<1>4. t.op = "reverse" => ReversalAttempts(t.row)' = ReversalAttempts(t.row)
  BY <1>1, <1>2, AttemptsKept DEF Found
<1>5. ASSUME t.op = "restore", vouchers'[t.row].live
      PROVE  vouchers'[t.row].restored = IsReversal(vouchers'[t.row])
  <2>1. t.row \in Ids /\ (vouchers[t.row].live => vouchers[t.row].restored = IsReversal(vouchers[t.row]))
    BY <1>1, <1>5 DEF Found
  <2>2. vouchers'[t.row].key = vouchers[t.row].key /\ vouchers'[t.row].of = vouchers[t.row].of
    BY <2>1, CommitIds
  <2>3. IsReversal(vouchers'[t.row]) = IsReversal(vouchers[t.row])
    BY <2>2 DEF IsReversal
  <2>4. vouchers'[t.row].restored = IsReversal(vouchers[t.row])
    BY <1>5, <2>1, CommitLife
  <2>5. QED
    BY <2>3, <2>4
<1>6. t.op \in {"sync", "remove"} => JournalOf(t.key.id)' = JournalOf(t.key.id)
  <2> SUFFICES ASSUME t.op \in {"sync", "remove"}, NEW k, k = t.key.id
               PROVE  JournalOf(k)' = JournalOf(k)
    OBVIOUS
  <2>1. Replaces(p) /\ Open(s)
    BY DEF Replaces, Commit, Written, Open
  <2>2. tx[s].op \in {"sync", "remove"} => tx[s].key.id # k
    BY <2>1 DEF SerialInv, OneReplacer, Replaces
  <2>3. QED
    BY <2>2, JournalKept
<1>7. t.op \in {"edit", "delete", "reverse", "exact"} => t.row \in Ids
  BY <1>1 DEF Found
<1>8. t.op \in {"edit", "delete", "reverse", "exact"} => vouchers'[t.row] = vouchers[t.row]
  BY <1>2, <1>7
<1> QED
  BY <1>1, <1>3, <1>4, <1>5, <1>6, <1>7, <1>8 DEF Found

\* A commit leaves one journal per document.
LEMMA OneJournalKept ==
  ASSUME FrozenInv, MirrorsInv, SerialInv, NEW s \in Sessions, Commit(s)
  PROVE  OneJournal'
<1> SUFFICES ASSUME NEW v \in Ids', NEW w \in Ids', NEW k,
                    vouchers'[v].key.kind = "document", ~vouchers'[v].retired,
                    vouchers'[w].key.kind = "document", ~vouchers'[w].retired,
                    vouchers'[v].key.id = k, vouchers'[w].key.id = k
             PROVE  v = w
  BY DEF OneJournal
<1>1. v \in JournalOf(k)' /\ w \in JournalOf(k)'
  BY DEF JournalOf
<1>2. CASE tx[s].op \in {"sync", "remove"} /\ k = tx[s].key.id
  <2>1. JournalOf(k)' \subseteq {Len(vouchers) + 1}
    BY <1>2, JournalReplaced
  <2>2. QED
    BY <1>1, <2>1
<1>3. CASE ~(tx[s].op \in {"sync", "remove"} /\ k = tx[s].key.id)
  <2>1. v \in JournalOf(k) /\ w \in JournalOf(k)
    BY <1>1, <1>3, JournalKept
  <2>2. QED
    BY <2>1 DEF JournalOf, SerialInv, OneJournal
<1>4. QED
  BY <1>2, <1>3

\* A commit makes no live link that another transaction has written.
LEMMA OneLinkKept ==
  ASSUME FrozenInv, MirrorsInv, SerialInv, NEW s \in Sessions, Commit(s)
  PROVE  OneLink'
<1>1. /\ tx'[s].pc = "idle" /\ Written(s) /\ Open(s)
      /\ \A o \in Sessions \ {s} : tx'[o] = tx[o]
  BY RollbackFields DEF FrozenInv, Commit, Written, Open
<1>2. \A v \in Ids : v \in Ids' /\ vouchers'[v].of = vouchers[v].of
  BY CommitIds
<1>3. ASSUME NEW o \in Sessions, Written(o)'
      PROVE  o # s /\ Written(o) /\ LinksTo(tx[o])' = LinksTo(tx[o])
  <2>1. o # s /\ tx'[o] = tx[o] /\ Written(o) /\ Open(o)
    BY <1>1, <1>3 DEF Written, Open
  <2>2. Found(tx[o])
    BY <2>1 DEF SerialInv
  <2>3. tx[o].op = "restore" => vouchers'[tx[o].row].of = vouchers[tx[o].row].of
    BY <1>2, <2>2 DEF Found
  <2>4. QED
    BY <2>1, <2>3 DEF LinksTo
<1>4. ASSUME NEW p \in Sessions, Written(p)', LinksTo(tx[p])' # 0, NEW r \in Ids',
             vouchers'[r].of = LinksTo(tx[p])', vouchers'[r].live
      PROVE  r = tx'[p].row
  <2>0. PICK l : l = LinksTo(tx[p])
    OBVIOUS
  <2>1. p # s /\ Written(p) /\ l # 0 /\ vouchers'[r].of = l /\ tx'[p] = tx[p]
    BY <1>1, <1>3, <1>4, <2>0
  <2>2. LinksTo(tx[s]) # l
    BY <1>1, <2>0, <2>1 DEF SerialInv, OneLink
  <2>3. CASE r \in Ids
    <3>1. vouchers[r].of = l
      BY <1>2, <2>1, <2>3
    <3>2. ~(tx[s].op = "restore" /\ r = tx[s].row)
      BY <2>2, <3>1 DEF LinksTo
    <3>3. vouchers[r].live
      BY <1>4, <2>3, <3>2, CommitLife
    <3>4. QED
      BY <2>0, <2>1, <2>3, <3>1, <3>3 DEF SerialInv, OneLink
  <2>4. CASE r \notin Ids
    BY <2>1, <2>2, <2>4, CommitNew
  <2>5. QED
    BY <2>3, <2>4
<1>5. ASSUME NEW p \in Sessions, Written(p)', LinksTo(tx[p])' # 0,
             NEW o \in Sessions, Written(o)', LinksTo(tx[o])' = LinksTo(tx[p])'
      PROVE  o = p
  BY <1>3, <1>5 DEF SerialInv, OneLink
<1>6. QED
  BY <1>4, <1>5 DEF OneLink

\* A commit keeps what the other transactions rely on.
LEMMA SerialCommit ==
  ASSUME FrozenInv, MirrorsInv, SerialInv, NEW s \in Sessions, Commit(s)
  PROVE  SerialInv'
<1>1. tx'[s].pc = "idle" /\ \A o \in Sessions \ {s} : tx'[o] = tx[o]
  BY RollbackFields DEF FrozenInv
<1>2. OneReplacer'
  BY <1>1 DEF SerialInv, OneReplacer, Replaces, Open
<1>3. ASSUME NEW o \in Sessions, Open(o)' PROVE Found(tx[o])'
  <2>1. o # s /\ tx'[o] = tx[o] /\ Open(o)
    BY <1>1, <1>3 DEF Open
  <2>2. PICK t : t = tx[o]
    OBVIOUS
  <2>3. Found(t)'
    BY <2>1, <2>2, FoundKept
  <2>4. QED
    BY <2>1, <2>2, <2>3 DEF Found
<1>4. QED
  BY <1>2, <1>3, OneJournalKept, OneLinkKept DEF SerialInv

\* Every step keeps it: a written link waits for the others of its original,
\* and a replacement for the others of its document.
LEMMA SerialNext ==
  ASSUME FrozenInv, IdentitiesInv, MirrorsInv, SerialInv, [Next]_vars
  PROVE  SerialInv'
<1>0. Shape
  BY DEF FrozenInv
<1>1. ASSUME UNCHANGED vouchers, NEW t, Found(t) PROVE Found(t)'
  <2>1. Ids' = Ids /\ \A k : JournalOf(k)' = JournalOf(k)
    BY <1>1 DEF Ids, JournalOf
  <2>2. \A v : ReversalAttempts(v)' = ReversalAttempts(v)
    BY <1>1 DEF Ids, ReversalAttempts
  <2>3. \A v : Unmatched(v)' <=> Unmatched(v)
    BY <1>1 DEF Ids, Unmatched, ExactKey
  <2>4. QED
    BY <1>1, <2>1, <2>2, <2>3 DEF Found
<1>2. ASSUME UNCHANGED vouchers, NEW o, Found(tx'[o]) PROVE Found(tx[o])'
  <2>1. PICK t : t = tx'[o]
    OBVIOUS
  <2>2. Found(t)'
    BY <1>1, <1>2, <2>1
  <2>3. QED
    BY <2>1, <2>2 DEF Found
<1>3. UNCHANGED vouchers => OneJournal'
  BY DEF SerialInv, OneJournal, Ids
<1>4. ASSUME NEW s \in Sessions, Begins(s) PROVE SerialInv'
  <2>1. /\ UNCHANGED vouchers
        /\ \A o \in Sessions \ {s} : tx'[o] = tx[o]
    BY <1>0, <1>4, TablesKept
  <2>2. /\ Found(tx'[s])
        /\ tx'[s].op \in {"sync", "remove"} => KeyFree(tx'[s].key)
    BY <1>0, <1>4, BeginFinds DEF SerialInv
  <2>3. \A o \in Sessions : Open(o)' => Found(tx[o])'
    BY <1>2, <2>1, <2>2 DEF SerialInv, Open
  <2>4. OneReplacer'
    <3> SUFFICES ASSUME NEW o \in Sessions \ {s}, Replaces(s)', Replaces(o)'
                 PROVE  tx'[s].key.id # tx'[o].key.id
      BY <2>1 DEF SerialInv, OneReplacer, Replaces, Open
    <3>1. Open(o) /\ tx'[o] = tx[o] /\ Found(tx[o])
      BY <2>1 DEF Replaces, Open, SerialInv
    <3>2. KeyFree(tx'[s].key)
      BY <2>2 DEF Replaces
    <3>3. tx[o].key.kind = "document" /\ tx'[s].key.kind = "document"
      BY <2>2, <3>1 DEF Found, Replaces, DocumentKey
    <3>4. QED
      BY <3>1, <3>2, <3>3 DEF KeyFree
  <2>5. OneLink'
    <3>1. \A o \in Sessions : Written(o)' /\ LinksTo(tx[o])' # 0 =>
            o # s /\ Written(o) /\ tx'[o] = tx[o]
      <4>1. PICK t : Begun(s, t)
        BY <1>0, <1>4, BeginIsBegun DEF Begins
      <4>2. tx'[s] = t /\ Started(s, t)
        BY <1>0, <1>4, <4>1, BeginIsStarted DEF Begun, Shape
      <4>3. Written(s)' => LinksTo(tx[s])' = 0
        BY <4>1, <4>2 DEF Begun, Started, Written, LinksTo, Exclusive
      <4>4. QED
        BY <2>1, <4>3 DEF Written
    <3>2. \A o \in Sessions \ {s} : LinksTo(tx[o])' = LinksTo(tx[o])
      BY <2>1 DEF LinksTo
    <3>3. QED
      BY <2>1, <3>1, <3>2 DEF SerialInv, OneLink, Ids
  <2>6. QED
    BY <1>3, <2>1, <2>3, <2>4, <2>5 DEF SerialInv
<1>5. ASSUME NEW s \in Sessions, Write(s) PROVE SerialInv'
  <2>1. /\ UNCHANGED vouchers
        /\ \A o \in Sessions \ {s} : tx'[o] = tx[o]
        /\ Open(s) /\ tx'[s].pc = "written"
        /\ tx'[s].op = tx[s].op /\ tx'[s].row = tx[s].row /\ tx'[s].key = tx[s].key
        /\ tx'[s].date = tx[s].date /\ tx'[s].amount = tx[s].amount /\ tx'[s].of = tx[s].of
    BY <1>0, <1>5, TablesKept, WriteFields DEF Open
  <2>2. Found(tx'[s])
    BY <2>1 DEF SerialInv, Found
  <2>3. \A o \in Sessions : Open(o)' => Found(tx[o])'
    BY <1>2, <2>1, <2>2 DEF SerialInv, Open
  <2>4. OneReplacer'
    BY <2>1 DEF SerialInv, OneReplacer, Replaces, Open
  <2>5. OneLink'
    <3>1. \A o \in Sessions : LinksTo(tx[o])' = LinksTo(tx[o]) /\ tx'[o].row = tx[o].row
      BY <2>1 DEF LinksTo
    <3>2. UniqueLinkAllows(s)
      BY <1>5 DEF Write
    <3>3. \A o \in Sessions \ {s} : Written(o)' <=> Written(o)
      BY <2>1 DEF Written
    <3>4. LinksTo(tx[s]) # 0 =>
            /\ \A r \in Ids : vouchers[r].of = LinksTo(tx[s]) /\ vouchers[r].live => r = tx[s].row
            /\ \A o \in Sessions \ {s} : Written(o) => LinksTo(tx[o]) # LinksTo(tx[s])
      BY <3>2 DEF UniqueLinkAllows
    <3>5. QED
      BY <2>1, <3>1, <3>3, <3>4 DEF SerialInv, OneLink, Ids
  <2>6. QED
    BY <1>3, <2>1, <2>3, <2>4, <2>5 DEF SerialInv
<1>6. ASSUME NEW s \in Sessions, Rollback(s) PROVE SerialInv'
  <2>1. /\ UNCHANGED vouchers /\ tx'[s].pc = "idle"
        /\ \A o \in Sessions \ {s} : tx'[o] = tx[o]
    BY <1>0, <1>6, TablesKept, RollbackFields
  <2>2. \A o \in Sessions : Open(o)' => Found(tx[o])'
    BY <1>2, <2>1 DEF SerialInv, Open
  <2>3. OneReplacer'
    BY <2>1 DEF SerialInv, OneReplacer, Replaces, Open
  <2>4. OneLink'
    <3>1. \A o \in Sessions : Written(o)' => o # s /\ Written(o)
      BY <2>1 DEF Written
    <3>2. \A o \in Sessions \ {s} : LinksTo(tx[o])' = LinksTo(tx[o])
      BY <2>1 DEF LinksTo
    <3>3. QED
      BY <2>1, <3>1, <3>2 DEF SerialInv, OneLink, Ids
  <2>5. QED
    BY <1>3, <2>1, <2>2, <2>3, <2>4 DEF SerialInv
<1>7. CASE UNCHANGED vars
  <2>1. UNCHANGED vouchers /\ tx' = tx
    BY <1>7 DEF vars
  <2>2. \A o \in Sessions : Open(o)' => Found(tx[o])'
    BY <1>2, <2>1 DEF SerialInv, Open
  <2>3. OneReplacer' /\ OneLink'
    BY <2>1 DEF SerialInv, OneReplacer, OneLink, Replaces, Open, Written, LinksTo, Ids
  <2>4. QED
    BY <1>3, <2>1, <2>2, <2>3 DEF SerialInv
<1>8. QED
  BY <1>4, <1>5, <1>6, <1>7, SerialCommit, Steps

-----------------------------------------------------------------------------
(* Every commit is one operation of SerialBooks. *)

\* The module counts as SerialBooks does.
LEMMA SameCardinality == \A S : Serial!Cardinality(S) = Cardinality(S)
BY DEF Serial!Cardinality, Cardinality

\* The books as SerialBooks reads them.
LEMMA SerialReads ==
  /\ Serial!Ids = Ids
  /\ \A d \in Dates : PeriodOpen(d) => Serial!DateOpen(d)
  /\ \A k : Serial!Current(k) = JournalOf(k)
  /\ \A k, i : Serial!Cardinality(Serial!Posted(k, i)) = Used(k, i)
  /\ \A v : Serial!Cardinality(Serial!Linked(v)) = ReversalAttempts(v)
  /\ \A e : Serial!Balance(e) = Balance(e)
  /\ \A v : Unmatched(v) => ~Serial!Reversed(v)
<1>1. Serial!Ids = Ids
  BY DEF Serial!Ids, Ids
<1>2. \A d \in Dates : PeriodOpen(d) => Serial!DateOpen(d)
  BY DEF PeriodOpen, ClosedThrough, Serial!DateOpen
<1>3. \A k : Serial!Current(k) = JournalOf(k)
  BY <1>1 DEF Serial!Current, Serial!Posted, JournalOf
<1>4. \A k, i : Serial!Cardinality(Serial!Posted(k, i)) = Used(k, i)
  BY <1>1, SameCardinality DEF Serial!Posted, Used
<1>5. \A v : Serial!Cardinality(Serial!Linked(v)) = ReversalAttempts(v)
  BY <1>1, SameCardinality DEF Serial!Linked, ReversalAttempts
<1>6. \A e : Serial!Balance(e) = Balance(e)
  BY DEF Serial!Balance, Balance
<1>7. \A v : Unmatched(v) => ~Serial!Reversed(v)
  BY <1>1 DEF Unmatched, Serial!Reversed, Serial!ExactKey, Serial!Identity, ExactKey
<1>8. QED
  BY <1>1, <1>2, <1>3, <1>4, <1>5, <1>6, <1>7

\* An identity about to be posted is unused.
LEMMA PostsUnused ==
  ASSUME FrozenInv, IdentitiesInv, NEW s \in Sessions, Commit(s), tx[s].op \in Posting
  PROVE  Serial!Unused(tx[s].key)
<1> SUFFICES ASSUME NEW v \in Ids, vouchers[v].key = tx[s].key PROVE FALSE
  BY SerialReads DEF Serial!Unused
<1>1. NewIdentity(tx[s]) /\ Counted(tx[s].key)
  BY DEF IdentitiesInv, Commit, Written, Open
<1>2. CASE tx[s].op \in {"post", "reverse", "exact"}
  BY <1>1, <1>2 DEF NewIdentity, Counted
<1>3. CASE tx[s].op = "sync"
  BY <1>1, <1>3 DEF NewIdentity, Counted
<1>4. CASE tx[s].op = "close"
  <2>1. IsFiniteSet(Ids)
    BY FiniteIds DEF FrozenInv
  <2>2. Used("close", tx[s].key.id) \in Nat
    BY <2>1, FS_Subset, FS_CardinalityType DEF Used
  <2>3. QED
    BY <1>1, <1>4, <2>2 DEF NewIdentity, Counted
<1>5. QED
  BY <1>2, <1>3, <1>4 DEF Posting

\* What a commit writes besides the rows, by its kind.
LEMMA CommitTables ==
  ASSUME FrozenInv, NumbersInv, MirrorsInv, SerialInv, NEW s \in Sessions, Commit(s),
         NEW t, t = tx[s]
  PROVE  /\ Found(t) /\ Fits(t) /\ TxShape(t) /\ Written(s) /\ Open(s)
         /\ t.op # "reopen" => \A d \in Touches(t) : Serial!DateOpen(d)
         /\ t.op \in Numbered => counter' = counter + 1 /\ t.no = counter + 1
         /\ t.op \notin Numbered => counter' = counter /\ t.no = 0
         /\ t.op \notin Exclusive => closures' = closures
         /\ t.op \notin Updating => vouchers' = Append(vouchers, Inserted(t))
         /\ t.op \in Updating \ {"sync"} =>
              vouchers' = [vouchers EXCEPT ![t.row] = Updated(t, @)] \/ t.row \notin Ids
<1>1. Written(s) /\ Open(s)
  BY DEF Commit, Written, Open
<1>2. Found(t) /\ Fits(t) /\ TxShape(t)
  BY <1>1 DEF FrozenInv, Shape, MirrorsInv, SerialInv
<1>3. t.op # "reopen" => \A d \in Touches(t) : d \in Dates /\ PeriodOpen(d)
  BY <1>1 DEF FrozenInv, Guarded, Touches
<1>4. t.no = IF t.op \in Numbered THEN counter + 1 ELSE 0
  BY <1>1 DEF NumbersInv
<1>5. counter' = IF t.op \in Numbered THEN t.no ELSE counter
  BY DEF Commit
<1>6. t.op \notin Exclusive => closures' = closures
  BY DEF Commit, Exclusive
<1>7. t.op \in Posting \cup Updating
  BY <1>1, <1>2 DEF TxShape, Open, AllOperations
<1>8. vouchers' = IF t.op \in Posting THEN Append(RowsAfter(t), Inserted(t)) ELSE RowsAfter(t)
  BY DEF Commit
<1>9. t.op \notin Updating => vouchers' = Append(vouchers, Inserted(t))
  BY <1>7, <1>8 DEF RowsAfter
<1>10. t.op \in Updating \ {"sync"} /\ t.row \in Ids =>
         vouchers' = [vouchers EXCEPT ![t.row] = Updated(t, @)]
  BY <1>8 DEF RowsAfter, Posting, Updating
<1>11. QED
  BY <1>1, <1>2, <1>3, <1>4, <1>5, <1>6, <1>9, <1>10, SerialReads

\* A new posting happens in one step.
LEMMA SerialPosts ==
  ASSUME FrozenInv, NumbersInv, IdentitiesInv, MirrorsInv, SerialInv,
         NEW s \in Sessions, Commit(s), NEW t, t = tx[s],
         t.op \in {"post", "reverse", "exact"}
  PROVE  Serial!Next
<1>1. /\ Found(t) /\ Fits(t) /\ TxShape(t) /\ Written(s) /\ Open(s)
      /\ \A d \in Touches(t) : Serial!DateOpen(d)
      /\ closures' = closures
      /\ vouchers' = Append(vouchers, Inserted(t))
      /\ t.op \in Numbered => counter' = counter + 1 /\ t.no = counter + 1
      /\ t.op \notin Numbered => counter' = counter /\ t.no = 0
  BY CommitTables DEF Exclusive, Updating
<1>2. t.date \in Dates /\ t.date \in Touches(t)
  BY <1>1 DEF TxShape, Open, Posting, Touches
<1>3. Serial!DateOpen(t.date) /\ Serial!Unused(t.key)
  BY <1>1, <1>2, PostsUnused DEF Posting
<1>4. Serial!Ids = Ids
  BY SerialReads
<1>5. Inserted(t) = Serial!Entry(t.key, t.date, t.amount, t.of, t.no)
  BY DEF Inserted, Serial!Entry
<1>6. CASE t.op = "post"
  <2>1. t.key.id \in Clients /\ t.key = Serial!Identity("client", t.key.id, 0)
        /\ t.amount \in Amounts /\ t.of = 0
    BY <1>1, <1>6 DEF Found, Fits, ClientKey, Serial!Identity
  <2>2. Serial!Post(t.key.id, t.date, t.amount)
    BY <1>1, <1>3, <1>5, <1>6, <2>1 DEF Serial!Post, Numbered
  <2>3. QED
    BY <1>2, <2>1, <2>2 DEF Serial!Next
<1>7. CASE t.op = "reverse"
  <2>1. /\ t.row \in Ids /\ t.of = t.row /\ vouchers[t.row].live /\ vouchers[t.row].of = 0
        /\ t.amount = -vouchers[t.row].amount /\ Unmatched(t.row)
        /\ t.key = LinkKey(t.row, ReversalAttempts(t.row) + 1)
    BY <1>1, <1>7 DEF Found, Fits
  <2>2. t.key = Serial!Identity("link", t.row, Serial!Cardinality(Serial!Linked(t.row)) + 1)
    BY <2>1, SerialReads DEF LinkKey, Serial!Identity
  <2>3. t.row # 0
    BY <2>1 DEF FrozenInv, Shape, Ids
  <2>4. LinksTo(tx[s]) = t.row
    BY <1>7, <2>1 DEF LinksTo
  <2>5. ~Serial!LiveLink(t.row)
    <3>1. \A r \in Ids : vouchers[r].of = t.row /\ vouchers[r].live => r = t.row
      BY <1>1, <2>3, <2>4 DEF SerialInv, OneLink
    <3>2. QED
      BY <1>4, <2>1, <2>3, <3>1 DEF Serial!LiveLink, Serial!Linked
  <2>6. ~Serial!Reversed(t.row)
    BY <2>1, SerialReads
  <2>7. Serial!Reverse(t.row, t.date)
    BY <1>1, <1>3, <1>5, <1>7, <2>1, <2>2, <2>5, <2>6 DEF Serial!Reverse, Numbered
  <2>8. QED
    BY <1>2, <1>4, <2>1, <2>7 DEF Serial!Next
<1>8. CASE t.op = "exact"
  <2>1. /\ t.row \in Ids /\ t.of = 0 /\ vouchers[t.row].live
        /\ t.amount = -vouchers[t.row].amount
        /\ t.key = ExactKey(t.row) /\ vouchers[t.row].key.kind # "exact"
    BY <1>1, <1>8 DEF Found, Fits
  <2>2. t.key = Serial!ExactKey(t.row)
    BY <2>1 DEF ExactKey, Serial!ExactKey, Serial!Identity
  <2>3. Serial!ReverseExactly(t.row, t.date)
    BY <1>1, <1>3, <1>5, <1>8, <2>1, <2>2 DEF Serial!ReverseExactly, Numbered
  <2>4. QED
    BY <1>2, <1>4, <2>1, <2>3 DEF Serial!Next
<1>9. QED
  BY <1>6, <1>7, <1>8

\* A correction of one row happens in one step, or restores a row that another
\* session has restored already.
LEMMA SerialCorrects ==
  ASSUME FrozenInv, NumbersInv, IdentitiesInv, MirrorsInv, SerialInv,
         NEW s \in Sessions, Commit(s), NEW t, t = tx[s],
         t.op \in {"edit", "delete", "restore"}
  PROVE  Serial!Next \/ UNCHANGED <<vouchers, counter, closures>>
<1>1. /\ Found(t) /\ Fits(t) /\ TxShape(t) /\ Written(s) /\ Open(s)
      /\ \A d \in Touches(t) : Serial!DateOpen(d)
      /\ closures' = closures /\ counter' = counter
      /\ vouchers' = [vouchers EXCEPT ![t.row] = Updated(t, @)] \/ t.row \notin Ids
  BY CommitTables DEF Exclusive, Updating, Numbered
<1>2. t.row \in Ids
  BY <1>1 DEF Found
<1>3. vouchers' = [vouchers EXCEPT ![t.row] = Updated(t, @)]
  BY <1>1, <1>2
<1>4. Serial!Ids = Ids /\ RowShape(vouchers[t.row]) /\ vouchers[t.row].date \in Dates
  BY <1>2, SerialReads DEF FrozenInv, Shape, RowShape
<1>5. CASE t.op = "edit"
  <2>1. /\ vouchers[t.row].live /\ vouchers[t.row].of = 0 /\ Unmatched(t.row)
        /\ t.amount \in Amounts
    BY <1>1, <1>5 DEF Found
  <2>2. t.date \in Dates /\ t.date \in Touches(t) /\ vouchers[t.row].date \in Touches(t)
    BY <1>1, <1>2, <1>4, <1>5 DEF TxShape, Open, Touches
  <2>3. Serial!Correctable(t.row)
    BY <1>1, <2>1, <2>2, SerialReads DEF Serial!Correctable
  <2>4. vouchers' = [vouchers EXCEPT ![t.row] = [@ EXCEPT !.date = t.date, !.amount = t.amount]]
    BY <1>3, <1>5 DEF Updated
  <2>5. Serial!Edit(t.row, t.date, t.amount)
    BY <1>1, <2>1, <2>2, <2>3, <2>4 DEF Serial!Edit
  <2>6. QED
    BY <1>2, <1>4, <2>1, <2>2, <2>5 DEF Serial!Next
<1>6. CASE t.op = "delete"
  <2>1. vouchers[t.row].live /\ Unmatched(t.row)
    BY <1>1, <1>6 DEF Found
  <2>2. vouchers[t.row].date \in Touches(t)
    BY <1>2, <1>4, <1>6 DEF Touches
  <2>3. Serial!Correctable(t.row)
    BY <1>1, <2>1, <2>2, SerialReads DEF Serial!Correctable
  <2>4. vouchers' = [vouchers EXCEPT ![t.row] = [@ EXCEPT !.live = FALSE]]
    BY <1>3, <1>6 DEF Updated
  <2>5. Serial!Delete(t.row)
    BY <1>1, <2>3, <2>4 DEF Serial!Delete
  <2>6. QED
    BY <1>2, <1>4, <2>5 DEF Serial!Next
<1>7. CASE t.op = "restore" /\ ~vouchers[t.row].live
  <2>1. vouchers[t.row].date \in Touches(t)
    BY <1>2, <1>4, <1>7 DEF Touches
  <2>2. LinksTo(tx[s]) = vouchers[t.row].of
    BY <1>7 DEF LinksTo
  <2>3. vouchers[t.row].of # 0 => ~Serial!LiveLink(vouchers[t.row].of)
    BY <1>1, <1>4, <1>7, <2>2 DEF SerialInv, OneLink, Serial!LiveLink, Serial!Linked
  <2>4. vouchers' = [vouchers EXCEPT ![t.row] =
                       [@ EXCEPT !.live = TRUE, !.restored = IsReversal(vouchers[t.row])]]
    BY <1>3, <1>7 DEF Updated
  <2>5. Serial!IsReversal(vouchers[t.row]) = IsReversal(vouchers[t.row])
    BY DEF Serial!IsReversal, IsReversal
  <2>6. Serial!Restore(t.row)
    BY <1>1, <1>7, <2>1, <2>3, <2>4, <2>5 DEF Serial!Restore
  <2>7. QED
    BY <1>2, <1>4, <2>6 DEF Serial!Next
<1>8. CASE t.op = "restore" /\ vouchers[t.row].live
  <2>1. vouchers[t.row].restored = IsReversal(vouchers[t.row])
    BY <1>1, <1>8 DEF Found
  <2>2. Updated(t, vouchers[t.row]) = vouchers[t.row]
    BY <1>4, <1>8, <2>1 DEF Updated, RowShape
  <2>3. vouchers = [v \in 1 .. Len(vouchers) |-> vouchers[v]]
    BY DEF FrozenInv, Shape
  <2>4. vouchers' = vouchers
    BY <1>3, <2>2, <2>3
  <2>5. QED
    BY <1>1, <2>4
<1>9. QED
  BY <1>5, <1>6, <1>7, <1>8

\* A document's journal is replaced or removed in one step.
LEMMA SerialReplaces ==
  ASSUME FrozenInv, NumbersInv, IdentitiesInv, MirrorsInv, SerialInv,
         NEW s \in Sessions, Commit(s), NEW t, t = tx[s],
         t.op \in {"sync", "remove"}
  PROVE  Serial!Next
<1> DEFINE k == t.key.id
           rows == RowsAfter(t)
<1>1. /\ Found(t) /\ Fits(t) /\ TxShape(t) /\ Written(s) /\ Open(s)
      /\ \A d \in Touches(t) : Serial!DateOpen(d)
      /\ closures' = closures /\ counter' = counter /\ t.no = 0
  BY CommitTables DEF Exclusive, Updating, Numbered
<1>2. /\ k \in Documents /\ t.key = DocumentKey(k, t.key.n)
      /\ Serial!Current(k) = {t.row} \ {0}
  BY <1>1, SerialReads DEF Found
<1>3. Serial!Ids = Ids /\ Ids = 1 .. Len(vouchers) /\ 0 \notin Ids
  BY SerialReads DEF FrozenInv, Shape, Ids
<1>4. t.row = 0 \/ t.row \in Ids
  BY <1>1 DEF TxShape
<1>5. rows = Serial!Retired(k)
  <2>1. vouchers = [v \in Ids |-> vouchers[v]]
    BY <1>3 DEF FrozenInv, Shape
  <2>2. CASE t.row = 0
    <3>1. rows = vouchers
      BY <1>3, <2>2 DEF RowsAfter
    <3>2. QED
      BY <1>2, <1>3, <2>1, <2>2, <3>1 DEF Serial!Retired
  <2>3. CASE t.row \in Ids
    <3>1. rows = [vouchers EXCEPT ![t.row] = [@ EXCEPT !.live = FALSE, !.retired = TRUE]]
      BY <2>3 DEF RowsAfter, Updated, Updating
    <3>2. rows = [v \in Ids |-> IF v = t.row
                                THEN [vouchers[v] EXCEPT !.live = FALSE, !.retired = TRUE]
                                ELSE vouchers[v]]
      BY <2>1, <3>1
    <3>3. Serial!Current(k) = {t.row}
      BY <1>2, <1>3, <2>3
    <3> HIDE DEF rows, k
    <3>4. QED
      BY <1>3, <3>2, <3>3 DEF Serial!Retired
  <2>4. QED
    BY <1>4, <2>2, <2>3
<1>6. Serial!MayRetire(k)
  <2> SUFFICES ASSUME NEW v \in Serial!Current(k), vouchers[v].live
               PROVE  Serial!DateOpen(vouchers[v].date)
    BY DEF Serial!MayRetire
  <2>1. v = t.row /\ v \in Ids
    BY <1>2, <1>4
  <2>2. vouchers[v].date \in Dates
    BY <2>1 DEF FrozenInv, Shape, RowShape
  <2>3. vouchers[v].date \in Touches(t)
    BY <2>1, <2>2 DEF Touches
  <2>4. QED
    BY <1>1, <2>3
<1>7. CASE t.op = "sync"
  <2>1. t.date \in Dates /\ t.date \in Touches(t)
    BY <1>1, <1>7 DEF TxShape, Open, Posting, Touches
  <2>2. Serial!DateOpen(t.date) /\ Serial!Unused(t.key)
    BY <1>1, <1>7, <2>1, PostsUnused DEF Posting
  <2>3. t.key.n = Used("document", k)
    BY <1>1, <1>7 DEF IdentitiesInv, NewIdentity
  <2>4. t.key = Serial!Identity("document", k, Serial!Cardinality(Serial!Posted("document", k)))
    BY <1>2, <2>3, SerialReads DEF DocumentKey, Serial!Identity
  <2>5. t.amount \in Amounts /\ t.of = 0
    BY <1>1, <1>7 DEF Found, Fits
  <2>6. Inserted(t) = Serial!Entry(t.key, t.date, t.amount, 0, 0)
    BY <1>1, <2>5 DEF Inserted, Serial!Entry
  <2>7. vouchers' = Append(rows, Inserted(t))
    BY <1>7 DEF Commit, Posting
  <2> HIDE DEF rows, k
  <2>8. Serial!Replace(k, t.date, t.amount)
    BY <1>1, <1>5, <1>6, <2>2, <2>4, <2>6, <2>7 DEF Serial!Replace
  <2>9. QED
    BY <1>2, <2>1, <2>5, <2>8 DEF Serial!Next
<1>8. CASE t.op = "remove"
  <2>1. Serial!Current(k) # {}
    BY <1>1, <1>2, <1>8 DEF Found
  <2>2. vouchers' = rows
    BY <1>8 DEF Commit, Posting
  <2> HIDE DEF rows, k
  <2>3. Serial!Remove(k)
    BY <1>1, <1>5, <1>6, <2>1, <2>2 DEF Serial!Remove
  <2>4. QED
    BY <1>2, <2>3 DEF Serial!Next
<1>9. QED
  BY <1>7, <1>8

\* A period is closed or reopened in one step.
LEMMA SerialCloses ==
  ASSUME FrozenInv, NumbersInv, IdentitiesInv, MirrorsInv, BooksInv, SerialInv,
         NEW s \in Sessions, Commit(s), NEW t, t = tx[s],
         t.op \in {"close", "reopen"}
  PROVE  Serial!Next
<1>1. /\ Found(t) /\ Fits(t) /\ TxShape(t) /\ Written(s) /\ Open(s)
      /\ t.op # "reopen" => \A d \in Touches(t) : Serial!DateOpen(d)
      /\ counter' = counter /\ t.no = 0
      /\ t.op = "close" => vouchers' = Append(vouchers, Inserted(t))
      /\ t.op = "reopen" =>
           vouchers' = [vouchers EXCEPT ![t.row] = Updated(t, @)] \/ t.row \notin Ids
  BY CommitTables DEF Updating, Numbered
<1>2. CASE t.op = "close"
  <2>1. t.date \in Dates /\ t.date \in Touches(t)
    BY <1>1, <1>2 DEF TxShape, Open, Posting, Touches
  <2>2. Serial!DateOpen(t.date) /\ Serial!Unused(t.key)
    BY <1>1, <1>2, <2>1, PostsUnused DEF Posting
  <2>3. t.key.n = Used("close", t.key.id) + 1 /\ t.key = CloseKey(t.date, t.key.n)
    BY <1>1, <1>2 DEF IdentitiesInv, NewIdentity, Found
  <2>4. t.key = Serial!Identity("close", t.date, Serial!Cardinality(Serial!Posted("close", t.date)) + 1)
    BY <2>3, SerialReads DEF CloseKey, Serial!Identity
  <2>5. t.amount = -Serial!Balance(t.date) /\ t.of = 0
    BY <1>1, <1>2, SerialReads, BalanceIsTotal DEF BooksInv, Fits
  <2>6. Inserted(t) = Serial!Entry(t.key, t.date, -Serial!Balance(t.date), 0, 0)
    BY <1>1, <2>5 DEF Inserted, Serial!Entry
  <2>7. closures' = Append(closures, [end |-> t.date, voucher |-> Len(vouchers) + 1])
    BY <1>2 DEF Commit
  <2>8. Serial!Close(t.date)
    BY <1>1, <1>2, <2>2, <2>4, <2>6, <2>7 DEF Serial!Close
  <2>9. QED
    BY <2>1, <2>8 DEF Serial!Next
<1>3. CASE t.op = "reopen"
  <2>1. closures # <<>> /\ t.row = closures[Len(closures)].voucher /\ t.row \in Ids
    BY <1>1, <1>3 DEF BooksInv, Fits
  <2>2. vouchers' = [vouchers EXCEPT ![t.row] = [@ EXCEPT !.live = FALSE]]
    BY <1>1, <1>3, <2>1 DEF Updated
  <2>3. closures' = SubSeq(closures, 1, Len(closures) - 1)
    BY <1>3 DEF Commit
  <2>4. Serial!Reopen
    BY <1>1, <2>1, <2>2, <2>3 DEF Serial!Reopen
  <2>5. QED
    BY <2>4 DEF Serial!Next
<1>4. QED
  BY <1>2, <1>3

\* Every step is an operation of SerialBooks or leaves the books alone.
LEMMA SerialStep ==
  ASSUME FrozenInv, NumbersInv, IdentitiesInv, MirrorsInv, BooksInv, SerialInv,
         [Next]_vars
  PROVE  [Serial!Next]_(Serial!vars)
<1>1. ASSUME NEW s \in Sessions, Begins(s) \/ Write(s) \/ Rollback(s)
      PROVE  UNCHANGED Serial!vars
  BY <1>1, TablesKept DEF FrozenInv, Serial!vars
<1>2. ASSUME NEW s \in Sessions, Commit(s)
      PROVE  Serial!Next \/ UNCHANGED Serial!vars
  <2>1. PICK t : t = tx[s]
    OBVIOUS
  <2>2. t.op \in AllOperations
    BY <1>2, <2>1 DEF FrozenInv, Shape, TxShape, Commit, Written
  <2>3. QED
    BY <1>2, <2>1, <2>2, SerialPosts, SerialCorrects, SerialReplaces, SerialCloses
       DEF AllOperations, Posting, Updating, Serial!vars
<1>3. CASE UNCHANGED vars
  BY <1>3 DEF vars, Serial!vars
<1>4. QED
  BY <1>1, <1>2, <1>3, Steps

\* Transactions are serializable, for any number of sessions, vouchers, dates,
\* amounts and documents: every commit is one operation of SerialBooks, allowed
\* by the books it changes, although the code checks most of its conditions
\* before all its locks are held (assertVoucherEditableTx, findExisting,
\* currentGenerationIdentityTx, the closed-period trigger and the unique index).
THEOREM BooksAreSerializable == Spec => ImplementsSerialBooks
<1>1. Spec => []FrozenInv
  BY FrozenInit, FrozenNext, PTL DEF Spec
<1>2. FrozenInv /\ NumbersInv /\ [Next]_vars => NumbersInv'
  BY NumbersNext
<1>3. FrozenInv /\ IdentitiesInv /\ [Next]_vars => IdentitiesInv'
  BY IdentitiesNext
<1>4. FrozenInv /\ MirrorsInv /\ [Next]_vars => MirrorsInv'
  BY MirrorsNext
<1>5. FrozenInv /\ TypesInv /\ [Next]_vars => TypesInv'
  BY TypesNext
<1>6. FrozenInv /\ TypesInv /\ BooksInv /\ [Next]_vars => BooksInv'
  BY BooksNext
<1>7. FrozenInv /\ IdentitiesInv /\ MirrorsInv /\ SerialInv /\ [Next]_vars => SerialInv'
  BY SerialNext
<1>8. FrozenInv /\ NumbersInv /\ IdentitiesInv /\ MirrorsInv /\ BooksInv /\ SerialInv
      /\ [Next]_vars => [Serial!Next]_(Serial!vars)
  BY SerialStep
<1>9. Init => Serial!Init
  BY DEF Init, Serial!Init
<1>10. Spec => Serial!Spec
  BY <1>1, <1>2, <1>3, <1>4, <1>5, <1>6, <1>7, <1>8, <1>9, NumbersInit, IdentitiesInit,
     MirrorsInit, TypesInit, BooksInit, SerialInit, PTL DEF Spec, Serial!Spec
<1>11. QED
  BY <1>10 DEF ImplementsSerialBooks

=============================================================================
