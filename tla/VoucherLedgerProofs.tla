------------------------- MODULE VoucherLedgerProofs -------------------------
(***************************************************************************)
(* Closed books stay closed, for every value of VoucherLedger's constants. *)
(*                                                                         *)
(* The invariant says who may write while books are closed: a transaction  *)
(* that has written holds the shared period lock and every date it touches *)
(* is open; a close or a reopen excludes all of them; and the row lock     *)
(* keeps the voucher a transaction is about to change as it checked it.    *)
(***************************************************************************)
EXTENDS VoucherLedger, SequenceTheorems, TLAPS

-----------------------------------------------------------------------------
(* The inductive invariant. *)

\* An amount, a key and a link are whatever they are: only dates and flags
\* matter to the closed books.
RowShape(v) ==
  v \in [date : Dates, amount : {v.amount}, live : BOOLEAN, retired : BOOLEAN,
         key : {v.key}, of : {v.of}, no : {v.no}, restored : BOOLEAN]

TxShape(t) ==
  /\ t \in [pc : {"idle", "checked", "written"}, op : AllOperations \cup {"none"},
            row : {0} \cup Ids, key : {t.key}, date : Dates \cup {0},
            amount : {t.amount}, of : {t.of}, no : {t.no}]
  /\ t.pc # "idle" => t.op \in AllOperations
  /\ t.pc # "idle" /\ t.op \in Posting \cup {"edit"} => t.date \in Dates

Shape ==
  /\ Len(vouchers) \in Nat
  /\ vouchers = [i \in 1 .. Len(vouchers) |-> vouchers[i]]
  /\ \A v \in Ids : RowShape(vouchers[v])
  /\ closures \in Seq(Closure)
  /\ \A i \in 1 .. Len(closures) : closures[i].voucher \in Ids
  /\ tx = [s \in Sessions |-> tx[s]]
  /\ \A s \in Sessions : TxShape(tx[s])

\* A close or reopen excludes every guarded writer and every other close.
PeriodLocks ==
  \A s \in Sessions : HoldsExclusive(s) =>
    /\ Written(s)
    /\ tx[s].op = "reopen" => closures # <<>>
    /\ ExclusiveFree(s)

RowLocks ==
  \A s, o \in Sessions : \A v \in Ids : HoldsRow(s, v) /\ HoldsRow(o, v) => s = o

\* What a written transaction touches is open.
Guarded ==
  \A s \in Sessions : Written(s) /\ tx[s].op # "reopen" =>
    \A d \in Touches(tx[s]) : PeriodOpen(d)

FrozenInv == Shape /\ PeriodLocks /\ RowLocks /\ Guarded

-----------------------------------------------------------------------------
\* The tables are empty and nothing is open at first.
LEMMA FrozenInit == Init => FrozenInv
<1> SUFFICES ASSUME Init PROVE FrozenInv
  OBVIOUS
<1>1. Ids = {}
  BY DEF Init, Ids
<1>2. Shape
  <2>1. \A s \in Sessions : TxShape(tx[s])
    BY DEF Init, Idle, TxShape, NoKey
  <2>2. QED
    BY <1>1, <2>1 DEF Init, Shape
<1>3. \A s \in Sessions : tx[s].pc = "idle"
  BY DEF Init, Idle
<1>4. QED
  BY <1>2, <1>3 DEF FrozenInv, PeriodLocks, RowLocks, Guarded, HoldsExclusive,
     HoldsRow, Open, Written

\* What every Begin action has in common.
Begun(s, t) ==
  /\ tx[s].pc = "idle"
  /\ tx' = [tx EXCEPT ![s] = t]
  /\ UNCHANGED <<vouchers, requests, counter, closures>>
  /\ TxShape(t)
  /\ t.op # "restore" /\ t.row # 0 => RowFree(s, t.row)
  /\ \/ t.pc = "checked" /\ t.op \notin Exclusive
     \/ /\ t.pc = "written"
        /\ t.op \in Exclusive
        /\ ExclusiveFree(s)
        /\ t.op = "close" => PeriodOpen(t.date)
        /\ t.op = "reopen" => closures # <<>>

\* Every begin action opens a transaction and touches no row.
LEMMA BeginIsBegun ==
  ASSUME Shape, NEW s \in Sessions,
         \/ \E c \in Clients, d \in Dates, a \in Amounts : BeginPost(s, c, d, a)
         \/ \E v \in Ids, d \in Dates, a \in Amounts : BeginEdit(s, v, d, a)
         \/ \E v \in Ids : BeginDelete(s, v)
         \/ \E v \in Ids : BeginRestore(s, v)
         \/ \E v \in Ids, d \in Dates : BeginReverse(s, v, d)
         \/ \E v \in Ids, d \in Dates : BeginExactReversal(s, v, d)
         \/ \E k \in Documents, d \in Dates, a \in Amounts : BeginSync(s, k, d, a)
         \/ \E k \in Documents : BeginRemove(s, k)
         \/ \E e \in Dates : BeginClose(s, e)
         \/ BeginReopen(s)
  PROVE  \E t : Begun(s, t)
<1> USE DEF Start, Idle, Begun, TxShape, Posting, Updating, AllOperations, Exclusive
<1>1. ASSUME NEW c \in Clients, NEW d \in Dates, NEW a \in Amounts, BeginPost(s, c, d, a)
      PROVE  \E t : Begun(s, t)
  <2> DEFINE t == [Idle EXCEPT !.pc = "checked", !.op = "post",
                               !.key = ClientKey(c), !.date = d, !.amount = a]
  <2>1. Begun(s, t)
    BY <1>1 DEF BeginPost
  <2>2. QED
    BY <2>1
<1>2. ASSUME NEW v \in Ids, NEW d \in Dates, NEW a \in Amounts, BeginEdit(s, v, d, a)
      PROVE  \E t : Begun(s, t)
  <2> DEFINE t == [Idle EXCEPT !.pc = "checked", !.op = "edit", !.row = v,
                               !.date = d, !.amount = a]
  <2>1. Begun(s, t)
    BY <1>2 DEF BeginEdit
  <2>2. QED
    BY <2>1
<1>3. ASSUME NEW v \in Ids, BeginDelete(s, v) PROVE \E t : Begun(s, t)
  <2> DEFINE t == [Idle EXCEPT !.pc = "checked", !.op = "delete", !.row = v]
  <2>1. Begun(s, t)
    BY <1>3 DEF BeginDelete
  <2>2. QED
    BY <2>1
<1>4. ASSUME NEW v \in Ids, BeginRestore(s, v) PROVE \E t : Begun(s, t)
  <2> DEFINE t == [Idle EXCEPT !.pc = "checked", !.op = "restore", !.row = v]
  <2>1. Begun(s, t)
    BY <1>4 DEF BeginRestore
  <2>2. QED
    BY <2>1
<1>5. ASSUME NEW v \in Ids, NEW d \in Dates, BeginReverse(s, v, d) PROVE \E t : Begun(s, t)
  <2> DEFINE t == [Idle EXCEPT !.pc = "checked", !.op = "reverse", !.row = v,
                     !.key = LinkKey(v, ReversalAttempts(v) + 1), !.date = d,
                     !.amount = -vouchers[v].amount, !.of = v]
  <2>1. Begun(s, t)
    BY <1>5 DEF BeginReverse
  <2>2. QED
    BY <2>1
<1>6. ASSUME NEW v \in Ids, NEW d \in Dates, BeginExactReversal(s, v, d)
      PROVE  \E t : Begun(s, t)
  <2> DEFINE t == [Idle EXCEPT !.pc = "checked", !.op = "exact", !.row = v,
                     !.key = ExactKey(v), !.date = d, !.amount = -vouchers[v].amount]
  <2>1. Begun(s, t)
    BY <1>6 DEF BeginExactReversal
  <2>2. QED
    BY <2>1
<1>7. ASSUME NEW k \in Documents, NEW d \in Dates, NEW a \in Amounts, BeginSync(s, k, d, a)
      PROVE  \E t : Begun(s, t)
  <2> DEFINE row == IF JournalOf(k) = {} THEN 0 ELSE CHOOSE v \in JournalOf(k) : TRUE
             t == [Idle EXCEPT !.pc = "checked", !.op = "sync", !.row = row,
                     !.key = DocumentKey(k, Generation(k) + Cardinality(JournalOf(k))),
                     !.date = d, !.amount = a]
  <2>1. row = 0 \/ row \in JournalOf(k)
    OBVIOUS
  <2>2. row \in {0} \cup Ids
    BY <2>1 DEF JournalOf
  <2>3. row # 0 => RowFree(s, row)
    BY <1>7, <2>1 DEF BeginSync
  <2>4. /\ tx[s].pc = "idle"
        /\ tx' = [tx EXCEPT ![s] = t]
        /\ UNCHANGED <<vouchers, requests, counter, closures>>
    BY <1>7 DEF BeginSync
  <2> HIDE DEF row
  <2>5. Begun(s, t)
    BY <2>2, <2>3, <2>4
  <2>6. QED
    BY <2>5
<1>8. ASSUME NEW k \in Documents, BeginRemove(s, k) PROVE \E t : Begun(s, t)
  <2>1. PICK v \in JournalOf(k) :
          /\ RowFree(s, v)
          /\ Start(s, [Idle EXCEPT !.pc = "checked", !.op = "remove", !.row = v,
                                   !.key = DocumentKey(k, 0)])
    BY <1>8 DEF BeginRemove
  <2>2. v \in Ids
    BY DEF JournalOf
  <2> DEFINE t == [Idle EXCEPT !.pc = "checked", !.op = "remove", !.row = v,
                               !.key = DocumentKey(k, 0)]
  <2>3. Begun(s, t)
    BY <1>8, <2>1, <2>2 DEF BeginRemove
  <2>4. QED
    BY <2>3
<1>9. ASSUME NEW e \in Dates, BeginClose(s, e) PROVE \E t : Begun(s, t)
  <2> DEFINE t == [Idle EXCEPT !.pc = "written", !.op = "close",
                     !.key = CloseKey(e, CloseAttempts(e) + 1),
                     !.date = e, !.amount = -Balance(e)]
  <2>1. Begun(s, t)
    BY <1>9 DEF BeginClose
  <2>2. QED
    BY <2>1
<1>10. ASSUME BeginReopen(s) PROVE \E t : Begun(s, t)
  <2> DEFINE v == closures[Len(closures)].voucher
             t == [Idle EXCEPT !.pc = "written", !.op = "reopen", !.row = v]
  <2>1. /\ tx[s].pc = "idle"
        /\ tx' = [tx EXCEPT ![s] = t]
        /\ UNCHANGED <<vouchers, requests, counter, closures>>
        /\ closures # <<>>
        /\ ExclusiveFree(s)
        /\ RowFree(s, v)
    BY <1>10 DEF BeginReopen
  <2>2. v \in Ids
    BY <2>1 DEF Shape
  <2> HIDE DEF v
  <2>3. Begun(s, t)
    BY <2>1, <2>2
  <2>4. QED
    BY <2>3
<1>11. QED
  BY <1>1, <1>2, <1>3, <1>4, <1>5, <1>6, <1>7, <1>8, <1>9, <1>10

-----------------------------------------------------------------------------
(* Every step keeps the invariant. *)

\* While the tables stay as they are, a change of one transaction to a shaped
\* one keeps the shape.
LEMMA ShapeKept ==
  ASSUME Shape, NEW s \in Sessions, NEW t, TxShape(t),
         tx' = [tx EXCEPT ![s] = t],
         UNCHANGED <<vouchers, closures>>
  PROVE  Shape'
<1>1. Ids' = Ids
  BY DEF Ids
<1>2. \A o \in Sessions : tx'[o] = IF o = s THEN t ELSE tx[o]
  BY DEF Shape
<1>3. \A o \in Sessions : TxShape(tx[o])'
  BY <1>1, <1>2 DEF Shape, TxShape
<1>4. tx' = [o \in Sessions |-> tx'[o]]
  BY DEF Shape
<1>5. QED
  BY <1>1, <1>3, <1>4 DEF Shape, RowShape

\* Opening a transaction keeps the invariant.
LEMMA BegunKeeps ==
  ASSUME FrozenInv, NEW s \in Sessions, NEW t, Begun(s, t)
  PROVE  FrozenInv'
<1> USE DEF FrozenInv
<1>1. Shape'
  BY ShapeKept DEF Begun
<1>2. \A o \in Sessions : tx'[o] = IF o = s THEN t ELSE tx[o]
  BY DEF Shape, Begun
<1>3. vouchers' = vouchers /\ closures' = closures /\ Ids' = Ids
  BY DEF Begun, Ids
<1>4. \A o \in Sessions \ {s} :
        /\ HoldsExclusive(o)' <=> HoldsExclusive(o)
        /\ HoldsShared(o)' <=> HoldsShared(o)
        /\ Written(o)' <=> Written(o)
        /\ Touches(tx[o])' = Touches(tx[o])
        /\ \A v : HoldsRow(o, v)' <=> HoldsRow(o, v)
  BY <1>2, <1>3 DEF HoldsExclusive, HoldsShared, HoldsRow, Touches, Written, Open
<1>5. ~HoldsExclusive(s) /\ ~HoldsShared(s)
  BY DEF Begun, HoldsExclusive, HoldsShared, Open, Written
<1>6. PeriodLocks'
  <2>1. CASE t.pc = "checked" /\ t.op \notin Exclusive
    <3>1. ~HoldsExclusive(s)' /\ ~HoldsShared(s)'
      BY <1>2, <2>1 DEF HoldsExclusive, HoldsShared, Open, Written
    <3>2. QED
      BY <1>2, <1>3, <1>4, <3>1 DEF PeriodLocks, ExclusiveFree
  <2>2. CASE t.pc = "written" /\ t.op \in Exclusive
    <3>1. \A o \in Sessions \ {s} : ~HoldsExclusive(o) /\ ~HoldsShared(o)
      BY <2>2 DEF Begun, ExclusiveFree
    <3>2. Written(s)'
      BY <1>2, <2>2 DEF Written
    <3>3. tx'[s].op = "reopen" => closures' # <<>>
      BY <1>2, <1>3, <2>2 DEF Begun
    <3>4. ExclusiveFree(s)'
      BY <1>4, <3>1 DEF ExclusiveFree
    <3>5. \A o \in Sessions \ {s} : ~HoldsExclusive(o)'
      BY <1>4, <3>1
    <3>6. QED
      BY <3>2, <3>3, <3>4, <3>5 DEF PeriodLocks
  <2>3. QED
    BY <2>1, <2>2 DEF Begun
<1>7. RowLocks'
  <2> SUFFICES ASSUME NEW p \in Sessions, NEW o \in Sessions, NEW v \in Ids,
                      HoldsRow(p, v)', HoldsRow(o, v)', p # o
               PROVE  FALSE
    BY <1>3 DEF RowLocks
  <2>0. v # 0
    BY DEF Ids, Shape
  <2>1. ASSUME NEW q \in Sessions \ {s}, HoldsRow(s, v)', HoldsRow(q, v) PROVE FALSE
    <3>1. t.row = v /\ t.pc # "idle" /\ (t.op = "restore" => t.pc = "written")
      BY <1>2, <2>1 DEF HoldsRow, Open, Written
    <3>2. t.op # "restore"
      BY <3>1 DEF Begun, Exclusive
    <3>3. RowFree(s, v)
      BY <2>0, <3>1, <3>2 DEF Begun
    <3>4. QED
      BY <2>1, <3>3 DEF RowFree
  <2>2. QED
    BY <1>4, <2>1 DEF RowLocks
<1>8. Guarded'
  <2> SUFFICES ASSUME NEW o \in Sessions, Written(o)', tx'[o].op # "reopen",
                      NEW d \in Touches(tx[o])'
               PROVE  PeriodOpen(d)'
    BY DEF Guarded
  <2>1. CASE o # s
    BY <1>2, <1>3, <1>4, <2>1 DEF Guarded, PeriodOpen, ClosedThrough
  <2>2. CASE o = s
    <3>1. t.pc = "written" /\ t.op = "close" /\ PeriodOpen(t.date)
      BY <1>2, <2>2 DEF Written, Begun, Exclusive
    <3>2. d = t.date
      BY <1>2, <2>2, <3>1 DEF Touches
    <3>3. QED
      BY <1>3, <3>1, <3>2 DEF PeriodOpen, ClosedThrough
  <2>3. QED
    BY <2>1, <2>2
<1>9. QED
  BY <1>1, <1>6, <1>7, <1>8

\* The write of a transaction, which passes the period guard, keeps the invariant.
LEMMA WriteKeeps ==
  ASSUME FrozenInv, NEW s \in Sessions, Write(s)
  PROVE  FrozenInv'
<1> USE DEF FrozenInv
<1> DEFINE t == [tx[s] EXCEPT !.pc = "written", !.no = NextNumber(tx[s])]
<1>0. TxShape(tx[s]) /\ tx[s].pc = "checked"
  BY DEF Shape, Write
<1>1. /\ TxShape(t)
      /\ t.pc = "written" /\ t.op = tx[s].op /\ t.row = tx[s].row /\ t.date = tx[s].date
  BY <1>0 DEF TxShape
<1>2. tx' = [tx EXCEPT ![s] = t]
  BY <1>0 DEF Write, Shape, TxShape
<1>3. vouchers' = vouchers /\ closures' = closures /\ Ids' = Ids
  BY DEF Write, Ids
<1> HIDE DEF t
<1>4. \A o \in Sessions : tx'[o] = IF o = s THEN t ELSE tx[o]
  BY <1>2 DEF Shape
<1>5. Shape'
  BY <1>1, <1>2, <1>3, ShapeKept
<1>6. \A o \in Sessions \ {s} :
        /\ HoldsExclusive(o)' <=> HoldsExclusive(o)
        /\ HoldsShared(o)' <=> HoldsShared(o)
        /\ Written(o)' <=> Written(o)
        /\ Touches(tx[o])' = Touches(tx[o])
        /\ \A v : HoldsRow(o, v)' <=> HoldsRow(o, v)
  BY <1>3, <1>4 DEF HoldsExclusive, HoldsShared, HoldsRow, Touches, Written, Open
<1>7. Touches(tx[s])' = Touches(tx[s])
  BY <1>1, <1>3, <1>4 DEF Touches
<1>8. tx[s].op \notin Exclusive
  BY <1>0 DEF PeriodLocks, HoldsExclusive, Open, Written
<1>9. ~HoldsExclusive(s)'
  BY <1>1, <1>4, <1>8 DEF HoldsExclusive
<1>10. PeriodLocks'
  <2> SUFFICES ASSUME NEW o \in Sessions, HoldsExclusive(o)'
               PROVE  /\ Written(o)'
                      /\ tx'[o].op = "reopen" => closures' # <<>>
                      /\ ExclusiveFree(o)'
    BY DEF PeriodLocks
  <2>1. o # s /\ HoldsExclusive(o)
    BY <1>6, <1>9
  <2>2. Written(o) /\ (tx[o].op = "reopen" => closures # <<>>) /\ ExclusiveFree(o)
    BY <2>1 DEF PeriodLocks
  <2>3. ~HoldsShared(s)'
    <3>1. SUFFICES ASSUME Touches(tx[s]) # {} PROVE FALSE
      BY <1>7 DEF HoldsShared
    <3>2. SharedFree(s)
      BY <3>1 DEF Write, PeriodGuard
    <3>3. QED
      BY <2>1, <3>2 DEF SharedFree
  <2>4. QED
    BY <1>3, <1>4, <1>6, <1>9, <2>1, <2>2, <2>3 DEF ExclusiveFree
<1>11. RowLocks'
  <2>1. ASSUME NEW v \in Ids, NEW q \in Sessions \ {s}, HoldsRow(s, v)', HoldsRow(q, v)
        PROVE  FALSE
    <3>1. tx[s].row = v
      BY <1>1, <1>4, <2>1 DEF HoldsRow
    <3>2. CASE tx[s].op = "restore"
      BY <2>1, <3>1, <3>2 DEF Write, RowFree
    <3>3. CASE tx[s].op # "restore"
      BY <1>0, <2>1, <3>1, <3>3 DEF HoldsRow, RowLocks, Open
    <3>4. QED
      BY <3>2, <3>3
  <2>2. QED
    BY <1>3, <1>6, <2>1 DEF RowLocks
<1>12. Guarded'
  <2>1. \A d \in Touches(tx[s]) : PeriodOpen(d)
    BY DEF Write, PeriodGuard
  <2>2. \A d : PeriodOpen(d)' <=> PeriodOpen(d)
    BY <1>3 DEF PeriodOpen, ClosedThrough
  <2>3. QED
    BY <1>4, <1>6, <1>7, <2>1, <2>2 DEF Guarded
<1>13. QED
  BY <1>5, <1>10, <1>11, <1>12

\* A rollback keeps the invariant.
LEMMA RollbackKeeps ==
  ASSUME FrozenInv, NEW s \in Sessions, Rollback(s)
  PROVE  FrozenInv'
<1> USE DEF FrozenInv
<1>1. TxShape(Idle)
  BY DEF TxShape, Idle
<1>2. tx' = [tx EXCEPT ![s] = Idle] /\ vouchers' = vouchers /\ closures' = closures
  BY DEF Rollback
<1>3. Shape'
  BY <1>1, <1>2, ShapeKept
<1>4. \A o \in Sessions : tx'[o] = IF o = s THEN Idle ELSE tx[o]
  BY <1>2 DEF Shape
<1>5. Ids' = Ids
  BY <1>2 DEF Ids
<1>6. \A o \in Sessions \ {s} :
        /\ HoldsExclusive(o)' <=> HoldsExclusive(o)
        /\ HoldsShared(o)' <=> HoldsShared(o)
        /\ Written(o)' <=> Written(o)
        /\ Touches(tx[o])' = Touches(tx[o])
        /\ \A v : HoldsRow(o, v)' <=> HoldsRow(o, v)
  BY <1>2, <1>4, <1>5 DEF HoldsExclusive, HoldsShared, HoldsRow, Touches, Written, Open
<1>7. /\ ~HoldsExclusive(s)' /\ ~HoldsShared(s)' /\ ~Written(s)'
      /\ \A v : ~HoldsRow(s, v)'
  BY <1>4 DEF HoldsExclusive, HoldsShared, HoldsRow, Written, Open, Idle
<1>8. \A d : PeriodOpen(d)' <=> PeriodOpen(d)
  BY <1>2 DEF PeriodOpen, ClosedThrough
<1>9. PeriodLocks'
  BY <1>2, <1>4, <1>6, <1>7 DEF PeriodLocks, ExclusiveFree
<1>10. RowLocks'
  BY <1>5, <1>6, <1>7 DEF RowLocks
<1>11. Guarded'
  BY <1>4, <1>6, <1>7, <1>8 DEF Guarded
<1>12. QED
  BY <1>3, <1>9, <1>10, <1>11

\* What a commit does to the rows: it changes the row it locked and appends
\* at most one.
LEMMA CommitRows ==
  ASSUME Shape, NEW s \in Sessions, Commit(s)
  PROVE  /\ Len(vouchers') = Len(vouchers) + (IF tx[s].op \in Posting THEN 1 ELSE 0)
         /\ vouchers' = [v \in 1 .. Len(vouchers') |-> vouchers'[v]]
         /\ \A v \in Ids : vouchers'[v] = IF tx[s].op \in Updating /\ v = tx[s].row
                                          THEN Updated(tx[s], vouchers[v])
                                          ELSE vouchers[v]
         /\ tx[s].op \in Posting => vouchers'[Len(vouchers) + 1] = Inserted(tx[s])
<1> DEFINE n == Len(vouchers)
           rows == RowsAfter(tx[s])
<1>1. n \in Nat /\ vouchers = [v \in 1 .. n |-> vouchers[v]] /\ Ids = 1 .. n
  BY DEF Shape, Ids
<1>2. /\ rows = [v \in 1 .. n |-> rows[v]]
      /\ Len(rows) = n
      /\ \A v \in Ids : rows[v] = IF tx[s].op \in Updating /\ v = tx[s].row
                                  THEN Updated(tx[s], vouchers[v])
                                  ELSE vouchers[v]
  <2>1. CASE tx[s].op \in Updating /\ tx[s].row \in Ids
    <3>1. rows = [vouchers EXCEPT ![tx[s].row] = Updated(tx[s], vouchers[tx[s].row])]
      BY <2>1 DEF RowsAfter
    <3> HIDE DEF rows
    <3>2. rows = [v \in 1 .. n |-> IF v = tx[s].row THEN Updated(tx[s], vouchers[v])
                                                  ELSE vouchers[v]]
      BY <1>1, <3>1
    <3>3. QED
      BY <1>1, <2>1, <3>2
  <2>2. CASE ~(tx[s].op \in Updating /\ tx[s].row \in Ids)
    <3>1. rows = vouchers
      BY <2>2 DEF RowsAfter
    <3> HIDE DEF rows
    <3>2. QED
      BY <1>1, <2>2, <3>1
  <2>3. QED
    BY <2>1, <2>2
<1>3. vouchers' = IF tx[s].op \in Posting THEN Append(rows, Inserted(tx[s])) ELSE rows
  BY DEF Commit
<1> HIDE DEF rows
<1>4. Append(rows, Inserted(tx[s]))
        = [v \in 1 .. n + 1 |-> IF v = n + 1 THEN Inserted(tx[s]) ELSE rows[v]]
  BY <1>1, <1>2
<1>5. CASE tx[s].op \in Posting
  BY <1>1, <1>2, <1>3, <1>4, <1>5
<1>6. CASE tx[s].op \notin Posting
  BY <1>1, <1>2, <1>3, <1>6
<1>7. QED
  BY <1>5, <1>6

\* An update keeps the date unless it is an edit, and takes a row in or out of
\* the books or leaves it there according to the operation.
LEMMA UpdatedFields ==
  ASSUME NEW t, NEW v, RowShape(v), t.op \in Updating
  PROVE  /\ Updated(t, v).date = IF t.op = "edit" THEN t.date ELSE v.date
         /\ t.op # "edit" => Updated(t, v).amount = v.amount
         /\ t.op = "restore" => Updated(t, v).live
         /\ t.op \in {"sync", "remove"} => ~Updated(t, v).live
         /\ (t.op = "edit" => t.date \in Dates) => RowShape(Updated(t, v))
<1>1. CASE t.op = "edit"
  BY <1>1 DEF Updated, RowShape
<1>2. CASE t.op \in {"delete", "reopen"}
  BY <1>2 DEF Updated, RowShape
<1>3. CASE t.op = "restore"
  <2>1. IsReversal(v) \in BOOLEAN
    BY DEF IsReversal
  <2>2. Updated(t, v) = [v EXCEPT !.live = TRUE, !.restored = IsReversal(v)]
    BY <1>3 DEF Updated
  <2> HIDE DEF IsReversal
  <2>3. QED
    BY <1>3, <2>1, <2>2 DEF RowShape
<1>4. CASE t.op \in {"sync", "remove"}
  BY <1>4 DEF Updated, RowShape
<1>5. QED
  BY <1>1, <1>2, <1>3, <1>4 DEF Updating

\* A commit keeps the shape of the rows.
LEMMA CommitKeepsShape ==
  ASSUME FrozenInv, NEW s \in Sessions, Commit(s)
  PROVE  Shape'
<1> USE DEF FrozenInv
<1>1. Written(s) /\ TxShape(tx[s]) /\ tx[s].op \in AllOperations
  BY DEF Shape, Commit, TxShape, Written
<1>2. /\ Len(vouchers) \in Nat /\ Ids = 1 .. Len(vouchers)
      /\ Ids' = 1 .. Len(vouchers') /\ Len(vouchers') \in Nat
      /\ Ids \subseteq Ids'
  BY CommitRows DEF Shape, Ids
<1>3. \A v \in Ids' : RowShape(vouchers'[v])
  <2>1. tx[s].op \in Posting \cup {"edit"} => tx[s].date \in Dates
    BY <1>1 DEF TxShape, Written
  <2>2. tx[s].op \in Posting => RowShape(Inserted(tx[s]))
    BY <2>1 DEF RowShape, Inserted
  <2>3. ASSUME NEW v \in Ids, tx[s].op \in Updating
        PROVE  RowShape(Updated(tx[s], vouchers[v]))
    <3>1. RowShape(vouchers[v])
      BY DEF Shape
    <3>2. QED
      BY <2>1, <2>3, <3>1, UpdatedFields
  <2>4. \A v \in Ids' : v \in Ids \/ (tx[s].op \in Posting /\ v = Len(vouchers) + 1)
    BY <1>2, CommitRows DEF Shape
  <2>5. QED
    BY <2>2, <2>3, <2>4, CommitRows DEF Shape
<1>4. /\ closures' \in Seq(Closure)
      /\ \A i \in 1 .. Len(closures') : closures'[i].voucher \in Ids'
  <2>1. CASE tx[s].op = "close"
    <3>1. tx[s].date \in Dates /\ Len(vouchers) + 1 \in Ids'
      BY <1>1, <1>2, <2>1, CommitRows DEF TxShape, Written, Posting
    <3>2. closures' = Append(closures, [end |-> tx[s].date, voucher |-> Len(vouchers) + 1])
      BY <2>1 DEF Commit
    <3>3. QED
      BY <1>2, <3>1, <3>2 DEF Shape, Closure
  <2>2. CASE tx[s].op = "reopen"
    <3>1. closures # <<>>
      BY <1>1, <2>2 DEF PeriodLocks, HoldsExclusive, Open, Written, Exclusive
    <3>2. closures' = SubSeq(closures, 1, Len(closures) - 1)
      BY <2>2 DEF Commit
    <3> DEFINE m == Len(closures) - 1
    <3>3. closures \in Seq(Closure) /\ m \in Nat /\ m <= Len(closures)
      BY <3>1 DEF Shape
    <3>4. /\ closures' \in Seq(Closure)
          /\ Len(closures') = m
          /\ \A i \in 1 .. m : closures'[i] = closures[i]
      <4>1. \A i \in 1 .. m : closures[i] \in Closure
        BY <3>3
      <4>2. closures' = SubSeq(closures, 1, m)
        BY <3>2
      <4>3. 1 \in Int /\ m \in Int /\ \A i \in 1 .. m : closures[i] \in Closure
        BY <3>3, <4>1
      <4> HIDE DEF m
      <4>4. /\ SubSeq(closures, 1, m) \in Seq(Closure)
            /\ Len(SubSeq(closures, 1, m)) = IF 1 <= m THEN m - 1 + 1 ELSE 0
            /\ \A i \in 1 .. m - 1 + 1 : SubSeq(closures, 1, m)[i] = closures[1 + i - 1]
        BY <4>3, SubSeqProperties
      <4>5. closures' \in Seq(Closure)
        BY <4>2, <4>4
      <4>6. Len(closures') = m /\ \A i \in 1 .. m : closures'[i] = closures[i]
        BY <3>3, <4>2, <4>4
      <4>7. QED
        BY <4>5, <4>6
    <3>5. \A i \in 1 .. m : closures[i].voucher \in Ids
      BY <3>3 DEF Shape
    <3> HIDE DEF m
    <3>6. QED
      BY <1>2, <3>4, <3>5
  <2>3. CASE tx[s].op \notin Exclusive
    <3>1. closures' = closures
      BY <2>3 DEF Commit, Exclusive
    <3>2. QED
      BY <1>2, <3>1 DEF Shape
  <2>4. QED
    BY <2>1, <2>2, <2>3 DEF Exclusive
<1>5. \A o \in Sessions : TxShape(tx[o])'
  <2>1. \A o \in Sessions : tx'[o] = IF o = s THEN Idle ELSE tx[o]
    BY DEF Commit, Shape
  <2>2. TxShape(Idle)'
    BY DEF TxShape, Idle
  <2>3. \A o \in Sessions : TxShape(tx[o])
    BY DEF Shape
  <2>4. QED
    BY <1>2, <2>1, <2>2, <2>3 DEF TxShape
<1>6. tx' = [o \in Sessions |-> tx'[o]]
  BY DEF Shape, Commit
<1>7. QED
  BY <1>2, <1>3, <1>4, <1>5, <1>6, CommitRows DEF Shape

\* A commit keeps the invariant: what it writes was allowed by the guard and the locks it still holds.
LEMMA CommitKeeps ==
  ASSUME FrozenInv, NEW s \in Sessions, Commit(s)
  PROVE  FrozenInv'
<1> USE DEF FrozenInv
<1>1. Shape'
  BY CommitKeepsShape
<1>2. Written(s) /\ \A o \in Sessions : tx'[o] = IF o = s THEN Idle ELSE tx[o]
  BY DEF Commit, Shape
<1>3. Ids = 1 .. Len(vouchers) /\ 0 \notin Ids' /\ Ids \subseteq Ids'
  <2>1. Len(vouchers) \in Nat /\ Ids = 1 .. Len(vouchers)
    BY DEF Shape, Ids
  <2>2. Len(vouchers') \in Nat /\ Ids' = 1 .. Len(vouchers')
    BY <1>1 DEF Shape, Ids
  <2>3. Len(vouchers) <= Len(vouchers')
    BY <2>1, CommitRows
  <2>4. QED
    BY <2>1, <2>2, <2>3
<1>4. \A o \in Sessions \ {s} : Written(o) => Touches(tx[o])' = Touches(tx[o])
  <2> SUFFICES ASSUME NEW o \in Sessions \ {s}, Written(o)
               PROVE  Touches(tx[o])' = Touches(tx[o])
    OBVIOUS
  <2>1. tx[o].row = 0 \/ tx[o].row \in Ids
    BY DEF Shape, TxShape
  <2>2. tx[o].row \in Ids => vouchers'[tx[o].row] = vouchers[tx[o].row]
    <3>1. SUFFICES ASSUME tx[o].row \in Ids, tx[s].row = tx[o].row PROVE FALSE
      BY CommitRows
    <3>2. HoldsRow(s, tx[o].row) /\ HoldsRow(o, tx[o].row)
      BY <1>2, <3>1 DEF HoldsRow, Open, Written
    <3>3. QED
      BY <3>1, <3>2 DEF RowLocks
  <2>3. tx'[o] = tx[o]
    BY <1>2
  <2>4. tx[o].row \in Ids' <=> tx[o].row \in Ids
    BY <1>3, <2>1
  <2>5. QED
    BY <2>2, <2>3, <2>4 DEF Touches
<1>5. \A o \in Sessions \ {s} :
        /\ HoldsExclusive(o)' <=> HoldsExclusive(o)
        /\ Written(o)' <=> Written(o)
        /\ HoldsShared(o)' <=> HoldsShared(o)
        /\ \A v : HoldsRow(o, v)' <=> HoldsRow(o, v)
  BY <1>2, <1>4 DEF HoldsExclusive, HoldsShared, HoldsRow, Written, Open
<1>6. /\ ~HoldsExclusive(s)' /\ ~HoldsShared(s)' /\ ~Written(s)'
      /\ \A v : ~HoldsRow(s, v)'
  BY <1>2 DEF HoldsExclusive, HoldsShared, HoldsRow, Written, Open, Idle
<1>7. tx[s].op \notin Exclusive => closures' = closures
  BY DEF Commit, Exclusive
<1>8. PeriodLocks'
  <2> SUFFICES ASSUME NEW o \in Sessions, HoldsExclusive(o)'
               PROVE  /\ Written(o)'
                      /\ tx'[o].op = "reopen" => closures' # <<>>
                      /\ ExclusiveFree(o)'
    BY DEF PeriodLocks
  <2>1. o # s /\ HoldsExclusive(o)
    BY <1>5, <1>6
  <2>2. Written(o) /\ (tx[o].op = "reopen" => closures # <<>>) /\ ExclusiveFree(o)
    BY <2>1 DEF PeriodLocks
  <2>3. tx[s].op \notin Exclusive
    BY <1>2, <2>1, <2>2 DEF ExclusiveFree, HoldsExclusive, Open, Written
  <2>4. QED
    BY <1>2, <1>5, <1>6, <1>7, <2>1, <2>2, <2>3 DEF ExclusiveFree
<1>9. RowLocks'
  <2> SUFFICES ASSUME NEW p \in Sessions, NEW o \in Sessions, NEW v \in Ids',
                      HoldsRow(p, v)', HoldsRow(o, v)'
               PROVE  p = o
    BY DEF RowLocks
  <2>1. p # s /\ o # s /\ HoldsRow(p, v) /\ HoldsRow(o, v)
    BY <1>5, <1>6
  <2>2. v \in Ids
    BY <1>3, <2>1 DEF HoldsRow, Shape, TxShape
  <2>3. QED
    BY <2>1, <2>2 DEF RowLocks
<1>10. Guarded'
  <2> SUFFICES ASSUME NEW o \in Sessions, Written(o)', tx'[o].op # "reopen",
                      NEW d \in Touches(tx[o])'
               PROVE  PeriodOpen(d)'
    BY DEF Guarded
  <2>1. o # s /\ Written(o) /\ tx[o].op # "reopen" /\ d \in Touches(tx[o])
    BY <1>2, <1>4, <1>5, <1>6
  <2>2. tx[s].op \notin Exclusive
    BY <1>2, <2>1 DEF PeriodLocks, ExclusiveFree, HoldsExclusive, HoldsShared, Open, Written
  <2>3. QED
    BY <1>7, <2>1, <2>2 DEF Guarded, PeriodOpen, ClosedThrough
<1>11. QED
  BY <1>1, <1>8, <1>9, <1>10

\* Any step, stuttering included.
LEMMA FrozenNext == FrozenInv /\ [Next]_vars => FrozenInv'
<1> SUFFICES ASSUME FrozenInv, [Next]_vars PROVE FrozenInv'
  OBVIOUS
<1>1. ASSUME Next PROVE FrozenInv'
  <2>1. PICK s \in Sessions :
          \/ \E t : Begun(s, t)
          \/ Write(s) \/ Commit(s) \/ Rollback(s)
    BY <1>1, BeginIsBegun DEF Next, FrozenInv
  <2>2. QED
    BY <2>1, BegunKeeps, WriteKeeps, CommitKeeps, RollbackKeeps
<1>2. CASE UNCHANGED vars
  BY <1>2 DEF vars, FrozenInv, Shape, RowShape, TxShape, PeriodLocks, RowLocks, Guarded,
     HoldsExclusive, HoldsShared, HoldsRow, ExclusiveFree, Touches, Written, Open, Ids,
     PeriodOpen, ClosedThrough
<1>3. QED
  BY <1>1, <1>2

-----------------------------------------------------------------------------
(* Closed books. *)

\* A commit changes no voucher of a closed period and adds none to it: the
\* dates it touches are open as long as its period lock is held.
LEMMA CommitFreezes ==
  ASSUME FrozenInv, NEW s \in Sessions, Commit(s)
  PROVE  FrozenStep
<1> USE DEF FrozenInv
<1> SUFFICES ASSUME Len(closures') >= Len(closures)
             PROVE  /\ \A v \in Ids : ~PeriodOpen(vouchers[v].date) =>
                         /\ vouchers'[v].date = vouchers[v].date
                         /\ vouchers'[v].amount = vouchers[v].amount
                         /\ vouchers'[v].live = vouchers[v].live
                    /\ \A v \in Ids' : ~PeriodOpen(vouchers'[v].date) =>
                         v \in Ids /\ ~PeriodOpen(vouchers[v].date)
  BY DEF FrozenStep
<1>1. Written(s) /\ TxShape(tx[s])
  BY DEF Commit, Shape
<1>2. tx[s].op # "reopen"
  <2> SUFFICES ASSUME tx[s].op = "reopen" PROVE FALSE
    OBVIOUS
  <2>1. closures # <<>>
    BY <1>1 DEF PeriodLocks, HoldsExclusive, Open, Written, Exclusive
  <2>2. closures' = SubSeq(closures, 1, Len(closures) - 1)
    BY DEF Commit
  <2>3. QED
    BY <2>1, <2>2 DEF Shape
<1>3. \A d \in Touches(tx[s]) : PeriodOpen(d)
  BY <1>1, <1>2 DEF Guarded
<1>4. tx[s].op \in Posting \cup {"edit"} => PeriodOpen(tx[s].date)
  <2>1. tx[s].op \in Posting \cup {"edit"} => tx[s].date \in Dates
    BY <1>1 DEF TxShape, Written
  <2>2. QED
    BY <1>3, <2>1 DEF Touches
<1>5. ASSUME NEW v \in Ids, ~PeriodOpen(vouchers[v].date)
      PROVE  /\ vouchers'[v].date = vouchers[v].date
             /\ vouchers'[v].amount = vouchers[v].amount
             /\ vouchers'[v].live = vouchers[v].live
  <2>0. RowShape(vouchers[v])
    BY DEF Shape
  <2>1. vouchers[v].date \in Dates
    BY <2>0 DEF RowShape
  <2>2. vouchers[v].date \notin Touches(tx[s])
    BY <1>3, <1>5
  <2>3. CASE tx[s].op \in Updating /\ v = tx[s].row
    <3>1. /\ tx[s].op \notin {"edit", "delete"}
          /\ tx[s].op = "restore" => vouchers[v].live
          /\ tx[s].op \in {"sync", "remove"} => ~vouchers[v].live
      BY <2>1, <2>2, <2>3 DEF Touches
    <3>2. vouchers'[v] = Updated(tx[s], vouchers[v])
      BY <2>3, CommitRows
    <3>3. tx[s].op \in {"restore", "sync", "remove"}
      BY <1>2, <2>3, <3>1 DEF Updating
    <3>4. QED
      BY <2>0, <2>3, <3>1, <3>2, <3>3, UpdatedFields DEF RowShape
  <2>4. CASE ~(tx[s].op \in Updating /\ v = tx[s].row)
    BY <2>4, CommitRows
  <2>5. QED
    BY <2>3, <2>4
<1>6. ASSUME NEW v \in Ids', ~PeriodOpen(vouchers'[v].date)
      PROVE  v \in Ids /\ ~PeriodOpen(vouchers[v].date)
  <2>1. v \in Ids \/ (tx[s].op \in Posting /\ v = Len(vouchers) + 1)
    BY CommitKeepsShape, CommitRows DEF Shape, Ids
  <2>2. ~(tx[s].op \in Posting /\ v = Len(vouchers) + 1)
    <3> SUFFICES ASSUME tx[s].op \in Posting, v = Len(vouchers) + 1 PROVE FALSE
      OBVIOUS
    <3>1. vouchers'[v] = Inserted(tx[s])
      BY CommitRows
    <3>2. vouchers'[v].date = tx[s].date
      BY <3>1 DEF Inserted
    <3>3. QED
      BY <1>4, <1>6, <3>2
  <2>3. v \in Ids
    BY <2>1, <2>2
  <2>4. CASE tx[s].op = "edit" /\ v = tx[s].row
    <3>1. vouchers'[v] = Updated(tx[s], vouchers[v])
      BY <2>3, <2>4, CommitRows DEF Updating
    <3>2. vouchers'[v].date = tx[s].date
      BY <2>3, <2>4, <3>1, UpdatedFields DEF Shape, Updating
    <3>3. QED
      BY <1>4, <1>6, <2>4, <3>2
  <2>5. CASE ~(tx[s].op = "edit" /\ v = tx[s].row)
    <3>1. RowShape(vouchers[v])
      BY <2>3 DEF Shape
    <3>2. vouchers'[v].date = vouchers[v].date
      BY <2>3, <2>5, <3>1, CommitRows, UpdatedFields DEF Updating
    <3>3. QED
      BY <1>6, <2>3, <3>2
  <2>6. QED
    BY <2>4, <2>5
<1>7. QED
  BY <1>5, <1>6

\* No step changes the closed books.
LEMMA StepFreezes == FrozenInv /\ [Next]_vars => FrozenStep
<1> SUFFICES ASSUME FrozenInv, [Next]_vars PROVE FrozenStep
  OBVIOUS
<1>1. ASSUME vouchers' = vouchers PROVE FrozenStep
  BY <1>1 DEF FrozenStep, Ids
<1>2. ASSUME Next PROVE FrozenStep
  <2>1. PICK s \in Sessions :
          \/ \E t : Begun(s, t)
          \/ Write(s) \/ Commit(s) \/ Rollback(s)
    BY <1>2, BeginIsBegun DEF Next, FrozenInv
  <2>2. QED
    BY <1>1, <2>1, CommitFreezes DEF Begun, Write, Rollback
<1>3. QED
  BY <1>1, <1>2 DEF vars

\* However transactions interleave, no voucher of a closed period changes and
\* none enters it, except by reopening the period (the closed-period trigger,
\* closeFiscalPeriod, reopenFiscalPeriod).
THEOREM BooksStayClosed == Spec => ClosedBooksFrozen
<1>1. Spec => []FrozenInv
  BY FrozenInit, FrozenNext, PTL DEF Spec
<1>2. QED
  BY <1>1, StepFreezes, PTL DEF Spec, ClosedBooksFrozen

=============================================================================
