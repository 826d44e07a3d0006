-------------------------- MODULE EdgeReceiptsProofs --------------------------
(***************************************************************************)
(* What the LAN databases of EdgeVoucherSync know of the delivery, for     *)
(* every value of its constants: receipts come in order, a handover        *)
(* reported as ready is safe, and the pipeline implements OrderedDelivery. *)
(***************************************************************************)
EXTENDS EdgeVoucherSyncProofs, FiniteSetTheorems, FunctionTheorems, SequenceTheorems

-----------------------------------------------------------------------------
(* Runs of sequence numbers.                                               *)

\* A log of receipts covers the first sequence numbers up to one of 0 .. n.
Prefix(log, n) == \E k \in 0 .. n : Seqs(log) = 1 .. k

\* The rows carry consecutive sequence numbers and leave no gap behind the log.
Follows(rows, log) ==
  \E a \in Nat \ {0}, b \in Nat : Seqs(rows) = a .. b /\ 1 .. (a - 1) \subseteq Seqs(log)

\* Of rows with consecutive numbers, LIMIT keeps consecutive ones from the first.
LEMMA LowestRun ==
  ASSUME NEW rows, NEW a \in Nat \ {0}, NEW b \in Nat, NEW n \in Nat \ {0},
         Seqs(rows) = a .. b, \A r, q \in rows : r.seq = q.seq => r = q
  PROVE  \E c \in Nat : Seqs(Lowest(rows, n)) = a .. c
<1>1. \A r \in rows : r.seq \in a .. b
  BY DEF Seqs
<1>2. ASSUME NEW r \in rows
      PROVE  Cardinality({q \in rows : q.seq < r.seq}) = r.seq - a
  <2> DEFINE below == {q \in rows : q.seq < r.seq}
             numbers == a .. (r.seq - 1)
             f == [q \in below |-> q.seq]
  <2>1. r.seq \in Nat /\ r.seq >= a
    BY <1>1
  <2>2. f \in [below -> numbers]
    BY <1>1, <2>1
  <2>3. \A p, q \in below : f[p] = f[q] => p = q
    OBVIOUS
  <2>4. \A i \in numbers : \E q \in below : f[q] = i
    <3>1. ASSUME NEW i \in numbers PROVE \E q \in below : f[q] = i
      <4>1. i \in Seqs(rows) /\ i < r.seq
        BY <1>1, <2>1
      <4>2. PICK q \in rows : q.seq = i
        BY <4>1 DEF Seqs
      <4>3. q \in below
        BY <4>1, <4>2
      <4>4. QED
        BY <4>2, <4>3
    <3>2. QED
      BY <3>1
  <2> HIDE DEF below, numbers, f
  <2>5. f \in Bijection(below, numbers)
    BY <2>2, <2>3, <2>4, Fun_IsBij
  <2>6. IsFiniteSet(numbers) /\ Cardinality(numbers) = r.seq - a
    <3>1. a \in Int /\ r.seq - 1 \in Int
      BY <2>1
    <3>2. IsFiniteSet(numbers) /\ Cardinality(numbers)
            = IF a > r.seq - 1 THEN 0 ELSE (r.seq - 1) - a + 1
      BY <3>1, FS_Interval DEF numbers
    <3>3. QED
      BY <2>1, <3>2
  <2>7. ExistsBijection(numbers, below)
    BY <2>5, Fun_ExistsBijSymmetric DEF ExistsBijection
  <2>8. Cardinality(below) = Cardinality(numbers)
    BY <2>6, <2>7, FS_Bijection
  <2>9. QED
    BY <2>6, <2>8 DEF below
<1>3. Lowest(rows, n) = {r \in rows : r.seq < a + n}
  BY <1>1, <1>2 DEF Lowest
<1> DEFINE c == IF b < a + n THEN b ELSE a + n - 1
<1>4. c \in Nat
  OBVIOUS
<1>5. Seqs(Lowest(rows, n)) = {i \in a .. b : i < a + n}
  BY <1>3 DEF Seqs
<1>6. {i \in a .. b : i < a + n} = a .. c
  OBVIOUS
<1>7. QED
  BY <1>4, <1>5, <1>6

\* Receipts that follow a log in order leave it in order.
LEMMA PrefixGrows ==
  ASSUME NEW rows, NEW log, NEW n \in Nat, Prefix(log, n), Follows(rows, log),
         Seqs(rows) \subseteq 1 .. n
  PROVE  Prefix(log \cup rows, n)
<1>1. PICK k \in 0 .. n : Seqs(log) = 1 .. k
  BY DEF Prefix
<1>2. PICK a \in Nat \ {0}, b \in Nat :
        Seqs(rows) = a .. b /\ 1 .. (a - 1) \subseteq Seqs(log)
  BY DEF Follows
<1>3. Seqs(log \cup rows) = (1 .. k) \cup (a .. b)
  BY <1>1, <1>2 DEF Seqs
<1>4. a - 1 <= k
  <2>1. CASE a = 1
    BY <2>1
  <2>2. CASE a # 1
    <3>1. a - 1 \in 1 .. (a - 1)
      BY <2>2
    <3>2. QED
      BY <1>1, <1>2, <3>1
  <2>3. QED
    BY <2>1, <2>2
<1>5. CASE b <= k
  <2>1. (1 .. k) \cup (a .. b) = 1 .. k
    BY <1>2, <1>5
  <2>2. QED
    BY <1>3, <2>1 DEF Prefix
<1>6. CASE b > k
  <2>1. b \in a .. b
    BY <1>4, <1>6
  <2>2. b \in 0 .. n
    BY <1>2, <2>1
  <2>3. (1 .. k) \cup (a .. b) = 1 .. b
    BY <1>4, <1>6
  <2>4. QED
    BY <1>3, <2>2, <2>3 DEF Prefix
<1>7. QED
  BY <1>5, <1>6

\* A page of the rows missing in a log follows the log.
LEMMA PageFollows ==
  ASSUME NEW rows, NEW log, NEW k \in Nat, NEW m \in Nat, NEW n \in Nat \ {0},
         k <= m, Seqs(log) = 1 .. k, Seqs(rows) = (k + 1) .. m,
         \A r, q \in rows : r.seq = q.seq => r = q
  PROVE  Follows(Lowest(rows, n), log)
<1>1. k + 1 \in Nat \ {0} /\ (k + 1) - 1 = k
  OBVIOUS
<1>2. PICK c \in Nat : Seqs(Lowest(rows, n)) = (k + 1) .. c
  BY <1>1, LowestRun
<1>3. QED
  BY <1>1, <1>2 DEF Follows

-----------------------------------------------------------------------------
(* Receipts in order.                                                      *)

\* The order of the receipts of one LAN database.
InOrder(db) ==
  /\ Gapless(db.outbox, db.counter)
  /\ Prefix(db.staged, db.counter)
  /\ Seqs(db.applied) \subseteq Seqs(db.staged)
  /\ Prefix(db.applied, db.counter)
  /\ db.staged \subseteq db.outbox
  /\ {Evidence(a) : a \in db.applied} \subseteq db.outbox

\* A relay run carries rows of its own outbox, the next ones without a stage
\* receipt.
SenderRuns ==
  \A s \in Senders : /\ sender[s].envelope \subseteq lan.outbox
                     /\ Follows(sender[s].envelope, lan.staged)

\* A fetcher asks for staged rows, the next ones without an applied receipt,
\* and the answer starts where the question does.
FetcherRuns ==
  \A f \in Fetchers : /\ fetcher[f].originals \subseteq lan.outbox
                      /\ Seqs(fetcher[f].originals) \subseteq Seqs(lan.staged)
                      /\ Follows(fetcher[f].originals, lan.applied)
                      /\ Follows(fetcher[f].answer, lan.applied)

\* The inductive invariant of the order of receipts.
OrderInv ==
  /\ InOrder(lan)
  /\ InOrder(backup)
  /\ backup.applied \subseteq lan.applied
  /\ SenderRuns
  /\ FetcherRuns

\* A step of one LAN database only adds to it.
LanGrows ==
  /\ lan.outbox \subseteq lan'.outbox
  /\ lan.staged \subseteq lan'.staged
  /\ lan.applied \subseteq lan'.applied

\* No row follows every log.
LEMMA NothingFollows == ASSUME NEW log PROVE Follows({}, log)
<1>1. Seqs({}) = 1 .. 0 /\ 1 .. (1 - 1) \subseteq Seqs(log)
  BY DEF Seqs
<1>2. QED
  BY <1>1 DEF Follows

\* What follows a log follows a longer one.
LEMMA FollowsGrows ==
  ASSUME NEW rows, NEW log, NEW longer, log \subseteq longer, Follows(rows, log)
  PROVE  Follows(rows, longer)
<1>1. Seqs(log) \subseteq Seqs(longer)
  BY DEF Seqs
<1>2. QED
  BY <1>1 DEF Follows

\* Runs on their way keep their place while the database grows.
LEMMA RunsKeepPlace ==
  ASSUME SenderRuns, FetcherRuns, LanGrows
  PROVE  /\ \A s \in Senders : /\ sender[s].envelope \subseteq lan'.outbox
                               /\ Follows(sender[s].envelope, lan'.staged)
         /\ \A f \in Fetchers : /\ fetcher[f].originals \subseteq lan'.outbox
                                /\ Seqs(fetcher[f].originals) \subseteq Seqs(lan'.staged)
                                /\ Follows(fetcher[f].originals, lan'.applied)
                                /\ Follows(fetcher[f].answer, lan'.applied)
<1>1. Seqs(lan.staged) \subseteq Seqs(lan'.staged)
  BY DEF LanGrows, Seqs
<1>2. QED
  BY <1>1, FollowsGrows DEF SenderRuns, FetcherRuns, LanGrows

\* The empty databases are in order.
LEMMA OrderInit == Init => OrderInv
<1> SUFFICES ASSUME Init PROVE OrderInv
  OBVIOUS
<1>1. Seqs({}) = 1 .. 0 /\ 0 \in 0 .. 0
  BY DEF Seqs
<1>2. InOrder(EmptyLan)
  BY <1>1 DEF InOrder, EmptyLan, Gapless, Prefix
<1>3. SenderRuns /\ FetcherRuns
  BY NothingFollows DEF Init, SenderRuns, FetcherRuns, IdleSender, IdleFetcher, Seqs
<1>4. QED
  BY <1>2, <1>3 DEF Init, OrderInv

\* A capture appends to the outbox.
LEMMA CaptureInOrder ==
  ASSUME TypeOK, OrderInv, NEW op \in Ops, NEW doc \in Docs, Capture(op, doc)
  PROVE  InOrder(lan') /\ LanGrows
<1> DEFINE new == [seq |-> lan.counter + 1, op |-> op, doc |-> doc]
<1>1. /\ lan'.counter = lan.counter + 1
      /\ lan'.outbox = lan.outbox \cup {new}
      /\ lan'.staged = lan.staged
      /\ lan'.applied = lan.applied
  BY DEF Capture, NextSequence, TypeOK, LanState
<1>2. lan.counter \in Nat /\ lan.outbox \subseteq Row
  BY DEF TypeOK, LanState
<1>3. new.seq = lan.counter + 1
  OBVIOUS
<1> HIDE DEF new
<1>4. Gapless(lan'.outbox, lan'.counter)
  <2>1. Seqs(lan.outbox) = 1 .. lan.counter
    BY DEF OrderInv, InOrder, Gapless
  <2>2. Seqs(lan'.outbox) = (1 .. lan.counter) \cup {lan.counter + 1}
    BY <1>1, <1>3, <2>1 DEF Seqs
  <2>3. (1 .. lan.counter) \cup {lan.counter + 1} = 1 .. (lan.counter + 1)
    BY <1>2
  <2>4. \A r \in lan.outbox : r.seq # new.seq
    BY <1>2, <1>3, <2>1 DEF Seqs
  <2>5. QED
    BY <1>1, <2>2, <2>3, <2>4 DEF OrderInv, InOrder, Gapless
<1>5. 0 .. lan.counter \subseteq 0 .. lan'.counter
  BY <1>1, <1>2
<1>6. Prefix(lan'.staged, lan'.counter) /\ Prefix(lan'.applied, lan'.counter)
  BY <1>1, <1>5 DEF OrderInv, InOrder, Prefix
<1>7. QED
  BY <1>1, <1>4, <1>6 DEF OrderInv, InOrder, LanGrows

\* Stage receipts arrive in order.
LEMMA StageReceiptsInOrder ==
  ASSUME TypeOK, OrderInv, NEW s \in Senders, SenderPersist(s)
  PROVE  InOrder(lan') /\ LanGrows
<1>1. PICK env : env = sender[s].envelope
  OBVIOUS
<1>2. /\ lan'.counter = lan.counter
      /\ lan'.outbox = lan.outbox
      /\ lan'.staged = lan.staged \cup env
      /\ lan'.applied = lan.applied
  BY <1>1 DEF SenderPersist, TypeOK, LanState
<1>3. env \subseteq lan.outbox /\ Follows(env, lan.staged)
  BY <1>1 DEF OrderInv, SenderRuns
<1>4. Seqs(env) \subseteq 1 .. lan.counter
  BY <1>3 DEF OrderInv, InOrder, Gapless, Seqs
<1>5. lan.counter \in Nat
  BY DEF TypeOK, LanState
<1>6. Prefix(lan'.staged, lan'.counter)
  BY <1>2, <1>3, <1>4, <1>5, PrefixGrows DEF OrderInv, InOrder
<1>7. Seqs(lan'.applied) \subseteq Seqs(lan'.staged)
  BY <1>2 DEF OrderInv, InOrder, Seqs
<1>8. QED
  BY <1>2, <1>3, <1>6, <1>7 DEF OrderInv, InOrder, LanGrows

\* Applied receipts arrive in order and behind the stage receipts.
LEMMA AppliedReceiptsInOrder ==
  ASSUME TypeOK, OrderInv, NEW f \in Fetchers, FetchPersist(f)
  PROVE  InOrder(lan') /\ LanGrows
<1>1. PICK page, originals : page = fetcher[f].answer /\ originals = fetcher[f].originals
  OBVIOUS
<1>2. /\ lan'.counter = lan.counter
      /\ lan'.outbox = lan.outbox
      /\ lan'.staged = lan.staged
      /\ lan'.applied = lan.applied \cup page
  BY <1>1 DEF FetchPersist, ReceiptsPersist, TypeOK, LanState
<1>3. \A a \in page : Evidence(a) \in originals /\ Evidence(a).seq = a.seq
  BY <1>1 DEF FetchPersist, ReceiptsVerify, Evidence
<1>4. /\ originals \subseteq lan.outbox
      /\ Seqs(originals) \subseteq Seqs(lan.staged)
      /\ Follows(page, lan.applied)
  BY <1>1 DEF OrderInv, FetcherRuns
<1>5. Seqs(page) \subseteq Seqs(lan.staged)
  BY <1>3, <1>4 DEF Seqs
<1>6. Seqs(page) \subseteq 1 .. lan.counter
  BY <1>3, <1>4 DEF OrderInv, InOrder, Gapless, Seqs
<1>7. lan.counter \in Nat
  BY DEF TypeOK, LanState
<1>8. Prefix(lan'.applied, lan'.counter)
  BY <1>2, <1>4, <1>6, <1>7, PrefixGrows DEF OrderInv, InOrder
<1>9. Seqs(lan'.applied) \subseteq Seqs(lan'.staged)
  BY <1>2, <1>5 DEF OrderInv, InOrder, Seqs
<1>10. {Evidence(a) : a \in lan'.applied} \subseteq lan'.outbox
  BY <1>2, <1>3, <1>4 DEF OrderInv, InOrder
<1>11. QED
  BY <1>2, <1>8, <1>9, <1>10 DEF OrderInv, InOrder, LanGrows

\* Every step leaves both databases in order, and only a restore takes anything
\* out of the live one.
LEMMA LanSteps ==
  ASSUME TypeOK, OrderInv, [Next]_vars
  PROVE  /\ InOrder(lan') /\ InOrder(backup') /\ backup'.applied \subseteq lan'.applied
         /\ LanGrows \/ Restore
<1> DEFINE Goal == /\ InOrder(lan') /\ InOrder(backup') /\ backup'.applied \subseteq lan'.applied
                   /\ LanGrows \/ Restore
<1>1. CASE UNCHANGED <<lan, backup>>
  BY <1>1 DEF OrderInv, LanGrows
<1>2. ASSUME InOrder(lan'), LanGrows, backup' = backup PROVE Goal
  BY <1>2 DEF OrderInv, LanGrows
<1>3. ASSUME NEW op \in Ops, NEW doc \in Docs, Capture(op, doc) PROVE Goal
  BY <1>2, <1>3, CaptureInOrder DEF Capture
<1>4. ASSUME NEW pause \in BOOLEAN, RecordSyncControl(pause) PROVE Goal
  <2>1. /\ lan'.counter = lan.counter
        /\ lan'.outbox = lan.outbox
        /\ lan'.staged = lan.staged
        /\ lan'.applied = lan.applied
        /\ backup' = backup
    BY <1>4 DEF RecordSyncControl, TypeOK, LanState
  <2>2. InOrder(lan') /\ LanGrows
    BY <2>1 DEF OrderInv, InOrder, LanGrows
  <2>3. QED
    BY <1>2, <2>1, <2>2
<1>5. ASSUME NEW s \in Senders, SenderPersist(s) PROVE Goal
  BY <1>2, <1>5, StageReceiptsInOrder DEF SenderPersist
<1>6. ASSUME NEW f \in Fetchers, FetchPersist(f) PROVE Goal
  BY <1>2, <1>6, AppliedReceiptsInOrder DEF FetchPersist
<1>7. CASE TakeBackup
  BY <1>7 DEF TakeBackup, OrderInv, LanGrows
<1>8. CASE Restore
  BY <1>8 DEF Restore, OrderInv
<1>9. ASSUME NEW s \in Senders,
             SenderStart(s) \/ SenderSend(s) \/ SenderFinish(s) \/ CloudStage(s) \/ SenderAbort(s)
      PROVE  UNCHANGED <<lan, backup>>
  BY <1>9 DEF SenderStart, SenderSend, SenderFinish, CloudStage, SenderAbort, lanVars
<1>10. ASSUME NEW f \in Fetchers, FetchStart(f) \/ CloudReceipts(f) \/ FetchAbort(f)
       PROVE  UNCHANGED <<lan, backup>>
  BY <1>10 DEF FetchStart, CloudReceipts, FetchAbort, lanVars
<1>11. ASSUME \/ \E env \in stray : StrayStage(env)
              \/ ApplyStaged
              \/ \E ok \in BOOLEAN : SetAuthorised(ok)
              \/ UNCHANGED vars
       PROVE  UNCHANGED <<lan, backup>>
  BY <1>11 DEF StrayStage, ApplyStaged, SetAuthorised, lanVars, vars
<1>12. QED
  BY <1>1, <1>3, <1>4, <1>5, <1>6, <1>7, <1>8, <1>9, <1>10, <1>11 DEF Next

\* The batch a relay run takes next.
LEMMA BatchFollows ==
  ASSUME TypeOK, OrderInv
  PROVE  NextBatch \subseteq lan.outbox /\ Follows(NextBatch, lan.staged)
<1> DEFINE rows == {r \in lan.outbox : r.seq \notin Seqs(lan.staged)}
<1>1. lan.counter \in Nat
  BY DEF TypeOK, LanState
<1>2. PICK k \in 0 .. lan.counter : Seqs(lan.staged) = 1 .. k
  BY DEF OrderInv, InOrder, Prefix
<1>3. Seqs(lan.outbox) = 1 .. lan.counter /\ \A r, q \in rows : r.seq = q.seq => r = q
  BY DEF OrderInv, InOrder, Gapless
<1>4. Seqs(rows) = Seqs(lan.outbox) \ Seqs(lan.staged)
  BY DEF Seqs
<1>5. (1 .. lan.counter) \ (1 .. k) = (k + 1) .. lan.counter
  BY <1>1
<1>6. NextBatch = Lowest(rows, StageLimit) /\ NextBatch \subseteq lan.outbox
  BY DEF NextBatch, Lowest
<1> HIDE DEF rows
<1>7. Seqs(rows) = (k + 1) .. lan.counter
  BY <1>2, <1>3, <1>4, <1>5
<1>8. k \in Nat /\ k <= lan.counter
  BY <1>1
<1>9. QED
  BY <1>1, <1>2, <1>3, <1>6, <1>7, <1>8, PageFollows, LimitAssumption

\* The rows a fetcher asks for.
LEMMA QuestionFollows ==
  ASSUME TypeOK, OrderInv
  PROVE  /\ Lowest(Unconfirmed, StageLimit) \subseteq lan.outbox
         /\ Seqs(Lowest(Unconfirmed, StageLimit)) \subseteq Seqs(lan.staged)
         /\ Follows(Lowest(Unconfirmed, StageLimit), lan.applied)
<1>1. lan.counter \in Nat
  BY DEF TypeOK, LanState
<1>2. PICK k \in 0 .. lan.counter : Seqs(lan.applied) = 1 .. k
  BY DEF OrderInv, InOrder, Prefix
<1>3. PICK m \in 0 .. lan.counter : Seqs(lan.staged) = 1 .. m
  BY DEF OrderInv, InOrder, Prefix
<1>4. /\ Seqs(lan.applied) \subseteq Seqs(lan.staged)
      /\ Seqs(lan.staged) \subseteq Seqs(lan.outbox)
      /\ \A r, q \in lan.outbox : r.seq = q.seq => r = q
  BY DEF OrderInv, InOrder, Gapless, Seqs
<1>5. Seqs(Unconfirmed) = Seqs(lan.staged) \ Seqs(lan.applied)
  BY <1>4 DEF Unconfirmed, Seqs
<1>6. k <= m
  <2>1. CASE k = 0
    BY <2>1
  <2>2. CASE k # 0
    <3>1. k \in 1 .. k
      BY <2>2
    <3>2. QED
      BY <1>2, <1>3, <1>4, <3>1
  <2>3. QED
    BY <2>1, <2>2
<1>7. (1 .. m) \ (1 .. k) = (k + 1) .. m
  BY <1>6
<1>8. Seqs(Unconfirmed) = (k + 1) .. m
  BY <1>2, <1>3, <1>5, <1>7
<1>9. k \in Nat /\ m \in Nat
  BY <1>1
<1>10. \A r, q \in Unconfirmed : r.seq = q.seq => r = q
  BY <1>4 DEF Unconfirmed
<1>11. Follows(Lowest(Unconfirmed, StageLimit), lan.applied)
  BY <1>2, <1>6, <1>8, <1>9, <1>10, PageFollows, LimitAssumption
<1>12. QED
  BY <1>11 DEF Lowest, Unconfirmed, Seqs

\* A relay run keeps its place in the outbox.
LEMMA SenderSteps ==
  ASSUME TypeOK, OrderInv, [Next]_vars
  PROVE  SenderRuns'
<1> USE DEF TypeOK
<1>1. ASSUME UNCHANGED sender, LanGrows PROVE SenderRuns'
  BY <1>1, RunsKeepPlace DEF OrderInv, SenderRuns
<1>2. CASE Restore
  BY <1>2, NothingFollows DEF Restore, IdleSender, SenderRuns
<1>3. ASSUME LanGrows, NEW s \in Senders, NEW env,
             env \subseteq lan'.outbox, Follows(env, lan'.staged),
             sender'[s].envelope = env,
             \A t \in Senders \ {s} : sender'[t] = sender[t]
      PROVE  SenderRuns'
  BY <1>3, RunsKeepPlace DEF OrderInv, SenderRuns
<1>4. ASSUME NEW s \in Senders, SenderSend(s), LanGrows PROVE SenderRuns'
  <2>1. /\ lan' = lan /\ sender'[s].envelope = NextBatch
        /\ \A t \in Senders \ {s} : sender'[t] = sender[t]
    BY <1>4 DEF SenderSend, lanVars
  <2>2. PICK env : env = NextBatch
    OBVIOUS
  <2>3. QED
    BY <1>3, <1>4, <2>1, <2>2, BatchFollows
<1>5. ASSUME NEW s \in Senders, LanGrows, sender'[s].envelope = {},
             \A t \in Senders \ {s} : sender'[t] = sender[t]
      PROVE  SenderRuns'
  BY <1>3, <1>5, NothingFollows
<1>6. ASSUME NEW s \in Senders, LanGrows, sender'[s].envelope = sender[s].envelope,
             \A t \in Senders \ {s} : sender'[t] = sender[t]
      PROVE  SenderRuns'
  BY <1>6, RunsKeepPlace DEF OrderInv, SenderRuns
<1>7. ASSUME NEW s \in Senders,
             SenderStart(s) \/ SenderFinish(s) \/ SenderPersist(s) \/ SenderAbort(s)
      PROVE  /\ sender'[s].envelope = {}
             /\ \A t \in Senders \ {s} : sender'[t] = sender[t]
  BY <1>7 DEF SenderStart, SenderFinish, SenderPersist, SenderAbort, IdleSender
<1>8. ASSUME NEW s \in Senders, CloudStage(s), LanGrows PROVE SenderRuns'
  <2>1. /\ \A t \in Senders \ {s} : sender'[t] = sender[t]
        /\ sender'[s].envelope \in {{}, sender[s].envelope}
    BY <1>8 DEF CloudStage, IdleSender, SenderState
  <2>2. QED
    BY <1>5, <1>6, <1>8, <2>1
<1>9. ASSUME NEW f \in Fetchers,
             FetchStart(f) \/ CloudReceipts(f) \/ FetchPersist(f) \/ FetchAbort(f)
      PROVE  UNCHANGED sender
  BY <1>9 DEF FetchStart, CloudReceipts, FetchPersist, FetchAbort, relayVars
<1>10. ASSUME \/ \E op \in Ops, doc \in Docs : Capture(op, doc)
              \/ \E pause \in BOOLEAN : RecordSyncControl(pause)
              \/ TakeBackup \/ ApplyStaged
              \/ \E env \in stray : StrayStage(env)
              \/ \E ok \in BOOLEAN : SetAuthorised(ok)
              \/ UNCHANGED vars
       PROVE  UNCHANGED sender
  BY <1>10 DEF Capture, RecordSyncControl, TakeBackup, ApplyStaged, StrayStage, SetAuthorised,
               vars, relayVars
<1>11. LanGrows \/ Restore
  BY LanSteps
<1>12. QED
  BY <1>1, <1>2, <1>4, <1>5, <1>7, <1>8, <1>9, <1>10, <1>11 DEF Next

\* The page that answers a question starts where the question does.
LEMMA AnswerFollows ==
  ASSUME DeliveryInv, OrderInv, NEW originals, Follows(originals, lan.applied)
  PROVE  Follows(ReceiptPage(originals), lan.applied)
<1>1. PICK a \in Nat \ {0}, b \in Nat :
        Seqs(originals) = a .. b /\ 1 .. (a - 1) \subseteq Seqs(lan.applied)
  BY DEF Follows
<1> DEFINE rows == {x \in cloud.applied : \E r \in originals : r.seq <= x.seq}
<1>2. Seqs(cloud.applied) = 1 .. cloud.applyCursor /\ cloud.applyCursor \in Nat
  BY DEF DeliveryInv, PostedExactlyOnce, Gapless, TypeOK, CloudState
<1>3. \A x, y \in rows : x.seq = y.seq => x = y
  BY DEF DeliveryInv, PostedExactlyOnce, Gapless
<1>4. \A x \in cloud.applied : x.seq \in 1 .. cloud.applyCursor
  BY <1>2 DEF Seqs
<1>5. CASE a > b
  <2>1. originals = {}
    <3>1. Seqs(originals) = {}
      BY <1>1, <1>5
    <3>2. QED
      BY <3>1 DEF Seqs
  <2>2. ReceiptPage(originals) = {}
    BY <2>1 DEF ReceiptPage, Lowest
  <2>3. QED
    BY <2>2, NothingFollows
<1>6. CASE a <= b
  <2>1. PICK first \in originals : first.seq = a
    <3>1. a \in Seqs(originals)
      BY <1>1, <1>6
    <3>2. QED
      BY <3>1 DEF Seqs
  <2>2. \A r \in originals : r.seq \in a .. b
    BY <1>1 DEF Seqs
  <2>3. rows = {x \in cloud.applied : a <= x.seq}
    <3>1. ASSUME NEW x \in cloud.applied PROVE (\E r \in originals : r.seq <= x.seq) <=> a <= x.seq
      BY <1>4, <2>1, <2>2
    <3>2. QED
      BY <3>1
  <2>4. Seqs(rows) = {i \in 1 .. cloud.applyCursor : a <= i}
    BY <1>2, <2>3 DEF Seqs
  <2>5. {i \in 1 .. cloud.applyCursor : a <= i} = a .. cloud.applyCursor
    OBVIOUS
  <2>6. ReceiptPage(originals) = Lowest(rows, StageLimit)
    BY DEF ReceiptPage
  <2> HIDE DEF rows
  <2>7. Seqs(rows) = a .. cloud.applyCursor
    BY <2>4, <2>5
  <2>8. PICK c \in Nat : Seqs(Lowest(rows, StageLimit)) = a .. c
    BY <1>2, <1>3, <2>7, LowestRun, LimitAssumption
  <2>9. QED
    BY <1>1, <2>6, <2>8 DEF Follows
<1>7. QED
  BY <1>1, <1>5, <1>6

\* A fetcher run keeps its place in the outbox.
LEMMA FetcherSteps ==
  ASSUME DeliveryInv, OrderInv, [Next]_vars
  PROVE  FetcherRuns'
<1>1. TypeOK
  BY DEF DeliveryInv
<1>2. ASSUME UNCHANGED fetcher, LanGrows PROVE FetcherRuns'
  BY <1>2, RunsKeepPlace DEF OrderInv, FetcherRuns
<1>3. CASE Restore
  BY <1>3, NothingFollows DEF Restore, IdleFetcher, FetcherRuns, Seqs
<1>4. ASSUME LanGrows, NEW f \in Fetchers, NEW originals, NEW answer,
             originals \subseteq lan'.outbox, Seqs(originals) \subseteq Seqs(lan'.staged),
             Follows(originals, lan'.applied), Follows(answer, lan'.applied),
             fetcher'[f].originals = originals, fetcher'[f].answer = answer,
             \A g \in Fetchers \ {f} : fetcher'[g] = fetcher[g]
      PROVE  FetcherRuns'
  BY <1>4, RunsKeepPlace DEF OrderInv, FetcherRuns
<1>5. ASSUME NEW f \in Fetchers, FetchStart(f), LanGrows PROVE FetcherRuns'
  <2>1. PICK rows : rows = Lowest(Unconfirmed, StageLimit)
    OBVIOUS
  <2>2. /\ lan' = lan /\ fetcher'[f].originals = rows /\ fetcher'[f].answer = {}
        /\ \A g \in Fetchers \ {f} : fetcher'[g] = fetcher[g]
    BY <1>1, <1>5, <2>1 DEF FetchStart, lanVars, TypeOK
  <2>3. /\ rows \subseteq lan.outbox /\ Seqs(rows) \subseteq Seqs(lan.staged)
        /\ Follows(rows, lan.applied)
    BY <1>1, <2>1, QuestionFollows
  <2>4. QED
    BY <1>4, <1>5, <2>2, <2>3, NothingFollows
<1>6. ASSUME NEW f \in Fetchers, CloudReceipts(f), LanGrows PROVE FetcherRuns'
  <2>1. PICK rows, page : rows = fetcher[f].originals /\ page = ReceiptPage(rows)
    OBVIOUS
  <2>2. /\ lan' = lan /\ fetcher'[f].originals = rows /\ fetcher'[f].answer = page
        /\ \A g \in Fetchers \ {f} : fetcher'[g] = fetcher[g]
    BY <1>1, <1>6, <2>1 DEF CloudReceipts, lanVars, TypeOK
  <2>3. /\ rows \subseteq lan.outbox /\ Seqs(rows) \subseteq Seqs(lan.staged)
        /\ Follows(rows, lan.applied)
    BY <2>1 DEF OrderInv, FetcherRuns
  <2>4. Follows(page, lan.applied)
    BY <2>1, <2>3, AnswerFollows
  <2>5. QED
    BY <1>4, <1>6, <2>2, <2>3, <2>4
<1>7. ASSUME NEW f \in Fetchers, FetchPersist(f) \/ FetchAbort(f), LanGrows PROVE FetcherRuns'
  <2>1. /\ fetcher'[f].originals = {} /\ fetcher'[f].answer = {}
        /\ \A g \in Fetchers \ {f} : fetcher'[g] = fetcher[g]
    BY <1>1, <1>7 DEF FetchPersist, FetchAbort, IdleFetcher, TypeOK
  <2>2. Seqs({}) \subseteq Seqs(lan'.staged)
    BY DEF Seqs
  <2>3. QED
    BY <1>4, <1>7, <2>1, <2>2, NothingFollows
<1>8. ASSUME NEW s \in Senders,
             \/ SenderStart(s) \/ SenderSend(s) \/ SenderFinish(s) \/ CloudStage(s)
             \/ SenderPersist(s) \/ SenderAbort(s)
      PROVE  UNCHANGED fetcher
  BY <1>8 DEF SenderStart, SenderSend, SenderFinish, CloudStage, SenderPersist, SenderAbort
<1>9. ASSUME \/ \E op \in Ops, doc \in Docs : Capture(op, doc)
             \/ \E pause \in BOOLEAN : RecordSyncControl(pause)
             \/ TakeBackup \/ ApplyStaged
             \/ \E env \in stray : StrayStage(env)
             \/ \E ok \in BOOLEAN : SetAuthorised(ok)
             \/ UNCHANGED vars
      PROVE  UNCHANGED fetcher
  BY <1>9 DEF Capture, RecordSyncControl, TakeBackup, ApplyStaged, StrayStage, SetAuthorised, vars
<1>10. LanGrows \/ Restore
  BY <1>1, LanSteps
<1>11. QED
  BY <1>2, <1>3, <1>5, <1>6, <1>7, <1>8, <1>9, <1>10 DEF Next

\* The order of receipts is inductive.
LEMMA OrderInvHolds == Spec => []OrderInv
<1>1. DeliveryInv /\ OrderInv /\ [Next]_vars => OrderInv'
  BY LanSteps, SenderSteps, FetcherSteps DEF OrderInv, DeliveryInv
<1>2. QED
  BY <1>1, OrderInit, DeliveryInvHolds, PTL DEF Spec

\* Receipts are recorded without gaps, applied receipts never overtake stage
\* receipts, and both describe the outbox of their own database, however many
\* relay and fetcher runs overlap (persistStageReceipts, persistAppliedReceipts).
THEOREM ReceiptsComeInOrder == Spec => []ReceiptsInOrder
<1>1. OrderInv => ReceiptsInOrder
  BY DEF OrderInv, ReceiptsInOrder, InOrder, Prefix
<1>2. QED
  BY <1>1, OrderInvHolds, PTL

-----------------------------------------------------------------------------
(* The handover.                                                           *)

\* An operation with an applied receipt on the LAN has one voucher.
LEMMA OneVoucher ==
  ASSUME DeliveryInv, NEW a \in lan.applied
  PROVE  Cardinality({v \in cloud.vouchers : v.op = a.op}) = 1
<1>1. a \in cloud.applied
  BY DEF DeliveryInv, ReceiptsSound
<1>2. cloud.vouchers = {[id |-> b.voucher, op |-> b.op] : b \in cloud.applied}
  BY DEF DeliveryInv, PostedExactlyOnce
<1>3. \A b \in cloud.applied : b.op = a.op => b = a
  BY <1>1 DEF DeliveryInv, PostedExactlyOnce
<1>4. {v \in cloud.vouchers : v.op = a.op} = {[id |-> a.voucher, op |-> a.op]}
  BY <1>1, <1>2, <1>3
<1>5. QED
  BY <1>4, FS_Singleton

\* An outbox is finite.
LEMMA FiniteOutbox ==
  ASSUME TypeOK, OrderInv
  PROVE  IsFiniteSet(lan.outbox)
<1> DEFINE f == [r \in lan.outbox |-> r.seq]
<1>1. \A r \in lan.outbox : r.seq \in 1 .. lan.counter
  BY DEF OrderInv, InOrder, Gapless, Seqs
<1>2. \A r, q \in lan.outbox : f[r] = f[q] => r = q
  BY DEF OrderInv, InOrder, Gapless
<1>3. f \in [lan.outbox -> 1 .. lan.counter]
  BY <1>1
<1> HIDE DEF f
<1>4. f \in Injection(lan.outbox, 1 .. lan.counter)
  BY <1>2, <1>3, Fun_IsInj
<1>5. IsFiniteSet(1 .. lan.counter)
  BY FS_Interval DEF TypeOK, LanState
<1>6. QED
  BY <1>4, <1>5, FS_Injection

\* When the preflight reports a handover as ready, every voucher of the outbox is
\* posted by exactly one voucher of the cloud ledger (summarizeLanEvidence).
THEOREM HandoverIsSound == Spec => []HandoverSound
<1>1. DeliveryInv /\ OrderInv => HandoverSound
  <2> SUFFICES ASSUME DeliveryInv, OrderInv, HandoverReady, NEW r \in lan.outbox
               PROVE  Cardinality({v \in cloud.vouchers : v.op = r.op}) = 1
    BY DEF HandoverSound
  <2> DEFINE confirmed == {q \in lan.outbox : \E a \in lan.applied : Evidence(a) = q}
  <2>1. IsFiniteSet(lan.outbox)
    BY FiniteOutbox DEF DeliveryInv
  <2>2. confirmed \in SUBSET lan.outbox
    OBVIOUS
  <2>3. Cardinality(lan.outbox) = Cardinality(confirmed)
    BY DEF HandoverReady
  <2> HIDE DEF confirmed
  <2>4. lan.outbox = confirmed
    BY <2>1, <2>2, <2>3, FS_Subset
  <2>5. PICK a \in lan.applied : Evidence(a) = r
    BY <2>4 DEF confirmed
  <2>6. a.op = r.op
    BY <2>5 DEF Evidence
  <2>7. QED
    BY <2>6, OneVoucher
<1>2. QED
  BY <1>1, DeliveryInvHolds, OrderInvHolds, PTL

-----------------------------------------------------------------------------
(* The refinement.                                                         *)

\* Vouchers are numbered as the rows they post.
SerialInv ==
  /\ cloud.serial = cloud.applyCursor
  /\ \A a \in cloud.applied : a.voucher = a.seq

\* A posting numbers its voucher as its row.
LEMMA SerialSteps ==
  ASSUME TypeOK, SerialInv, [Next]_vars
  PROVE  SerialInv'
<1>1. CASE /\ cloud'.serial = cloud.serial /\ cloud'.applyCursor = cloud.applyCursor
           /\ cloud'.applied = cloud.applied
  BY <1>1 DEF SerialInv
<1>2. ASSUME NEW env, StageCommits(env) PROVE SerialInv'
  BY <1>1, <1>2 DEF StageCommits, TypeOK, CloudState
<1>3. CASE ApplyStaged
  <2>1. PICK row \in cloud.staged :
           /\ row.seq = cloud.applyCursor + 1
           /\ PostWithReceipt([seq |-> row.seq, op |-> row.op, doc |-> row.doc,
                               voucher |-> cloud.serial + 1])
    BY <1>3 DEF ApplyStaged, NextInLine
  <2>2. PICK new : new = [seq |-> row.seq, op |-> row.op, doc |-> row.doc,
                          voucher |-> cloud.serial + 1]
    OBVIOUS
  <2>3. /\ cloud'.applied = cloud.applied \cup {new}
        /\ cloud'.applyCursor = new.seq
        /\ cloud'.serial = new.voucher
    BY <2>1, <2>2 DEF PostWithReceipt, TypeOK, CloudState
  <2>4. new.seq = new.voucher
    BY <2>1, <2>2 DEF SerialInv
  <2>5. QED
    BY <2>3, <2>4 DEF SerialInv
<1>4. ASSUME NEW s \in Senders, CloudStage(s) PROVE SerialInv'
  BY <1>1, <1>2, <1>4 DEF CloudStage, StageRefuses
<1>5. ASSUME NEW env \in stray, StrayStage(env) PROVE SerialInv'
  BY <1>1, <1>2, <1>5 DEF StrayStage, StageRefuses
<1>6. ASSUME NEW s \in Senders,
             SenderStart(s) \/ SenderSend(s) \/ SenderFinish(s) \/ SenderPersist(s) \/ SenderAbort(s)
      PROVE  UNCHANGED cloud
  BY <1>6 DEF SenderStart, SenderSend, SenderFinish, SenderPersist, SenderAbort, cloudVars
<1>7. ASSUME NEW f \in Fetchers,
             FetchStart(f) \/ CloudReceipts(f) \/ FetchPersist(f) \/ FetchAbort(f)
      PROVE  UNCHANGED cloud
  BY <1>7 DEF FetchStart, CloudReceipts, FetchPersist, FetchAbort, cloudVars
<1>8. ASSUME \/ \E op \in Ops, doc \in Docs : Capture(op, doc)
             \/ \E pause \in BOOLEAN : RecordSyncControl(pause)
             \/ TakeBackup \/ Restore
             \/ \E ok \in BOOLEAN : SetAuthorised(ok)
             \/ UNCHANGED vars
      PROVE  UNCHANGED cloud
  BY <1>8 DEF Capture, RecordSyncControl, TakeBackup, Restore, SetAuthorised, vars, cloudVars
<1>9. QED
  BY <1>1, <1>3, <1>4, <1>5, <1>6, <1>7, <1>8 DEF Next

\* What the refinement rests on.
ImplInv == DeliveryInv /\ OrderInv /\ SerialInv

\* The invariant of the refinement is inductive.
LEMMA ImplInvHolds == Spec => []ImplInv
<1>1. Init => SerialInv
  BY DEF Init, EmptyCloud, SerialInv
<1>2. DeliveryInv /\ SerialInv /\ [Next]_vars => SerialInv'
  BY SerialSteps DEF DeliveryInv
<1>3. QED
  BY <1>1, <1>2, DeliveryInvHolds, OrderInvHolds, PTL DEF Spec, ImplInv

\* The row and the voucher the mapping chooses for a position.
LEMMA Chosen ==
  ASSUME ImplInv
  PROVE  /\ cloud.stageCursor \in Nat /\ cloud.serial \in Nat
         /\ cloud.serial <= cloud.stageCursor
         /\ \A i \in 1 .. cloud.stageCursor :
              RowAt(i) \in cloud.staged /\ RowAt(i) \in Row /\ RowAt(i).seq = i
         /\ \A r \in cloud.staged : r.seq \in 1 .. cloud.stageCursor /\ RowAt(r.seq) = r
         /\ \A i \in 1 .. cloud.serial : VoucherAt(i) \in cloud.vouchers /\ VoucherAt(i).id = i
         /\ \A v \in cloud.vouchers : v.id \in 1 .. cloud.serial /\ VoucherAt(v.id) = v
<1>1. /\ cloud.stageCursor \in Nat /\ cloud.serial \in Nat
      /\ cloud.serial <= cloud.stageCursor
      /\ cloud.staged \subseteq Row
      /\ cloud.serial = cloud.applyCursor
  BY DEF ImplInv, SerialInv, DeliveryInv, TypeOK, CloudState, PostedExactlyOnce
<1>2. /\ Seqs(cloud.staged) = 1 .. cloud.stageCursor
      /\ \A r, q \in cloud.staged : r.seq = q.seq => r = q
  BY DEF ImplInv, DeliveryInv, StagingGapless, Gapless
<1>3. ASSUME NEW i \in 1 .. cloud.stageCursor
      PROVE  RowAt(i) \in cloud.staged /\ RowAt(i).seq = i
  <2>1. \E r \in cloud.staged : r.seq = i
    BY <1>2 DEF Seqs
  <2>2. QED
    BY <2>1 DEF RowAt
<1>4. ASSUME NEW r \in cloud.staged PROVE r.seq \in 1 .. cloud.stageCursor /\ RowAt(r.seq) = r
  <2>1. r.seq \in 1 .. cloud.stageCursor
    BY <1>2 DEF Seqs
  <2>2. QED
    BY <1>2, <1>3, <2>1
<1>5. /\ Seqs(cloud.applied) = 1 .. cloud.serial
      /\ \A a \in cloud.applied : a.voucher = a.seq
      /\ \A a, b \in cloud.applied : a.voucher = b.voucher => a = b
      /\ cloud.vouchers = {[id |-> a.voucher, op |-> a.op] : a \in cloud.applied}
  BY DEF ImplInv, SerialInv, DeliveryInv, PostedExactlyOnce, Gapless
<1>6. ASSUME NEW i \in 1 .. cloud.serial
      PROVE  VoucherAt(i) \in cloud.vouchers /\ VoucherAt(i).id = i
  <2>1. PICK a \in cloud.applied : a.seq = i
    BY <1>5 DEF Seqs
  <2>2. [id |-> a.voucher, op |-> a.op] \in cloud.vouchers /\ a.voucher = i
    BY <1>5, <2>1
  <2>3. \E v \in cloud.vouchers : v.id = i
    BY <2>2
  <2>4. QED
    BY <2>3 DEF VoucherAt
<1>7. \A v, w \in cloud.vouchers : v.id = w.id => v = w
  BY <1>5
<1>8. ASSUME NEW v \in cloud.vouchers PROVE v.id \in 1 .. cloud.serial /\ VoucherAt(v.id) = v
  <2>1. PICK a \in cloud.applied : v = [id |-> a.voucher, op |-> a.op]
    BY <1>5
  <2>2. v.id \in 1 .. cloud.serial
    BY <1>5, <2>1 DEF Seqs
  <2>3. QED
    BY <1>6, <1>7, <2>2
<1>9. QED
  BY <1>1, <1>3, <1>4, <1>6, <1>8

\* Positions the abstract order already has keep their row.
LEMMA RowsStay ==
  ASSUME ImplInv, ImplInv', CloudGrows, NEW i \in 1 .. cloud.stageCursor
  PROVE  RowAt(i)' = RowAt(i)
<1>1. RowAt(i) \in cloud'.staged /\ RowAt(i).seq = i
  BY Chosen DEF CloudGrows
<1>2. \A r, q \in cloud'.staged : r.seq = q.seq => r = q
  BY DEF ImplInv, DeliveryInv, StagingGapless, Gapless
<1>3. PICK r : r = RowAt(i)
  OBVIOUS
<1>4. RowAt(i)' = CHOOSE q \in cloud'.staged : q.seq = i
  BY DEF RowAt
<1>5. (CHOOSE q \in cloud'.staged : q.seq = i) = r
  BY <1>1, <1>2, <1>3
<1>6. QED
  BY <1>3, <1>4, <1>5

\* A table of positions is a sequence.
LEMMA TableIsSeq ==
  ASSUME NEW S, NEW n \in Nat, NEW f \in [1 .. n -> S]
  PROVE  f \in Seq(S) /\ Len(f) = n
<1>1. f \in Seq(S)
  BY SeqDef
<1>2. 1 .. Len(f) = 1 .. n /\ Len(f) \in Nat
  BY <1>1, LenProperties
<1>3. QED
  BY <1>1, <1>2

\* A longer sequence that agrees on the positions of a shorter one extends it.
LEMMA AgreesOnPrefix ==
  ASSUME NEW S, NEW s \in Seq(S), NEW t \in Seq(S), Len(s) <= Len(t),
         \A i \in 1 .. Len(s) : t[i] = s[i]
  PROVE  SubSeq(t, 1, Len(s)) = s
<1>1. Len(s) \in Nat /\ Len(t) \in Nat /\ \A i \in 1 .. Len(s) : t[i] \in S
  BY LenProperties, ElementOfSeq
<1>2. /\ SubSeq(t, 1, Len(s)) \in Seq(S)
      /\ Len(SubSeq(t, 1, Len(s))) = IF 1 <= Len(s) THEN Len(s) - 1 + 1 ELSE 0
      /\ \A i \in 1 .. Len(s) - 1 + 1 : SubSeq(t, 1, Len(s))[i] = t[1 + i - 1]
  <2>1. 1 \in Int /\ Len(s) \in Int
    BY <1>1
  <2>2. QED
    BY <1>1, <2>1, SubSeqProperties
<1>3. PICK u : u = SubSeq(t, 1, Len(s))
  OBVIOUS
<1>4. Len(u) = Len(s) /\ \A i \in 1 .. Len(s) : u[i] = t[i]
  BY <1>1, <1>2, <1>3
<1>5. QED
  BY <1>2, <1>3, <1>4, SeqEqual

\* A staging transaction accepts a batch, or nothing new.
LEMMA StageImplements ==
  ASSUME ImplInv, ImplInv', CloudGrows, NEW env \in SUBSET Row, StageCommits(env),
         Seqs(lan'.applied) = Seqs(lan.applied)
  PROVE  Delivery!Accept \/ UNCHANGED Delivery!vars
<1> DEFINE old == [i \in 1 .. cloud.stageCursor |-> <<RowAt(i).op, RowAt(i).doc>>]
           new == [i \in 1 .. cloud'.stageCursor |-> <<RowAt(i)'.op, RowAt(i)'.doc>>]
<1>1. PICK last \in StageEnds(env) :
         /\ StageAccepts(env, last)
         /\ cloud' = [cloud EXCEPT !.staged = cloud.staged \cup NewEvents(env),
                                   !.stageCursor = last]
  BY DEF StageCommits
<1>2. /\ cloud'.stageCursor = last
      /\ cloud'.vouchers = cloud.vouchers
      /\ cloud'.serial = cloud.serial
  BY <1>1 DEF ImplInv, DeliveryInv, TypeOK, CloudState
<1>3. last \in Nat /\ cloud.stageCursor \in Nat /\ last >= cloud.stageCursor
  BY <1>1, Chosen DEF StageEnds, Seqs, Row, StageAccepts
<1>4. \A i \in 1 .. last : /\ RowAt(i)' \in Row /\ RowAt(i)' \in cloud'.staged
                           /\ RowAt(i)'.seq = i
  <2>1. ASSUME NEW i \in 1 .. last PROVE \E r \in cloud'.staged : r.seq = i
    BY <1>2, <2>1 DEF ImplInv, DeliveryInv, StagingGapless, Gapless, Seqs
  <2>2. cloud'.staged \subseteq Row
    BY DEF ImplInv, DeliveryInv, TypeOK, CloudState
  <2>3. QED
    BY <2>1, <2>2 DEF RowAt
<1>5. \A i \in 1 .. cloud.stageCursor : RowAt(i)' = RowAt(i)
  BY RowsStay
<1>6. /\ [i \in 1 .. cloud'.serial |-> VoucherAt(i)'.op] = [i \in 1 .. cloud.serial |-> VoucherAt(i).op]
  BY <1>2 DEF VoucherAt
<1>7. new \in Seq(Ops \X Docs) /\ Len(new) = last
  <2>1. \A i \in 1 .. last : <<RowAt(i)'.op, RowAt(i)'.doc>> \in Ops \X Docs
    BY <1>4 DEF Row
  <2>2. new \in [1 .. last -> Ops \X Docs]
    BY <1>2, <2>1
  <2> HIDE DEF new
  <2>3. QED
    BY <1>3, <2>2, TableIsSeq
<1>8. old \in Seq(Ops \X Docs) /\ Len(old) = cloud.stageCursor
  <2>1. \A i \in 1 .. cloud.stageCursor : <<RowAt(i).op, RowAt(i).doc>> \in Ops \X Docs
    BY Chosen DEF Row
  <2>2. old \in [1 .. cloud.stageCursor -> Ops \X Docs]
    BY <2>1
  <2> HIDE DEF old
  <2>3. QED
    BY <1>3, <2>2, TableIsSeq
<1>9. \A i \in 1 .. cloud.stageCursor : new[i] = old[i]
  BY <1>2, <1>3, <1>5
<1>10. \A i, j \in 1 .. last : i # j => new[i][1] # new[j][1] /\ new[i][2] # new[j][2]
  <2>1. ASSUME NEW i \in 1 .. last, NEW j \in 1 .. last, i # j
        PROVE  RowAt(i)'.op # RowAt(j)'.op /\ RowAt(i)'.doc # RowAt(j)'.doc
    BY <1>4, <2>1 DEF ImplInv, DeliveryInv, StagingGapless
  <2>2. QED
    BY <1>2, <2>1
<1> HIDE DEF old, new
<1>11. CASE last > cloud.stageCursor
  <2>1. SubSeq(new, 1, Len(old)) = old
    BY <1>3, <1>7, <1>8, <1>9, <1>11, AgreesOnPrefix
  <2>2. QED
    BY <1>6, <1>7, <1>8, <1>10, <1>11, <2>1 DEF Delivery!Accept, old, new
<1>12. CASE last = cloud.stageCursor
  <2>1. new = old
    BY <1>2, <1>5, <1>12 DEF old, new
  <2>2. QED
    BY <1>6, <2>1 DEF Delivery!vars, old, new
<1>13. QED
  BY <1>3, <1>11, <1>12

\* An apply posts the next accepted row.
LEMMA PostImplements ==
  ASSUME ImplInv, ImplInv', ApplyStaged
  PROVE  Delivery!Post
<1> DEFINE ledger == [i \in 1 .. cloud.serial |-> VoucherAt(i).op]
           next == [i \in 1 .. cloud'.serial |-> VoucherAt(i)'.op]
           accepted == [i \in 1 .. cloud.stageCursor |-> <<RowAt(i).op, RowAt(i).doc>>]
<1>1. PICK row \in cloud.staged :
         /\ row.seq = cloud.applyCursor + 1
         /\ PostWithReceipt([seq |-> row.seq, op |-> row.op, doc |-> row.doc,
                             voucher |-> cloud.serial + 1])
  BY DEF ApplyStaged, NextInLine
<1>2. PICK new : new = [id |-> cloud.serial + 1, op |-> row.op]
  OBVIOUS
<1>3. /\ cloud'.staged = cloud.staged
      /\ cloud'.stageCursor = cloud.stageCursor
      /\ cloud'.serial = cloud.serial + 1
      /\ cloud'.vouchers = cloud.vouchers \cup {new}
      /\ lan' = lan
  BY <1>1, <1>2 DEF PostWithReceipt, ApplyStaged, ImplInv, DeliveryInv, TypeOK, CloudState, lanVars
<1>4. cloud.serial \in Nat /\ cloud.stageCursor \in Nat
  BY Chosen
<1>5. row.seq = cloud.serial + 1 /\ row.seq \in 1 .. cloud.stageCursor /\ RowAt(row.seq) = row
  BY <1>1, Chosen DEF ImplInv, SerialInv
<1>6. \A v \in cloud.vouchers : v.id \in 1 .. cloud.serial /\ VoucherAt(v.id) = v
  BY Chosen
<1>7. \A i \in 1 .. cloud.serial : VoucherAt(i) \in cloud.vouchers /\ VoucherAt(i).id = i
  BY Chosen
<1>8. new.id = cloud.serial + 1 /\ new.op = row.op
  BY <1>2
<1>9. \A i \in 1 .. cloud.serial : VoucherAt(i)' = VoucherAt(i)
  <2>1. ASSUME NEW i \in 1 .. cloud.serial PROVE VoucherAt(i)' = VoucherAt(i)
    <3>1. VoucherAt(i)' = CHOOSE v \in cloud.vouchers \cup {new} : v.id = i
      BY <1>3 DEF VoucherAt
    <3>2. PICK v : v = VoucherAt(i)
      OBVIOUS
    <3>3. \A w \in cloud.vouchers \cup {new} : w.id = i <=> w = v
      BY <1>4, <1>6, <1>7, <1>8, <3>2
    <3>4. v \in cloud.vouchers \cup {new}
      BY <1>7, <3>2
    <3>5. (CHOOSE w \in cloud.vouchers \cup {new} : w.id = i) = v
      BY <3>3, <3>4
    <3>6. QED
      BY <3>1, <3>2, <3>5
  <2>2. QED
    BY <2>1
<1>10. PICK last : last = cloud.serial + 1
  OBVIOUS
<1>11. VoucherAt(last)' = new
  <2>1. VoucherAt(last)' = CHOOSE v \in cloud.vouchers \cup {new} : v.id = last
    BY <1>3 DEF VoucherAt
  <2>2. \A v \in cloud.vouchers \cup {new} : v.id = last <=> v = new
    BY <1>4, <1>6, <1>8, <1>10
  <2>3. (CHOOSE v \in cloud.vouchers \cup {new} : v.id = last) = new
    BY <2>2
  <2>4. QED
    BY <2>1, <2>3
<1>12. ledger \in Seq(Ops) /\ Len(ledger) = cloud.serial
  <2>1. \A i \in 1 .. cloud.serial : VoucherAt(i).op \in Ops
    BY <1>7 DEF ImplInv, DeliveryInv, TypeOK, CloudState, Voucher
  <2>2. ledger \in [1 .. cloud.serial -> Ops]
    BY <2>1
  <2> HIDE DEF ledger
  <2>3. QED
    BY <1>4, <2>2, TableIsSeq
<1>13. next \in Seq(Ops) /\ Len(next) = last
  <2>1. row.op \in Ops
    BY DEF ImplInv, DeliveryInv, TypeOK, CloudState, Row
  <2>2. \A i \in 1 .. last : VoucherAt(i)'.op \in Ops
    BY <1>4, <1>7, <1>8, <1>9, <1>10, <1>11, <2>1
       DEF ImplInv, DeliveryInv, TypeOK, CloudState, Voucher
  <2>3. next \in [1 .. last -> Ops]
    BY <1>3, <1>10, <2>2
  <2> HIDE DEF next
  <2>4. QED
    BY <1>4, <1>10, <2>3, TableIsSeq
<1>14. accepted \in Seq(Ops \X Docs) /\ Len(accepted) = cloud.stageCursor
  <2>1. \A i \in 1 .. cloud.stageCursor : <<RowAt(i).op, RowAt(i).doc>> \in Ops \X Docs
    BY Chosen DEF Row
  <2>2. accepted \in [1 .. cloud.stageCursor -> Ops \X Docs]
    BY <2>1
  <2> HIDE DEF accepted
  <2>3. QED
    BY <1>4, <2>2, TableIsSeq
<1>15. accepted[last][1] = row.op /\ row.op \in Ops
  BY <1>5, <1>10 DEF ImplInv, DeliveryInv, TypeOK, CloudState, Row
<1>16. /\ \A i \in 1 .. cloud.serial : next[i] = ledger[i]
       /\ next[last] = row.op
  BY <1>3, <1>4, <1>8, <1>9, <1>10, <1>11
<1>17. [i \in 1 .. cloud'.stageCursor |-> <<RowAt(i)'.op, RowAt(i)'.doc>>] = accepted
  BY <1>3 DEF RowAt
<1>18. Seqs(lan'.applied) = Seqs(lan.applied)
  BY <1>3
<1> HIDE DEF ledger, next, accepted
<1>19. next = Append(ledger, row.op)
  <2>1. /\ Append(ledger, row.op) \in Seq(Ops)
        /\ Len(Append(ledger, row.op)) = cloud.serial + 1
        /\ \A i \in 1 .. cloud.serial : Append(ledger, row.op)[i] = ledger[i]
        /\ Append(ledger, row.op)[cloud.serial + 1] = row.op
    BY <1>12, <1>15, AppendProperties
  <2>2. \A i \in 1 .. last : Append(ledger, row.op)[i] = next[i]
    BY <1>4, <1>10, <1>16, <2>1
  <2>3. QED
    BY <1>10, <1>13, <2>1, <2>2, SeqEqual
<1>20. Len(ledger) < Len(accepted)
  BY <1>4, <1>5, <1>12, <1>14
<1>21. next = Append(ledger, accepted[Len(ledger) + 1][1])
  BY <1>10, <1>12, <1>15, <1>19
<1>22. QED
  BY <1>17, <1>18, <1>20, <1>21 DEF Delivery!Post, ledger, next, accepted

\* What the LAN has confirmed is a prefix of the ledger.
ConfirmedIsPrefix == \E k \in 0 .. cloud.serial : Seqs(lan.applied) = 1 .. k

\* The applied receipts are behind the postings, and a backup's behind both.
LEMMA ConfirmedPrefix ==
  ASSUME ImplInv
  PROVE  ConfirmedIsPrefix /\ Seqs(backup.applied) \subseteq Seqs(lan.applied)
<1>1. PICK k \in 0 .. lan.counter : Seqs(lan.applied) = 1 .. k
  BY DEF ImplInv, OrderInv, InOrder, Prefix
<1>2. Seqs(lan.applied) \subseteq 1 .. cloud.serial
  <2>1. lan.applied \subseteq cloud.applied /\ Seqs(cloud.applied) = 1 .. cloud.serial
    BY DEF ImplInv, SerialInv, DeliveryInv, ReceiptsSound, PostedExactlyOnce, Gapless
  <2>2. QED
    BY <2>1 DEF Seqs
<1>3. cloud.serial \in Nat /\ lan.counter \in Nat
  BY Chosen DEF ImplInv, DeliveryInv, TypeOK, LanState
<1>4. k \in 0 .. cloud.serial
  <2>1. CASE k = 0
    BY <1>3, <2>1
  <2>2. CASE k # 0
    <3>1. k \in 1 .. k
      BY <1>3, <2>2
    <3>2. QED
      BY <1>1, <1>2, <1>3, <3>1
  <2>3. QED
    BY <2>1, <2>2
<1>5. Seqs(backup.applied) \subseteq Seqs(lan.applied)
  BY DEF ImplInv, OrderInv, Seqs
<1>6. QED
  BY <1>1, <1>4, <1>5 DEF ConfirmedIsPrefix

\* The same after a step.
LEMMA ConfirmedPrefixNext == ImplInv' => ConfirmedIsPrefix'
<1>1. ImplInv => ConfirmedIsPrefix
  BY ConfirmedPrefix
<1>2. QED
  BY <1>1, PTL

\* The LAN learns of a longer or, after a restore, a shorter prefix.
LEMMA ConfirmImplements ==
  ASSUME ImplInv, ImplInv', UNCHANGED cloud,
         \/ Seqs(lan.applied) \subseteq Seqs(lan'.applied)
         \/ Seqs(lan'.applied) \subseteq Seqs(lan.applied)
  PROVE  Delivery!Confirm \/ Delivery!Forget \/ UNCHANGED Delivery!vars
<1> DEFINE ledger == [i \in 1 .. cloud.serial |-> VoucherAt(i).op]
           accepted == [i \in 1 .. cloud.stageCursor |-> <<RowAt(i).op, RowAt(i).doc>>]
<1>1. PICK k \in 0 .. cloud.serial : Seqs(lan'.applied) = 1 .. k
  BY ConfirmedPrefixNext DEF ConfirmedIsPrefix
<1>2. /\ [i \in 1 .. cloud'.serial |-> VoucherAt(i)'.op] = ledger
      /\ [i \in 1 .. cloud'.stageCursor |-> <<RowAt(i)'.op, RowAt(i)'.doc>>] = accepted
  BY DEF VoucherAt, RowAt
<1>3. cloud.serial \in Nat
  BY Chosen
<1>4. Len(ledger) = cloud.serial
  <2>1. \A i \in 1 .. cloud.serial : VoucherAt(i).op \in Ops
    BY Chosen DEF ImplInv, DeliveryInv, TypeOK, CloudState, Voucher
  <2>2. ledger \in [1 .. cloud.serial -> Ops]
    BY <2>1
  <2> HIDE DEF ledger
  <2>3. QED
    BY <1>3, <2>2, TableIsSeq
<1> HIDE DEF ledger, accepted
<1>5. CASE Seqs(lan'.applied) \subseteq Seqs(lan.applied)
  BY <1>1, <1>2, <1>4, <1>5 DEF Delivery!Forget, ledger, accepted
<1>6. CASE Seqs(lan.applied) \subseteq Seqs(lan'.applied) /\ k # 0
  <2>1. k \in 1 .. Len(ledger)
    BY <1>3, <1>4, <1>6
  <2>2. QED
    BY <1>1, <1>2, <1>6, <2>1 DEF Delivery!Confirm, ledger, accepted
<1>7. CASE Seqs(lan.applied) \subseteq Seqs(lan'.applied) /\ k = 0
  <2>1. Seqs(lan'.applied) = {}
    BY <1>1, <1>7
  <2>2. Seqs(lan'.applied) = Seqs(lan.applied)
    BY <1>7, <2>1
  <2>3. QED
    BY <1>2, <2>2 DEF Delivery!vars, ledger, accepted
<1>8. QED
  BY <1>5, <1>6, <1>7

\* A step that changes neither database is a step of none.
LEMMA StutterImplements ==
  ASSUME UNCHANGED <<lan, cloud>>
  PROVE  UNCHANGED Delivery!vars
BY DEF Delivery!vars, RowAt, VoucherAt

\* Every step is a step of the promise, or none.
LEMMA StepImplements ==
  ASSUME ImplInv, ImplInv', [Next]_vars
  PROVE  [Delivery!Next]_(Delivery!vars)
<1> USE DEF Delivery!Next
<1>1. TypeOK /\ CloudGrows
  BY CloudSteps DEF ImplInv, DeliveryInv, CloudInv, SerialBounds, AnswersSound
<1>2. ASSUME UNCHANGED cloud, LanGrows PROVE [Delivery!Next]_(Delivery!vars)
  <2>1. Seqs(lan.applied) \subseteq Seqs(lan'.applied)
    BY <1>2 DEF LanGrows, Seqs
  <2>2. QED
    BY <1>2, <2>1, ConfirmImplements
<1>3. CASE Restore
  <2>1. UNCHANGED cloud /\ lan' = backup
    BY <1>3 DEF Restore, cloudVars
  <2>2. Seqs(lan'.applied) \subseteq Seqs(lan.applied)
    BY <2>1, ConfirmedPrefix
  <2>3. QED
    BY <2>1, <2>2, ConfirmImplements
<1>4. CASE ApplyStaged
  BY <1>4, PostImplements
<1>5. ASSUME NEW env \in SUBSET Row, StageCommits(env), UNCHANGED lan
      PROVE  [Delivery!Next]_(Delivery!vars)
  BY <1>1, <1>5, StageImplements
<1>6. CASE UNCHANGED <<lan, cloud>>
  BY <1>6, StutterImplements
<1>7. ASSUME NEW s \in Senders, CloudStage(s) PROVE [Delivery!Next]_(Delivery!vars)
  <2>1. sender[s].envelope \in SUBSET Row /\ UNCHANGED lan
    BY <1>1, <1>7 DEF TypeOK, SenderState, CloudStage, lanVars
  <2>2. QED
    BY <1>5, <1>6, <1>7, <2>1 DEF CloudStage, StageRefuses
<1>8. ASSUME NEW env \in stray, StrayStage(env) PROVE [Delivery!Next]_(Delivery!vars)
  <2>1. env \in SUBSET Row /\ UNCHANGED lan
    BY <1>1, <1>8 DEF TypeOK, StrayStage, lanVars
  <2>2. QED
    BY <1>5, <1>6, <1>8, <2>1 DEF StrayStage, StageRefuses
<1>9. ASSUME \/ \E op \in Ops, doc \in Docs : Capture(op, doc)
             \/ \E pause \in BOOLEAN : RecordSyncControl(pause)
             \/ TakeBackup
             \/ \E ok \in BOOLEAN : SetAuthorised(ok)
             \/ UNCHANGED vars
      PROVE  UNCHANGED cloud
  BY <1>9 DEF Capture, RecordSyncControl, TakeBackup, SetAuthorised, vars, cloudVars
<1>10. ASSUME NEW s \in Senders,
              SenderStart(s) \/ SenderSend(s) \/ SenderFinish(s) \/ SenderPersist(s) \/ SenderAbort(s)
       PROVE  UNCHANGED cloud
  BY <1>10 DEF SenderStart, SenderSend, SenderFinish, SenderPersist, SenderAbort, cloudVars
<1>11. ASSUME NEW f \in Fetchers,
              FetchStart(f) \/ CloudReceipts(f) \/ FetchPersist(f) \/ FetchAbort(f)
       PROVE  UNCHANGED cloud
  BY <1>11 DEF FetchStart, CloudReceipts, FetchPersist, FetchAbort, cloudVars
<1>12. LanGrows \/ Restore
  BY <1>1, LanSteps DEF ImplInv
<1>13. QED
  BY <1>2, <1>3, <1>4, <1>7, <1>8, <1>9, <1>10, <1>11, <1>12 DEF Next

\* The empty databases are the empty promise.
LEMMA InitImplements == Init => Delivery!Init
<1> SUFFICES ASSUME Init PROVE Delivery!Init
  OBVIOUS
<1>1. cloud.stageCursor = 0 /\ cloud.serial = 0 /\ Seqs(lan.applied) = {}
  BY DEF Init, EmptyCloud, EmptyLan, Seqs
<1>2. \A f : f \in [1 .. 0 -> {}] => f = << >>
  <2>1. ASSUME NEW f \in [1 .. 0 -> {}] PROVE f = << >>
    <3>1. f \in Seq({}) /\ Len(f) = 0
      BY TableIsSeq
    <3>2. QED
      BY <3>1, EmptySeq
  <2>2. QED
    BY <2>1
<1>3. [i \in 1 .. cloud.stageCursor |-> <<RowAt(i).op, RowAt(i).doc>>] = << >>
  BY <1>1, <1>2
<1>4. [i \in 1 .. cloud.serial |-> VoucherAt(i).op] = << >>
  BY <1>1, <1>2
<1>5. QED
  BY <1>1, <1>3, <1>4 DEF Delivery!Init

\* The pipeline delivers in order and exactly once: with lost, late and repeated
\* requests, overlapping runs and restored LAN databases, every behaviour is one
\* of OrderedDelivery.
THEOREM DeliveryIsOrdered == Spec => ImplementsOrderedDelivery
<1>1. ImplInv /\ ImplInv' /\ [Next]_vars => [Delivery!Next]_(Delivery!vars)
  BY StepImplements
<1>2. QED
  BY <1>1, InitImplements, ImplInvHolds, PTL DEF Spec, ImplementsOrderedDelivery, Delivery!Spec
=============================================================================
