------------------------ MODULE EdgeVoucherSyncProofs ------------------------
(***************************************************************************)
(* Proofs about EdgeVoucherSync, for every value of its constants.         *)
(***************************************************************************)
EXTENDS EdgeVoucherSync, TLAPS

\* A committed staging transaction leaves a cloud database of the right type.
LEMMA StageTypes ==
  ASSUME cloud \in CloudState, NEW env \in SUBSET Row, StageCommits(env)
  PROVE  cloud' \in CloudState
<1>1. PICK last \in StageEnds(env) :
         cloud' = [cloud EXCEPT !.staged = cloud.staged \cup NewEvents(env), !.stageCursor = last]
  BY DEF StageCommits
<1>2. last \in Nat
  BY DEF StageEnds, Seqs, CloudState, Row
<1>3. NewEvents(env) \subseteq Row
  BY DEF NewEvents
<1>4. QED
  BY <1>1, <1>2, <1>3 DEF CloudState

\* The initial state is well typed.
LEMMA InitType == Init => TypeOK
<1> SUFFICES ASSUME Init PROVE TypeOK
  OBVIOUS
<1> USE DEF Init
<1>1. lan \in LanState /\ backup \in LanState
  BY DEF EmptyLan, LanState
<1>2. restores \in Nat /\ authorised \in BOOLEAN /\ stray \subseteq SUBSET Row
  OBVIOUS
<1>3. sender \in [Senders -> SenderState]
  BY DEF IdleSender, SenderState
<1>4. fetcher \in [Fetchers -> FetcherState]
  BY DEF IdleFetcher, FetcherState
<1>5. cloud \in CloudState
  BY DEF EmptyCloud, CloudState
<1>6. QED
  BY <1>1, <1>2, <1>3, <1>4, <1>5 DEF TypeOK

\* Every step keeps the types.
LEMMA NextType == TypeOK /\ [Next]_vars => TypeOK'
<1> SUFFICES ASSUME TypeOK, [Next]_vars PROVE TypeOK'
  OBVIOUS
<1> USE DEF TypeOK, lanVars, relayVars, cloudVars
<1>1. ASSUME NEW op \in Ops, NEW doc \in Docs, Capture(op, doc) PROVE TypeOK'
  <2>1. [seq |-> lan.counter + 1, op |-> op, doc |-> doc] \in Row
    BY DEF Row, LanState
  <2>2. lan.outbox \cup {[seq |-> lan.counter + 1, op |-> op, doc |-> doc]} \in SUBSET Row
    BY <2>1 DEF LanState
  <2>3. lan.counter + 1 \in Nat
    BY DEF LanState
  <2>4. lan' = [lan EXCEPT
                  !.counter = lan.counter + 1,
                  !.outbox = lan.outbox \cup {[seq |-> lan.counter + 1, op |-> op, doc |-> doc]}]
    BY <1>1 DEF Capture, NextSequence
  <2>5. lan' \in LanState
    BY <2>2, <2>3, <2>4 DEF LanState
  <2>6. QED
    BY <1>1, <2>5 DEF Capture
<1>2. ASSUME NEW pause \in BOOLEAN, RecordSyncControl(pause) PROVE TypeOK'
  BY <1>2 DEF RecordSyncControl, LanState
<1>3. CASE TakeBackup
  BY <1>3 DEF TakeBackup
<1>4. CASE Restore
  BY <1>4 DEF Restore, IdleSender, IdleFetcher, SenderState, FetcherState
<1>5. ASSUME NEW s \in Senders, SenderStart(s) PROVE TypeOK'
  BY <1>5 DEF SenderStart, SenderState
<1>6. ASSUME NEW s \in Senders, SenderSend(s) PROVE TypeOK'
  <2>1. NextBatch \subseteq Row
    BY DEF NextBatch, Lowest, LanState
  <2>2. QED
    BY <1>6, <2>1 DEF SenderSend, SenderState
<1>7. ASSUME NEW s \in Senders, SenderFinish(s) PROVE TypeOK'
  BY <1>7 DEF SenderFinish, IdleSender, SenderState
<1>8. ASSUME NEW s \in Senders, CloudStage(s) PROVE TypeOK'
  <2>1. sender[s].envelope \subseteq Row
    BY DEF SenderState
  <2>2. cloud' \in CloudState
    BY <1>8, <2>1, StageTypes DEF CloudStage, StageRefuses
  <2>3. sender' \in [Senders -> SenderState]
    BY <1>8 DEF CloudStage, IdleSender, SenderState
  <2>4. QED
    BY <1>8, <2>2, <2>3 DEF CloudStage
<1>9. ASSUME NEW s \in Senders, SenderPersist(s) PROVE TypeOK'
  <2>1. lan' \in LanState
    BY <1>9 DEF SenderPersist, LanState, SenderState
  <2>2. sender' \in [Senders -> SenderState]
    BY <1>9 DEF SenderPersist, SenderState
  <2>3. QED
    BY <1>9, <2>1, <2>2 DEF SenderPersist
<1>10. ASSUME NEW s \in Senders, SenderAbort(s) PROVE TypeOK'
  BY <1>10 DEF SenderAbort, IdleSender, SenderState
<1>11. ASSUME NEW env \in stray, StrayStage(env) PROVE TypeOK'
  <2>1. cloud' \in CloudState
    BY <1>11, StageTypes DEF StrayStage, StageRefuses
  <2>2. QED
    BY <1>11, <2>1 DEF StrayStage
<1>12. CASE ApplyStaged
  <2>1. PICK row \in cloud.staged :
           /\ NextInLine(row)
           /\ PostWithReceipt([seq |-> row.seq, op |-> row.op, doc |-> row.doc,
                               voucher |-> cloud.serial + 1])
    BY <1>12 DEF ApplyStaged
  <2> DEFINE receipt == [seq |-> row.seq, op |-> row.op, doc |-> row.doc,
                         voucher |-> cloud.serial + 1]
  <2>2. receipt \in Receipt
    BY DEF Receipt, Row, CloudState
  <2>3. [id |-> receipt.voucher, op |-> receipt.op] \in Voucher
    BY <2>2 DEF Receipt, Voucher
  <2>4. receipt.seq \in Nat /\ receipt.voucher \in Nat
    BY <2>2 DEF Receipt
  <2>5. cloud' = [cloud EXCEPT
                    !.serial = receipt.voucher,
                    !.vouchers = cloud.vouchers \cup {[id |-> receipt.voucher, op |-> receipt.op]},
                    !.applied = cloud.applied \cup {receipt},
                    !.applyCursor = receipt.seq]
    BY <2>1 DEF PostWithReceipt
  <2> HIDE DEF receipt
  <2>6. cloud' \in CloudState
    BY <2>2, <2>3, <2>4, <2>5 DEF CloudState
  <2>7. QED
    BY <1>12, <2>6 DEF ApplyStaged
<1>13. ASSUME NEW ok \in BOOLEAN, SetAuthorised(ok) PROVE TypeOK'
  BY <1>13 DEF SetAuthorised
<1>14. ASSUME NEW f \in Fetchers, FetchStart(f) PROVE TypeOK'
  <2>1. Lowest(Unconfirmed, StageLimit) \subseteq Row
    BY DEF Lowest, Unconfirmed, LanState
  <2>2. QED
    BY <1>14, <2>1 DEF FetchStart, FetcherState
<1>15. ASSUME NEW f \in Fetchers, CloudReceipts(f) PROVE TypeOK'
  <2>1. ReceiptPage(fetcher[f].originals) \in SUBSET Receipt
    BY DEF ReceiptPage, Lowest, CloudState
  <2>2. QED
    BY <1>15, <2>1 DEF CloudReceipts, FetcherState
<1>16. ASSUME NEW f \in Fetchers, FetchPersist(f) PROVE TypeOK'
  <2>1. lan' \in LanState
    BY <1>16 DEF FetchPersist, ReceiptsPersist, LanState, FetcherState
  <2>2. QED
    BY <1>16, <2>1 DEF FetchPersist, IdleFetcher, FetcherState
<1>17. ASSUME NEW f \in Fetchers, FetchAbort(f) PROVE TypeOK'
  BY <1>17 DEF FetchAbort, IdleFetcher, FetcherState
<1>18. CASE UNCHANGED vars
  BY <1>18 DEF vars
<1>19. QED
  BY <1>1, <1>2, <1>3, <1>4, <1>5, <1>6, <1>7, <1>8, <1>9, <1>10, <1>11, <1>12,
     <1>13, <1>14, <1>15, <1>16, <1>17, <1>18 DEF Next

\* The three databases and every process keep to their types.
THEOREM TypeCorrect == Spec => []TypeOK
<1>1. Init => TypeOK
  BY InitType
<1>2. TypeOK /\ [Next]_vars => TypeOK'
  BY NextType
<1>3. QED
  BY <1>1, <1>2, PTL DEF Spec

-----------------------------------------------------------------------------
(* Exactly-once delivery.                                                  *)

\* Voucher ids come from the serial.
SerialBounds == \A v \in cloud.vouchers : v.id <= cloud.serial

\* The cloud's part of the invariant, and what a step keeps of the cloud.
CloudInv == StagingGapless /\ PostedExactlyOnce /\ SerialBounds

CloudGrows == cloud.staged \subseteq cloud'.staged /\ cloud.applied \subseteq cloud'.applied

\* A committed staging transaction extends the inbox by the rest of the envelope.
LEMMA StageSafe ==
  ASSUME cloud \in CloudState, CloudInv, NEW env \in SUBSET Row, StageCommits(env)
  PROVE  CloudInv' /\ CloudGrows /\ env \subseteq cloud'.staged
<1>1. PICK last \in StageEnds(env) :
         /\ StageAccepts(env, last)
         /\ cloud' = [cloud EXCEPT !.staged = cloud.staged \cup NewEvents(env),
                                   !.stageCursor = last]
  BY DEF StageCommits
<1>2. /\ cloud'.staged = cloud.staged \cup NewEvents(env)
      /\ cloud'.stageCursor = last
      /\ cloud'.applied = cloud.applied
      /\ cloud'.applyCursor = cloud.applyCursor
      /\ cloud'.vouchers = cloud.vouchers
      /\ cloud'.serial = cloud.serial
  BY <1>1 DEF CloudState
<1>3. last \in Nat /\ cloud.stageCursor \in Nat /\ last >= cloud.stageCursor
  BY <1>1 DEF StageEnds, Seqs, CloudState, Row, StageAccepts
<1>4. env \subseteq cloud'.staged
  BY <1>1, <1>2 DEF StageAccepts, NewEvents, Seqs
<1>5. StagingGapless'
  <2>1. Seqs(cloud'.staged) = Seqs(cloud.staged) \cup Seqs(NewEvents(env))
    BY <1>2 DEF Seqs
  <2>2. Seqs(cloud.staged) = 1 .. cloud.stageCursor
    BY DEF CloudInv, StagingGapless, Gapless
  <2>3. Seqs(NewEvents(env)) = (cloud.stageCursor + 1) .. last
    BY <1>1 DEF StageAccepts
  <2>4. Seqs(cloud'.staged) = 1 .. last
    BY <1>3, <2>1, <2>2, <2>3
  <2>5. \A r, q \in cloud'.staged : r.seq = q.seq => r = q
    BY <1>1, <1>2 DEF StageAccepts, NewEvents, Seqs, CloudInv, StagingGapless, Gapless
  <2>6. \A r, q \in cloud'.staged : r.op = q.op \/ r.doc = q.doc => r = q
    BY <1>1, <1>2 DEF StageAccepts, NewEvents, CloudInv, StagingGapless
  <2>7. QED
    BY <1>2, <2>4, <2>5, <2>6 DEF StagingGapless, Gapless
<1>6. PostedExactlyOnce'
  BY <1>2, <1>3 DEF CloudInv, PostedExactlyOnce, CloudState, Gapless
<1>7. QED
  BY <1>2, <1>4, <1>5, <1>6 DEF CloudInv, SerialBounds, CloudGrows

\* A committed apply posts the next row under a fresh voucher id.
LEMMA PostSafe ==
  ASSUME cloud \in CloudState, CloudInv, NEW row \in cloud.staged,
         NextInLine(row), \A v \in cloud.vouchers : v.op # row.op,
         PostWithReceipt([seq |-> row.seq, op |-> row.op, doc |-> row.doc,
                          voucher |-> cloud.serial + 1])
  PROVE  CloudInv' /\ CloudGrows
<1> DEFINE new == [seq |-> row.seq, op |-> row.op, doc |-> row.doc,
                   voucher |-> cloud.serial + 1]
<1>1. /\ cloud'.staged = cloud.staged
      /\ cloud'.stageCursor = cloud.stageCursor
      /\ cloud'.applied = cloud.applied \cup {new}
      /\ cloud'.applyCursor = cloud.applyCursor + 1
      /\ cloud'.vouchers = cloud.vouchers \cup {[id |-> cloud.serial + 1, op |-> row.op]}
      /\ cloud'.serial = cloud.serial + 1
  BY DEF PostWithReceipt, NextInLine, CloudState
<1>2. /\ cloud.serial \in Nat /\ cloud.applyCursor \in Nat /\ cloud.stageCursor \in Nat
      /\ row.seq = cloud.applyCursor + 1 /\ row \in Row
      /\ cloud.applied \subseteq Receipt
      /\ cloud.vouchers \subseteq Voucher
  BY DEF CloudState, NextInLine
<1>3. row.seq \in 1 .. cloud.stageCursor
  BY DEF CloudInv, StagingGapless, Gapless, Seqs
<1>4. new.seq = row.seq /\ new.op = row.op /\ new.voucher = cloud.serial + 1 /\ Evidence(new) = row
  BY <1>2 DEF Evidence, Row
<1> HIDE DEF new
<1>5. StagingGapless'
  BY <1>1 DEF CloudInv, StagingGapless, Gapless, Seqs
<1>6. PostedExactlyOnce'
  <2>1. (cloud.applyCursor <= cloud.stageCursor)'
    BY <1>1, <1>2, <1>3
  <2>2. Seqs(cloud.applied) = 1 .. cloud.applyCursor
    BY DEF CloudInv, PostedExactlyOnce, Gapless
  <2>3. Seqs(cloud'.applied) = Seqs(cloud.applied) \cup {row.seq}
    BY <1>1, <1>4 DEF Seqs
  <2>4. Seqs(cloud'.applied) = 1 .. cloud'.applyCursor
    <3>1. (1 .. cloud.applyCursor) \cup {cloud.applyCursor + 1} = 1 .. (cloud.applyCursor + 1)
      BY <1>2
    <3>2. QED
      BY <1>1, <1>2, <2>2, <2>3, <3>1
  <2>5. \A r \in cloud.applied : r.seq # new.seq
    BY <1>2, <1>4, <2>2 DEF Seqs
  <2>6. Gapless(cloud'.applied, cloud'.applyCursor)
    BY <1>1, <2>4, <2>5 DEF CloudInv, PostedExactlyOnce, Gapless
  <2>7. \A a \in cloud'.applied : Evidence(a) \in cloud'.staged
    BY <1>1, <1>4 DEF CloudInv, PostedExactlyOnce
  <2>8. {[id |-> a.voucher, op |-> a.op] : a \in cloud'.applied} = cloud'.vouchers
    <3>1. {[id |-> a.voucher, op |-> a.op] : a \in cloud.applied} = cloud.vouchers
      BY DEF CloudInv, PostedExactlyOnce
    <3>2. {[id |-> a.voucher, op |-> a.op] : a \in cloud.applied \cup {new}}
            = {[id |-> a.voucher, op |-> a.op] : a \in cloud.applied}
                \cup {[id |-> new.voucher, op |-> new.op]}
      OBVIOUS
    <3>3. QED
      BY <1>1, <1>4, <3>1, <3>2
  <2>9. \A a \in cloud.applied : a.voucher <= cloud.serial /\ a.op # row.op
    <3>1. ASSUME NEW a \in cloud.applied PROVE [id |-> a.voucher, op |-> a.op] \in cloud.vouchers
      BY DEF CloudInv, PostedExactlyOnce
    <3>2. QED
      BY <3>1 DEF CloudInv, SerialBounds
  <2>10. \A a, b \in cloud'.applied : a.voucher = b.voucher \/ a.op = b.op => a = b
    <3>1. \A a \in cloud.applied : a.voucher # new.voucher /\ a.op # new.op
      BY <1>2, <1>4, <2>9 DEF Receipt
    <3>2. QED
      BY <1>1, <3>1 DEF CloudInv, PostedExactlyOnce
  <2>11. QED
    BY <2>1, <2>6, <2>7, <2>8, <2>10 DEF PostedExactlyOnce
<1>7. SerialBounds'
  BY <1>1, <1>2 DEF CloudInv, SerialBounds, Voucher
<1>8. QED
  BY <1>1, <1>5, <1>6, <1>7 DEF CloudInv, CloudGrows

\* Every step leaves the cloud alone, stages an envelope or posts a row.
LEMMA CloudSteps ==
  ASSUME TypeOK, CloudInv, [Next]_vars
  PROVE  CloudInv' /\ CloudGrows
<1>1. CASE UNCHANGED cloud
  BY <1>1 DEF CloudInv, StagingGapless, PostedExactlyOnce, SerialBounds, Gapless, CloudGrows
<1>2. ASSUME NEW env \in SUBSET Row, StageCommits(env) PROVE CloudInv' /\ CloudGrows
  BY <1>2, StageSafe DEF TypeOK
<1>3. CASE ApplyStaged
  BY <1>3, PostSafe DEF ApplyStaged, TypeOK
<1>4. ASSUME NEW s \in Senders, CloudStage(s) PROVE CloudInv' /\ CloudGrows
  <2>1. sender[s].envelope \in SUBSET Row
    BY DEF TypeOK, SenderState
  <2>2. QED
    BY <1>1, <1>2, <1>4, <2>1 DEF CloudStage, StageRefuses
<1>5. ASSUME NEW env \in stray, StrayStage(env) PROVE CloudInv' /\ CloudGrows
  BY <1>1, <1>2, <1>5 DEF StrayStage, StageRefuses, TypeOK
<1>6. ASSUME NEW s \in Senders,
             SenderStart(s) \/ SenderSend(s) \/ SenderFinish(s) \/ SenderPersist(s) \/ SenderAbort(s)
      PROVE  UNCHANGED cloud
  BY <1>6 DEF SenderStart, SenderSend, SenderFinish, SenderPersist, SenderAbort, cloudVars
<1>7. ASSUME NEW f \in Fetchers,
             FetchStart(f) \/ CloudReceipts(f) \/ FetchPersist(f) \/ FetchAbort(f)
      PROVE  UNCHANGED cloud
  BY <1>7 DEF FetchStart, CloudReceipts, FetchPersist, FetchAbort, cloudVars
<1>8. ASSUME \/ \E op \in Ops, doc \in Docs : Capture(op, doc)
             \/ \E pause \in BOOLEAN : RecordSyncControl(pause)
             \/ TakeBackup \/ Restore
             \/ \E ok \in BOOLEAN : SetAuthorised(ok)
             \/ UNCHANGED vars
      PROVE  UNCHANGED cloud
  BY <1>8 DEF Capture, RecordSyncControl, TakeBackup, Restore, SetAuthorised, vars, cloudVars
<1>9. QED
  BY <1>1, <1>3, <1>4, <1>5, <1>6, <1>7, <1>8 DEF Next

\* A LAN receipt log only gains what an answer brought.
LEMMA ReceiptSteps ==
  ASSUME DeliveryInv, [Next]_vars, CloudGrows
  PROVE  ReceiptsSound'
<1> USE DEF DeliveryInv, TypeOK
<1>1. CASE lan'.staged = lan.staged /\ lan'.applied = lan.applied /\ UNCHANGED backup
  BY <1>1 DEF ReceiptsSound, CloudGrows
<1>2. ASSUME NEW s \in Senders, SenderPersist(s) PROVE ReceiptsSound'
  <2>1. /\ lan'.staged = lan.staged \cup sender[s].envelope
        /\ lan'.applied = lan.applied
        /\ backup' = backup
    BY <1>2 DEF SenderPersist, LanState
  <2>2. sender[s].envelope \subseteq cloud.staged
    BY <1>2 DEF AnswersSound, SenderPersist
  <2>3. QED
    BY <2>1, <2>2 DEF ReceiptsSound, CloudGrows
<1>3. ASSUME NEW f \in Fetchers, FetchPersist(f) PROVE ReceiptsSound'
  <2>1. /\ lan'.staged = lan.staged
        /\ lan'.applied = lan.applied \cup fetcher[f].answer
        /\ backup' = backup
    BY <1>3 DEF FetchPersist, ReceiptsPersist, LanState
  <2>2. fetcher[f].answer \subseteq cloud.applied
    BY DEF AnswersSound
  <2>3. QED
    BY <2>1, <2>2 DEF ReceiptsSound, CloudGrows
<1>4. CASE TakeBackup
  BY <1>4 DEF TakeBackup, ReceiptsSound, CloudGrows
<1>5. CASE Restore
  BY <1>5 DEF Restore, ReceiptsSound, CloudGrows
<1>6. ASSUME NEW op \in Ops, NEW doc \in Docs, Capture(op, doc) PROVE ReceiptsSound'
  <2>1. lan'.staged = lan.staged /\ lan'.applied = lan.applied /\ backup' = backup
    BY <1>6 DEF Capture, LanState
  <2>2. QED
    BY <1>1, <2>1
<1>7. ASSUME NEW pause \in BOOLEAN, RecordSyncControl(pause) PROVE ReceiptsSound'
  <2>1. lan'.staged = lan.staged /\ lan'.applied = lan.applied /\ backup' = backup
    BY <1>7 DEF RecordSyncControl, LanState
  <2>2. QED
    BY <1>1, <2>1
<1>8. ASSUME NEW s \in Senders,
             SenderStart(s) \/ SenderSend(s) \/ SenderFinish(s) \/ CloudStage(s) \/ SenderAbort(s)
      PROVE  UNCHANGED <<lan, backup>>
  BY <1>8 DEF SenderStart, SenderSend, SenderFinish, CloudStage, SenderAbort, lanVars
<1>9. ASSUME NEW f \in Fetchers, FetchStart(f) \/ CloudReceipts(f) \/ FetchAbort(f)
      PROVE  UNCHANGED <<lan, backup>>
  BY <1>9 DEF FetchStart, CloudReceipts, FetchAbort, lanVars
<1>10. ASSUME \/ \E env \in stray : StrayStage(env)
              \/ ApplyStaged
              \/ \E ok \in BOOLEAN : SetAuthorised(ok)
              \/ UNCHANGED vars
       PROVE  UNCHANGED <<lan, backup>>
  BY <1>10 DEF StrayStage, ApplyStaged, SetAuthorised, lanVars, vars
<1>11. QED
  BY <1>1, <1>2, <1>3, <1>4, <1>5, <1>6, <1>7, <1>8, <1>9, <1>10 DEF Next

\* An answer a process holds was committed before it was given.
LEMMA AnswerSteps ==
  ASSUME DeliveryInv, [Next]_vars, CloudGrows, SerialBounds'
  PROVE  AnswersSound'
<1> USE DEF DeliveryInv, TypeOK
<1>1. \A s \in Senders :
        sender'[s].pc = "answered" => sender'[s].envelope \subseteq cloud'.staged
  <2>1. CASE UNCHANGED sender
    BY <2>1 DEF AnswersSound, CloudGrows
  <2>2. ASSUME NEW s \in Senders, CloudStage(s)
        PROVE  \A t \in Senders :
                 sender'[t].pc = "answered" => sender'[t].envelope \subseteq cloud'.staged
    <3>1. sender[s].envelope \in SUBSET Row
      BY DEF SenderState
    <3>2. CASE StageCommits(sender[s].envelope)
               /\ sender' = [sender EXCEPT ![s].pc = "answered"]
      <4>1. sender[s].envelope \subseteq cloud'.staged
        BY <3>1, <3>2, StageSafe DEF CloudInv, SerialBounds, AnswersSound
      <4>2. QED
        BY <3>2, <4>1 DEF AnswersSound, CloudGrows, SenderState
    <3>3. CASE sender' = [sender EXCEPT ![s] = IdleSender]
      BY <3>3 DEF IdleSender, AnswersSound, CloudGrows
    <3>4. QED
      BY <2>2, <3>2, <3>3 DEF CloudStage
  <2>3. ASSUME NEW s \in Senders, NEW new \in SenderState, new.pc # "answered",
               sender' = [sender EXCEPT ![s] = new]
        PROVE  \A t \in Senders :
                 sender'[t].pc = "answered" => sender'[t].envelope \subseteq cloud'.staged
    BY <2>3 DEF AnswersSound, CloudGrows
  <2>4. ASSUME NEW s \in Senders,
               \/ SenderStart(s) \/ SenderSend(s) \/ SenderFinish(s)
               \/ SenderPersist(s) \/ SenderAbort(s)
        PROVE  \A t \in Senders :
                 sender'[t].pc = "answered" => sender'[t].envelope \subseteq cloud'.staged
    BY <2>4 DEF SenderStart, SenderSend, SenderFinish, SenderPersist, SenderAbort, IdleSender,
                AnswersSound, CloudGrows
  <2>5. CASE Restore
    BY <2>5 DEF Restore, IdleSender
  <2>6. ASSUME NEW f \in Fetchers,
               FetchStart(f) \/ CloudReceipts(f) \/ FetchPersist(f) \/ FetchAbort(f)
        PROVE  UNCHANGED sender
    BY <2>6 DEF FetchStart, CloudReceipts, FetchPersist, FetchAbort, relayVars
  <2>7. ASSUME \/ \E op \in Ops, doc \in Docs : Capture(op, doc)
               \/ \E pause \in BOOLEAN : RecordSyncControl(pause)
               \/ TakeBackup \/ ApplyStaged
               \/ \E env \in stray : StrayStage(env)
               \/ \E ok \in BOOLEAN : SetAuthorised(ok)
               \/ UNCHANGED vars
        PROVE  UNCHANGED sender
    BY <2>7 DEF Capture, RecordSyncControl, TakeBackup, ApplyStaged, StrayStage, SetAuthorised,
                vars, relayVars
  <2>8. QED
    BY <2>1, <2>2, <2>4, <2>5, <2>6, <2>7 DEF Next
<1>2. \A f \in Fetchers : fetcher'[f].answer \subseteq cloud'.applied
  <2>1. CASE UNCHANGED fetcher
    BY <2>1 DEF AnswersSound, CloudGrows
  <2>2. ASSUME NEW f \in Fetchers, CloudReceipts(f)
        PROVE  \A g \in Fetchers : fetcher'[g].answer \subseteq cloud'.applied
    <3>1. ReceiptPage(fetcher[f].originals) \subseteq cloud.applied
      BY DEF ReceiptPage, Lowest
    <3>2. QED
      BY <2>2, <3>1 DEF CloudReceipts, AnswersSound, CloudGrows
  <2>3. ASSUME NEW f \in Fetchers, FetchStart(f) \/ FetchPersist(f) \/ FetchAbort(f)
        PROVE  \A g \in Fetchers : fetcher'[g].answer \subseteq cloud'.applied
    BY <2>3 DEF FetchStart, FetchPersist, FetchAbort, IdleFetcher, AnswersSound, CloudGrows
  <2>4. CASE Restore
    BY <2>4 DEF Restore, IdleFetcher
  <2>5. ASSUME NEW s \in Senders,
               \/ SenderStart(s) \/ SenderSend(s) \/ SenderFinish(s) \/ CloudStage(s)
               \/ SenderPersist(s) \/ SenderAbort(s)
        PROVE  UNCHANGED fetcher
    BY <2>5 DEF SenderStart, SenderSend, SenderFinish, CloudStage, SenderPersist, SenderAbort
  <2>6. ASSUME \/ \E op \in Ops, doc \in Docs : Capture(op, doc)
               \/ \E pause \in BOOLEAN : RecordSyncControl(pause)
               \/ TakeBackup \/ ApplyStaged
               \/ \E env \in stray : StrayStage(env)
               \/ \E ok \in BOOLEAN : SetAuthorised(ok)
               \/ UNCHANGED vars
        PROVE  UNCHANGED fetcher
    BY <2>6 DEF Capture, RecordSyncControl, TakeBackup, ApplyStaged, StrayStage, SetAuthorised, vars
  <2>7. QED
    BY <2>1, <2>2, <2>3, <2>4, <2>5, <2>6 DEF Next
<1>3. QED
  BY <1>1, <1>2 DEF AnswersSound, SerialBounds

\* The invariant of exactly-once delivery is inductive.
LEMMA DeliveryInvHolds == Spec => []DeliveryInv
<1>1. Init => DeliveryInv
  <2> SUFFICES ASSUME Init PROVE DeliveryInv
    OBVIOUS
  <2>1. StagingGapless /\ PostedExactlyOnce
    BY DEF Init, EmptyCloud, StagingGapless, PostedExactlyOnce, Gapless, Seqs
  <2>2. ReceiptsSound
    BY DEF Init, EmptyLan, EmptyCloud, ReceiptsSound
  <2>3. AnswersSound
    BY DEF Init, IdleSender, IdleFetcher, EmptyCloud, AnswersSound
  <2>4. QED
    BY <2>1, <2>2, <2>3, InitType DEF DeliveryInv
<1>2. DeliveryInv /\ [Next]_vars => DeliveryInv'
  <2> SUFFICES ASSUME DeliveryInv, [Next]_vars PROVE DeliveryInv'
    OBVIOUS
  <2>1. TypeOK /\ CloudInv
    BY DEF DeliveryInv, CloudInv, SerialBounds, AnswersSound
  <2>2. TypeOK'
    BY <2>1, NextType
  <2>3. CloudInv' /\ CloudGrows
    BY <2>1, CloudSteps
  <2>4. ReceiptsSound'
    BY <2>3, ReceiptSteps
  <2>5. AnswersSound'
    BY <2>3, AnswerSteps DEF CloudInv
  <2>6. QED
    BY <2>2, <2>3, <2>4, <2>5 DEF DeliveryInv, CloudInv
<1>3. QED
  BY <1>1, <1>2, PTL DEF Spec

\* Whatever is lost, delivered late, repeated or restored, the cloud stages every
\* sequence number, operation and voucher at most once and without gaps
\* (stageVoucherEvents).
THEOREM StagingIsGapless == Spec => []StagingGapless
<1>1. DeliveryInv => StagingGapless
  BY DEF DeliveryInv
<1>2. QED
  BY <1>1, DeliveryInvHolds, PTL

\* The cloud ledger holds exactly one voucher for every applied row and applies
\* rows in capture order (applyStagedVoucherOnce, postApprovedPhase8Journal).
THEOREM PostingIsExactlyOnce == Spec => []PostedExactlyOnce
<1>1. DeliveryInv => PostedExactlyOnce
  BY DEF DeliveryInv
<1>2. QED
  BY <1>1, DeliveryInvHolds, PTL

\* No LAN database, restored or not, ever records a delivery the cloud does not
\* hold (persistStageReceipts, persistAppliedReceipts).
THEOREM ReceiptsAreSound == Spec => []ReceiptsSound
<1>1. DeliveryInv => ReceiptsSound
  BY DEF DeliveryInv
<1>2. QED
  BY <1>1, DeliveryInvHolds, PTL

\* Evidence and postings in the cloud are never undone or rewritten.
THEOREM CloudIsAppendOnly == Spec => [][CloudGrows]_vars
<1>1. DeliveryInv /\ [Next]_vars => [CloudGrows]_vars
  BY CloudSteps DEF DeliveryInv, CloudInv, SerialBounds, AnswersSound
<1>2. QED
  BY <1>1, DeliveryInvHolds, PTL DEF Spec
=============================================================================
