--------------------------- MODULE EdgeVoucherSync ---------------------------
(***************************************************************************)
(* Delivery of vouchers from the factory LAN server to the cloud ledger.   *)
(*                                                                         *)
(* The LAN server captures every offline voucher in an outbox, in the      *)
(* transaction that posts the voucher (edgeVoucherOutbox.ts).  The relay   *)
(* (send-voucher-outbox.mjs) sends batches of outbox rows to the cloud,    *)
(* which stages them behind a cursor (edgeCloudStaging.ts).  An operator   *)
(* applies staged rows one sequence number at a time to the cloud ledger   *)
(* (phase8ApplyStore.mjs), and the LAN fetches the receipts of the applied *)
(* rows (fetch-applied-receipts.mjs).  The relay and the fetcher can be    *)
(* started more than once at a time; requests are lost, answered too late  *)
(* or processed after their sender gave up; a LAN database can be replaced *)
(* by a restored backup.                                                   *)
(*                                                                         *)
(* One action is one database transaction or one HTTP exchange: every      *)
(* transaction below starts by locking its cursor or counter row, so two   *)
(* of them never interleave on the same table.                             *)
(***************************************************************************)
EXTENDS Naturals, FiniteSets

CONSTANTS
    Ops,          \* operation ids: the request UUIDs of vouchers
    Docs,         \* local vouchers: local_voucher_id and the payload that embeds it
    Senders,      \* concurrent runs of the relay (loop container, manual run)
    Fetchers,     \* concurrent runs of the receipt fetcher
    StageLimit,   \* EDGE_SYNC_STAGE_LIMIT, also the receipt page size
    MaxBatches,   \* maxBatches of one relay run
    MaxSeq,       \* bound: captures of one LAN database
    MaxRestores   \* bound: restores of the LAN database

ASSUME LimitAssumption == StageLimit \in Nat \ {0}
ASSUME BatchesAssumption == MaxBatches \in Nat \ {0}
ASSUME BoundAssumption == MaxSeq \in Nat /\ MaxRestores \in Nat

VARIABLES
    lan,         \* LAN database: outbox, its counter, both receipt logs, pause state
    backup,      \* the LAN backup a restore would bring back
    restores,    \* number of restores so far
    sender,      \* relay runs: program counter, batch number and envelope
    fetcher,     \* fetcher runs: program counter, originals and answer
    stray,       \* envelopes whose sender gave up and that may still arrive
    cloud,       \* cloud database: staging inbox, applied rows, cursors, ledger
    authorised   \* the next staged row would pass the authority, actor and posting checks

lanVars == <<lan, backup, restores>>
relayVars == <<sender, stray>>
cloudVars == <<cloud, authorised>>
vars == <<lan, backup, restores, sender, fetcher, stray, cloud, authorised>>

Row == [seq: Nat \ {0}, op: Ops, doc: Docs]
Receipt == [seq: Nat \ {0}, op: Ops, doc: Docs, voucher: Nat \ {0}]
Voucher == [id: Nat \ {0}, op: Ops]

Seqs(rows) == {r.seq : r \in rows}

\* The part of an applied row that comes from the LAN.
Evidence(a) == [seq |-> a.seq, op |-> a.op, doc |-> a.doc]

\* SELECT ... ORDER BY sequence LIMIT n
Lowest(rows, n) == {r \in rows : Cardinality({q \in rows : q.seq < r.seq}) < n}

EmptyLan == [outbox |-> {}, counter |-> 0, staged |-> {}, applied |-> {}, paused |-> FALSE]

EmptyCloud == [staged |-> {}, stageCursor |-> 0, applied |-> {}, applyCursor |-> 0,
               vouchers |-> {}, serial |-> 0]

IdleSender == [pc |-> "idle", pages |-> 0, envelope |-> {}]
IdleFetcher == [pc |-> "idle", originals |-> {}, answer |-> {}]

Init ==
    /\ lan = EmptyLan
    /\ backup = EmptyLan
    /\ restores = 0
    /\ sender = [s \in Senders |-> IdleSender]
    /\ fetcher = [f \in Fetchers |-> IdleFetcher]
    /\ stray = {}
    /\ cloud = EmptyCloud
    /\ authorised = FALSE

-----------------------------------------------------------------------------
(* The LAN application: capture, pause control, backup and restore.        *)

\* Mutant: the row gets the counter before it is advanced.
StaleSequence == lan.counter

\* The counter row is advanced by the capturing transaction itself, so a
\* rollback leaves no gap.
NextSequence == lan.counter + 1

\* captureEdgeVoucherTx: voucher, counter and outbox row commit together; a
\* unique violation on the operation or on the voucher rolls all of it back.
Capture(op, doc) ==
    /\ lan.counter < MaxSeq
    /\ \A r \in lan.outbox : r.op # op /\ r.doc # doc
    /\ lan' = [lan EXCEPT
                 !.counter = lan.counter + 1,
                 !.outbox = lan.outbox \cup {[seq |-> NextSequence, op |-> op, doc |-> doc]}]
    /\ UNCHANGED <<backup, restores, fetcher>>
    /\ UNCHANGED relayVars
    /\ UNCHANGED cloudVars

\* recordPhase10SyncControl: the latest row of the log decides.
RecordSyncControl(pause) ==
    /\ lan.paused # pause
    /\ lan' = [lan EXCEPT !.paused = pause]
    /\ UNCHANGED <<backup, restores, fetcher>>
    /\ UNCHANGED relayVars
    /\ UNCHANGED cloudVars

\* backup-encrypted.sh: a consistent dump of the LAN database.
TakeBackup ==
    /\ restores < MaxRestores
    /\ backup # lan
    /\ backup' = lan
    /\ UNCHANGED <<lan, restores, fetcher>>
    /\ UNCHANGED relayVars
    /\ UNCHANGED cloudVars

\* A restored dump becomes the LAN database.  The processes of the old database
\* are gone; the requests they had sent may still reach the cloud.
Restore ==
    /\ restores < MaxRestores
    /\ restores' = restores + 1
    /\ lan' = backup
    /\ sender' = [s \in Senders |-> IdleSender]
    /\ fetcher' = [f \in Fetchers |-> IdleFetcher]
    /\ stray' = stray \cup {sender[s].envelope : s \in {t \in Senders : sender[t].pc = "sent"}}
    /\ UNCHANGED backup
    /\ UNCHANGED cloudVars

-----------------------------------------------------------------------------
(* The cloud staging endpoint: stageVoucherEvents.                         *)

\* The events of an envelope that have no staged row yet.
NewEvents(env) == {e \in env : e.seq \notin Seqs(cloud.staged)}

\* Mutant: a replay is not compared with its staged row.
StageAcceptsAnyReplay(env, last) ==
    /\ \A e, r \in env : e.seq = r.seq => e = r
    /\ last >= cloud.stageCursor
    /\ Seqs(NewEvents(env)) = (cloud.stageCursor + 1) .. last
    /\ \A e \in NewEvents(env), r \in cloud.staged \cup env :
          r # e => r.op # e.op /\ r.doc # e.doc

\* Mutant: a replayed sequence number is a duplicate, not an acknowledgement.
StageAcceptsOnlyNew(env, last) ==
    /\ \A e, r \in env : e.seq = r.seq => e = r
    /\ env = NewEvents(env)
    /\ last >= cloud.stageCursor
    /\ Seqs(env) = (cloud.stageCursor + 1) .. last
    /\ \A e \in env, r \in cloud.staged \cup env : r # e => r.op # e.op /\ r.doc # e.doc

\* Sequence numbers increase, replays equal their staged row, new events follow
\* the cursor without a gap up to sequence number last, and no operation or
\* voucher is staged twice.
StageAccepts(env, last) ==
    /\ \A e, r \in env : e.seq = r.seq => e = r
    /\ \A e \in env, r \in cloud.staged : r.seq = e.seq => r = e
    /\ last >= cloud.stageCursor
    /\ Seqs(NewEvents(env)) = (cloud.stageCursor + 1) .. last
    /\ \A e \in NewEvents(env), r \in cloud.staged \cup env :
          r # e => r.op # e.op /\ r.doc # e.doc

\* Sequence numbers the cursor can end on.
StageEnds(env) == {cloud.stageCursor} \cup Seqs(env)

\* Mutant: the cursor stays behind the inserted rows.
StageCommitsRowsOnly(env) ==
    \E last \in StageEnds(env) :
        /\ StageAccepts(env, last)
        /\ cloud' = [cloud EXCEPT !.staged = cloud.staged \cup NewEvents(env)]

\* The transaction commits with its last sequence number, or rolls back.
StageCommits(env) ==
    \E last \in StageEnds(env) :
        /\ StageAccepts(env, last)
        /\ cloud' = [cloud EXCEPT !.staged = cloud.staged \cup NewEvents(env),
                               !.stageCursor = last]

StageRefuses(env) ==
    /\ \A last \in StageEnds(env) : ~StageAccepts(env, last)
    /\ UNCHANGED cloud

-----------------------------------------------------------------------------
(* The relay: sendVoucherOutboxOnce, restarted by run-voucher-relay-loop.  *)

SenderStart(s) ==
    /\ sender[s].pc = "idle"
    /\ ~lan.paused
    /\ sender' = [sender EXCEPT ![s] = [pc |-> "select", pages |-> 0, envelope |-> {}]]
    /\ UNCHANGED <<fetcher, stray>>
    /\ UNCHANGED lanVars
    /\ UNCHANGED cloudVars

NextBatch == Lowest({r \in lan.outbox : r.seq \notin Seqs(lan.staged)}, StageLimit)

SenderSend(s) ==
    /\ sender[s].pc = "select"
    /\ sender[s].pages < MaxBatches
    /\ NextBatch # {}
    /\ sender' = [sender EXCEPT ![s] = [pc |-> "sent", pages |-> sender[s].pages,
                                        envelope |-> NextBatch]]
    /\ UNCHANGED <<fetcher, stray>>
    /\ UNCHANGED lanVars
    /\ UNCHANGED cloudVars

\* Nothing left to send, or the last batch of the run.
SenderFinish(s) ==
    /\ sender[s].pc = "select"
    /\ sender[s].pages = MaxBatches \/ NextBatch = {}
    /\ sender' = [sender EXCEPT ![s] = IdleSender]
    /\ UNCHANGED <<fetcher, stray>>
    /\ UNCHANGED lanVars
    /\ UNCHANGED cloudVars

\* The request is handled while the sender waits: 200 with the receipt of
\* exactly the events sent, or an error status that ends the run.
CloudStage(s) ==
    /\ sender[s].pc = "sent"
    /\ \/ /\ StageCommits(sender[s].envelope)
          /\ sender' = [sender EXCEPT ![s].pc = "answered"]
       \/ /\ StageRefuses(sender[s].envelope)
          /\ sender' = [sender EXCEPT ![s] = IdleSender]
    /\ UNCHANGED <<fetcher, stray, authorised>>
    /\ UNCHANGED lanVars

\* persistStageReceipts: one transaction; a different saved receipt rolls it
\* back and ends the run (SenderAbort).
SenderPersist(s) ==
    /\ sender[s].pc = "answered"
    /\ \A e \in sender[s].envelope, r \in lan.staged : r.seq = e.seq => r = e
    /\ lan' = [lan EXCEPT !.staged = lan.staged \cup sender[s].envelope]
    /\ sender' = [sender EXCEPT ![s] = [pc |-> "select", pages |-> sender[s].pages + 1,
                                        envelope |-> {}]]
    /\ UNCHANGED <<backup, restores, fetcher, stray>>
    /\ UNCHANGED cloudVars

\* Timeout, network error, crash or divergent receipt.  A request already sent is lost, or is
\* handled later by a cloud whose answer nobody reads.
SenderAbort(s) ==
    /\ sender[s].pc # "idle"
    /\ sender' = [sender EXCEPT ![s] = IdleSender]
    /\ \/ UNCHANGED stray
       \/ /\ sender[s].pc = "sent"
          /\ stray' = stray \cup {sender[s].envelope}
    /\ UNCHANGED fetcher
    /\ UNCHANGED lanVars
    /\ UNCHANGED cloudVars

StrayStage(env) ==
    /\ stray' = stray \ {env}
    /\ StageCommits(env) \/ StageRefuses(env)
    /\ UNCHANGED <<sender, fetcher, authorised>>
    /\ UNCHANGED lanVars

-----------------------------------------------------------------------------
(* The operator on the cloud: applyStagedVoucherOnce with                  *)
(* postApprovedPhase8Journal, both in one transaction.                     *)

\* Mutant: any staged row beyond the cursor may be applied.
AnyLaterRow(row) == row.seq > cloud.applyCursor

\* A candidate beyond cursor + 1 misses its predecessor.
NextInLine(row) == row.seq = cloud.applyCursor + 1

\* Mutant: the posting commits in a transaction of its own, before the receipt.
PostWithoutReceipt(receipt) ==
    cloud' = [cloud EXCEPT
                !.serial = receipt.voucher,
                !.vouchers = cloud.vouchers \cup {[id |-> receipt.voucher, op |-> receipt.op]}]

\* Voucher with its idempotency marker, applied row and cursor commit together.
PostWithReceipt(receipt) ==
    cloud' = [cloud EXCEPT
                !.serial = receipt.voucher,
                !.vouchers = cloud.vouchers \cup {[id |-> receipt.voucher, op |-> receipt.op]},
                !.applied = cloud.applied \cup {receipt},
                !.applyCursor = receipt.seq]

\* The command answers a sequence number at or below the cursor from its applied
\* row and changes nothing; every refusal rolls back.  A posting identity that
\* exists without an applied row is refused, not acknowledged.
ApplyStaged ==
    /\ authorised
    /\ \E row \in cloud.staged :
          /\ NextInLine(row)
          /\ row.seq \notin Seqs(cloud.applied)
          /\ \A v \in cloud.vouchers : v.op # row.op
          /\ PostWithReceipt([seq |-> row.seq, op |-> row.op, doc |-> row.doc,
                              voucher |-> cloud.serial + 1])
    /\ UNCHANGED <<sender, fetcher, stray, authorised>>
    /\ UNCHANGED lanVars

\* Writer epoch, actor approval, role, ledger target and fiscal period decide
\* whether the row next in line may be posted; DBA and accountants change them.
SetAuthorised(ok) ==
    /\ authorised # ok
    /\ authorised' = ok
    /\ UNCHANGED <<sender, fetcher, stray, cloud>>
    /\ UNCHANGED lanVars

-----------------------------------------------------------------------------
(* The LAN receipt fetcher: fetchAppliedReceiptsOnce.                      *)

\* Mutant: the stage receipt is not required.
UnconfirmedUnstaged == {r \in lan.outbox : r.seq \notin Seqs(lan.applied)}

\* Outbox rows that have a stage receipt and no applied receipt.
Unconfirmed == {r \in lan.outbox : /\ r.seq \in Seqs(lan.staged)
                                   /\ r.seq \notin Seqs(lan.applied)}

FetchStart(f) ==
    /\ fetcher[f].pc = "idle"
    /\ Unconfirmed # {}
    /\ fetcher' = [fetcher EXCEPT ![f] = [pc |-> "asked",
                                          originals |-> Lowest(Unconfirmed, StageLimit),
                                          answer |-> {}]]
    /\ UNCHANGED lanVars
    /\ UNCHANGED relayVars
    /\ UNCHANGED cloudVars

\* A page of applied rows from the first original on.
ReceiptPage(originals) ==
    Lowest({a \in cloud.applied : \E r \in originals : r.seq <= a.seq}, StageLimit)

\* getAppliedCloudReceipts
CloudReceipts(f) ==
    /\ fetcher[f].pc = "asked"
    /\ fetcher' = [fetcher EXCEPT ![f] = [pc |-> "answered",
                                          originals |-> fetcher[f].originals,
                                          answer |-> ReceiptPage(fetcher[f].originals)]]
    /\ UNCHANGED lanVars
    /\ UNCHANGED relayVars
    /\ UNCHANGED cloudVars

\* verifyAppliedReceiptResponse: every receipt belongs to an original.
ReceiptsVerify(f) == \A a \in fetcher[f].answer : Evidence(a) \in fetcher[f].originals

\* persistAppliedReceipts: insert what is missing, compare what is there; one
\* difference rolls the whole page back.
ReceiptsPersist(f) ==
    /\ \A a \in fetcher[f].answer, r \in lan.applied :
          \/ a.seq = r.seq /\ a = r
          \/ a.seq # r.seq /\ a.op # r.op
    /\ lan' = [lan EXCEPT !.applied = lan.applied \cup fetcher[f].answer]

FetchPersist(f) ==
    /\ fetcher[f].pc = "answered"
    /\ ReceiptsVerify(f)
    /\ ReceiptsPersist(f)
    /\ fetcher' = [fetcher EXCEPT ![f] = IdleFetcher]
    /\ UNCHANGED <<backup, restores>>
    /\ UNCHANGED relayVars
    /\ UNCHANGED cloudVars

\* Timeout, crash, or a divergence that refuses the page.
FetchAbort(f) ==
    /\ fetcher[f].pc # "idle"
    /\ fetcher' = [fetcher EXCEPT ![f] = IdleFetcher]
    /\ UNCHANGED lanVars
    /\ UNCHANGED relayVars
    /\ UNCHANGED cloudVars

\* A page with a receipt of a row that was not among the originals: it was
\* staged and applied while the question was on its way, and ends the run.
FetchRefused(f) ==
    /\ fetcher[f].pc = "answered" /\ ~ReceiptsVerify(f)
    /\ FetchAbort(f)

-----------------------------------------------------------------------------
Next ==
    \/ \E op \in Ops, doc \in Docs : Capture(op, doc)
    \/ \E pause \in BOOLEAN : RecordSyncControl(pause)
    \/ TakeBackup
    \/ Restore
    \/ \E s \in Senders :
          \/ SenderStart(s) \/ SenderSend(s) \/ SenderFinish(s)
          \/ CloudStage(s) \/ SenderPersist(s) \/ SenderAbort(s)
    \/ \E env \in stray : StrayStage(env)
    \/ ApplyStaged
    \/ \E ok \in BOOLEAN : SetAuthorised(ok)
    \/ \E f \in Fetchers :
          FetchStart(f) \/ CloudReceipts(f) \/ FetchPersist(f) \/ FetchAbort(f)

Spec == Init /\ [][Next]_vars

\* The relay loop restarts every minute and the operators follow the runbook:
\* delivery is resumed, refusals are cleared, the apply command and the fetcher
\* are run again.  Each of these may fail any finite number of times in a row.
\* Captures, pauses, revocations, restores, aborts and late deliveries may or
\* may not happen.
Fairness ==
    /\ WF_vars(RecordSyncControl(FALSE))
    /\ WF_vars(SetAuthorised(TRUE))
    /\ SF_vars(ApplyStaged)
    /\ \A s \in Senders :
          /\ SF_vars(SenderStart(s))
          /\ SF_vars(SenderSend(s))
          /\ WF_vars(SenderFinish(s))
          /\ SF_vars(CloudStage(s))
          /\ SF_vars(SenderPersist(s))
    /\ \A f \in Fetchers :
          /\ SF_vars(FetchStart(f))
          /\ SF_vars(CloudReceipts(f))
          /\ SF_vars(FetchPersist(f))
          /\ WF_vars(FetchRefused(f))

FairSpec == Spec /\ Fairness

-----------------------------------------------------------------------------
(* Properties.                                                             *)

LanState == [outbox: SUBSET Row, counter: Nat, staged: SUBSET Row,
             applied: SUBSET Receipt, paused: BOOLEAN]

SenderState == [pc: {"idle", "select", "sent", "answered"}, pages: Nat, envelope: SUBSET Row]

FetcherState == [pc: {"idle", "asked", "answered"}, originals: SUBSET Row,
                 answer: SUBSET Receipt]

CloudState == [staged: SUBSET Row, stageCursor: Nat, applied: SUBSET Receipt,
               applyCursor: Nat, vouchers: SUBSET Voucher, serial: Nat]

\* Every table and process keeps to its columns and states.
TypeOK ==
    /\ lan \in LanState
    /\ backup \in LanState
    /\ restores \in Nat
    /\ sender \in [Senders -> SenderState]
    /\ fetcher \in [Fetchers -> FetcherState]
    /\ stray \subseteq SUBSET Row
    /\ cloud \in CloudState
    /\ authorised \in BOOLEAN

\* The rows carry the sequence numbers 1 to last, each of them once.
Gapless(rows, last) ==
    /\ Seqs(rows) = 1 .. last
    /\ \A r, q \in rows : r.seq = q.seq => r = q

\* Staging never leaves a gap or a second version of a sequence number, and
\* never stages an operation or a voucher twice, whatever stray envelopes and
\* restored LAN databases send (stageVoucherEvents).
StagingGapless ==
    /\ Gapless(cloud.staged, cloud.stageCursor)
    /\ \A r, q \in cloud.staged : r.op = q.op \/ r.doc = q.doc => r = q

\* Exactly once: the applied rows are the first rows of the staged order, and
\* they correspond one to one to the posted vouchers (applyStagedVoucherOnce).
PostedExactlyOnce ==
    /\ cloud.applyCursor <= cloud.stageCursor
    /\ Gapless(cloud.applied, cloud.applyCursor)
    /\ \A a \in cloud.applied : Evidence(a) \in cloud.staged
    /\ {[id |-> a.voucher, op |-> a.op] : a \in cloud.applied} = cloud.vouchers
    /\ \A a, b \in cloud.applied : a.voucher = b.voucher \/ a.op = b.op => a = b

\* What a LAN database records as delivered is what the cloud holds: a stage
\* receipt names a staged row, an applied receipt the very row and voucher the
\* cloud committed.  It holds for the live database and for a backup.
ReceiptsSound ==
    \A db \in {lan, backup} :
        /\ db.staged \subseteq cloud.staged
        /\ db.applied \subseteq cloud.applied

\* What is on its way to a LAN receipt log is already committed in the cloud, and
\* voucher ids come from the serial.  Strengthens the three invariants above to
\* an inductive one.
AnswersSound ==
    /\ \A s \in Senders : sender[s].pc = "answered" => sender[s].envelope \subseteq cloud.staged
    /\ \A f \in Fetchers : fetcher[f].answer \subseteq cloud.applied
    /\ \A v \in cloud.vouchers : v.id <= cloud.serial

\* The inductive invariant of exactly-once delivery.
DeliveryInv ==
    /\ TypeOK
    /\ StagingGapless
    /\ PostedExactlyOnce
    /\ ReceiptsSound
    /\ AnswersSound

\* Receipts are recorded without gaps, applied receipts never overtake stage
\* receipts, and both describe the outbox of their own database.
ReceiptsInOrder ==
    \A db \in {lan, backup} :
        /\ Gapless(db.outbox, db.counter)
        /\ \E k \in 0 .. db.counter : Seqs(db.staged) = 1 .. k
        /\ Seqs(db.applied) \subseteq Seqs(db.staged)
        /\ \E k \in 0 .. db.counter : Seqs(db.applied) = 1 .. k
        /\ db.staged \subseteq db.outbox
        /\ {Evidence(a) : a \in db.applied} \subseteq db.outbox

\* Mutant: staged counts as delivered.
HandoverReadyWhenStaged ==
    Cardinality(lan.outbox) = Cardinality({r \in lan.outbox : r.seq \in Seqs(lan.staged)})

\* summarizeLanEvidence: captured minus applied is zero.
HandoverReady ==
    Cardinality(lan.outbox) =
        Cardinality({r \in lan.outbox : \E a \in lan.applied : Evidence(a) = r})

\* When the preflight reports a handover as ready, every voucher of the LAN
\* outbox is posted in the cloud ledger by exactly one voucher.
HandoverSound ==
    HandoverReady =>
        \A r \in lan.outbox :
            Cardinality({v \in cloud.vouchers : v.op = r.op}) = 1

\* Every captured voucher is eventually confirmed to the LAN as posted, if no
\* database is restored.
CapturedIsConfirmed ==
    \A op \in Ops :
        (\E r \in lan.outbox : r.op = op) ~> (\E a \in lan.applied : a.op = op)

\* Refinement of OrderedDelivery: the accepted order is the staging inbox, the
\* ledger lists the posted vouchers by their ids.
RowAt(i) == CHOOSE r \in cloud.staged : r.seq = i
VoucherAt(i) == CHOOSE v \in cloud.vouchers : v.id = i

Delivery == INSTANCE OrderedDelivery WITH
    accepted <- [i \in 1 .. cloud.stageCursor |-> <<RowAt(i).op, RowAt(i).doc>>],
    ledger <- [i \in 1 .. cloud.serial |-> VoucherAt(i).op],
    confirmed <- Seqs(lan.applied)

\* The pipeline delivers in order and exactly once: every behaviour is one of
\* OrderedDelivery.
ImplementsOrderedDelivery == Delivery!Spec
=============================================================================
