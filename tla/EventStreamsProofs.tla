------------------------- MODULE EventStreamsProofs -------------------------
(***************************************************************************)
(* What EventStreams guarantees for every number of events, streams, runs  *)
(* of the apply command and reviewers: typing, agreement of the booked     *)
(* effects with the receipts on both sides, items before their use,        *)
(* overrides that a reviewer decided, and the refinement of an             *)
(* OrderedDelivery by every stream.                                        *)
(*                                                                         *)
(* The argument rests on the lock of the apply cursor: the run inside its  *)
(* transaction holds an event that is not applied yet, no other run is     *)
(* inside a transaction on the same stream, and the decision it read is    *)
(* still the decision, because decisions never change.                     *)
(***************************************************************************)
EXTENDS EventStreams, TLAPS, FiniteSetTheorems, SequenceTheorems

-----------------------------------------------------------------------------
(* The inductive invariant.                                                *)

Inside == {"locked", "checked", "posted"}

\* The states of the runs, and those outside the transaction on the cursor.
RunsIn(pcs) == [pc : pcs, op : Ops \cup {NoOp}, decided : Decisions,
                result : Outcomes \cup Codes, seen : SUBSET Codes]
Outside == {"idle", "next", "adrift", "conflict"}

\* A run about to book an event: its item is known, and what it saw of the
\* cloud's books its valid approval covers.
Waived(d, k) == IF d.kind = "approve-override" THEN {d.code} \cap Overridable(k) ELSE {}
Cleared(r) ==
    /\ ItemKnown(r.op)
    /\ DecisionValid(r.decided, Kind[r.op])
    /\ r.seen \subseteq Waived(r.decided, Kind[r.op])

\* What the state of a run of the apply command implies.
RunOK(a) ==
    LET r == applier[a]
    IN  /\ r.pc # "idle" => r.op \in Ops
        /\ r.pc \in Inside => /\ inbox[r.op] > cursor[StreamOf[r.op]]
                              /\ applied[r.op] = "none"
        /\ r.decided # NoDecision => r.decided = decision[r.op]
        /\ r.pc \in {"checked", "adrift"} => Cleared(r)
        /\ r.pc = "adrift" => Kind[r.op] = "sale"
        /\ r.pc = "posted" => /\ Kind[r.op] = "sale"
                              /\ booked[r.op] = 1
                              /\ r.result \in {"cloud-applied", "already-present"}
        /\ r.pc = "conflict" => r.result \in Codes

RunsOK == \A a \in Appliers : RunOK(a)

\* Two runs are never inside transactions on one stream's cursor.
OneInside ==
    \A a, b \in Appliers :
        a # b /\ applier[a].pc \in Inside /\ applier[b].pc \in Inside
            => StreamOf[applier[a].op] # StreamOf[applier[b].op]

\* A receipt on its way to the LAN is of an applied row.
AnswersOK == \A s \in Streams : relay[s].pc = "answered" => \A o \in relay[s].rows : applied[o] # "none"

\* A reviewer has read a recorded conflict.
ReviewsOK ==
    \A v \in Reviewers : review[v] # NoReview =>
        /\ review[v].op \in Ops
        /\ conflicts[review[v].op] # << >>
        /\ review[v].kind \in {"reject-event", "approve-override"}
        /\ review[v].code \in Codes

\* Only a reviewer's decision rejects an event.
RejectionsDecided ==
    \A o \in Ops : applied[o] = "rejected-conflict" => decision[o].kind = "reject-event"

StreamsInv ==
    /\ TypeOK
    /\ RunsOK
    /\ OneInside
    /\ AnswersOK
    /\ ReviewsOK
    /\ RejectionsDecided
    /\ EffectsMatchReceipts
    /\ ItemsBeforeUse
    /\ OverridesDecided
    /\ HandoverSound

-----------------------------------------------------------------------------
(* Lemmas about the operators.                                             *)

\* A set of codes that is not empty has a first one in the order of checks.
LEMMA FirstCodeIsOne ==
  ASSUME NEW codes \in SUBSET Codes, codes # {}
  PROVE  FirstCode(codes) \in codes
<1> DEFINE IsFirst(i) == /\ CodeOrder[i] \in codes
                         /\ \A j \in 1 .. i - 1 : CodeOrder[j] \notin codes
<1>1. Len(CodeOrder) = 5
  BY DEF CodeOrder
<1>2. /\ CodeOrder[1] = "access" /\ CodeOrder[2] = "taken" /\ CodeOrder[3] = "till"
      /\ CodeOrder[4] = "name" /\ CodeOrder[5] = "negative"
  BY DEF CodeOrder
<1>3. \E i \in 1 .. 5 : IsFirst(i)
  <2>1. CASE "access" \in codes
    <3>1. IsFirst(1) BY <2>1, <1>2
    <3>2. QED BY <3>1
  <2>2. CASE "access" \notin codes /\ "taken" \in codes
    <3>1. \A j \in 1 .. 2 - 1 : j = 1 OBVIOUS
    <3>2. IsFirst(2) BY <2>2, <1>2, <3>1
    <3>3. QED BY <3>2
  <2>3. CASE "access" \notin codes /\ "taken" \notin codes /\ "till" \in codes
    <3>1. \A j \in 1 .. 3 - 1 : j = 1 \/ j = 2 OBVIOUS
    <3>2. IsFirst(3) BY <2>3, <1>2, <3>1
    <3>3. QED BY <3>2
  <2>4. CASE /\ "access" \notin codes /\ "taken" \notin codes /\ "till" \notin codes
             /\ "name" \in codes
    <3>1. \A j \in 1 .. 4 - 1 : j = 1 \/ j = 2 \/ j = 3 OBVIOUS
    <3>2. IsFirst(4) BY <2>4, <1>2, <3>1
    <3>3. QED BY <3>2
  <2>5. CASE /\ "access" \notin codes /\ "taken" \notin codes /\ "till" \notin codes
             /\ "name" \notin codes
    <3>1. \A j \in 1 .. 5 - 1 : j = 1 \/ j = 2 \/ j = 3 \/ j = 4 OBVIOUS
    <3>2. "negative" \in codes BY <2>5 DEF Codes
    <3>3. IsFirst(5) BY <2>5, <1>2, <3>1, <3>2
    <3>4. QED BY <3>3
  <2>6. QED BY <2>1, <2>2, <2>3, <2>4, <2>5
<1>4. IsFirst(CHOOSE i \in 1 .. Len(CodeOrder) : IsFirst(i))
  BY <1>1, <1>3
<1>5. QED
  BY <1>4 DEF FirstCode

\* The latest recorded code is a code.
LEMMA LatestCodeIsOne ==
  ASSUME TypeOK, NEW o \in Ops, conflicts[o] # << >>
  PROVE  LatestCode(o) \in Codes
  BY DEF TypeOK, LatestCode

\* The number a capture gives is a positive number.
LEMMA CaptureNumbers ==
  ASSUME NEW s PROVE Cardinality(Captured(s)) \in Nat
<1>1. IsFiniteSet(Captured(s))
  BY MapsAssumption, FS_Subset DEF Captured, OfStream
<1>2. QED BY <1>1, FS_CardinalityType

-----------------------------------------------------------------------------
(* Steps that leave the state of a conjunct alone.                         *)

LEMMA FrameRuns ==
  ASSUME RunsOK, OneInside, UNCHANGED <<applier, inbox, cursor, applied, decision, booked>>
  PROVE  RunsOK' /\ OneInside'
  BY DEF RunsOK, RunOK, OneInside, Cleared, ItemKnown

LEMMA FrameAnswers ==
  ASSUME AnswersOK, UNCHANGED <<relay, applied>>
  PROVE  AnswersOK'
  BY DEF AnswersOK

LEMMA FrameReviews ==
  ASSUME ReviewsOK, UNCHANGED <<review, conflicts>>
  PROVE  ReviewsOK'
  BY DEF ReviewsOK

LEMMA FrameBooks ==
  ASSUME RejectionsDecided, EffectsMatchReceipts, ItemsBeforeUse, OverridesDecided,
         UNCHANGED <<applied, booked, forced, decision>>
  PROVE  RejectionsDecided' /\ EffectsMatchReceipts' /\ ItemsBeforeUse' /\ OverridesDecided'
  BY DEF RejectionsDecided, EffectsMatchReceipts, ItemsBeforeUse, OverridesDecided, Undecided, Approved

LEMMA FrameHandover ==
  ASSUME HandoverSound, UNCHANGED <<receipts, applied, booked, decision>>
  PROVE  HandoverSound'
  BY DEF HandoverSound

\* A run that ends up outside its transaction while the tables stay.
LEMMA MovedRun ==
  ASSUME TypeOK, RunsOK, OneInside, NEW a \in Appliers, NEW st,
         applier' = [applier EXCEPT ![a] = st],
         st.pc \in Outside \ {"adrift"},
         st.pc # "idle" => st.op \in Ops,
         st.decided = NoDecision,
         st.pc = "conflict" => st.result \in Codes,
         UNCHANGED <<inbox, cursor, applied, decision, booked>>
  PROVE  RunsOK' /\ OneInside'
<1>1. applier'[a] = st /\ \A b \in Appliers : b # a => applier'[b] = applier[b]
  BY DEF TypeOK
<1>2. ASSUME NEW b \in Appliers PROVE RunOK(b)'
  <2>1. CASE b = a
    BY <2>1, <1>1 DEF RunOK, Inside, Outside
  <2>2. CASE b # a
    BY <2>2, <1>1 DEF RunsOK, RunOK, Cleared, ItemKnown
  <2>3. QED BY <2>1, <2>2
<1>3. OneInside'
  BY <1>1 DEF OneInside, Inside, Outside
<1>4. QED BY <1>2, <1>3 DEF RunsOK

\* What is booked stays booked, so that a run stays cleared.
LEMMA ClearedStays ==
  ASSUME NEW b \in Appliers, Cleared(applier[b]), applier[b].op \in Ops,
         applier'[b] = applier[b], \A o \in Ops : booked[o] > 0 => booked'[o] > 0
  PROVE  Cleared(applier[b])'
  BY MapsAssumption DEF Cleared, ItemKnown

\* A run inside its transaction writes the receipt of its event and ends:
\* the event had none, and no other run holds an event of the stream.
LEMMA WroteReceipt ==
  ASSUME StreamsInv, NEW a \in Appliers, applier[a].pc \in Inside,
         NEW outcome \in Outcomes, outcome # "none",
         WriteReceipt(applier[a].op, outcome),
         applier' = [applier EXCEPT ![a] = IdleApplier],
         \A o \in Ops : o # applier[a].op => booked'[o] = booked[o],
         \A o \in Ops : booked[o] > 0 => booked'[o] > 0,
         UNCHANGED <<inbox, decision, relay, receipts>>
  PROVE  /\ RunsOK' /\ OneInside' /\ AnswersOK'
         /\ \A o \in Ops : receipts[o] # "none" => o # applier[a].op
<1> DEFINE op == applier[a].op
<1>1. op \in Ops /\ applied[op] = "none" /\ StreamOf[op] \in Streams
  BY MapsAssumption DEF StreamsInv, RunsOK, RunOK, Inside
<1>2. applied'[op] = outcome /\ \A o \in Ops : o # op => applied'[o] = applied[o]
  BY <1>1 DEF StreamsInv, TypeOK, WriteReceipt
<1>3. \A s \in Streams : s # StreamOf[op] => cursor'[s] = cursor[s]
  BY <1>1 DEF StreamsInv, TypeOK, WriteReceipt
<1>4. applier'[a] = IdleApplier /\ \A b \in Appliers : b # a => applier'[b] = applier[b]
  BY DEF StreamsInv, TypeOK
<1>5. ASSUME NEW b \in Appliers PROVE RunOK(b)'
  <2>1. CASE b = a
    BY <2>1, <1>4 DEF RunOK, Inside, IdleApplier, Run
  <2>2. CASE b # a /\ applier[b].pc \notin Inside
    <3>1. RunOK(b) /\ applier'[b] = applier[b]
      BY <2>2, <1>4 DEF StreamsInv, RunsOK
    <3>2. applier[b].pc = "adrift" => Cleared(applier[b])'
      BY <3>1, ClearedStays DEF RunOK
    <3>3. QED BY <2>2, <3>1, <3>2 DEF RunOK, Inside
  <2>3. CASE b # a /\ applier[b].pc \in Inside
    <3>1. StreamOf[applier[b].op] # StreamOf[op]
      BY <2>3 DEF StreamsInv, OneInside
    <3>2. applier[b].op \in Ops /\ applier[b].op # op /\ StreamOf[applier[b].op] \in Streams
      BY <2>3, <3>1, MapsAssumption DEF StreamsInv, RunsOK, RunOK, Inside
    <3>3. RunOK(b) /\ applier'[b] = applier[b]
      BY <2>3, <1>4 DEF StreamsInv, RunsOK
    <3>4. applier[b].pc = "checked" => Cleared(applier[b])'
      BY <3>2, <3>3, ClearedStays DEF RunOK
    <3>5. QED BY <2>3, <3>1, <3>2, <3>3, <3>4, <1>2, <1>3 DEF RunOK, Inside
  <2>4. QED BY <2>1, <2>2, <2>3
<1>6. OneInside'
  BY <1>4 DEF StreamsInv, OneInside, IdleApplier, Run, Run, Inside
<1>7. AnswersOK'
  <2> SUFFICES ASSUME NEW s \in Streams, relay[s].pc = "answered", NEW o \in relay[s].rows
               PROVE  applied'[o] # "none"
    BY DEF AnswersOK
  <2>1. o \in Ops /\ applied[o] # "none"
    BY DEF StreamsInv, TypeOK, AnswersOK
  <2>2. QED BY <2>1, <1>2
<1>8. \A o \in Ops : receipts[o] # "none" => o # op
  BY <1>1 DEF StreamsInv, HandoverSound
<1>9. QED BY <1>5, <1>6, <1>7, <1>8 DEF RunsOK

-----------------------------------------------------------------------------
(* Every step preserves the invariant: the LAN.                            *)

LEMMA CaptureKeeps ==
  ASSUME StreamsInv, NEW o \in Ops, Capture(o) PROVE StreamsInv'
<1> USE DEF StreamsInv, Capture, inboxVars, applyVars, reviewVars, boundVars
<1>1. TypeOK'
  BY CaptureNumbers DEF TypeOK
<1>2. QED
  BY <1>1, FrameRuns, FrameAnswers, FrameReviews, FrameBooks, FrameHandover

LEMMA SendBatchKeeps ==
  ASSUME StreamsInv, NEW s \in Streams, SendBatch(s) PROVE StreamsInv'
<1> USE DEF StreamsInv, SendBatch, lanVars, inboxVars, applyVars, reviewVars, boundVars
<1>1. PendingRows(s) \subseteq Ops
  BY DEF PendingRows, Captured, OfStream
<1>2. TypeOK'
  BY <1>1 DEF TypeOK
<1>3. AnswersOK'
  BY DEF AnswersOK, TypeOK
<1>4. QED
  BY <1>2, <1>3, FrameRuns, FrameReviews, FrameBooks, FrameHandover

LEMMA StageEventsKeeps ==
  ASSUME StreamsInv, NEW s \in Streams, StageEvents(s) PROVE StreamsInv'
<1> USE DEF StreamsInv, StageEvents, lanVars, applyVars, reviewVars, boundVars
<1>1. TypeOK'
  BY DEF TypeOK
<1>2. AnswersOK'
  BY DEF AnswersOK, TypeOK
<1>3. \A o \in Ops : inbox[o] # 0 => inbox'[o] = inbox[o]
  OBVIOUS
<1>4. RunsOK' /\ OneInside'
  <2>1. ASSUME NEW a \in Appliers PROVE RunOK(a)'
    <3> USE DEF Cleared, ItemKnown
    <3>1. CASE applier[a].pc \notin Inside
      BY <3>1 DEF RunsOK, RunOK, Inside
    <3>2. CASE applier[a].pc \in Inside
      <4>1. applier[a].op \in Ops /\ inbox[applier[a].op] > cursor[StreamOf[applier[a].op]]
        BY <3>2 DEF RunsOK, RunOK, Inside
      <4>2. cursor[StreamOf[applier[a].op]] \in Nat
        BY <4>1, MapsAssumption DEF TypeOK
      <4>3. inbox'[applier[a].op] = inbox[applier[a].op]
        BY <4>1, <4>2, <1>3
      <4>4. QED BY <4>3 DEF RunsOK, RunOK
    <3>3. QED BY <3>1, <3>2
  <2>2. QED BY <2>1 DEF RunsOK, OneInside
<1>5. QED
  BY <1>1, <1>2, <1>4, FrameReviews, FrameBooks, FrameHandover

LEMMA RecordStagedKeeps ==
  ASSUME StreamsInv, NEW s \in Streams, RecordStaged(s) PROVE StreamsInv'
<1> USE DEF StreamsInv, RecordStaged, inboxVars, applyVars, reviewVars, boundVars
<1>1. TypeOK'
  BY DEF TypeOK, IdleRelay
<1>2. AnswersOK'
  BY DEF AnswersOK, TypeOK, IdleRelay
<1>3. QED
  BY <1>1, <1>2, FrameRuns, FrameReviews, FrameBooks, FrameHandover

LEMMA FetchReceiptsKeeps ==
  ASSUME StreamsInv, NEW s \in Streams, FetchReceipts(s) PROVE StreamsInv'
<1> USE DEF StreamsInv, FetchReceipts, lanVars, inboxVars, applyVars, reviewVars, boundVars
<1>1. TypeOK'
  BY DEF TypeOK, Inbox, OfStream
<1>2. AnswersOK'
  BY DEF AnswersOK, TypeOK
<1>3. QED
  BY <1>1, <1>2, FrameRuns, FrameReviews, FrameBooks, FrameHandover

LEMMA RecordReceiptsKeeps ==
  ASSUME StreamsInv, NEW s \in Streams, RecordReceipts(s) PROVE StreamsInv'
<1> USE DEF StreamsInv, RecordReceipts, inboxVars, applyVars, reviewVars, boundVars
<1>1. TypeOK'
  BY DEF TypeOK, IdleRelay
<1>2. AnswersOK'
  BY DEF AnswersOK, TypeOK, IdleRelay
<1>3. HandoverSound'
  <2> SUFFICES ASSUME NEW o \in Ops, receipts'[o] # "none"
               PROVE  receipts'[o] = applied[o] /\ (booked[o] = 1 \/ decision[o].kind = "reject-event")
    BY DEF HandoverSound
  <2>1. CASE o \in relay[s].rows
    <3>1. receipts'[o] = applied[o] /\ applied[o] # "none"
      BY <2>1 DEF AnswersOK
    <3>2. applied[o] \in Outcomes
      BY DEF TypeOK
    <3>3. QED
      BY <3>1, <3>2 DEF EffectsMatchReceipts, RejectionsDecided, Outcomes
  <2>2. CASE o \notin relay[s].rows
    BY <2>2 DEF HandoverSound
  <2>3. QED BY <2>1, <2>2
<1>4. QED
  BY <1>1, <1>2, <1>3, FrameRuns, FrameReviews, FrameBooks

LEMMA RelayFailsKeeps ==
  ASSUME StreamsInv, NEW s \in Streams, RelayFails(s) PROVE StreamsInv'
<1> USE DEF StreamsInv, RelayFails, lanVars, inboxVars, applyVars, reviewVars
<1>1. TypeOK'
  BY BoundsAssumption DEF TypeOK, IdleRelay
<1>2. AnswersOK'
  BY DEF AnswersOK, TypeOK, IdleRelay
<1>3. QED
  BY <1>1, <1>2, FrameRuns, FrameReviews, FrameBooks, FrameHandover

-----------------------------------------------------------------------------
(* Every step preserves the invariant: runs of the apply command.          *)

\* A run that only moves, and ends up outside its transaction.
LEMMA MoveKeeps ==
  ASSUME StreamsInv, NEW a \in Appliers, NEW st, MoveApplier(a, st), UNCHANGED applyVars,
         st \in RunsIn(Outside \ {"adrift"}),
         st.pc # "idle" => st.op \in Ops,
         st.decided = NoDecision,
         st.pc = "conflict" => st.result \in Codes
  PROVE  StreamsInv'
<1> USE DEF StreamsInv, MoveApplier, lanVars, inboxVars, applyVars, reviewVars, boundVars
<1>1. TypeOK'
  BY DEF TypeOK, RunsIn, Outside
<1>2. st.pc \in Outside \ {"adrift"}
  BY DEF RunsIn
<1>3. RunsOK' /\ OneInside'
  BY <1>2, MovedRun
<1>4. QED
  BY <1>1, <1>3, FrameAnswers, FrameReviews, FrameBooks, FrameHandover

\* A run that ends.
LEMMA EndKeeps ==
  ASSUME StreamsInv, NEW a \in Appliers, MoveApplier(a, IdleApplier), UNCHANGED applyVars
  PROVE  StreamsInv'
<1>1. IdleApplier \in RunsIn(Outside \ {"adrift"})
  BY DEF IdleApplier, Run, RunsIn, Outside, Decisions, NoDecision, Outcomes
<1>2. IdleApplier.pc = "idle" /\ IdleApplier.decided = NoDecision
  BY DEF IdleApplier, Run
<1>3. QED
  BY <1>1, <1>2, MoveKeeps

LEMMA StartApplyKeeps ==
  ASSUME StreamsInv, NEW a \in Appliers, NEW o \in Ops, StartApply(a, o) PROVE StreamsInv'
<1> DEFINE st == Run("next", o, NoDecision, "none")
<1>1. st = [pc |-> "next", op |-> o, decided |-> NoDecision, result |-> "none", seen |-> {}]
  BY DEF Run
<1>2. st \in RunsIn(Outside \ {"adrift"})
  BY <1>1 DEF RunsIn, Outside, Decisions, NoDecision, Outcomes
<1>3. /\ MoveApplier(a, st) /\ UNCHANGED applyVars
      /\ st.op \in Ops /\ st.pc = "next" /\ st.decided = NoDecision
  BY <1>1 DEF StartApply
<1> HIDE DEF st
<1>4. QED
  BY <1>2, <1>3, MoveKeeps

LEMMA LockCursorKeeps ==
  ASSUME StreamsInv, NEW a \in Appliers, LockCursor(a) PROVE StreamsInv'
<1> DEFINE op == applier[a].op
           st == Run("locked", op, decision[op], "none")
<1>1. applier[a].pc = "next" /\ CursorFree(op) /\ UNCHANGED applyVars
  BY DEF LockCursor
<1>2. op \in Ops
  BY <1>1 DEF StreamsInv, RunsOK, RunOK
<1>3. CASE inbox[op] <= cursor[StreamOf[op]] \/ applied[op] # "none"
  BY <1>1, <1>3, EndKeeps DEF LockCursor
<1>4. CASE ~(inbox[op] <= cursor[StreamOf[op]] \/ applied[op] # "none")
  <2> USE DEF MoveApplier, lanVars, inboxVars, applyVars, reviewVars, boundVars
  <2>1. MoveApplier(a, st) /\ inbox[op] > cursor[StreamOf[op]] /\ applied[op] = "none"
    BY <1>2, <1>4, MapsAssumption DEF LockCursor, StreamsInv, TypeOK
  <2>2. applier'[a] = st /\ \A b \in Appliers : b # a => applier'[b] = applier[b]
    BY <2>1 DEF StreamsInv, TypeOK
  <2>3. /\ st.pc = "locked" /\ st.op = op /\ st.decided = decision[op]
        /\ st = [pc |-> "locked", op |-> op, decided |-> decision[op], result |-> "none",
                  seen |-> {}]
    BY DEF Run
  <2>4. TypeOK'
    BY <1>1, <1>2, <2>1, <2>3 DEF StreamsInv, TypeOK, Outcomes
  <2>5. RunsOK'
    <3>1. RunOK(a)'
      BY <1>1, <1>2, <2>1, <2>2, <2>3 DEF RunOK, Inside
    <3>2. ASSUME NEW b \in Appliers, b # a PROVE RunOK(b)'
      BY <1>1, <2>1, <2>2, <3>2 DEF StreamsInv, RunsOK, RunOK, Cleared, ItemKnown
    <3>3. QED BY <3>1, <3>2 DEF RunsOK
  <2>6. OneInside'
    <3>1. ASSUME NEW b \in Appliers, b # a, applier[b].pc \in Inside
          PROVE  StreamOf[applier[b].op] # StreamOf[op]
      BY <1>1, <3>1 DEF CursorFree, Inside
    <3>2. ASSUME NEW b \in Appliers, NEW c \in Appliers, b # c, b # a, c # a,
                 applier[b].pc \in Inside, applier[c].pc \in Inside
          PROVE  StreamOf[applier[b].op] # StreamOf[applier[c].op]
      BY <3>2 DEF StreamsInv, OneInside
    <3>3. QED BY <2>2, <2>3, <3>1, <3>2 DEF OneInside
  <2>7. QED
    BY <1>1, <2>1, <2>4, <2>5, <2>6, FrameAnswers, FrameReviews, FrameBooks, FrameHandover DEF StreamsInv
<1>5. QED BY <1>3, <1>4

LEMMA RefuseDecisionKeeps ==
  ASSUME StreamsInv, NEW a \in Appliers, RefuseDecision(a) PROVE StreamsInv'
  BY EndKeeps DEF RefuseDecision

LEMMA WaitForItemKeeps ==
  ASSUME StreamsInv, NEW a \in Appliers, WaitForItem(a) PROVE StreamsInv'
  BY EndKeeps DEF WaitForItem

LEMMA BookingFailsKeeps ==
  ASSUME StreamsInv, NEW a \in Appliers, BookingFails(a) PROVE StreamsInv'
  BY EndKeeps DEF BookingFails

\* A failed run ends, or leaves its sale adrift, which holds no cursor.
LEMMA ApplierFailsKeeps ==
  ASSUME StreamsInv, NEW a \in Appliers, ApplierFails(a) PROVE StreamsInv'
<1> USE DEF StreamsInv, ApplierFails, lanVars, inboxVars, applyVars, reviewVars
<1>1. TypeOK'
  <2>1. IdleApplier \in RunsIn(Outside)
    BY DEF IdleApplier, Run, RunsIn, Outside, NoDecision, Decisions, Outcomes
  <2>2. [applier[a] EXCEPT !.pc = "adrift"] \in RunsIn(Outside)
    <3> DEFINE pcs == {"idle", "next", "locked", "checked", "posted", "adrift", "conflict"}
    <3>1. applier[a] \in RunsIn(pcs)
      BY DEF TypeOK, RunsIn
    <3>2. ASSUME NEW r \in RunsIn(pcs) PROVE [r EXCEPT !.pc = "adrift"] \in RunsIn(Outside)
      BY DEF RunsIn, Outside
    <3> HIDE DEF pcs
    <3>3. QED BY <3>1, <3>2
  <2>3. \E st \in RunsIn(Outside) : applier' = [applier EXCEPT ![a] = st]
    BY <2>1, <2>2 DEF TypeOK
  <2>4. faults' \in 0 .. MaxFaults
    BY BoundsAssumption DEF TypeOK
  <2>5. QED BY <2>3, <2>4 DEF TypeOK, RunsIn, Outside
<1>2. RunsOK' /\ OneInside'
  <2>1. CASE applier' = [applier EXCEPT ![a] = IdleApplier]
    <3>1. IdleApplier.pc \in Outside \ {"adrift"} /\ IdleApplier.pc = "idle"
          /\ IdleApplier.decided = NoDecision
      BY DEF IdleApplier, Run, Outside
    <3>2. QED BY <2>1, <3>1, MovedRun
  <2>2. CASE /\ applier[a].pc = "checked" /\ Kind[applier[a].op] = "sale"
             /\ applier' = [applier EXCEPT ![a].pc = "adrift"]
    <3>1. /\ applier'[a].pc = "adrift" /\ applier'[a].op = applier[a].op
          /\ applier'[a].decided = applier[a].decided /\ applier'[a].seen = applier[a].seen
          /\ \A b \in Appliers : b # a => applier'[b] = applier[b]
      BY <2>2 DEF TypeOK
    <3>2. RunOK(a)'
      BY <2>2, <3>1 DEF RunsOK, RunOK, Cleared, ItemKnown, Inside
    <3>3. ASSUME NEW b \in Appliers, b # a PROVE RunOK(b)'
      BY <3>1, <3>3 DEF RunsOK, RunOK, Cleared, ItemKnown
    <3>4. OneInside'
      BY <3>1 DEF OneInside, Inside
    <3>5. QED BY <3>2, <3>3, <3>4 DEF RunsOK
  <2>3. QED BY <2>1, <2>2
<1>3. QED
  BY <1>1, <1>2, FrameAnswers, FrameReviews, FrameBooks, FrameHandover

LEMMA MeetConflictKeeps ==
  ASSUME StreamsInv, NEW a \in Appliers, MeetConflict(a) PROVE StreamsInv'
<1> DEFINE op == applier[a].op
           code == FirstCode(Refusals(op, applier[a].decided))
           st == Run("conflict", op, NoDecision, code)
<1>1. applier[a].pc = "locked" /\ MoveApplier(a, st) /\ UNCHANGED applyVars
      /\ Refusals(op, applier[a].decided) # {}
  BY DEF MeetConflict, Handled
<1>2. op \in Ops
  BY <1>1 DEF StreamsInv, RunsOK, RunOK
<1>3. Refusals(op, applier[a].decided) \in SUBSET Codes
  BY <1>2 DEF Refusals, StreamsInv, TypeOK
<1>4. code \in Codes
  BY <1>1, <1>3, FirstCodeIsOne
<1> HIDE DEF code
<1>5. st \in RunsIn(Outside \ {"adrift"})
  BY <1>2, <1>4 DEF Run, RunsIn, Outside, NoDecision, Decisions
<1>6. st.op \in Ops /\ st.result \in Codes /\ st.decided = NoDecision
  BY <1>2, <1>4 DEF Run
<1> HIDE DEF st
<1>7. QED
  BY <1>1, <1>5, <1>6, MoveKeeps

LEMMA RefuseBookingKeeps ==
  ASSUME StreamsInv, NEW a \in Appliers, RefuseBooking(a) PROVE StreamsInv'
<1> DEFINE st == Run("conflict", applier[a].op, NoDecision, "access")
<1>1. applier[a].op \in Ops /\ MoveApplier(a, st) /\ UNCHANGED applyVars
  BY DEF RefuseBooking, StreamsInv, RunsOK, RunOK
<1>2. /\ st \in RunsIn(Outside \ {"adrift"})
      /\ st.op \in Ops /\ st.result \in Codes /\ st.decided = NoDecision
  BY <1>1 DEF Run, RunsIn, Outside, NoDecision, Decisions, Codes
<1> HIDE DEF st
<1>3. QED
  BY <1>1, <1>2, MoveKeeps

LEMMA RecordConflictKeeps ==
  ASSUME StreamsInv, NEW a \in Appliers, RecordConflict(a) PROVE StreamsInv'
<1> DEFINE op == applier[a].op
           code == applier[a].result
<1> USE DEF lanVars, inboxVars, applyVars, reviewVars, boundVars
<1>1. op \in Ops /\ code \in Codes
  BY DEF RecordConflict, StreamsInv, RunsOK, RunOK
<1>2. /\ \A o \in Ops : o # op => conflicts'[o] = conflicts[o]
      /\ conflicts'[op] = conflicts[op] \/ conflicts'[op] = Append(conflicts[op], code)
      /\ conflicts' \in [Ops -> Seq(Codes)]
  BY <1>1 DEF RecordConflict, StreamsInv, TypeOK
<1>3. TypeOK'
  BY <1>2 DEF RecordConflict, StreamsInv, TypeOK, IdleApplier, Run, NoDecision, Decisions, Outcomes
<1>4. RunsOK' /\ OneInside'
  <2>1. /\ IdleApplier.pc = "idle" /\ IdleApplier.pc \in Outside \ {"adrift"}
        /\ IdleApplier.decided = NoDecision
    BY DEF IdleApplier, Run, Outside
  <2>2. QED BY <2>1, MovedRun DEF RecordConflict, StreamsInv
<1>5. ReviewsOK'
  <2>1. \A o \in Ops : conflicts[o] # << >> => conflicts'[o] # << >>
    BY <1>1, <1>2 DEF StreamsInv, TypeOK
  <2>2. QED BY <2>1 DEF RecordConflict, StreamsInv, ReviewsOK
<1>6. QED
  BY <1>3, <1>4, <1>5, FrameAnswers, FrameBooks, FrameHandover DEF RecordConflict, StreamsInv

-----------------------------------------------------------------------------
(* Every step preserves the invariant: receipts and bookings.              *)

LEMMA RejectEventKeeps ==
  ASSUME StreamsInv, NEW a \in Appliers, RejectEvent(a) PROVE StreamsInv'
<1> DEFINE op == applier[a].op
<1> USE DEF MoveApplier, lanVars, inboxVars, reviewVars, boundVars
<1>1. /\ applier[a].pc = "locked" /\ applier[a].decided.kind = "reject-event"
      /\ WriteReceipt(op, "rejected-conflict")
      /\ applier' = [applier EXCEPT ![a] = IdleApplier]
      /\ UNCHANGED <<booked, forced, outbox, staged, receipts, relay, conflicts, clash,
                     inbox, decision, review, changes, faults>>
  BY DEF RejectEvent
<1>2. /\ op \in Ops /\ applied[op] = "none" /\ StreamOf[op] \in Streams
      /\ decision[op] = applier[a].decided
  BY <1>1, MapsAssumption DEF StreamsInv, RunsOK, RunOK, Inside, NoDecision
<1>3. applied'[op] = "rejected-conflict" /\ \A o \in Ops : o # op => applied'[o] = applied[o]
  BY <1>1, <1>2 DEF StreamsInv, TypeOK, WriteReceipt
<1>4. TypeOK'
  BY <1>1, <1>2 DEF StreamsInv, TypeOK, WriteReceipt, IdleApplier, Run, NoDecision, Decisions, Outcomes
<1>5. /\ RunsOK' /\ OneInside' /\ AnswersOK'
      /\ \A o \in Ops : receipts[o] # "none" => o # op
  BY <1>1, WroteReceipt DEF Inside, Outcomes
<1>6. RejectionsDecided'
  BY <1>1, <1>2, <1>3 DEF StreamsInv, RejectionsDecided
<1>7. EffectsMatchReceipts'
  BY <1>1, <1>2, <1>3 DEF StreamsInv, EffectsMatchReceipts
<1>8. HandoverSound'
  BY <1>1, <1>3, <1>5 DEF StreamsInv, HandoverSound
<1>9. ItemsBeforeUse' /\ OverridesDecided'
  BY <1>1 DEF StreamsInv, ItemsBeforeUse, OverridesDecided, Undecided, Approved
<1>10. QED
  BY <1>1, <1>4, <1>5, <1>6, <1>7, <1>8, <1>9, FrameReviews DEF StreamsInv

LEMMA CommitReceiptKeeps ==
  ASSUME StreamsInv, NEW a \in Appliers, CommitReceipt(a) PROVE StreamsInv'
<1> DEFINE op == applier[a].op
           outcome == applier[a].result
<1> USE DEF MoveApplier, lanVars, inboxVars, reviewVars, boundVars
<1>1. /\ applier[a].pc = "posted"
      /\ WriteReceipt(op, outcome)
      /\ applier' = [applier EXCEPT ![a] = IdleApplier]
      /\ UNCHANGED <<booked, forced, outbox, staged, receipts, relay, conflicts, clash,
                     inbox, decision, review, changes, faults>>
  BY DEF CommitReceipt
<1>2. /\ op \in Ops /\ applied[op] = "none" /\ StreamOf[op] \in Streams
      /\ Kind[op] = "sale" /\ booked[op] = 1
      /\ outcome \in {"cloud-applied", "already-present"}
  BY <1>1, MapsAssumption DEF StreamsInv, RunsOK, RunOK, Inside
<1>3. applied'[op] = outcome /\ \A o \in Ops : o # op => applied'[o] = applied[o]
  BY <1>1, <1>2 DEF StreamsInv, TypeOK, WriteReceipt
<1>4. TypeOK'
  BY <1>1, <1>2 DEF StreamsInv, TypeOK, WriteReceipt, IdleApplier, Run, NoDecision, Decisions, Outcomes
<1>5. /\ RunsOK' /\ OneInside' /\ AnswersOK'
      /\ \A o \in Ops : receipts[o] # "none" => o # op
  <2>1. outcome \in Outcomes /\ outcome # "none"
    BY <1>2 DEF Outcomes
  <2>2. QED BY <1>1, <2>1, WroteReceipt DEF Inside
<1>6. RejectionsDecided'
  BY <1>1, <1>2, <1>3 DEF StreamsInv, RejectionsDecided
<1>7. EffectsMatchReceipts'
  BY <1>1, <1>2, <1>3 DEF StreamsInv, EffectsMatchReceipts
<1>8. HandoverSound'
  BY <1>1, <1>3, <1>5 DEF StreamsInv, HandoverSound
<1>9. ItemsBeforeUse' /\ OverridesDecided'
  BY <1>1 DEF StreamsInv, ItemsBeforeUse, OverridesDecided, Undecided, Approved
<1>10. QED
  BY <1>1, <1>4, <1>5, <1>6, <1>7, <1>8, <1>9, FrameReviews DEF StreamsInv

\* The handler refuses nothing: what the books disagree with the event in is
\* what its approval names.
LEMMA RefusesNothing ==
  ASSUME StreamsInv, NEW a \in Appliers, Handled(a), ItemKnown(applier[a].op),
         Refusals(applier[a].op, applier[a].decided) = {}, ~SaleExists(applier[a].op)
  PROVE  clash[applier[a].op] \subseteq Waived(applier[a].decided, Kind[applier[a].op])
<1> DEFINE op == applier[a].op
           d == applier[a].decided
<1>1. op \in Ops /\ DecisionValid(d, Kind[op])
  BY DEF Handled, StreamsInv, RunsOK, RunOK
<1>2. clash[op] \subseteq Codes /\ ~(booked[op] > 0)
  BY <1>1 DEF StreamsInv, TypeOK, SaleExists
<1>3. (clash[op] \cap Codes) \ (IF d.kind = "approve-override" THEN {d.code} ELSE {}) = {}
  BY <1>2 DEF Refusals
<1>4. QED
  BY <1>1, <1>2, <1>3 DEF Waived, DecisionValid

LEMMA CheckEventKeeps ==
  ASSUME StreamsInv, NEW a \in Appliers, CheckEvent(a) PROVE StreamsInv'
<1> DEFINE op == applier[a].op
           d == applier[a].decided
           found == Run("posted", op, d, "already-present")
           clear == [Run("checked", op, d, "none") EXCEPT !.seen = clash[op]]
           st == IF SaleExists(op) THEN found ELSE clear
<1> USE DEF MoveApplier, lanVars, inboxVars, applyVars, reviewVars, boundVars
<1>1. /\ Handled(a) /\ ItemKnown(op) /\ Refusals(op, d) = {}
      /\ applier' = [applier EXCEPT ![a] = st]
      /\ UNCHANGED <<applied, cursor, booked, forced, outbox, staged, receipts, relay, conflicts,
                     clash, inbox, decision, review, changes, faults>>
  BY DEF CheckEvent
<1>2. /\ applier[a].pc = "locked" /\ op \in Ops /\ applied[op] = "none"
      /\ inbox[op] > cursor[StreamOf[op]]
      /\ d # NoDecision => d = decision[op]
      /\ d \in Decisions /\ DecisionValid(d, Kind[op])
  BY <1>1 DEF Handled, StreamsInv, TypeOK, RunsOK, RunOK, Inside
<1>3. /\ clear = [pc |-> "checked", op |-> op, decided |-> d, result |-> "none", seen |-> clash[op]]
      /\ found = [pc |-> "posted", op |-> op, decided |-> d, result |-> "already-present", seen |-> {}]
  BY DEF Run
<1>4. SaleExists(op) => Kind[op] = "sale" /\ booked[op] = 1
  <2>1. booked[op] \in Nat /\ booked[op] <= 1
    BY <1>2 DEF StreamsInv, TypeOK, EffectsMatchReceipts
  <2>2. booked[op] = 1 => Kind[op] = "sale"
    BY <1>2 DEF StreamsInv, EffectsMatchReceipts
  <2>3. QED BY <2>1, <2>2 DEF SaleExists
<1>5. ~SaleExists(op) => clash[op] \subseteq Waived(d, Kind[op])
  BY <1>1, RefusesNothing
<1>6. clash[op] \subseteq Codes
  BY <1>2 DEF StreamsInv, TypeOK
<1> HIDE DEF found, clear
<1>7. st \in RunsIn({"checked", "posted"})
  BY <1>2, <1>3, <1>6 DEF RunsIn, Outcomes
<1>8. /\ st.pc \in {"checked", "posted"} /\ st.op = op /\ st.decided = d
      /\ st.pc = "checked" => ~SaleExists(op) /\ st.seen = clash[op]
      /\ st.pc = "posted" => SaleExists(op) /\ st.result = "already-present"
  BY <1>3
<1> HIDE DEF st
<1>9. applier'[a] = st /\ \A b \in Appliers : b # a => applier'[b] = applier[b]
  BY <1>1 DEF StreamsInv, TypeOK
<1>10. TypeOK'
  BY <1>1, <1>7 DEF StreamsInv, TypeOK, RunsIn
<1>11. RunsOK'
  <2>1. RunOK(a)'
    <3>1. applier'[a].pc = "checked" => Cleared(applier[a])'
      BY <1>1, <1>2, <1>5, <1>8, <1>9 DEF Cleared, ItemKnown
    <3>2. QED BY <1>1, <1>2, <1>4, <1>8, <1>9, <3>1 DEF RunOK, Inside
  <2>2. ASSUME NEW b \in Appliers, b # a PROVE RunOK(b)'
    BY <1>1, <1>9, <2>2 DEF StreamsInv, RunsOK, RunOK, Cleared, ItemKnown
  <2>3. QED BY <2>1, <2>2 DEF RunsOK
<1>12. OneInside'
  BY <1>2, <1>8, <1>9 DEF StreamsInv, OneInside, Inside
<1>13. QED
  BY <1>1, <1>10, <1>11, <1>12, FrameAnswers, FrameReviews, FrameBooks, FrameHandover DEF StreamsInv

\* Booking an event that was checked: what the check saw and what the booking
\* guards is covered by the approval, and the item is known.
LEMMA BookingKeeps ==
  ASSUME StreamsInv, NEW a \in Appliers, applier[a].pc \in {"checked", "adrift"}, ~Overtaken(a),
         booked[applier[a].op] = 0, Book(a), UNCHANGED decision
  PROVE  /\ booked' \in [Ops -> Nat]
         /\ forced' \in [Ops -> [seen : SUBSET Codes, met : SUBSET Codes]]
         /\ booked'[applier[a].op] = 1
         /\ \A o \in Ops : o # applier[a].op => booked'[o] = booked[o]
         /\ ItemsBeforeUse' /\ OverridesDecided'
<1> DEFINE op == applier[a].op
           d == applier[a].decided
           met == clash[op] \cap Guarded(Kind[op])
<1>1. Cleared(applier[a])
  BY DEF StreamsInv, RunsOK, RunOK
<1>2. op \in Ops /\ (d # NoDecision => d = decision[op]) /\ d \in Decisions
  BY DEF StreamsInv, RunsOK, RunOK, TypeOK
<1>3. /\ booked' \in [Ops -> Nat] /\ booked'[op] = 1
      /\ \A o \in Ops : o # op => booked'[o] = booked[o]
  BY <1>2 DEF Book, StreamsInv, TypeOK
<1>4. /\ forced' \in [Ops -> [seen : SUBSET Codes, met : SUBSET Codes]]
      /\ forced'[op] = [seen |-> applier[a].seen, met |-> clash[op]]
      /\ \A o \in Ops : o # op => forced'[o] = forced[o]
  BY <1>2 DEF Book, StreamsInv, TypeOK
<1>5. ItemsBeforeUse'
  <2> SUFFICES ASSUME NEW o \in Ops, booked'[o] > 0, Creator[o] # o
               PROVE  booked'[Creator[o]] > 0
    BY DEF ItemsBeforeUse
  <2>1. Creator[o] \in Ops /\ booked[Creator[o]] \in Nat
    BY MapsAssumption DEF StreamsInv, TypeOK
  <2>2. booked[Creator[o]] > 0
    BY <1>1, <1>3 DEF Cleared, ItemKnown, StreamsInv, ItemsBeforeUse
  <2>3. QED BY <1>3, <2>1, <2>2
<1>6. OverridesDecided'
  <2>1. \A code \in met : d.kind = "approve-override" /\ d.code = code
    BY DEF Overtaken
  <2>2. met \subseteq Waived(d, Kind[op])
    BY <1>1, <2>1 DEF Cleared, DecisionValid, Waived
  <2>3. Waived(d, Kind[op]) \subseteq Approved(op)
    <3>1. CASE d = NoDecision
      BY <3>1 DEF NoDecision, Waived
    <3>2. CASE d # NoDecision
      BY <1>2, <3>2 DEF Waived, Approved
    <3>3. QED BY <3>1, <3>2
  <2>4. applier[a].seen \cup met \subseteq Approved(op)
    BY <1>1, <2>2, <2>3 DEF Cleared
  <2>5. ASSUME NEW o \in Ops PROVE Undecided(o)' = {}
    <3>1. Approved(o)' = Approved(o)
      BY DEF Approved
    <3>2. CASE o = op
      BY <1>4, <2>4, <3>1, <3>2 DEF Undecided
    <3>3. CASE o # op
      BY <1>4, <3>1, <3>3 DEF Undecided, StreamsInv, OverridesDecided
    <3>4. QED BY <3>2, <3>3
  <2>6. QED BY <2>5 DEF OverridesDecided
<1>7. QED BY <1>3, <1>4, <1>5, <1>6

LEMMA ApplyEventKeeps ==
  ASSUME StreamsInv, NEW a \in Appliers, ApplyEvent(a) PROVE StreamsInv'
<1> DEFINE op == applier[a].op
<1> USE DEF MoveApplier, lanVars, inboxVars, reviewVars, boundVars
<1>1. /\ applier[a].pc = "checked" /\ Kind[op] # "sale" /\ ~Overtaken(a) /\ Book(a)
      /\ WriteReceipt(op, "cloud-applied")
      /\ applier' = [applier EXCEPT ![a] = IdleApplier]
      /\ UNCHANGED <<outbox, staged, receipts, relay, conflicts, clash,
                     inbox, decision, review, changes, faults>>
  BY DEF ApplyEvent
<1>2. /\ op \in Ops /\ applied[op] = "none" /\ StreamOf[op] \in Streams
  BY <1>1, MapsAssumption DEF StreamsInv, RunsOK, RunOK, Inside
<1>3. booked[op] = 0
  <2>1. booked[op] \in Nat /\ booked[op] <= 1 /\ booked[op] # 1
    BY <1>1, <1>2 DEF StreamsInv, TypeOK, EffectsMatchReceipts
  <2>2. QED BY <2>1
<1>4. /\ booked' \in [Ops -> Nat]
      /\ forced' \in [Ops -> [seen : SUBSET Codes, met : SUBSET Codes]]
      /\ booked'[op] = 1 /\ \A o \in Ops : o # op => booked'[o] = booked[o]
      /\ ItemsBeforeUse' /\ OverridesDecided'
  BY <1>1, <1>3, BookingKeeps
<1>5. applied'[op] = "cloud-applied" /\ \A o \in Ops : o # op => applied'[o] = applied[o]
  BY <1>1, <1>2 DEF StreamsInv, TypeOK, WriteReceipt
<1>6. TypeOK'
  BY <1>1, <1>2, <1>4 DEF StreamsInv, TypeOK, WriteReceipt, IdleApplier, Run, NoDecision, Decisions, Outcomes
<1>7. /\ RunsOK' /\ OneInside' /\ AnswersOK'
      /\ \A o \in Ops : receipts[o] # "none" => o # op
  <2>1. \A o \in Ops : booked[o] > 0 => booked'[o] > 0
    BY <1>4
  <2>2. QED BY <1>1, <1>4, <2>1, WroteReceipt DEF Inside, Outcomes
<1>8. RejectionsDecided'
  BY <1>1, <1>2, <1>5 DEF StreamsInv, RejectionsDecided
<1>9. EffectsMatchReceipts'
  BY <1>2, <1>4, <1>5 DEF StreamsInv, EffectsMatchReceipts
<1>10. HandoverSound'
  BY <1>1, <1>4, <1>5, <1>7 DEF StreamsInv, HandoverSound
<1>11. QED
  BY <1>1, <1>4, <1>6, <1>7, <1>8, <1>9, <1>10, FrameReviews DEF StreamsInv

\* A sale commits, from a run that holds its cursor or from one adrift.
LEMMA PostSaleKeeps ==
  ASSUME StreamsInv, NEW a \in Appliers, PostSale(a) PROVE StreamsInv'
<1> DEFINE op == applier[a].op
           outcome == IF SaleExists(op) THEN "already-present" ELSE "cloud-applied"
           st == IF applier[a].pc = "adrift" THEN IdleApplier
                 ELSE Run("posted", op, applier[a].decided, outcome)
<1> USE DEF MoveApplier, lanVars, inboxVars, reviewVars, boundVars
<1>1. /\ applier[a].pc \in {"checked", "adrift"} /\ Kind[op] = "sale"
      /\ IF SaleExists(op) THEN UNCHANGED <<booked, forced>> ELSE ~Overtaken(a) /\ Book(a)
      /\ applier' = [applier EXCEPT ![a] = st]
      /\ UNCHANGED <<applied, cursor, outbox, staged, receipts, relay, conflicts, clash,
                     inbox, decision, review, changes, faults>>
  BY DEF PostSale
<1>2. /\ op \in Ops /\ applier[a].decided \in Decisions
      /\ applier[a].decided # NoDecision => applier[a].decided = decision[op]
      /\ applier[a].pc = "checked" => applied[op] = "none" /\ inbox[op] > cursor[StreamOf[op]]
  BY <1>1 DEF StreamsInv, TypeOK, RunsOK, RunOK, Inside
<1>3. /\ booked' \in [Ops -> Nat]
      /\ forced' \in [Ops -> [seen : SUBSET Codes, met : SUBSET Codes]]
      /\ booked'[op] = 1 /\ \A o \in Ops : o # op => booked'[o] = booked[o]
      /\ \A o \in Ops : booked[o] > 0 => booked'[o] = booked[o]
      /\ ItemsBeforeUse' /\ OverridesDecided'
  <2>1. booked[op] \in Nat /\ booked[op] <= 1
    BY <1>2 DEF StreamsInv, TypeOK, EffectsMatchReceipts
  <2>2. CASE SaleExists(op)
    <3>1. booked[op] = 1 /\ UNCHANGED <<booked, forced>>
      BY <1>1, <2>1, <2>2 DEF SaleExists
    <3>2. QED
      BY <1>1, <3>1 DEF StreamsInv, TypeOK, ItemsBeforeUse, OverridesDecided, Undecided, Approved
  <2>3. CASE ~SaleExists(op)
    <3>1. booked[op] = 0 /\ ~Overtaken(a) /\ Book(a)
      BY <1>1, <2>1, <2>3 DEF SaleExists
    <3>2. /\ booked' \in [Ops -> Nat]
          /\ forced' \in [Ops -> [seen : SUBSET Codes, met : SUBSET Codes]]
          /\ booked'[op] = 1 /\ \A o \in Ops : o # op => booked'[o] = booked[o]
          /\ ItemsBeforeUse' /\ OverridesDecided'
      BY <1>1, <3>1, BookingKeeps
    <3>3. \A o \in Ops : booked[o] > 0 => o # op
      BY <3>1
    <3>4. QED BY <3>2, <3>3
  <2>4. QED BY <2>2, <2>3
<1>4. /\ st \in RunsIn({"idle", "posted"}) /\ outcome \in {"cloud-applied", "already-present"}
      /\ st = IdleApplier \/ /\ applier[a].pc = "checked" /\ st.pc = "posted" /\ st.op = op
                             /\ st.decided = applier[a].decided /\ st.result = outcome
  BY <1>1, <1>2 DEF Run, RunsIn, IdleApplier, NoDecision, Decisions, Outcomes
<1> HIDE DEF outcome, st
<1>5. applier'[a] = st /\ \A b \in Appliers : b # a => applier'[b] = applier[b]
  BY <1>1 DEF StreamsInv, TypeOK
<1>6. TypeOK'
  BY <1>1, <1>3, <1>4 DEF StreamsInv, TypeOK, RunsIn
<1>7. RunsOK'
  <2>1. RunOK(a)'
    <3>1. CASE st = IdleApplier
      BY <1>5, <3>1 DEF RunOK, Inside, IdleApplier, Run
    <3>2. CASE st # IdleApplier
      BY <1>1, <1>2, <1>3, <1>4, <1>5, <3>2 DEF RunOK, Inside
    <3>3. QED BY <3>1, <3>2
  <2>2. ASSUME NEW b \in Appliers, b # a PROVE RunOK(b)'
    <3>1. RunOK(b) /\ applier'[b] = applier[b]
      BY <1>5, <2>2 DEF StreamsInv, RunsOK
    <3>2. applier[b].pc \in {"checked", "adrift"} => Cleared(applier[b])'
      BY <1>3, <3>1, ClearedStays DEF RunOK
    <3>3. applier[b].pc = "posted" => booked'[applier[b].op] = 1
      BY <1>3, <3>1 DEF RunOK
    <3>4. QED BY <1>1, <3>1, <3>2, <3>3 DEF RunOK
  <2>3. QED BY <2>1, <2>2 DEF RunsOK
<1>8. OneInside'
  BY <1>4, <1>5 DEF StreamsInv, OneInside, Inside, IdleApplier, Run
<1>9. EffectsMatchReceipts'
  BY <1>1, <1>2, <1>3 DEF StreamsInv, EffectsMatchReceipts
<1>10. HandoverSound'
  BY <1>1, <1>3 DEF StreamsInv, HandoverSound
<1>11. RejectionsDecided'
  BY <1>1 DEF StreamsInv, RejectionsDecided
<1>12. QED
  BY <1>1, <1>3, <1>6, <1>7, <1>8, <1>9, <1>10, <1>11, FrameReviews, FrameAnswers DEF StreamsInv

-----------------------------------------------------------------------------
(* Every step preserves the invariant: the books and the reviewers.        *)

LEMMA CloudChangesKeeps ==
  ASSUME StreamsInv, NEW o \in Ops, NEW code \in Codes, CloudChanges(o, code) PROVE StreamsInv'
<1> USE DEF StreamsInv, CloudChanges, lanVars, inboxVars, applyVars, reviewVars
<1>1. TypeOK'
  BY BoundsAssumption DEF TypeOK
<1>2. QED
  BY <1>1, FrameRuns, FrameAnswers, FrameReviews, FrameBooks, FrameHandover

LEMMA OpenReviewKeeps ==
  ASSUME StreamsInv, NEW v \in Reviewers, NEW o \in Ops,
         NEW kind \in {"reject-event", "approve-override"}, OpenReview(v, o, kind)
  PROVE  StreamsInv'
<1> USE DEF StreamsInv, OpenReview, lanVars, inboxVars, applyVars, boundVars
<1>1. LatestCode(o) \in Codes
  BY LatestCodeIsOne
<1>2. TypeOK'
  BY <1>1 DEF TypeOK
<1>3. ReviewsOK'
  BY <1>1 DEF ReviewsOK, TypeOK
<1>4. QED
  BY <1>2, <1>3, FrameRuns, FrameAnswers, FrameBooks, FrameHandover

\* A decision is made once, about an event that had none.
LEMMA DecideKeeps ==
  ASSUME StreamsInv, NEW v \in Reviewers, review[v] # NoReview, NEW code \in Codes, Decide(v, code)
  PROVE  StreamsInv'
<1> DEFINE op == review[v].op
<1> USE DEF lanVars, inboxVars, applyVars, boundVars
<1>1. op \in Ops /\ review[v].kind \in {"reject-event", "approve-override"}
  BY DEF StreamsInv, ReviewsOK
<1>2. /\ decision' = IF decision[op] # NoDecision THEN decision
                     ELSE [decision EXCEPT ![op] = [kind |-> review[v].kind, code |-> code]]
      /\ review' = [review EXCEPT ![v] = NoReview]
      /\ UNCHANGED <<outbox, staged, receipts, relay, conflicts, clash, applier, inbox,
                     applied, cursor, booked, forced, changes, faults>>
  BY DEF Decide
<1>3. \A o \in Ops : decision[o] # NoDecision => decision'[o] = decision[o]
  BY <1>2 DEF StreamsInv, TypeOK
<1>4. TypeOK'
  BY <1>1, <1>2 DEF StreamsInv, TypeOK, Decisions, NoReview
<1>5. RunsOK' /\ OneInside'
  <2>1. ASSUME NEW a \in Appliers PROVE RunOK(a)'
    BY <1>2, <1>3 DEF StreamsInv, RunsOK, RunOK, Inside, Cleared, ItemKnown
  <2>2. QED BY <1>2, <2>1 DEF StreamsInv, RunsOK, OneInside
<1>6. ReviewsOK'
  BY <1>2 DEF StreamsInv, ReviewsOK, TypeOK
<1>7. RejectionsDecided' /\ OverridesDecided' /\ HandoverSound'
  <2>1. \A o \in Ops : decision[o].kind \in {"reject-event", "approve-override"} => decision'[o] = decision[o]
    BY <1>3 DEF NoDecision
  <2>2. RejectionsDecided'
    BY <1>2, <2>1 DEF StreamsInv, RejectionsDecided
  <2>3. OverridesDecided'
    <3>1. ASSUME NEW o \in Ops PROVE Approved(o) \subseteq Approved(o)'
      BY <2>1 DEF Approved
    <3>2. QED BY <1>2, <3>1 DEF StreamsInv, OverridesDecided, Undecided
  <2>4. HandoverSound'
    BY <1>2, <2>1 DEF StreamsInv, HandoverSound
  <2>5. QED BY <2>2, <2>3, <2>4
<1>8. EffectsMatchReceipts' /\ ItemsBeforeUse'
  BY <1>2 DEF StreamsInv, EffectsMatchReceipts, ItemsBeforeUse
<1>9. QED
  BY <1>2, <1>4, <1>5, <1>6, <1>7, <1>8, FrameAnswers DEF StreamsInv

LEMMA ReviewStepKeeps ==
  ASSUME StreamsInv, NEW v \in Reviewers, ReviewStep(v) PROVE StreamsInv'
<1>1. ASSUME NEW o \in Ops, NEW kind \in {"reject-event", "approve-override"}, OpenReview(v, o, kind)
      PROVE  StreamsInv'
  BY <1>1, OpenReviewKeeps
<1>2. CASE DecideOnCommandLine(v)
  BY <1>2, DecideKeeps DEF DecideOnCommandLine, StreamsInv, ReviewsOK
<1>3. CASE DecideOnConsole(v)
  <2>1. review[v] # NoReview /\ review[v].op \in Ops /\ conflicts[review[v].op] # << >>
    BY <1>3 DEF DecideOnConsole, StreamsInv, ReviewsOK
  <2>2. LatestCode(review[v].op) \in Codes
    BY <2>1, LatestCodeIsOne DEF StreamsInv
  <2>3. QED BY <1>3, <2>1, <2>2, DecideKeeps DEF DecideOnConsole
<1>4. QED BY <1>1, <1>2, <1>3 DEF ReviewStep

-----------------------------------------------------------------------------
(* The invariant, and the theorems.                                        *)

LEMMA StreamsInvInit ==
  ASSUME Init PROVE StreamsInv
<1> USE DEF Init
<1>1. TypeOK
  BY BoundsAssumption DEF TypeOK, IdleRelay, IdleApplier, Run, NoReview, NoDecision, Decisions, Outcomes
<1>2. RunsOK /\ OneInside /\ AnswersOK /\ ReviewsOK
  BY DEF RunsOK, RunOK, OneInside, AnswersOK, ReviewsOK, IdleRelay, IdleApplier, Run, Inside
<1>3. QED
  BY <1>1, <1>2 DEF StreamsInv, RejectionsDecided, EffectsMatchReceipts, ItemsBeforeUse,
                    OverridesDecided, Undecided, HandoverSound

LEMMA StreamsInvNext ==
  ASSUME StreamsInv, [Next]_vars PROVE StreamsInv'
<1>1. CASE UNCHANGED vars
  BY <1>1, FrameRuns, FrameAnswers, FrameReviews, FrameBooks, FrameHandover DEF vars, StreamsInv, TypeOK
<1>2. ASSUME NEW o \in Ops, Capture(o) PROVE StreamsInv'
  BY <1>2, CaptureKeeps
<1>3. ASSUME NEW s \in Streams, RelayStep(s) PROVE StreamsInv'
  BY <1>3, SendBatchKeeps, StageEventsKeeps, RecordStagedKeeps, FetchReceiptsKeeps,
     RecordReceiptsKeeps DEF RelayStep
<1>4. ASSUME NEW s \in Streams, RelayFails(s) PROVE StreamsInv'
  BY <1>4, RelayFailsKeeps
<1>5. ASSUME NEW a \in Appliers, NEW o \in Ops, StartApply(a, o) PROVE StreamsInv'
  BY <1>5, StartApplyKeeps
<1>6. ASSUME NEW a \in Appliers, ApplierStep(a) PROVE StreamsInv'
  BY <1>6, LockCursorKeeps, RejectEventKeeps, RefuseDecisionKeeps, WaitForItemKeeps,
     MeetConflictKeeps, CheckEventKeeps, ApplyEventKeeps, PostSaleKeeps, BookingFailsKeeps,
     RefuseBookingKeeps, CommitReceiptKeeps, RecordConflictKeeps
     DEF ApplierStep
<1>7. ASSUME NEW a \in Appliers, ApplierFails(a) PROVE StreamsInv'
  BY <1>7, ApplierFailsKeeps
<1>8. ASSUME NEW o \in Ops, NEW code \in Codes, CloudChanges(o, code) PROVE StreamsInv'
  BY <1>8, CloudChangesKeeps
<1>9. ASSUME NEW v \in Reviewers, ReviewStep(v) PROVE StreamsInv'
  BY <1>9, ReviewStepKeeps
<1>10. QED
  BY <1>1, <1>2, <1>3, <1>4, <1>5, <1>6, <1>7, <1>8, <1>9 DEF Next

\* The inductive invariant holds in every reachable state.
THEOREM Invariance == Spec => []StreamsInv
<1>1. Init => StreamsInv
  BY StreamsInvInit
<1>2. StreamsInv /\ [Next]_vars => StreamsInv'
  BY StreamsInvNext
<1>3. QED BY <1>1, <1>2, PTL DEF Spec

\* Every variable keeps its shape.
THEOREM TypeCorrect == Spec => []TypeOK
<1>1. StreamsInv => TypeOK
  BY DEF StreamsInv
<1>2. QED BY <1>1, Invariance, PTL

\* Booked effects and receipts agree, however many runs of the apply command
\* there are and wherever they are killed.
THEOREM EffectsAgree == Spec => []EffectsMatchReceipts
<1>1. StreamsInv => EffectsMatchReceipts
  BY DEF StreamsInv
<1>2. QED BY <1>1, Invariance, PTL

\* No event is booked before the create of the item it names.
THEOREM CreatesComeFirst == Spec => []ItemsBeforeUse
<1>1. StreamsInv => ItemsBeforeUse
  BY DEF StreamsInv
<1>2. QED BY <1>1, Invariance, PTL

\* Nothing is booked in a disagreement that stood when it was checked, or that
\* the booking guards, but the one a reviewer approved.
THEOREM OverridesAreDecided == Spec => []OverridesDecided
<1>1. StreamsInv => OverridesDecided
  BY DEF StreamsInv
<1>2. QED BY <1>1, Invariance, PTL

\* What the handover preflight counts as settled is booked or rejected.
THEOREM HandoversAreSound == Spec => []HandoverSound
<1>1. StreamsInv => HandoverSound
  BY DEF StreamsInv
<1>2. QED BY <1>1, Invariance, PTL

-----------------------------------------------------------------------------
(* Order: the invariant behind the delivery of each stream.                *)

\* Events of one stream are captured under different numbers.
NumbersDiffer ==
    \A o, q \in Ops :
        /\ outbox[o] <= Cardinality(Captured(StreamOf[o]))
        /\ StreamOf[o] = StreamOf[q] /\ outbox[o] > 0 /\ outbox[o] = outbox[q] => o = q

\* The inbox of a stream holds what was captured, from 1 on without a gap,
\* and the apply cursor stands in it.
InboxGapless ==
    /\ \A o \in Ops : inbox[o] > 0 => inbox[o] = outbox[o]
    /\ \A s \in Streams :
           /\ {inbox[o] : o \in Inbox(s)} = 1 .. Cardinality(Inbox(s))
           /\ cursor[s] <= Cardinality(Inbox(s))

\* The applied events are those up to the cursor.
AppliedToCursor ==
    \A o \in Ops : applied[o] # "none" <=> inbox[o] > 0 /\ inbox[o] <= cursor[StreamOf[o]]

\* A run goes for an event that is next or was; inside its transaction it is.
RunsFollowCursor ==
    \A a \in Appliers :
        LET o == applier[a].op
        IN  /\ applier[a].pc = "next" => inbox[o] > 0 /\ inbox[o] <= cursor[StreamOf[o]] + 1
            /\ applier[a].pc \in Inside => inbox[o] = cursor[StreamOf[o]] + 1

\* A relay works on rows of its stream.
RelayOwnRows == \A s \in Streams : relay[s].rows \subseteq OfStream(s)

\* The events of a stream's inbox up to number k.
UpTo(s, k) == {o \in Inbox(s) : inbox[o] <= k}

\* The receipts of a stream are a prefix of what is applied, and so they are
\* with an answer that is on its way.
ReceiptsArePrefix ==
    \A s \in Streams : \E k \in 0 .. cursor[s] : Receipted(s) = UpTo(s, k)
AnswersAreNext ==
    \A s \in Streams : relay[s].pc = "answered" =>
        \E k \in 0 .. cursor[s] : Receipted(s) \cup relay[s].rows = UpTo(s, k)

OrderInv ==
    /\ NumbersDiffer
    /\ InboxGapless
    /\ AppliedToCursor
    /\ RunsFollowCursor
    /\ RelayOwnRows
    /\ ReceiptsArePrefix
    /\ AnswersAreNext

-----------------------------------------------------------------------------
(* The order is preserved.                                                 *)

\* The inbox of a stream is a finite set.
LEMMA InboxFinite ==
  ASSUME NEW s PROVE IsFiniteSet(Inbox(s)) /\ Cardinality(Inbox(s)) \in Nat
<1>1. IsFiniteSet(Inbox(s))
  BY MapsAssumption, FS_Subset DEF Inbox, OfStream
<1>2. QED BY <1>1, FS_CardinalityType

\* Steps of the cloud that do not move a cursor.
LEMMA FrameOrder ==
  ASSUME OrderInv, RunsFollowCursor', UNCHANGED <<outbox, receipts, relay, inbox, applied, cursor>>
  PROVE  OrderInv'
<1>1. \A s : Inbox(s)' = Inbox(s) /\ Captured(s)' = Captured(s) /\ Receipted(s)' = Receipted(s)
  BY DEF Inbox, Captured, Receipted
<1>2. \A s, k : UpTo(s, k)' = UpTo(s, k)
  BY <1>1 DEF UpTo
<1>3. NumbersDiffer' /\ AppliedToCursor' /\ RelayOwnRows'
  BY <1>1 DEF OrderInv, NumbersDiffer, AppliedToCursor, RelayOwnRows
<1>4. InboxGapless'
  BY <1>1 DEF OrderInv, InboxGapless
<1>5. ReceiptsArePrefix'
  BY <1>1, <1>2 DEF OrderInv, ReceiptsArePrefix
<1>6. AnswersAreNext'
  BY <1>1, <1>2 DEF OrderInv, AnswersAreNext
<1>7. QED BY <1>3, <1>4, <1>5, <1>6 DEF OrderInv

\* Steps of the relay that leave receipts and inbox alone.
LEMMA FrameRelay ==
  ASSUME OrderInv, RelayOwnRows', AnswersAreNext',
         UNCHANGED <<outbox, receipts, inbox, applied, cursor, applier>>
  PROVE  OrderInv'
<1>1. \A s : Inbox(s)' = Inbox(s) /\ Captured(s)' = Captured(s) /\ Receipted(s)' = Receipted(s)
  BY DEF Inbox, Captured, Receipted
<1>2. \A s, k : UpTo(s, k)' = UpTo(s, k)
  BY <1>1 DEF UpTo
<1>3. NumbersDiffer' /\ AppliedToCursor' /\ RunsFollowCursor'
  BY <1>1 DEF OrderInv, NumbersDiffer, AppliedToCursor, RunsFollowCursor
<1>4. InboxGapless'
  BY <1>1 DEF OrderInv, InboxGapless
<1>5. ReceiptsArePrefix'
  BY <1>1, <1>2 DEF OrderInv, ReceiptsArePrefix
<1>6. QED BY <1>3, <1>4, <1>5 DEF OrderInv

\* The relay of one stream moves to a state without an answer.
LEMMA RelayMoves ==
  ASSUME StreamsInv, OrderInv, NEW s \in Streams, NEW st,
         relay' = [relay EXCEPT ![s] = st], st.pc # "answered", st.rows \subseteq OfStream(s),
         UNCHANGED <<outbox, receipts, inbox, applied, cursor, applier>>
  PROVE  OrderInv'
<1>1. relay'[s] = st /\ \A t \in Streams : t # s => relay'[t] = relay[t]
  BY DEF StreamsInv, TypeOK
<1>2. RelayOwnRows'
  BY <1>1 DEF OrderInv, RelayOwnRows, OfStream
<1>3. \A t, k : UpTo(t, k)' = UpTo(t, k) /\ Receipted(t)' = Receipted(t)
  BY DEF UpTo, Inbox, Receipted
<1>4. AnswersAreNext'
  BY <1>1, <1>3 DEF OrderInv, AnswersAreNext
<1>5. QED BY <1>2, <1>4, FrameRelay

\* A capture numbers its event behind the others of its stream.
LEMMA CaptureOrder ==
  ASSUME StreamsInv, OrderInv, NEW o \in Ops, Capture(o) PROVE OrderInv'
<1> USE DEF StreamsInv, Capture, inboxVars, applyVars, reviewVars, boundVars
<1> DEFINE n == Cardinality(Captured(StreamOf[o]))
<1>1. n \in Nat
  BY CaptureNumbers
<1>2. outbox'[o] = n + 1 /\ \A q \in Ops : q # o => outbox'[q] = outbox[q]
  BY DEF TypeOK
<1>3. \A s : s # StreamOf[o] => Captured(s)' = Captured(s)
  BY <1>2 DEF Captured, OfStream
<1>4. Cardinality(Captured(StreamOf[o]))' = n + 1
  <2>1. \A q \in Ops : outbox'[q] > 0 <=> outbox[q] > 0 \/ q = o
    BY <1>1, <1>2
  <2>2. Captured(StreamOf[o])' = Captured(StreamOf[o]) \cup {o}
    BY <2>1 DEF Captured, OfStream
  <2>3. o \notin Captured(StreamOf[o])
    BY DEF Captured
  <2>4. IsFiniteSet(Captured(StreamOf[o]))
    BY MapsAssumption, FS_Subset DEF Captured, OfStream
  <2>5. QED BY <2>2, <2>3, <2>4, FS_AddElement
<1>5. NumbersDiffer'
  <2>1. ASSUME NEW q \in Ops PROVE outbox'[q] <= Cardinality(Captured(StreamOf[q]))'
    <3>1. outbox[q] <= Cardinality(Captured(StreamOf[q])) /\ outbox[q] \in Nat
      BY DEF OrderInv, NumbersDiffer, TypeOK
    <3>2. CASE StreamOf[q] = StreamOf[o]
      BY <3>1, <3>2, <1>1, <1>2, <1>4
    <3>3. CASE StreamOf[q] # StreamOf[o]
      BY <3>1, <3>3, <1>2, <1>3
    <3>4. QED BY <3>2, <3>3
  <2>2. ASSUME NEW q \in Ops, StreamOf[q] = StreamOf[o], q # o PROVE outbox'[q] # n + 1
    BY <2>2, <1>1, <1>2 DEF OrderInv, NumbersDiffer, TypeOK
  <2>3. ASSUME NEW p \in Ops, NEW q \in Ops, StreamOf[p] = StreamOf[q], outbox'[p] > 0, outbox'[p] = outbox'[q]
        PROVE  p = q
    BY <2>2, <2>3, <1>2 DEF OrderInv, NumbersDiffer
  <2>4. QED BY <2>1, <2>3 DEF NumbersDiffer
<1>6. inbox[o] = 0
  <2>1. ~(inbox[o] > 0)
    BY DEF OrderInv, InboxGapless
  <2>2. QED BY <2>1 DEF TypeOK
<1>7. \A s, k : Inbox(s)' = Inbox(s) /\ UpTo(s, k)' = UpTo(s, k) /\ Receipted(s)' = Receipted(s)
  BY DEF Inbox, UpTo, Receipted
<1>8. InboxGapless'
  BY <1>2, <1>6, <1>7 DEF OrderInv, InboxGapless
<1>9. AppliedToCursor' /\ RunsFollowCursor' /\ RelayOwnRows'
  BY DEF OrderInv, AppliedToCursor, RunsFollowCursor, RelayOwnRows
<1>10. ReceiptsArePrefix' /\ AnswersAreNext'
  BY <1>7 DEF OrderInv, ReceiptsArePrefix, AnswersAreNext
<1>11. QED BY <1>5, <1>8, <1>9, <1>10 DEF OrderInv

\* What a staging transaction adds to the inbox comes behind it.
Fresh(s) == {o \in relay[s].rows : inbox[o] = 0}

LEMMA StagedBehind ==
  ASSUME StreamsInv, OrderInv, NEW s \in Streams, StageEvents(s)
  PROVE  /\ Fresh(s) \subseteq OfStream(s)
         /\ Inbox(s)' = Inbox(s) \cup Fresh(s)
         /\ \A t \in Streams : t # s => Inbox(t)' = Inbox(t)
         /\ \A o \in Fresh(s) : inbox'[o] = outbox[o] /\ inbox'[o] > Cardinality(Inbox(s))
         /\ \A o \in Ops \ Fresh(s) : inbox'[o] = inbox[o]
         /\ Cardinality(Inbox(s))' = Cardinality(Inbox(s)) + Cardinality(Fresh(s))
         /\ Cardinality(Fresh(s)) \in Nat
         /\ {outbox[o] : o \in Fresh(s)}
              = (Cardinality(Inbox(s)) + 1) .. (Cardinality(Inbox(s)) + Cardinality(Fresh(s)))
<1> USE DEF StreamsInv
<1> DEFINE last == Cardinality(Inbox(s))
           count == Cardinality(Fresh(s))
<1>1. Fresh(s) \subseteq OfStream(s) /\ Fresh(s) \subseteq Ops
  BY DEF OrderInv, RelayOwnRows, Fresh, OfStream
<1>2. /\ inbox' = [o \in Ops |-> IF o \in Fresh(s) THEN outbox[o] ELSE inbox[o]]
      /\ {outbox[o] : o \in Fresh(s)} = (last + 1) .. (last + count)
  BY DEF StageEvents, Fresh
<1>3. IsFiniteSet(Fresh(s)) /\ count \in Nat /\ IsFiniteSet(Inbox(s)) /\ last \in Nat
  BY <1>1, MapsAssumption, FS_Subset, FS_CardinalityType, InboxFinite
<1>4. \A o \in Fresh(s) : inbox'[o] = outbox[o] /\ inbox'[o] > last
  <2>1. ASSUME NEW o \in Fresh(s) PROVE outbox[o] > last
    <3>1. outbox[o] \in (last + 1) .. (last + count)
      BY <1>2
    <3>2. QED BY <3>1, <1>3
  <2>2. QED BY <2>1, <1>1, <1>2
<1>5. \A o \in Ops \ Fresh(s) : inbox'[o] = inbox[o]
  BY <1>2
<1>6. Inbox(s)' = Inbox(s) \cup Fresh(s)
  <2>1. ASSUME NEW o \in Ops PROVE inbox'[o] > 0 <=> inbox[o] > 0 \/ o \in Fresh(s)
    <3>1. CASE o \in Fresh(s)
      <4>1. inbox'[o] > last /\ inbox'[o] = outbox[o] /\ outbox[o] \in Nat
        BY <1>4, <3>1 DEF TypeOK
      <4>2. QED BY <3>1, <4>1, <1>3
    <3>2. CASE o \notin Fresh(s)
      BY <1>5, <3>2
    <3>3. QED BY <3>1, <3>2
  <2>2. QED BY <2>1, <1>1 DEF Inbox, OfStream
<1>7. \A t \in Streams : t # s => Inbox(t)' = Inbox(t)
  BY <1>1, <1>5 DEF Inbox, OfStream
<1>8. Cardinality(Inbox(s) \cup Fresh(s)) = last + count
  <2>1. Inbox(s) \cap Fresh(s) = {}
    BY DEF Inbox, Fresh
  <2>2. Cardinality(Inbox(s) \cap Fresh(s)) = 0
    BY <2>1, FS_EmptySet
  <2>3. Cardinality(Inbox(s) \cup Fresh(s)) = last + count - Cardinality(Inbox(s) \cap Fresh(s))
    BY <1>3, FS_Union
  <2>4. QED BY <1>3, <2>2, <2>3
<1>9. QED BY <1>1, <1>2, <1>3, <1>4, <1>5, <1>6, <1>7, <1>8

\* Staging keeps the inbox gapless and leaves the prefixes alone.
LEMMA StageOrder ==
  ASSUME StreamsInv, OrderInv, NEW s \in Streams, StageEvents(s) PROVE OrderInv'
<1> USE DEF StreamsInv
<1> DEFINE last == Cardinality(Inbox(s))
           count == Cardinality(Fresh(s))
<1>1. last \in Nat /\ count \in Nat /\ cursor[s] <= last /\ \A t \in Streams : cursor[t] \in Nat
  BY InboxFinite, StagedBehind DEF OrderInv, InboxGapless, TypeOK
<1>2. UNCHANGED <<outbox, receipts, applied, cursor, applier>>
  BY DEF StageEvents, lanVars, applyVars
<1>3. relay'[s].pc = "echoed" /\ relay'[s].rows = relay[s].rows
      /\ \A t \in Streams : t # s => relay'[t] = relay[t]
  BY DEF StageEvents, TypeOK
<1>4. \A o \in Ops : StreamOf[o] \in Streams /\ inbox[o] \in Nat /\ outbox[o] \in Nat
  BY MapsAssumption DEF TypeOK
<1>5. \A o \in Fresh(s) : o \in Ops /\ StreamOf[o] = s /\ inbox[o] = 0
  BY StagedBehind DEF OfStream, Fresh
<1>6. NumbersDiffer'
  BY <1>2 DEF OrderInv, NumbersDiffer, Captured
<1>7. \A t \in Streams : \A o \in Inbox(t) : o \in Ops /\ inbox'[o] = inbox[o]
  <2>1. ASSUME NEW t \in Streams, NEW o \in Inbox(t) PROVE o \in Ops /\ o \notin Fresh(s)
    BY <1>5 DEF Inbox, OfStream
  <2>2. \A o \in Ops \ Fresh(s) : inbox'[o] = inbox[o]
    BY StagedBehind
  <2>3. QED BY <2>1, <2>2
<1>8. InboxGapless'
  <2>1. \A o \in Ops : inbox'[o] > 0 => inbox'[o] = outbox'[o]
    BY StagedBehind, <1>2 DEF OrderInv, InboxGapless
  <2>2. ASSUME NEW t \in Streams
        PROVE  /\ {inbox[o] : o \in Inbox(t)}' = (1 .. Cardinality(Inbox(t)))'
               /\ cursor'[t] <= Cardinality(Inbox(t))'
    <3>1. CASE t # s
      <4>1. \A o \in Inbox(t) : inbox'[o] = inbox[o]
        BY <1>7
      <4>2. Inbox(t)' = Inbox(t)
        BY <3>1, StagedBehind
      <4>3. {inbox'[o] : o \in Inbox(t)} = {inbox[o] : o \in Inbox(t)}
        BY <4>1
      <4>4. QED BY <4>2, <4>3, <1>2 DEF OrderInv, InboxGapless
    <3>2. CASE t = s
      <4>1. \A o \in Inbox(s) : o \in Ops /\ inbox'[o] = inbox[o]
        BY <1>7
      <4>2. {inbox'[o] : o \in Inbox(s) \cup Fresh(s)}
              = {inbox[o] : o \in Inbox(s)} \cup {outbox[o] : o \in Fresh(s)}
        BY <4>1, StagedBehind
      <4>3. {inbox[o] : o \in Inbox(s)} = 1 .. last
        BY DEF OrderInv, InboxGapless
      <4>4. (1 .. last) \cup ((last + 1) .. (last + count)) = 1 .. (last + count)
        BY <1>1
      <4>5. Inbox(s)' = Inbox(s) \cup Fresh(s) /\ Cardinality(Inbox(s))' = last + count
            /\ {outbox[o] : o \in Fresh(s)} = (last + 1) .. (last + count)
        BY StagedBehind
      <4>6. QED BY <3>2, <4>2, <4>3, <4>4, <4>5, <1>1, <1>2
    <3>3. QED BY <3>1, <3>2
  <2>3. QED BY <2>1, <2>2 DEF InboxGapless
<1>9. AppliedToCursor'
  <2>1. ASSUME NEW o \in Fresh(s) PROVE applied[o] = "none" /\ inbox'[o] > cursor[StreamOf[o]]
    BY <1>1, <1>4, <1>5, StagedBehind DEF OrderInv, AppliedToCursor
  <2>2. ASSUME NEW o \in Ops \ Fresh(s) PROVE inbox'[o] = inbox[o]
    BY StagedBehind
  <2>3. ASSUME NEW o \in Ops
        PROVE  applied'[o] # "none" <=> inbox'[o] > 0 /\ inbox'[o] <= cursor'[StreamOf[o]]
    <3>1. CASE o \in Fresh(s)
      <4>1. inbox'[o] = outbox[o]
        BY <3>1, StagedBehind
      <4>2. QED BY <2>1, <3>1, <4>1, <1>1, <1>2, <1>4
    <3>2. CASE o \notin Fresh(s)
      BY <2>2, <3>2, <1>2 DEF OrderInv, AppliedToCursor
    <3>3. QED BY <3>1, <3>2
  <2>4. QED BY <2>3 DEF AppliedToCursor
<1>10. RunsFollowCursor'
  <2>1. ASSUME NEW a \in Appliers, applier[a].pc \in Inside \cup {"next"}
        PROVE  applier[a].op \in Ops \ Fresh(s)
    BY <2>1, <1>1, <1>4, <1>5 DEF OrderInv, RunsFollowCursor, RunsOK, RunOK, Inside
  <2>2. QED BY <2>1, <1>2, StagedBehind DEF OrderInv, RunsFollowCursor
<1>11. RelayOwnRows'
  BY <1>3 DEF OrderInv, RelayOwnRows, OfStream
<1>12. \A t \in Streams, k \in Nat : k <= cursor[t] => UpTo(t, k)' = UpTo(t, k)
  <2> SUFFICES ASSUME NEW t \in Streams, NEW k \in Nat, k <= cursor[t]
               PROVE  UpTo(t, k)' = UpTo(t, k)
    OBVIOUS
  <2>1. CASE t # s
    <3>1. \A o \in Inbox(t) : inbox'[o] = inbox[o]
      BY <1>7
    <3>2. QED BY <2>1, <3>1, StagedBehind DEF UpTo
  <2>2. CASE t = s
    <3>1. \A o \in Inbox(s) : inbox'[o] = inbox[o]
      BY <1>7
    <3>2. \A o \in Fresh(s) : ~(inbox'[o] <= k)
      BY <1>1, <1>4, <1>5, <2>2, StagedBehind
    <3>3. QED BY <2>2, <3>1, <3>2, StagedBehind DEF UpTo
  <2>3. QED BY <2>1, <2>2
<1>13. \A t : Receipted(t)' = Receipted(t)
  BY <1>2 DEF Receipted
<1>14. ReceiptsArePrefix'
  <2>1. ASSUME NEW t \in Streams PROVE \E k \in 0 .. cursor'[t] : Receipted(t)' = UpTo(t, k)'
    <3>1. PICK k \in 0 .. cursor[t] : Receipted(t) = UpTo(t, k)
      BY DEF OrderInv, ReceiptsArePrefix
    <3>2. QED BY <3>1, <1>1, <1>2, <1>12, <1>13
  <2>2. QED BY <2>1 DEF ReceiptsArePrefix
<1>15. AnswersAreNext'
  <2>1. ASSUME NEW t \in Streams, relay'[t].pc = "answered"
        PROVE  \E k \in 0 .. cursor'[t] : Receipted(t)' \cup relay'[t].rows = UpTo(t, k)'
    <3>1. relay'[t] = relay[t]
      BY <2>1, <1>3
    <3>2. PICK k \in 0 .. cursor[t] : Receipted(t) \cup relay[t].rows = UpTo(t, k)
      BY <2>1, <3>1 DEF OrderInv, AnswersAreNext
    <3>3. QED BY <3>1, <3>2, <1>1, <1>2, <1>12, <1>13
  <2>2. QED BY <2>1 DEF AnswersAreNext
<1>16. QED BY <1>6, <1>8, <1>9, <1>10, <1>11, <1>14, <1>15 DEF OrderInv

\* The answer of a fetch is what lies between the receipts and the cursor.
LEMMA FetchOrder ==
  ASSUME StreamsInv, OrderInv, NEW s \in Streams, FetchReceipts(s) PROVE OrderInv'
<1> USE DEF StreamsInv
<1> DEFINE answer == {o \in Inbox(s) : /\ applied[o] # "none"
                                       /\ \A q \in Receipted(s) : inbox[o] > outbox[q]}
<1>1. relay' = [relay EXCEPT ![s] = [pc |-> "answered", rows |-> answer]]
      /\ UNCHANGED <<outbox, receipts, inbox, applied, cursor, applier>>
  BY DEF FetchReceipts, lanVars, inboxVars, applyVars
<1>2. relay'[s].rows = answer /\ \A t \in Streams : t # s => relay'[t] = relay[t]
  BY <1>1 DEF TypeOK
<1>3. RelayOwnRows'
  BY <1>2 DEF OrderInv, RelayOwnRows, OfStream, Inbox
<1>4. PICK k \in 0 .. cursor[s] : Receipted(s) = UpTo(s, k)
  BY DEF OrderInv, ReceiptsArePrefix
<1>5. cursor[s] \in Nat /\ cursor[s] <= Cardinality(Inbox(s)) /\ Cardinality(Inbox(s)) \in Nat
  BY InboxFinite DEF OrderInv, InboxGapless, TypeOK
<1>6. \A o \in Inbox(s) : /\ o \in Ops /\ StreamOf[o] = s /\ inbox[o] \in Nat
                          /\ inbox[o] = outbox[o] /\ inbox[o] > 0
                          /\ applied[o] # "none" <=> inbox[o] <= cursor[s]
  BY DEF OrderInv, InboxGapless, AppliedToCursor, TypeOK, Inbox, OfStream
<1>7. ASSUME NEW o \in Inbox(s) PROVE (\A q \in Receipted(s) : inbox[o] > outbox[q]) <=> inbox[o] > k
  <2>1. ASSUME inbox[o] > k, NEW q \in Receipted(s) PROVE inbox[o] > outbox[q]
    <3>1. q \in Inbox(s) /\ inbox[q] <= k
      BY <2>1, <1>4 DEF UpTo
    <3>2. QED BY <2>1, <3>1, <1>4, <1>5, <1>6
  <2>2. ASSUME \A q \in Receipted(s) : inbox[o] > outbox[q] PROVE inbox[o] > k
    <3>1. CASE k = 0
      BY <3>1, <1>6
    <3>2. CASE k # 0
      <4>1. k \in 1 .. Cardinality(Inbox(s))
        BY <3>2, <1>4, <1>5
      <4>2. PICK q \in Inbox(s) : inbox[q] = k
        BY <4>1 DEF OrderInv, InboxGapless
      <4>3. q \in Receipted(s) /\ outbox[q] = k
        BY <4>2, <1>4, <1>5, <1>6 DEF UpTo
      <4>4. QED BY <2>2, <4>3
    <3>3. QED BY <3>1, <3>2
  <2>3. QED BY <2>1, <2>2
<1>8. Receipted(s) \cup answer = UpTo(s, cursor[s])
  <2>1. ASSUME NEW o \in Inbox(s) PROVE inbox[o] <= k \/ o \in answer <=> inbox[o] <= cursor[s]
    BY <1>4, <1>5, <1>6, <1>7
  <2>2. QED BY <2>1, <1>4 DEF UpTo
<1>9. \A t, j : UpTo(t, j)' = UpTo(t, j) /\ Receipted(t)' = Receipted(t)
  BY <1>1 DEF UpTo, Inbox, Receipted
<1>10. AnswersAreNext'
  <2>1. ASSUME NEW t \in Streams, relay'[t].pc = "answered"
        PROVE  \E j \in 0 .. cursor'[t] : Receipted(t)' \cup relay'[t].rows = UpTo(t, j)'
    <3>1. CASE t = s
      <4>1. cursor[s] \in 0 .. cursor'[s]
        BY <1>1, <1>5
      <4>2. QED BY <3>1, <4>1, <1>2, <1>8, <1>9
    <3>2. CASE t # s
      <4>1. relay'[t] = relay[t] /\ cursor'[t] = cursor[t]
        BY <3>2, <1>1, <1>2
      <4>2. PICK j \in 0 .. cursor[t] : Receipted(t) \cup relay[t].rows = UpTo(t, j)
        BY <2>1, <4>1 DEF OrderInv, AnswersAreNext
      <4>3. QED BY <4>1, <4>2, <1>9
    <3>3. QED BY <3>1, <3>2
  <2>2. QED BY <2>1 DEF AnswersAreNext
<1>11. QED BY <1>1, <1>3, <1>10, FrameRelay

\* Recording an answer extends the receipts of the stream by it.
LEMMA ReceiptsExtended ==
  ASSUME StreamsInv, OrderInv, NEW s \in Streams, RecordReceipts(s)
  PROVE  /\ Receipted(s)' = Receipted(s) \cup relay[s].rows
         /\ \A t \in Streams : t # s => Receipted(t)' = Receipted(t)
<1>1. /\ receipts' = [o \in Ops |-> IF o \in relay[s].rows THEN applied[o] ELSE receipts[o]]
      /\ relay[s].pc = "answered"
  BY DEF RecordReceipts
<1>2. relay[s].rows \subseteq OfStream(s) /\ \A o \in relay[s].rows : applied[o] # "none"
  BY <1>1 DEF StreamsInv, OrderInv, RelayOwnRows, AnswersOK
<1>3. QED BY <1>1, <1>2 DEF Receipted, OfStream

\* Recorded receipts are a longer prefix.
LEMMA RecordOrder ==
  ASSUME StreamsInv, OrderInv, NEW s \in Streams, RecordReceipts(s) PROVE OrderInv'
<1>1. /\ relay' = [relay EXCEPT ![s] = IdleRelay] /\ relay[s].pc = "answered"
      /\ UNCHANGED <<outbox, inbox, applied, cursor, applier>>
  BY DEF RecordReceipts, inboxVars, applyVars
<1>2. relay'[s] = IdleRelay /\ \A t \in Streams : t # s => relay'[t] = relay[t]
  BY <1>1 DEF StreamsInv, TypeOK
<1>3. NumbersDiffer' /\ AppliedToCursor' /\ RunsFollowCursor'
  BY <1>1 DEF OrderInv, NumbersDiffer, AppliedToCursor, RunsFollowCursor, Captured
<1>4. \A t, k : UpTo(t, k)' = UpTo(t, k) /\ Inbox(t)' = Inbox(t)
  BY <1>1 DEF UpTo, Inbox
<1>5. InboxGapless'
  BY <1>1, <1>4 DEF OrderInv, InboxGapless
<1>6. RelayOwnRows'
  BY <1>2 DEF OrderInv, RelayOwnRows, IdleRelay, OfStream
<1>7. ReceiptsArePrefix'
  <2>1. ASSUME NEW t \in Streams PROVE \E k \in 0 .. cursor'[t] : Receipted(t)' = UpTo(t, k)'
    <3>1. CASE t = s
      <4>1. PICK k \in 0 .. cursor[s] : Receipted(s) \cup relay[s].rows = UpTo(s, k)
        BY <1>1 DEF OrderInv, AnswersAreNext
      <4>2. QED BY <3>1, <4>1, <1>1, <1>4, ReceiptsExtended
    <3>2. CASE t # s
      <4>1. PICK k \in 0 .. cursor[t] : Receipted(t) = UpTo(t, k)
        BY DEF OrderInv, ReceiptsArePrefix
      <4>2. QED BY <3>2, <4>1, <1>1, <1>4, ReceiptsExtended
    <3>3. QED BY <3>1, <3>2
  <2>2. QED BY <2>1 DEF ReceiptsArePrefix
<1>8. AnswersAreNext'
  <2>1. ASSUME NEW t \in Streams, relay'[t].pc = "answered"
        PROVE  \E k \in 0 .. cursor'[t] : Receipted(t)' \cup relay'[t].rows = UpTo(t, k)'
    <3>1. t # s /\ relay'[t] = relay[t]
      BY <2>1, <1>2 DEF IdleRelay
    <3>2. PICK k \in 0 .. cursor[t] : Receipted(t) \cup relay[t].rows = UpTo(t, k)
      BY <2>1, <3>1 DEF OrderInv, AnswersAreNext
    <3>3. QED BY <3>1, <3>2, <1>1, <1>4, ReceiptsExtended
  <2>2. QED BY <2>1 DEF AnswersAreNext
<1>9. QED BY <1>3, <1>5, <1>6, <1>7, <1>8 DEF OrderInv

\* A run moves without writing: it is outside, keeps its event, or its event
\* is the next of its stream.
LEMMA MoveOrder ==
  ASSUME StreamsInv, OrderInv, NEW a \in Appliers, NEW st,
         applier' = [applier EXCEPT ![a] = st],
         st.pc = "next" => inbox[st.op] > 0 /\ inbox[st.op] <= cursor[StreamOf[st.op]] + 1,
         st.pc \in Inside => inbox[st.op] = cursor[StreamOf[st.op]] + 1,
         UNCHANGED <<outbox, receipts, relay, inbox, applied, cursor>>
  PROVE  OrderInv'
<1>1. applier'[a] = st /\ \A b \in Appliers : b # a => applier'[b] = applier[b]
  BY DEF StreamsInv, TypeOK
<1>2. RunsFollowCursor'
  BY <1>1 DEF OrderInv, RunsFollowCursor
<1>3. QED BY <1>2, FrameOrder

\* A receipt is written for the event behind the cursor, which moves to it.
LEMMA CursorMoves ==
  ASSUME StreamsInv, OrderInv, NEW a \in Appliers, applier[a].pc \in Inside,
         NEW outcome, WriteReceipt(applier[a].op, outcome)
  PROVE  /\ applier[a].op \in Ops /\ StreamOf[applier[a].op] \in Streams
         /\ inbox[applier[a].op] = cursor[StreamOf[applier[a].op]] + 1
         /\ cursor' = [cursor EXCEPT ![StreamOf[applier[a].op]] = @ + 1]
         /\ applied' = [applied EXCEPT ![applier[a].op] = outcome]
  BY MapsAssumption DEF StreamsInv, RunsOK, RunOK, OrderInv, RunsFollowCursor, WriteReceipt, Inside

\* A receipt written keeps the order of its stream and leaves the others.
LEMMA WriteOrder ==
  ASSUME StreamsInv, OrderInv, NEW a \in Appliers, applier[a].pc \in Inside,
         NEW outcome, outcome # "none", WriteReceipt(applier[a].op, outcome),
         applier' = [applier EXCEPT ![a] = IdleApplier],
         UNCHANGED <<outbox, receipts, relay, inbox>>
  PROVE  OrderInv'
<1> USE DEF StreamsInv
<1> DEFINE op == applier[a].op
           s == StreamOf[op]
<1>1. op \in Ops /\ s \in Streams /\ inbox[op] = cursor[s] + 1
  BY CursorMoves
<1>2. /\ cursor'[s] = cursor[s] + 1 /\ \A t \in Streams : t # s => cursor'[t] = cursor[t]
      /\ applied'[op] = outcome /\ \A o \in Ops : o # op => applied'[o] = applied[o]
  <2>1. cursor' = [cursor EXCEPT ![s] = cursor[s] + 1] /\ applied' = [applied EXCEPT ![op] = outcome]
    BY CursorMoves
  <2>2. QED BY <1>1, <2>1 DEF TypeOK
<1>3. applier'[a] = IdleApplier /\ \A b \in Appliers : b # a => applier'[b] = applier[b]
  BY DEF TypeOK
<1>4. \A t \in Streams : cursor[t] \in Nat /\ cursor'[t] \in Nat /\ cursor[t] <= cursor'[t]
  <2>1. \A t \in Streams : cursor[t] \in Nat
    BY DEF TypeOK
  <2>2. QED BY <1>1, <1>2, <2>1
<1>5. \A t, k : UpTo(t, k)' = UpTo(t, k) /\ Inbox(t)' = Inbox(t) /\ Receipted(t)' = Receipted(t)
  BY DEF UpTo, Inbox, Receipted
<1>6. NumbersDiffer' /\ RelayOwnRows'
  BY DEF OrderInv, NumbersDiffer, RelayOwnRows, Captured
<1>7. \A o \in Ops : inbox[o] \in Nat /\ StreamOf[o] \in Streams
  BY MapsAssumption DEF TypeOK
<1>8. InboxGapless'
  <2>1. cursor[s] + 1 <= Cardinality(Inbox(s))
    <3>1. op \in Inbox(s)
      BY <1>1, <1>4 DEF Inbox, OfStream
    <3>2. inbox[op] \in 1 .. Cardinality(Inbox(s))
      BY <1>1, <3>1 DEF OrderInv, InboxGapless
    <3>3. QED BY <1>1, <1>4, <3>2, InboxFinite
  <2>2. \A t \in Streams : cursor'[t] <= Cardinality(Inbox(t))
    BY <1>2, <2>1 DEF OrderInv, InboxGapless
  <2>3. QED BY <2>2, <1>5 DEF OrderInv, InboxGapless
<1>9. AppliedToCursor'
  <2>1. ASSUME NEW o \in Ops
        PROVE  applied'[o] # "none" <=> inbox[o] > 0 /\ inbox[o] <= cursor'[StreamOf[o]]
    <3>1. CASE o = op
      BY <3>1, <1>1, <1>2, <1>4
    <3>2. CASE o # op /\ StreamOf[o] # s
      BY <3>2, <1>2, <1>7 DEF OrderInv, AppliedToCursor
    <3>3. CASE o # op /\ StreamOf[o] = s
      <4>1. inbox[o] # cursor[s] + 1
        <5> SUFFICES ASSUME inbox[o] = cursor[s] + 1 PROVE FALSE
          OBVIOUS
        <5>1. outbox[o] = inbox[o] /\ outbox[op] = inbox[op] /\ inbox[o] = inbox[op] /\ inbox[o] > 0
          BY <1>1, <1>4 DEF OrderInv, InboxGapless
        <5>2. QED BY <5>1, <3>3, <1>1 DEF OrderInv, NumbersDiffer
      <4>2. inbox[o] <= cursor[s] + 1 <=> inbox[o] <= cursor[s]
        BY <4>1, <1>1, <1>4, <1>7
      <4>3. QED BY <3>3, <4>2, <1>2 DEF OrderInv, AppliedToCursor
    <3>4. QED BY <3>1, <3>2, <3>3
  <2>2. QED BY <2>1 DEF AppliedToCursor
<1>10. RunsFollowCursor'
  <2>1. ASSUME NEW b \in Appliers
        PROVE  LET o == applier'[b].op
               IN  /\ applier'[b].pc = "next" => inbox[o] > 0 /\ inbox[o] <= cursor'[StreamOf[o]] + 1
                   /\ applier'[b].pc \in Inside => inbox[o] = cursor'[StreamOf[o]] + 1
    <3>1. CASE b = a
      BY <3>1, <1>3 DEF IdleApplier, Run, Inside
    <3>2. CASE b # a /\ applier[b].pc = "next"
      <4>1. applier[b].op \in Ops
        BY <3>2 DEF RunsOK, RunOK
      <4>2. inbox[applier[b].op] > 0 /\ inbox[applier[b].op] <= cursor[StreamOf[applier[b].op]] + 1
        BY <3>2 DEF OrderInv, RunsFollowCursor
      <4>3. inbox[applier[b].op] <= cursor'[StreamOf[applier[b].op]] + 1
        BY <4>1, <4>2, <1>4, <1>7
      <4>4. QED BY <3>2, <4>2, <4>3, <1>3 DEF Inside
    <3>3. CASE b # a /\ applier[b].pc \in Inside
      <4>1. applier[b].op \in Ops /\ StreamOf[applier[b].op] # s
        BY <3>3 DEF RunsOK, RunOK, OneInside, Inside
      <4>2. cursor'[StreamOf[applier[b].op]] = cursor[StreamOf[applier[b].op]]
        BY <4>1, <1>2, <1>7
      <4>3. QED BY <3>3, <4>2, <1>3 DEF OrderInv, RunsFollowCursor, Inside
    <3>4. CASE b # a /\ applier[b].pc \notin Inside \cup {"next"}
      BY <3>4, <1>3
    <3>5. QED BY <3>1, <3>2, <3>3, <3>4
  <2>2. QED BY <2>1 DEF RunsFollowCursor
<1>11. \A t \in Streams : 0 .. cursor[t] \subseteq 0 .. cursor'[t]
  BY <1>4
<1>12. ReceiptsArePrefix' /\ AnswersAreNext'
  BY <1>5, <1>11 DEF OrderInv, ReceiptsArePrefix, AnswersAreNext
<1>13. QED BY <1>6, <1>8, <1>9, <1>10, <1>12 DEF OrderInv

\* Every step of a run of the apply command keeps the order.
LEMMA ApplierOrder ==
  ASSUME StreamsInv, OrderInv, NEW a \in Appliers, ApplierStep(a) PROVE OrderInv'
<1> USE DEF StreamsInv, MoveApplier, lanVars, inboxVars, applyVars
<1> DEFINE op == applier[a].op
<1>1. IdleApplier.pc = "idle"
  BY DEF IdleApplier, Run
<1>2. ASSUME MoveApplier(a, IdleApplier), UNCHANGED <<applied, cursor>> PROVE OrderInv'
  BY <1>1, <1>2, MoveOrder DEF Inside
<1>3. CASE LockCursor(a)
  <2> DEFINE st == Run("locked", op, decision[op], "none")
  <2>1. applier[a].pc = "next" /\ op \in Ops /\ StreamOf[op] \in Streams
    BY <1>3, MapsAssumption DEF LockCursor, RunsOK, RunOK
  <2>2. inbox[op] \in Nat /\ cursor[StreamOf[op]] \in Nat /\ inbox[op] <= cursor[StreamOf[op]] + 1
    BY <2>1 DEF OrderInv, RunsFollowCursor, TypeOK
  <2>3. CASE inbox[op] <= cursor[StreamOf[op]] \/ applied[op] # "none"
    BY <1>2, <1>3, <2>3 DEF LockCursor
  <2>4. CASE ~(inbox[op] <= cursor[StreamOf[op]] \/ applied[op] # "none")
    <3>1. inbox[op] = cursor[StreamOf[op]] + 1
      BY <2>2, <2>4
    <3>2. applier' = [applier EXCEPT ![a] = st]
          /\ UNCHANGED <<outbox, receipts, relay, inbox, applied, cursor>>
      BY <1>3, <2>4 DEF LockCursor
    <3>3. st.pc = "locked" /\ st.op = op
      BY DEF Run
    <3> HIDE DEF st, op
    <3>4. QED BY <3>1, <3>2, <3>3, MoveOrder DEF op
  <2>5. QED BY <2>3, <2>4
<1>4. CASE RejectEvent(a)
  BY <1>4, WriteOrder DEF RejectEvent, Inside
<1>5. CASE RefuseDecision(a) \/ WaitForItem(a) \/ BookingFails(a)
  BY <1>2, <1>5 DEF RefuseDecision, WaitForItem, BookingFails
<1>6. CASE MeetConflict(a) \/ RefuseBooking(a)
  <2>1. PICK code : /\ applier' = [applier EXCEPT ![a] = Run("conflict", op, NoDecision, code)]
                    /\ UNCHANGED <<outbox, receipts, relay, inbox, applied, cursor>>
    BY <1>6 DEF MeetConflict, RefuseBooking
  <2> DEFINE st == Run("conflict", op, NoDecision, code)
  <2>2. st.pc = "conflict"
    BY DEF Run
  <2>3. applier' = [applier EXCEPT ![a] = st]
    BY <2>1
  <2> HIDE DEF st
  <2>4. QED BY <2>1, <2>2, <2>3, MoveOrder DEF Inside
<1>7. CASE ApplyEvent(a)
  BY <1>7, WriteOrder DEF ApplyEvent, Inside
<1>8. CASE PostSale(a)
  <2> DEFINE st == Run("posted", op, applier[a].decided,
                       IF SaleExists(op) THEN "already-present" ELSE "cloud-applied")
  <2>1. applier[a].pc \in {"checked", "adrift"}
        /\ UNCHANGED <<outbox, receipts, relay, inbox, applied, cursor>>
    BY <1>8 DEF PostSale
  <2>2. CASE applier[a].pc = "adrift"
    <3>1. applier' = [applier EXCEPT ![a] = IdleApplier]
      BY <1>8, <2>2 DEF PostSale
    <3>2. QED BY <1>1, <2>1, <3>1, MoveOrder DEF Inside
  <2>3. CASE applier[a].pc = "checked"
    <3>1. applier' = [applier EXCEPT ![a] = st]
      BY <1>8, <2>3 DEF PostSale
    <3>2. st.pc = "posted" /\ st.op = op
      BY DEF Run
    <3>3. inbox[op] = cursor[StreamOf[op]] + 1
      BY <2>3 DEF OrderInv, RunsFollowCursor, Inside
    <3> HIDE DEF st, op
    <3>4. QED BY <2>1, <3>1, <3>2, <3>3, MoveOrder
  <2>4. QED BY <2>1, <2>2, <2>3
<1>9. CASE CommitReceipt(a)
  <2>1. applier[a].result # "none"
    BY <1>9 DEF CommitReceipt, RunsOK, RunOK
  <2>2. QED BY <1>9, <2>1, WriteOrder DEF CommitReceipt, Inside
<1>10. CASE RecordConflict(a)
  BY <1>1, <1>10, MoveOrder DEF RecordConflict, Inside
<1>11. CASE CheckEvent(a)
  <2> DEFINE found == Run("posted", op, applier[a].decided, "already-present")
             clear == [Run("checked", op, applier[a].decided, "none") EXCEPT !.seen = clash[op]]
             st == IF SaleExists(op) THEN found ELSE clear
  <2>1. applier' = [applier EXCEPT ![a] = st] /\ applier[a].pc = "locked"
        /\ UNCHANGED <<outbox, receipts, relay, inbox, applied, cursor>>
    BY <1>11 DEF CheckEvent, Handled
  <2>2. found.pc = "posted" /\ found.op = op /\ clear.pc = "checked" /\ clear.op = op
    BY DEF Run
  <2> HIDE DEF found, clear
  <2>3. st.pc # "next" /\ st.op = op
    BY <2>2
  <2>4. inbox[op] = cursor[StreamOf[op]] + 1
    BY <2>1 DEF OrderInv, RunsFollowCursor, Inside
  <2> HIDE DEF st, op
  <2>5. QED BY <2>1, <2>3, <2>4, MoveOrder
<1>12. QED
  BY <1>3, <1>4, <1>5, <1>6, <1>7, <1>8, <1>9, <1>10, <1>11 DEF ApplierStep

\* An idle relay holds no rows.
LEMMA IdleRelayIdle ==
  ASSUME NEW s PROVE IdleRelay.pc # "answered" /\ IdleRelay.rows \subseteq OfStream(s)
  BY DEF IdleRelay

\* Every step keeps the order.
LEMMA OrderInvNext ==
  ASSUME StreamsInv, OrderInv, [Next]_vars PROVE OrderInv'
<1>1. CASE UNCHANGED <<outbox, receipts, relay, inbox, applied, cursor, applier>>
  <2>1. RunsFollowCursor'
    BY <1>1 DEF OrderInv, RunsFollowCursor
  <2>2. QED BY <1>1, <2>1, FrameOrder
<1>2. ASSUME NEW o \in Ops, Capture(o) PROVE OrderInv'
  BY <1>2, CaptureOrder
<1>3. ASSUME NEW s \in Streams, RelayStep(s) PROVE OrderInv'
  <2>1. CASE SendBatch(s)
    <3>1. PendingRows(s) \subseteq OfStream(s)
      BY DEF PendingRows, Captured
    <3> DEFINE st == [pc |-> "sent", rows |-> PendingRows(s)]
    <3>2. relay' = [relay EXCEPT ![s] = st]
          /\ UNCHANGED <<outbox, receipts, inbox, applied, cursor, applier>>
      BY <2>1 DEF SendBatch, lanVars, inboxVars, applyVars
    <3>3. st.pc # "answered" /\ st.rows \subseteq OfStream(s)
      BY <3>1
    <3> HIDE DEF st
    <3>4. QED BY <3>2, <3>3, RelayMoves
  <2>2. CASE RecordStaged(s)
    <3>1. relay' = [relay EXCEPT ![s] = IdleRelay]
          /\ UNCHANGED <<outbox, receipts, inbox, applied, cursor, applier>>
      BY <2>2 DEF RecordStaged, inboxVars, applyVars
    <3>2. QED BY <3>1, IdleRelayIdle, RelayMoves
  <2>3. QED
    BY <1>3, <2>1, <2>2, StageOrder, FetchOrder, RecordOrder DEF RelayStep
<1>4. ASSUME NEW s \in Streams, RelayFails(s) PROVE OrderInv'
  <2>1. relay' = [relay EXCEPT ![s] = IdleRelay]
        /\ UNCHANGED <<outbox, receipts, inbox, applied, cursor, applier>>
    BY <1>4 DEF RelayFails, lanVars, inboxVars, applyVars
  <2>2. QED BY <2>1, IdleRelayIdle, RelayMoves
<1>5. ASSUME NEW a \in Appliers, NEW o \in Ops, StartApply(a, o) PROVE OrderInv'
  <2> DEFINE st == Run("next", o, NoDecision, "none")
  <2>1. applier' = [applier EXCEPT ![a] = st] /\ inbox[o] = cursor[StreamOf[o]] + 1
        /\ UNCHANGED <<outbox, receipts, relay, inbox, applied, cursor>>
    BY <1>5 DEF StartApply, MoveApplier, lanVars, inboxVars, applyVars
  <2>2. st.pc = "next" /\ st.op = o
    BY DEF Run
  <2>3. cursor[StreamOf[o]] \in Nat
    BY MapsAssumption DEF StreamsInv, TypeOK
  <2> HIDE DEF st
  <2>4. inbox[st.op] > 0 /\ inbox[st.op] <= cursor[StreamOf[st.op]] + 1
    BY <2>1, <2>2, <2>3
  <2>5. st.pc \notin Inside
    BY <2>2 DEF Inside
  <2>6. QED BY <2>1, <2>4, <2>5, MoveOrder
<1>6. ASSUME NEW a \in Appliers, ApplierStep(a) PROVE OrderInv'
  BY <1>6, ApplierOrder
<1>7. ASSUME NEW a \in Appliers, ApplierFails(a) PROVE OrderInv'
  <2>1. CASE applier' = [applier EXCEPT ![a] = IdleApplier]
    BY <1>7, <2>1, MoveOrder DEF ApplierFails, IdleApplier, Run, Inside, lanVars, inboxVars, applyVars
  <2>2. CASE applier' = [applier EXCEPT ![a].pc = "adrift"]
    <3> DEFINE st == [applier[a] EXCEPT !.pc = "adrift"]
    <3>1. applier' = [applier EXCEPT ![a] = st] /\ st.pc = "adrift"
      BY <2>2 DEF StreamsInv, TypeOK
    <3> HIDE DEF st
    <3>2. QED BY <1>7, <3>1, MoveOrder DEF ApplierFails, Inside, lanVars, inboxVars, applyVars
  <2>3. QED BY <1>7, <2>1, <2>2 DEF ApplierFails
<1>8. ASSUME NEW o \in Ops, NEW code \in Codes, CloudChanges(o, code) PROVE OrderInv'
  BY <1>1, <1>8 DEF CloudChanges, lanVars, inboxVars, applyVars
<1>9. ASSUME NEW v \in Reviewers, ReviewStep(v) PROVE OrderInv'
  BY <1>1, <1>9 DEF ReviewStep, OpenReview, DecideOnCommandLine, DecideOnConsole, Decide,
                    lanVars, inboxVars, applyVars
<1>10. CASE UNCHANGED vars
  BY <1>1, <1>10 DEF vars
<1>11. QED
  BY <1>2, <1>3, <1>4, <1>5, <1>6, <1>7, <1>8, <1>9, <1>10 DEF Next

\* The empty databases are in order.
LEMMA OrderInvInit ==
  ASSUME Init PROVE OrderInv
<1> USE DEF Init
<1>1. \A s \in Streams : Inbox(s) = {} /\ Receipted(s) = {} /\ Captured(s) = {}
  BY DEF Inbox, Receipted, Captured, OfStream
<1>2. NumbersDiffer /\ AppliedToCursor /\ RelayOwnRows
  BY CaptureNumbers DEF NumbersDiffer, AppliedToCursor, RelayOwnRows, IdleRelay
<1>3. InboxGapless
  <2>1. Cardinality({}) = 0
    BY FS_EmptySet
  <2>2. ASSUME NEW s \in Streams
        PROVE  {inbox[o] : o \in Inbox(s)} = 1 .. Cardinality(Inbox(s)) /\ cursor[s] <= Cardinality(Inbox(s))
    <3>1. Cardinality(Inbox(s)) = 0 /\ {inbox[o] : o \in Inbox(s)} = {} /\ cursor[s] = 0
      BY <1>1, <2>1
    <3>2. 1 .. 0 = {} /\ 0 <= 0
      OBVIOUS
    <3> HIDE DEF Init
    <3>3. QED BY <3>1, <3>2, Zenon
  <2>3. \A o \in Ops : inbox[o] = 0
    OBVIOUS
  <2>4. QED BY <2>2, <2>3 DEF InboxGapless
<1>4. RunsFollowCursor /\ AnswersAreNext
  BY DEF RunsFollowCursor, AnswersAreNext, IdleApplier, IdleRelay, Run, Inside
<1>5. ReceiptsArePrefix
  BY <1>1 DEF ReceiptsArePrefix, UpTo
<1>6. QED BY <1>2, <1>3, <1>4, <1>5 DEF OrderInv

\* The order holds in every reachable state.
THEOREM OrderKept == Spec => []OrderInv
<1>1. Init => OrderInv
  BY OrderInvInit
<1>2. StreamsInv /\ OrderInv /\ [Next]_vars => OrderInv'
  BY OrderInvNext
<1>3. QED BY <1>1, <1>2, Invariance, PTL DEF Spec

-----------------------------------------------------------------------------
(* Each stream is an ordered delivery.                                     *)

\* Every number of the inbox has one event, and the receipts a number.
RowsNumbered ==
    \A s \in Streams :
        /\ cursor[s] \in Nat /\ Cardinality(Inbox(s)) \in Nat /\ cursor[s] <= Cardinality(Inbox(s))
        /\ \A i \in 1 .. Cardinality(Inbox(s)) :
               At(s, i) \in Inbox(s) /\ At(s, i) \in Ops /\ inbox[At(s, i)] = i
        /\ \A o \in Inbox(s) : inbox[o] \in 1 .. Cardinality(Inbox(s)) /\ At(s, inbox[o]) = o
        /\ Receipted(s) \subseteq Inbox(s)
        /\ \A o \in Receipted(s) : outbox[o] = inbox[o]
        /\ \E k \in 0 .. cursor[s] : {outbox[o] : o \in Receipted(s)} = 1 .. k

\* The order numbers the rows of a stream.
LEMMA RowsAreNumbered == StreamsInv /\ OrderInv => RowsNumbered
<1> SUFFICES ASSUME StreamsInv, OrderInv, NEW s \in Streams
             PROVE  /\ cursor[s] \in Nat /\ Cardinality(Inbox(s)) \in Nat /\ cursor[s] <= Cardinality(Inbox(s))
                    /\ \A i \in 1 .. Cardinality(Inbox(s)) :
                           At(s, i) \in Inbox(s) /\ At(s, i) \in Ops /\ inbox[At(s, i)] = i
                    /\ \A o \in Inbox(s) : inbox[o] \in 1 .. Cardinality(Inbox(s)) /\ At(s, inbox[o]) = o
                    /\ Receipted(s) \subseteq Inbox(s)
                    /\ \A o \in Receipted(s) : outbox[o] = inbox[o]
                    /\ \E k \in 0 .. cursor[s] : {outbox[o] : o \in Receipted(s)} = 1 .. k
  BY DEF RowsNumbered
<1> DEFINE n == Cardinality(Inbox(s))
<1>1. cursor[s] \in Nat /\ n \in Nat /\ cursor[s] <= n /\ {inbox[o] : o \in Inbox(s)} = 1 .. n
  BY InboxFinite DEF StreamsInv, TypeOK, OrderInv, InboxGapless
<1>2. ASSUME NEW i \in 1 .. n
      PROVE  At(s, i) \in Inbox(s) /\ At(s, i) \in Ops /\ inbox[At(s, i)] = i
  <2>1. \E o \in Inbox(s) : inbox[o] = i
    BY <1>1
  <2>2. QED BY <2>1 DEF At, Inbox, OfStream
<1>3. \A o \in Inbox(s) : o \in Ops /\ StreamOf[o] = s /\ inbox[o] = outbox[o] /\ inbox[o] > 0
  BY DEF OrderInv, InboxGapless, Inbox, OfStream
<1>4. ASSUME NEW o \in Inbox(s) PROVE inbox[o] \in 1 .. n /\ At(s, inbox[o]) = o
  <2>1. inbox[o] \in 1 .. n
    BY <1>1
  <2>2. At(s, inbox[o]) \in Inbox(s) /\ inbox[At(s, inbox[o])] = inbox[o]
    BY <1>2, <2>1
  <2>3. QED BY <1>3, <2>1, <2>2 DEF OrderInv, NumbersDiffer
<1>5. PICK k \in 0 .. cursor[s] : Receipted(s) = UpTo(s, k)
  BY DEF OrderInv, ReceiptsArePrefix
<1>6. Receipted(s) \subseteq Inbox(s) /\ \A o \in Receipted(s) : outbox[o] = inbox[o]
  BY <1>3, <1>5 DEF UpTo
<1>7. {outbox[o] : o \in Receipted(s)} = 1 .. k
  <2>1. ASSUME NEW o \in Receipted(s) PROVE outbox[o] \in 1 .. k
    BY <1>1, <1>4, <1>5, <1>6 DEF UpTo
  <2>2. ASSUME NEW i \in 1 .. k PROVE \E o \in Receipted(s) : outbox[o] = i
    <3>1. i \in 1 .. n
      BY <1>1, <1>5
    <3>2. At(s, i) \in Receipted(s) /\ outbox[At(s, i)] = i
      BY <1>2, <1>3, <1>5, <3>1 DEF UpTo
    <3>3. QED BY <3>2
  <2>3. QED BY <2>1, <2>2
<1>8. QED BY <1>1, <1>2, <1>4, <1>5, <1>6, <1>7

\* The same after a step.
LEMMA RowsAreNumberedNext == StreamsInv' /\ OrderInv' => RowsNumbered'
  BY RowsAreNumbered, PTL

\* A table over 1 to n is a sequence of length n.
LEMMA TableIsSeq ==
  ASSUME NEW S, NEW n \in Nat, NEW f \in [1 .. n -> S]
  PROVE  f \in Seq(S) /\ Len(f) = n
<1>1. f \in Seq(S)
  BY SeqDef
<1>2. 1 .. Len(f) = 1 .. n /\ Len(f) \in Nat
  BY <1>1, LenProperties
<1>3. QED BY <1>1, <1>2

\* The abstract state of a stream.
Accepted(s) == [i \in 1 .. Cardinality(Inbox(s)) |-> <<At(s, i), At(s, i)>>]
Ledger(s) == [i \in 1 .. cursor[s] |-> At(s, i)]
Confirmed(s) == {outbox[o] : o \in Receipted(s)}

\* The abstract state is made of sequences as long as the numbers say.
LEMMA AbstractState ==
  ASSUME RowsNumbered, NEW s \in Streams
  PROVE  /\ Accepted(s) \in Seq(Ops \X Ops) /\ Len(Accepted(s)) = Cardinality(Inbox(s))
         /\ Ledger(s) \in Seq(Ops) /\ Len(Ledger(s)) = cursor[s]
<1>1. Accepted(s) \in [1 .. Cardinality(Inbox(s)) -> Ops \X Ops]
  BY DEF RowsNumbered, Accepted
<1>2. Ledger(s) \in [1 .. cursor[s] -> Ops]
  BY DEF RowsNumbered, Ledger
<1>3. cursor[s] \in Nat /\ Cardinality(Inbox(s)) \in Nat
  BY DEF RowsNumbered
<1>4. QED BY <1>1, <1>2, <1>3, TableIsSeq

\* The same after a step.
AbstractShape ==
    \A s \in Streams :
        /\ Accepted(s) \in Seq(Ops \X Ops) /\ Len(Accepted(s)) = Cardinality(Inbox(s))
        /\ Ledger(s) \in Seq(Ops) /\ Len(Ledger(s)) = cursor[s]
\* They are so after a step.
LEMMA AbstractShapeNext == RowsNumbered' => AbstractShape'
<1>1. RowsNumbered => AbstractShape
  BY AbstractState DEF AbstractShape
<1>2. QED BY <1>1, PTL

\* An event of the inbox keeps its place while the inbox grows.
LEMMA PlacesStay ==
  ASSUME RowsNumbered, RowsNumbered', NEW s \in Streams, Inbox(s) \subseteq Inbox(s)',
         \A o \in Inbox(s) : inbox'[o] = inbox[o]
  PROVE  \A i \in 1 .. Cardinality(Inbox(s)) : At(s, i)' = At(s, i)
<1> SUFFICES ASSUME NEW i \in 1 .. Cardinality(Inbox(s)) PROVE At(s, i)' = At(s, i)
  OBVIOUS
<1>1. At(s, i) \in Inbox(s) /\ inbox[At(s, i)] = i
  BY DEF RowsNumbered
<1>2. PICK o \in Inbox(s) : o = At(s, i)
  BY <1>1
<1>3. o \in Inbox(s)' /\ inbox'[o] = i
  BY <1>1, <1>2
<1>4. At(s, inbox[o])' = o
  BY <1>3 DEF RowsNumbered
<1>5. QED BY <1>2, <1>3, <1>4 DEF At

\* A step that leaves the inbox, the cursor and the receipts of a stream is
\* none of its delivery.
LEMMA StreamStutters ==
  ASSUME RowsNumbered, RowsNumbered', NEW s \in Streams, Inbox(s)' = Inbox(s),
         \A o \in Inbox(s) : inbox'[o] = inbox[o],
         cursor'[s] = cursor[s], Receipted(s)' = Receipted(s)
  PROVE  UNCHANGED Delivery(s)!vars
<1>1. \A i \in 1 .. Cardinality(Inbox(s)) : At(s, i)' = At(s, i)
  BY PlacesStay
<1>2. 1 .. cursor[s] \subseteq 1 .. Cardinality(Inbox(s))
  BY DEF RowsNumbered
<1>3. Cardinality(Inbox(s))' = Cardinality(Inbox(s))
  OBVIOUS
<1>4. Accepted(s)' = Accepted(s)
  BY <1>1, <1>3 DEF Accepted
<1>5. Ledger(s)' = Ledger(s)
  BY <1>1, <1>2 DEF Ledger
<1>6. Confirmed(s)' = Confirmed(s)
  <2>1. \A o \in Receipted(s) : o \in Inbox(s) /\ outbox'[o] = inbox'[o] /\ outbox[o] = inbox[o]
    BY DEF RowsNumbered
  <2>2. QED BY <2>1 DEF Confirmed
<1>7. QED BY <1>4, <1>5, <1>6 DEF Delivery!vars, Accepted, Ledger, Confirmed

\* A longer sequence that agrees on the positions of a shorter one extends it.
LEMMA AgreesOnPrefix ==
  ASSUME NEW S, NEW s \in Seq(S), NEW t \in Seq(S), Len(s) <= Len(t),
         \A i \in 1 .. Len(s) : t[i] = s[i]
  PROVE  SubSeq(t, 1, Len(s)) = s
<1>1. Len(s) \in Nat /\ Len(t) \in Nat /\ \A i \in 1 .. Len(s) : t[i] \in S
  BY LenProperties, ElementOfSeq
<1>2. /\ SubSeq(t, 1, Len(s)) \in Seq(S)
      /\ Len(SubSeq(t, 1, Len(s))) = IF 1 <= Len(s) THEN Len(s) - 1 + 1 ELSE 0
      /\ \A i \in 1 .. Len(s) - 1 + 1 : SubSeq(t, 1, Len(s))[i] = t[1 + i - 1]
  <2>1. 1 \in Int /\ Len(s) \in Int
    BY <1>1
  <2>2. QED
    BY <1>1, <2>1, SubSeqProperties
<1>3. PICK u : u = SubSeq(t, 1, Len(s))
  OBVIOUS
<1>4. Len(u) = Len(s) /\ \A i \in 1 .. Len(s) : u[i] = t[i]
  BY <1>1, <1>2, <1>3
<1>5. QED
  BY <1>2, <1>3, <1>4, SeqEqual

\* A staging transaction accepts a batch on its stream, or nothing new.
LEMMA StagingAccepts ==
  ASSUME StreamsInv, OrderInv, RowsNumbered, RowsNumbered', AbstractShape',
         NEW s \in Streams, StageEvents(s)
  PROVE  Delivery(s)!Accept \/ UNCHANGED Delivery(s)!vars
<1> DEFINE last == Cardinality(Inbox(s))
           new == Cardinality(Inbox(s))'
<1>1. /\ Inbox(s) \subseteq Inbox(s)' /\ last \in Nat /\ new \in Nat
      /\ \A o \in Ops \ Fresh(s) : inbox'[o] = inbox[o]
      /\ new = last + Cardinality(Fresh(s)) /\ Cardinality(Fresh(s)) \in Nat
      /\ Inbox(s)' = Inbox(s) \cup Fresh(s)
  BY StagedBehind DEF RowsNumbered
<1>2. \A o \in Inbox(s) : inbox'[o] = inbox[o]
  <2>1. \A o \in Inbox(s) : o \in Ops \ Fresh(s)
    BY DEF Inbox, OfStream, Fresh
  <2>2. QED BY <1>1, <2>1
<1>3. \A i \in 1 .. last : At(s, i)' = At(s, i)
  BY <1>1, <1>2, PlacesStay
<1>4. UNCHANGED <<outbox, receipts, cursor>>
  BY DEF StageEvents, lanVars, applyVars
<1>5. Receipted(s)' = Receipted(s)
  BY <1>4 DEF Receipted
<1>6. Confirmed(s)' = Confirmed(s)
  BY <1>4, <1>5 DEF Confirmed
<1>7. Ledger(s)' = Ledger(s)
  <2>1. 1 .. cursor[s] \subseteq 1 .. last
    BY DEF RowsNumbered
  <2>2. QED BY <1>3, <1>4, <2>1 DEF Ledger
<1>8. CASE Fresh(s) = {}
  BY <1>1, <1>2, <1>4, <1>5, <1>8, StreamStutters
<1>9. CASE Fresh(s) # {}
  <2>1. new > last
    <3>1. IsFiniteSet(Fresh(s))
      BY MapsAssumption, FS_Subset DEF StreamsInv, TypeOK, Fresh
    <3>2. Cardinality(Fresh(s)) # 0
      BY <1>9, <3>1, FS_EmptySet
    <3>3. QED BY <1>1, <3>2
  <2>2. /\ Accepted(s)' \in Seq(Ops \X Ops) /\ Len(Accepted(s)') = new
        /\ Accepted(s) \in Seq(Ops \X Ops) /\ Len(Accepted(s)) = last
    BY AbstractState DEF AbstractShape
  <2>3. \A i \in 1 .. last : Accepted(s)'[i] = Accepted(s)[i]
    BY <1>1, <1>3, <2>1 DEF Accepted
  <2>4. SubSeq(Accepted(s)', 1, Len(Accepted(s))) = Accepted(s)
    BY <1>1, <2>1, <2>2, <2>3, AgreesOnPrefix
  <2>5. ASSUME NEW i \in 1 .. new, NEW j \in 1 .. new, i # j
        PROVE  Accepted(s)'[i][1] # Accepted(s)'[j][1] /\ Accepted(s)'[i][2] # Accepted(s)'[j][2]
    <3>1. At(s, i)' # At(s, j)'
      BY <2>5 DEF RowsNumbered
    <3>2. QED BY <3>1 DEF Accepted
  <2>6. QED
    BY <1>6, <1>7, <2>1, <2>2, <2>4, <2>5 DEF Delivery!Accept, Accepted, Ledger, Confirmed
<1>10. QED BY <1>8, <1>9

\* A receipt written posts the next accepted event of the stream.
LEMMA WritingPosts ==
  ASSUME StreamsInv, OrderInv, RowsNumbered, RowsNumbered', AbstractShape',
         NEW a \in Appliers, applier[a].pc \in Inside,
         NEW outcome, WriteReceipt(applier[a].op, outcome),
         UNCHANGED <<outbox, receipts, inbox>>,
         NEW s \in Streams, StreamOf[applier[a].op] = s
  PROVE  Delivery(s)!Post
<1>1. PICK op \in Ops : op = applier[a].op
  BY CursorMoves
<1>2. PICK next : next = cursor[s] + 1
  OBVIOUS
<1>3. inbox[op] = next /\ StreamOf[op] = s /\ cursor' = [cursor EXCEPT ![s] = next]
  BY <1>1, <1>2, CursorMoves
<1>4. cursor'[s] = next
  BY <1>3 DEF StreamsInv, TypeOK
<1>5. Inbox(s)' = Inbox(s) /\ Receipted(s)' = Receipted(s) /\ \A i : At(s, i)' = At(s, i)
  BY DEF Inbox, Receipted, At
<1>6. cursor[s] \in Nat /\ op \in Inbox(s)
  <2>1. cursor[s] \in Nat
    BY DEF RowsNumbered
  <2>2. inbox[op] > 0
    BY <1>2, <1>3, <2>1
  <2>3. QED BY <1>3, <2>1, <2>2 DEF Inbox, OfStream
<1>7. next \in 1 .. Cardinality(Inbox(s)) /\ At(s, next) = op
  BY <1>2, <1>3, <1>6 DEF RowsNumbered
<1>8. /\ Accepted(s) \in Seq(Ops \X Ops) /\ Len(Accepted(s)) = Cardinality(Inbox(s))
      /\ Ledger(s) \in Seq(Ops) /\ Len(Ledger(s)) = cursor[s]
      /\ Ledger(s)' \in Seq(Ops) /\ Len(Ledger(s)') = next
  BY <1>4, AbstractState DEF AbstractShape
<1>9. Accepted(s)' = Accepted(s) /\ Confirmed(s)' = Confirmed(s)
  BY <1>5 DEF Accepted, Confirmed
<1>10. Len(Ledger(s)) < Len(Accepted(s)) /\ Accepted(s)[next][1] = op
  <2>1. cursor[s] < Cardinality(Inbox(s))
    <3>1. Cardinality(Inbox(s)) \in Nat
      BY DEF RowsNumbered
    <3>2. QED BY <1>2, <1>6, <1>7, <3>1
  <2>2. Accepted(s)[next] = <<op, op>>
    BY <1>7 DEF Accepted
  <2>3. QED BY <1>8, <2>1, <2>2
<1>11. \A i \in 1 .. cursor[s] : Ledger(s)'[i] = Ledger(s)[i]
  BY <1>2, <1>4, <1>5, <1>6 DEF Ledger
<1>12. Ledger(s)'[next] = op
  BY <1>2, <1>4, <1>5, <1>6, <1>7 DEF Ledger
<1>13. Ledger(s)' = Append(Ledger(s), op)
  <2>1. /\ Append(Ledger(s), op) \in Seq(Ops)
        /\ Len(Append(Ledger(s), op)) = next
        /\ \A i \in 1 .. cursor[s] : Append(Ledger(s), op)[i] = Ledger(s)[i]
        /\ Append(Ledger(s), op)[next] = op
    BY <1>2, <1>8, AppendProperties
  <2>2. \A i \in 1 .. next : Append(Ledger(s), op)[i] = Ledger(s)'[i]
    BY <1>2, <1>6, <1>11, <1>12, <2>1
  <2>3. QED BY <1>8, <2>1, <2>2, SeqEqual
<1>14. Ledger(s)' = Append(Ledger(s), Accepted(s)[Len(Ledger(s)) + 1][1])
  BY <1>2, <1>8, <1>10, <1>13
<1>15. QED
  BY <1>9, <1>10, <1>14 DEF Delivery!Post, Accepted, Ledger, Confirmed

\* An answer recorded confirms a longer prefix, or the same one.
LEMMA RecordingConfirms ==
  ASSUME StreamsInv, OrderInv, RowsNumbered, RowsNumbered', NEW s \in Streams, RecordReceipts(s)
  PROVE  Delivery(s)!Confirm \/ UNCHANGED Delivery(s)!vars
<1>1. UNCHANGED <<outbox, inbox, cursor>> /\ Receipted(s) \subseteq Receipted(s)'
  BY ReceiptsExtended DEF RecordReceipts, inboxVars, applyVars
<1>2. Inbox(s)' = Inbox(s) /\ \A i : At(s, i)' = At(s, i)
  BY <1>1 DEF Inbox, At
<1>3. Accepted(s)' = Accepted(s) /\ Ledger(s)' = Ledger(s)
  BY <1>1, <1>2 DEF Accepted, Ledger
<1>4. Confirmed(s) \subseteq Confirmed(s)'
  BY <1>1 DEF Confirmed
<1>5. PICK k \in 0 .. cursor[s] : Confirmed(s)' = 1 .. k
  BY <1>1 DEF RowsNumbered, Confirmed
<1>6. CASE k = 0
  <2>1. Confirmed(s)' = Confirmed(s)
    BY <1>4, <1>5, <1>6
  <2>2. QED BY <1>3, <2>1 DEF Delivery!vars, Accepted, Ledger, Confirmed
<1>7. CASE k # 0
  <2>1. k \in 1 .. Len(Ledger(s))
    <3>1. Len(Ledger(s)) = cursor[s]
      BY AbstractState
    <3>2. cursor[s] \in Nat
      BY DEF RowsNumbered
    <3>3. QED BY <1>5, <1>7, <3>1, <3>2
  <2>2. QED BY <1>3, <1>4, <1>5, <2>1 DEF Delivery!Confirm, Accepted, Ledger, Confirmed
<1>8. QED BY <1>6, <1>7

\* A step of a run of the apply command posts an event of its stream, or is
\* no step of any delivery.
LEMMA ApplyingDelivers ==
  ASSUME StreamsInv, OrderInv, RowsNumbered, RowsNumbered', AbstractShape',
         NEW a \in Appliers, ApplierStep(a), NEW s \in Streams
  PROVE  Delivery(s)!Post \/ UNCHANGED Delivery(s)!vars
<1>1. UNCHANGED <<outbox, inbox, receipts>>
  BY DEF ApplierStep, LockCursor, RejectEvent, RefuseDecision, WaitForItem, MeetConflict, CheckEvent,
         ApplyEvent, PostSale, BookingFails, RefuseBooking, CommitReceipt, RecordConflict, MoveApplier, lanVars, inboxVars
<1>2. Inbox(s)' = Inbox(s) /\ Receipted(s)' = Receipted(s)
  BY <1>1 DEF Inbox, Receipted
<1>3. CASE cursor'[s] = cursor[s]
  BY <1>1, <1>2, <1>3, StreamStutters
<1>4. CASE RejectEvent(a) \/ ApplyEvent(a) \/ CommitReceipt(a)
  <2>1. PICK outcome : WriteReceipt(applier[a].op, outcome) /\ applier[a].pc \in Inside
    BY <1>4 DEF RejectEvent, ApplyEvent, CommitReceipt, Handled, Inside
  <2>2. CASE StreamOf[applier[a].op] = s
    BY <1>1, <2>1, <2>2, WritingPosts
  <2>3. CASE StreamOf[applier[a].op] # s
    <3>1. cursor' = [cursor EXCEPT ![StreamOf[applier[a].op]] = @ + 1]
      BY <2>1, CursorMoves
    <3>2. cursor'[s] = cursor[s]
      BY <2>3, <3>1 DEF StreamsInv, TypeOK
    <3>3. QED BY <1>3, <3>2
  <2>4. QED BY <2>2, <2>3
<1>5. CASE ~(RejectEvent(a) \/ ApplyEvent(a) \/ CommitReceipt(a))
  <2>1. UNCHANGED cursor
    BY <1>5 DEF ApplierStep, LockCursor, RefuseDecision, WaitForItem, MeetConflict, CheckEvent,
                PostSale, BookingFails, RefuseBooking, RecordConflict, MoveApplier, applyVars
  <2>2. QED BY <1>3, <2>1
<1>6. QED BY <1>4, <1>5

\* Every step is, for each stream, a step of its delivery or none.
LEMMA StepDelivers ==
  ASSUME StreamsInv, OrderInv, RowsNumbered, RowsNumbered', AbstractShape', [Next]_vars,
         NEW s \in Streams
  PROVE  [Delivery(s)!Next]_(Delivery(s)!vars)
<1> USE DEF Delivery!Next
<1>1. CASE UNCHANGED <<inbox, cursor, receipts>>
  <2>1. Inbox(s)' = Inbox(s) /\ Receipted(s)' = Receipted(s)
    BY <1>1 DEF Inbox, Receipted
  <2>2. QED BY <1>1, <2>1, StreamStutters
<1>2. ASSUME NEW t \in Streams, RelayStep(t) PROVE [Delivery(s)!Next]_(Delivery(s)!vars)
  <2>1. CASE SendBatch(t) \/ RecordStaged(t) \/ FetchReceipts(t)
    BY <1>1, <2>1 DEF SendBatch, RecordStaged, FetchReceipts, lanVars, inboxVars, applyVars
  <2>2. CASE StageEvents(t) /\ t = s
    BY <2>2, StagingAccepts
  <2>3. CASE StageEvents(t) /\ t # s
    <3>1. Inbox(s)' = Inbox(s) /\ Fresh(t) \subseteq OfStream(t)
          /\ \A o \in Ops \ Fresh(t) : inbox'[o] = inbox[o]
      BY <2>3, StagedBehind
    <3>2. \A o \in Inbox(s) : inbox'[o] = inbox[o]
      BY <2>3, <3>1 DEF Inbox, OfStream
    <3>3. UNCHANGED <<cursor, receipts>>
      BY <2>3 DEF StageEvents, lanVars, applyVars
    <3>4. Receipted(s)' = Receipted(s)
      BY <3>3 DEF Receipted
    <3>5. QED BY <3>1, <3>2, <3>3, <3>4, StreamStutters
  <2>4. CASE RecordReceipts(t) /\ t = s
    BY <2>4, RecordingConfirms
  <2>5. CASE RecordReceipts(t) /\ t # s
    <3>1. UNCHANGED <<inbox, cursor>> /\ Receipted(s)' = Receipted(s)
      BY <2>5, ReceiptsExtended DEF RecordReceipts, inboxVars, applyVars
    <3>2. Inbox(s)' = Inbox(s)
      BY <3>1 DEF Inbox
    <3>3. QED BY <3>1, <3>2, StreamStutters
  <2>6. QED BY <1>2, <2>1, <2>2, <2>3, <2>4, <2>5 DEF RelayStep
<1>3. ASSUME NEW a \in Appliers, ApplierStep(a) PROVE [Delivery(s)!Next]_(Delivery(s)!vars)
  BY <1>3, ApplyingDelivers
<1>4. ASSUME NEW o \in Ops, Capture(o) PROVE UNCHANGED <<inbox, cursor, receipts>>
  BY <1>4 DEF Capture, inboxVars, applyVars
<1>5. ASSUME NEW t \in Streams, RelayFails(t) PROVE UNCHANGED <<inbox, cursor, receipts>>
  BY <1>5 DEF RelayFails, lanVars, inboxVars, applyVars
<1>6. ASSUME NEW a \in Appliers, NEW o \in Ops, StartApply(a, o)
      PROVE  UNCHANGED <<inbox, cursor, receipts>>
  BY <1>6 DEF StartApply, MoveApplier, lanVars, inboxVars, applyVars
<1>7. ASSUME NEW a \in Appliers, ApplierFails(a) PROVE UNCHANGED <<inbox, cursor, receipts>>
  BY <1>7 DEF ApplierFails, lanVars, inboxVars, applyVars
<1>8. ASSUME NEW o \in Ops, NEW code \in Codes, CloudChanges(o, code)
      PROVE  UNCHANGED <<inbox, cursor, receipts>>
  BY <1>8 DEF CloudChanges, lanVars, inboxVars, applyVars
<1>9. ASSUME NEW v \in Reviewers, ReviewStep(v) PROVE UNCHANGED <<inbox, cursor, receipts>>
  BY <1>9 DEF ReviewStep, OpenReview, DecideOnCommandLine, DecideOnConsole, Decide,
              lanVars, inboxVars, applyVars
<1>10. CASE UNCHANGED vars
  BY <1>1, <1>10 DEF vars
<1>11. QED
  BY <1>1, <1>2, <1>3, <1>4, <1>5, <1>6, <1>7, <1>8, <1>9, <1>10 DEF Next

\* The empty databases are the empty delivery of every stream.
LEMMA InitDelivers ==
  ASSUME Init, NEW s \in Streams PROVE Delivery(s)!Init
<1>1. Inbox(s) = {} /\ Receipted(s) = {} /\ cursor[s] = 0
  BY DEF Init, Inbox, Receipted, OfStream
<1>2. Cardinality(Inbox(s)) = 0
  BY <1>1, FS_EmptySet
<1>3. \A f : f \in [1 .. 0 -> {}] => f = << >>
  <2>1. ASSUME NEW f \in [1 .. 0 -> {}] PROVE f = << >>
    <3>1. f \in Seq({}) /\ Len(f) = 0
      BY TableIsSeq
    <3>2. QED BY <3>1, EmptySeq
  <2>2. QED BY <2>1
<1>4. Accepted(s) = << >>
  BY <1>2, <1>3 DEF Accepted
<1>5. Ledger(s) = << >>
  BY <1>1, <1>3 DEF Ledger
<1>6. Confirmed(s) = {}
  BY <1>1 DEF Confirmed
<1>7. QED BY <1>4, <1>5, <1>6 DEF Delivery!Init, Accepted, Ledger, Confirmed

\* Every stream delivers in order and exactly once: events are staged in the
\* order captured, applied one by one, and confirmed by prefixes, whatever
\* fails, repeats or runs twice and whatever a reviewer decides.
THEOREM StreamsDeliverInOrder == Spec => ImplementsOrderedDelivery
<1>1. Init => \A s \in Streams : Delivery(s)!Init
  BY InitDelivers
<1>2. StreamsInv /\ OrderInv => RowsNumbered
  BY RowsAreNumbered
<1>3. /\ StreamsInv /\ OrderInv /\ RowsNumbered /\ RowsNumbered' /\ [Next]_vars
      => [\A s \in Streams : [Delivery(s)!Next]_(Delivery(s)!vars)]_vars
  BY StepDelivers, AbstractShapeNext
<1>4. QED
  BY <1>1, <1>2, <1>3, Invariance, OrderKept, PTL DEF Spec, ImplementsOrderedDelivery
=============================================================================
