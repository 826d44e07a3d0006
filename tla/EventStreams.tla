---------------------------- MODULE EventStreams ----------------------------
(***************************************************************************)
(* Delivery of the LAN's business events to the cloud (Phase 9).           *)
(*                                                                         *)
(* Stock, POS, receiving, attachment, payment and pressing events each     *)
(* have a stream of their own: an outbox on the LAN, a relay               *)
(* (relay-event-outbox.mjs), an inbox and an apply cursor in the cloud     *)
(* (phase9CloudEventStore.mjs).  An event that disagrees with the cloud's  *)
(* books is a conflict: the apply is rolled back, the conflict recorded in *)
(* a second transaction, and the stream waits until a reviewer rejects the *)
(* event or approves it despite the one conflict code that was found.      *)
(* Streams meet in one place: an event that names a stock item created on  *)
(* the LAN waits until the item's create, on the stock stream, is applied. *)
(*                                                                         *)
(* A handler first checks the event and then books it; most of its checks  *)
(* are reads without locks, so the books may change in between.  The apply *)
(* of a POS sale is two transactions: createPosSale commits the sale by    *)
(* itself, then the receipt commits.  Every other handler books in the     *)
(* receipt's own transaction.  An operation stands for its rows: its       *)
(* outbox, inbox and applied rows are keyed by its operation id.           *)
(***************************************************************************)
EXTENDS Naturals, Sequences, FiniteSets

CONSTANTS
    Ops,          \* operation ids of the events
    NoOp,         \* no event
    Streams,      \* stream names
    StreamOf,     \* the stream that carries each event
    Kind,         \* its kind: "create" an item, "adjust" stock, "sale"
    Creator,      \* the create of the LAN item it names, or itself if it names none
    Appliers,     \* concurrent runs of phase9OperatorApply.ts
    Reviewers,    \* people with a conflict open, on the command line or in the console
    StageLimit,   \* EDGE_EVENT_STAGE_LIMIT
    Disagreements,\* bound: pairs <<event, code>> the cloud's books can disagree in
    MaxChanges,   \* bound: changes of the cloud's books that matter to an event
    MaxFaults     \* bound: lost answers, failed and killed processes

ASSUME MapsAssumption ==
    /\ IsFiniteSet(Ops) /\ NoOp \notin Ops
    /\ StreamOf \in [Ops -> Streams]
    /\ Kind \in [Ops -> {"create", "adjust", "sale"}]
    /\ Creator \in [Ops -> Ops]
    /\ \A o \in Ops : Creator[o] # o => Kind[Creator[o]] = "create"
ASSUME BoundsAssumption ==
    /\ StageLimit \in Nat \ {0}
    /\ MaxChanges \in Nat
    /\ MaxFaults \in Nat

VARIABLES
    outbox,       \* LAN: sequence number of each captured event, 0 if not captured
    staged,       \* LAN: events with a stage receipt
    receipts,     \* LAN: recorded outcome of each event
    relay,        \* LAN: the relay's work on each stream
    inbox,        \* cloud: sequence number of each staged event
    applied,      \* cloud: outcome in the applied row of each event
    cursor,       \* cloud: last_sequence of each stream's apply cursor
    conflicts,    \* cloud: codes recorded for each event, in the order of their ids
    decision,     \* cloud: the reviewer's decision on each event
    booked,       \* cloud: how often the event's business effect was committed
    forced,       \* cloud: the disagreements the handler saw, and met, when it booked
    clash,        \* cloud: the codes the books now disagree with each event in
    applier,      \* runs of the apply command
    review,       \* the conflict each reviewer has read and is about to decide
    changes, faults

lanVars == <<outbox, staged, receipts>>
inboxVars == <<inbox>>
applyVars == <<applied, cursor, booked, forced>>
reviewVars == <<decision, review>>
boundVars == <<changes, faults>>
vars == <<outbox, staged, receipts, relay, inbox, applied, cursor, conflicts,
          decision, booked, forced, clash, applier, review, changes, faults>>

\* The handlers' conflict codes by class: actor access revoked, missing
\* reference or, but for a sale, closed period; item code taken; till account
\* changed; item name exists; stock would go negative.  They are checked in
\* this order.
CodeOrder == <<"access", "taken", "till", "name", "negative">>
Codes == {"access", "taken", "till", "name", "negative"}

\* The codes an event of each kind can meet.
CodesOf(k) ==
    IF k = "sale" THEN {"access", "till", "negative"}
    ELSE IF k = "create" THEN {"access", "taken", "name"}
    ELSE {"access", "negative"}

ASSUME DisagreementsAssumption ==
    \A d \in Disagreements : d[1] \in Ops /\ d[2] \in CodesOf(Kind[d[1]])

\* phase9OverridableConflicts
Overridable(k) == CodesOf(k) \ {"access", "taken"}

Outcomes == {"none", "cloud-applied", "already-present", "rejected-conflict"}

Decisions == [kind: {"none", "reject-event", "approve-override"}, code: Codes \cup {"none"}]
NoDecision == [kind |-> "none", code |-> "none"]

NoReview == [op |-> NoOp, kind |-> "none", code |-> "none"]
IdleRelay == [pc |-> "idle", rows |-> {}]
Run(pc, o, decided, result) ==
    [pc |-> pc, op |-> o, decided |-> decided, result |-> result, seen |-> {}]
IdleApplier == Run("idle", NoOp, NoDecision, "none")

OfStream(s) == {o \in Ops : StreamOf[o] = s}
Captured(s) == {o \in OfStream(s) : outbox[o] > 0}
Inbox(s) == {o \in OfStream(s) : inbox[o] > 0}
Receipted(s) == {o \in OfStream(s) : receipts[o] # "none"}

Init ==
    /\ outbox = [o \in Ops |-> 0]
    /\ staged = {}
    /\ receipts = [o \in Ops |-> "none"]
    /\ relay = [s \in Streams |-> IdleRelay]
    /\ inbox = [o \in Ops |-> 0]
    /\ applied = [o \in Ops |-> "none"]
    /\ cursor = [s \in Streams |-> 0]
    /\ conflicts = [o \in Ops |-> << >>]
    /\ decision = [o \in Ops |-> NoDecision]
    /\ booked = [o \in Ops |-> 0]
    /\ forced = [o \in Ops |-> [seen |-> {}, met |-> {}]]
    /\ clash = [o \in Ops |-> {}]
    /\ applier = [a \in Appliers |-> IdleApplier]
    /\ review = [v \in Reviewers |-> NoReview]
    /\ changes = 0
    /\ faults = 0

-----------------------------------------------------------------------------
(* The LAN: capture and relay.                                             *)

\* The outbox row commits with the business row, numbered under the stream's
\* order lock; a LAN item can be named once its create has committed.
Capture(o) ==
    /\ outbox[o] = 0
    /\ Creator[o] # o => outbox[Creator[o]] > 0
    /\ outbox' = [outbox EXCEPT ![o] = Cardinality(Captured(StreamOf[o])) + 1]
    /\ UNCHANGED <<staged, receipts, relay, conflicts, clash, applier>>
    /\ UNCHANGED <<inboxVars, applyVars, reviewVars, boundVars>>

\* SELECT ... ORDER BY o.sequence LIMIT of the rows without a stage receipt.
PendingRows(s) ==
    LET pending == Captured(s) \ staged
    IN  {o \in pending : Cardinality({q \in pending : outbox[q] < outbox[o]}) < StageLimit}

\* The relay sends the next batch of a stream.
SendBatch(s) ==
    /\ relay[s].pc = "idle"
    /\ PendingRows(s) # {}
    /\ relay' = [relay EXCEPT ![s] = [pc |-> "sent", rows |-> PendingRows(s)]]
    /\ UNCHANGED <<lanVars, conflicts, clash, applier>>
    /\ UNCHANGED <<inboxVars, applyVars, reviewVars, boundVars>>

\* stagePhase9Events: rows already staged are echoed, the others must follow
\* the stage cursor without a gap.
StageEvents(s) ==
    LET fresh == {o \in relay[s].rows : inbox[o] = 0}
        last == Cardinality(Inbox(s))
    IN  /\ relay[s].pc = "sent"
        /\ {outbox[o] : o \in fresh} = (last + 1) .. (last + Cardinality(fresh))
        /\ inbox' = [o \in Ops |-> IF o \in fresh THEN outbox[o] ELSE inbox[o]]
        /\ relay' = [relay EXCEPT ![s] = [pc |-> "echoed", rows |-> relay[s].rows]]
        /\ UNCHANGED <<lanVars, conflicts, clash, applier>>
        /\ UNCHANGED <<applyVars, reviewVars, boundVars>>

RecordStaged(s) ==
    /\ relay[s].pc = "echoed"
    /\ staged' = staged \cup relay[s].rows
    /\ relay' = [relay EXCEPT ![s] = IdleRelay]
    /\ UNCHANGED <<outbox, receipts, conflicts, clash, applier>>
    /\ UNCHANGED <<inboxVars, applyVars, reviewVars, boundVars>>

\* The applied rows from MAX(sequence) + 1 of the receipts on; a page of 25
\* holds them all.
FetchReceipts(s) ==
    LET answer == {o \in Inbox(s) : /\ applied[o] # "none"
                                    /\ \A q \in Receipted(s) : inbox[o] > outbox[q]}
    IN  /\ relay[s].pc = "idle"
        /\ answer # {}
        /\ relay' = [relay EXCEPT ![s] = [pc |-> "answered", rows |-> answer]]
        /\ UNCHANGED <<lanVars, conflicts, clash, applier>>
        /\ UNCHANGED <<inboxVars, applyVars, reviewVars, boundVars>>

\* Mutant: every receipt counts as applied.
RecordReceiptsAsApplied(s) ==
    /\ relay[s].pc = "answered"
    /\ receipts' = [o \in Ops |-> IF o \in relay[s].rows THEN "cloud-applied" ELSE receipts[o]]
    /\ relay' = [relay EXCEPT ![s] = IdleRelay]
    /\ UNCHANGED <<outbox, staged, conflicts, clash, applier>>
    /\ UNCHANGED <<inboxVars, applyVars, reviewVars, boundVars>>

\* Receipts equal to the local rows are recorded; applied rows never change.
RecordReceipts(s) ==
    /\ relay[s].pc = "answered"
    /\ receipts' = [o \in Ops |-> IF o \in relay[s].rows THEN applied[o] ELSE receipts[o]]
    /\ relay' = [relay EXCEPT ![s] = IdleRelay]
    /\ UNCHANGED <<outbox, staged, conflicts, clash, applier>>
    /\ UNCHANGED <<inboxVars, applyVars, reviewVars, boundVars>>

\* A lost request or answer, a refused batch or a killed relay ends its run.
RelayFails(s) ==
    /\ relay[s].pc # "idle"
    /\ faults < MaxFaults
    /\ faults' = faults + 1
    /\ relay' = [relay EXCEPT ![s] = IdleRelay]
    /\ UNCHANGED <<lanVars, conflicts, clash, applier, changes>>
    /\ UNCHANGED <<inboxVars, applyVars, reviewVars>>

-----------------------------------------------------------------------------
(* The cloud: apply.                                                       *)

\* The applier's own move, which leaves the database alone.
MoveApplier(a, state) ==
    /\ applier' = [applier EXCEPT ![a] = state]
    /\ UNCHANGED <<lanVars, relay, conflicts, clash>>
    /\ UNCHANGED <<inboxVars, reviewVars, boundVars>>

\* applyPendingStagedEvents looks for the next staged event without a lock.
StartApply(a, o) ==
    /\ applier[a].pc = "idle"
    /\ inbox[o] = cursor[StreamOf[o]] + 1
    /\ MoveApplier(a, Run("next", o, NoDecision, "none"))
    /\ UNCHANGED applyVars

\* Mutant: the cursor is read without FOR UPDATE.
CursorFreeUnlocked(o) == TRUE

\* No other run is inside its transaction on the stream's cursor row.
CursorFree(o) ==
    \A b \in Appliers :
        applier[b].pc \in {"locked", "checked", "posted"} => StreamOf[applier[b].op] # StreamOf[o]

\* Lock the cursor and read the decision; an event applied meanwhile ends in
\* its stored receipt.
LockCursor(a) ==
    LET o == applier[a].op
    IN  /\ applier[a].pc = "next"
        /\ CursorFree(o)
        /\ IF inbox[o] <= cursor[StreamOf[o]] \/ applied[o] # "none"
           THEN MoveApplier(a, IdleApplier)
           ELSE MoveApplier(a, Run("locked", o, decision[o], "none"))
        /\ UNCHANGED applyVars

\* An approval of a conflict that may not be overridden is refused.
DecisionValid(d, k) == d.kind = "approve-override" => d.code \in Overridable(k)

\* The applied row and the cursor, inserted and moved in one transaction.
WriteReceipt(o, outcome) ==
    /\ applied' = [applied EXCEPT ![o] = outcome]
    /\ cursor' = [cursor EXCEPT ![StreamOf[o]] = inbox[o]]

\* Mutant: the outcome written is not one of EVENT_APPLY_OUTCOMES.
RejectEventUnlisted(a) ==
    LET o == applier[a].op
    IN  /\ applier[a].pc = "locked"
        /\ applier[a].decided.kind = "reject-event"
        /\ WriteReceipt(o, "rejected")
        /\ MoveApplier(a, IdleApplier)
        /\ UNCHANGED <<booked, forced>>

\* A rejected event is recorded as not applied.
RejectEvent(a) ==
    LET o == applier[a].op
    IN  /\ applier[a].pc = "locked"
        /\ applier[a].decided.kind = "reject-event"
        /\ WriteReceipt(o, "rejected-conflict")
        /\ MoveApplier(a, IdleApplier)
        /\ UNCHANGED <<booked, forced>>

RefuseDecision(a) ==
    /\ applier[a].pc = "locked"
    /\ ~DecisionValid(applier[a].decided, Kind[applier[a].op])
    /\ MoveApplier(a, IdleApplier)
    /\ UNCHANGED applyVars

\* Mutant: the LAN id reaches the handler when the cloud knows no item for it.
ItemKnownOrNot(o) == TRUE

\* translatePhase9LanStockItems finds the cloud item of every LAN item.
ItemKnown(o) == Creator[o] # o => booked[Creator[o]] > 0

\* The event reaches its handler.
Handled(a) ==
    LET o == applier[a].op
    IN  /\ applier[a].pc = "locked"
        /\ applier[a].decided.kind # "reject-event"
        /\ DecisionValid(applier[a].decided, Kind[o])

\* The item's create is not applied yet: the run ends without a conflict.
WaitForItem(a) ==
    /\ Handled(a)
    /\ ~ItemKnown(applier[a].op)
    /\ MoveApplier(a, IdleApplier)
    /\ UNCHANGED applyVars

\* Codes the handler refuses the event for.  It is told of the one code the
\* approval names and skips that check only.  A sale that already exists is
\* checked for the actor's access and then recognised.
Refusals(o, d) ==
    LET checked == IF booked[o] > 0 THEN {"access"} ELSE Codes
    IN  (clash[o] \cap checked) \ (IF d.kind = "approve-override" THEN {d.code} ELSE {})

FirstCode(codes) ==
    CodeOrder[CHOOSE i \in 1 .. Len(CodeOrder) :
                 /\ CodeOrder[i] \in codes
                 /\ \A j \in 1 .. i - 1 : CodeOrder[j] \notin codes]

\* The handler throws the first disagreement it meets: rollback.
MeetConflict(a) ==
    LET o == applier[a].op
        refusals == Refusals(o, applier[a].decided)
    IN  /\ Handled(a)
        /\ ItemKnown(o)
        /\ refusals # {}
        /\ MoveApplier(a, Run("conflict", o, NoDecision, FirstCode(refusals)))
        /\ UNCHANGED applyVars

\* Mutant: the request id of the sale is not looked up.
SaleExistsUnseen(o) == FALSE

\* The request id of the sale is looked up.
SaleExists(o) == booked[o] > 0

\* The handler finds nothing to refuse, and what it saw is all that its own
\* reads will ever show it.  A sale that exists needs no booking.
CheckEvent(a) ==
    LET o == applier[a].op
        d == applier[a].decided
    IN  /\ Handled(a)
        /\ ItemKnown(o)
        /\ Refusals(o, d) = {}
        /\ MoveApplier(a, IF SaleExists(o) THEN Run("posted", o, d, "already-present")
                           ELSE [Run("checked", o, d, "none") EXCEPT !.seen = clash[o]])
        /\ UNCHANGED applyVars

\* The one check the booking itself depends on: the unique index of the item
\* codes, the balance rows it locks.
Guarded(k) == IF k = "create" THEN {"taken"} ELSE {"negative"}

\* Mutant: the sale deducts its stock without looking at it again.
OvertakenUnseen(a) == FALSE

\* The booking meets a guarded disagreement that nobody approved.
Overtaken(a) ==
    LET d == applier[a].decided
    IN  \E code \in clash[applier[a].op] \cap Guarded(Kind[applier[a].op]) :
            ~(d.kind = "approve-override" /\ d.code = code)

Book(a) ==
    LET o == applier[a].op
    IN  /\ booked' = [booked EXCEPT ![o] = @ + 1]
        /\ forced' = [forced EXCEPT ![o] = [seen |-> applier[a].seen, met |-> clash[o]]]

\* Stock events: the effect and the receipt are one transaction.
ApplyEvent(a) ==
    LET o == applier[a].op
    IN  /\ applier[a].pc = "checked"
        /\ Kind[o] # "sale"
        /\ ~Overtaken(a)
        /\ Book(a)
        /\ WriteReceipt(o, "cloud-applied")
        /\ MoveApplier(a, IdleApplier)

\* createPosSale: on the sale's advisory lock it looks for the request id
\* again, on the balance rows for the stock, and commits by itself; from an
\* apply that was killed meanwhile no receipt follows.
PostSale(a) ==
    LET o == applier[a].op
    IN  /\ applier[a].pc \in {"checked", "adrift"}
        /\ Kind[o] = "sale"
        /\ IF SaleExists(o) THEN UNCHANGED <<booked, forced>> ELSE ~Overtaken(a) /\ Book(a)
        /\ MoveApplier(a, IF applier[a].pc = "adrift" THEN IdleApplier
                           ELSE Run("posted", o, applier[a].decided,
                                    IF SaleExists(o) THEN "already-present" ELSE "cloud-applied"))
        /\ UNCHANGED <<applied, cursor>>

\* The booking fails on what it guards, with a plain error: no conflict is
\* recorded.  A sale adrift may end with its process.
BookingFails(a) ==
    /\ \/ applier[a].pc = "checked" /\ Overtaken(a) /\ ~SaleExists(applier[a].op)
       \/ applier[a].pc = "adrift"
    /\ MoveApplier(a, IdleApplier)
    /\ UNCHANGED applyVars

\* The booking is refused for what can only be rejected: an adjustment meets a
\* closed period, createPosSale finds a payment account or a customer gone when
\* it looks again.  The cashier's access is not looked up again.
RefuseBooking(a) ==
    LET o == applier[a].op
    IN  /\ applier[a].pc = "checked"
        /\ Kind[o] # "create"
        /\ ~SaleExists(o)
        /\ "access" \in clash[o]
        /\ MoveApplier(a, Run("conflict", o, NoDecision, "access"))
        /\ UNCHANGED applyVars

\* The receipt of a sale, after the sale's own commit.
CommitReceipt(a) ==
    /\ applier[a].pc = "posted"
    /\ WriteReceipt(applier[a].op, applier[a].result)
    /\ MoveApplier(a, IdleApplier)
    /\ UNCHANGED <<booked, forced>>


\* recordConflict, a transaction of its own: ON CONFLICT (code) DO NOTHING.
RecordConflict(a) ==
    LET o == applier[a].op
        code == applier[a].result
        recorded == {conflicts[o][i] : i \in 1 .. Len(conflicts[o])}
    IN  /\ applier[a].pc = "conflict"
        /\ conflicts' = [conflicts EXCEPT ![o] = IF code \in recorded THEN @ ELSE Append(@, code)]
        /\ applier' = [applier EXCEPT ![a] = IdleApplier]
        /\ UNCHANGED <<lanVars, relay, clash>>
        /\ UNCHANGED <<inboxVars, applyVars, reviewVars, boundVars>>

\* A lock timeout, a lost connection or a kill; what committed stays.  The
\* sale's own transaction can outlive the one that holds the cursor.
ApplierFails(a) ==
    /\ applier[a].pc # "idle"
    /\ faults < MaxFaults
    /\ faults' = faults + 1
    /\ \/ applier' = [applier EXCEPT ![a] = IdleApplier]
       \/ /\ applier[a].pc = "checked" /\ Kind[applier[a].op] = "sale"
          /\ applier' = [applier EXCEPT ![a].pc = "adrift"]
    /\ UNCHANGED <<lanVars, relay, conflicts, clash, changes>>
    /\ UNCHANGED <<inboxVars, applyVars, reviewVars>>

-----------------------------------------------------------------------------
(* The cloud: the books change, and people decide.                         *)

\* An adjustment locks the balance row when it checks it.
RowLocked(o, code) ==
    /\ Kind[o] = "adjust" /\ code = "negative"
    /\ \E a \in Appliers : applier[a].pc = "checked" /\ applier[a].op = o

CloudChanges(o, code) ==
    /\ <<o, code>> \in Disagreements
    /\ ~RowLocked(o, code)
    /\ changes < MaxChanges
    /\ changes' = changes + 1
    /\ clash' = [clash EXCEPT ![o] = IF code \in @ THEN @ \ {code} ELSE @ \cup {code}]
    /\ UNCHANGED <<lanVars, relay, conflicts, applier, faults>>
    /\ UNCHANGED <<inboxVars, applyVars, reviewVars>>

LatestCode(o) == conflicts[o][Len(conflicts[o])]

\* A reviewer reads the latest conflict of an undecided event.
OpenReview(v, o, kind) ==
    /\ review[v] = NoReview
    /\ conflicts[o] # << >>
    /\ decision[o] = NoDecision
    /\ kind = "approve-override" => LatestCode(o) \in Overridable(Kind[o])
    /\ review' = [review EXCEPT ![v] = [op |-> o, kind |-> kind, code |-> LatestCode(o)]]
    /\ UNCHANGED <<decision, lanVars, relay, conflicts, clash, applier>>
    /\ UNCHANGED <<inboxVars, applyVars, boundVars>>

\* The decision's key is the event: a second decision of it is refused.
Decide(v, code) ==
    LET o == review[v].op
    IN  /\ decision' = IF decision[o] # NoDecision THEN decision
                       ELSE [decision EXCEPT ![o] = [kind |-> review[v].kind, code |-> code]]
        /\ review' = [review EXCEPT ![v] = NoReview]
        /\ UNCHANGED <<lanVars, relay, conflicts, clash, applier>>
        /\ UNCHANGED <<inboxVars, applyVars, boundVars>>

\* The command line binds the conflict it read.
DecideOnCommandLine(v) ==
    /\ review[v] # NoReview
    /\ Decide(v, review[v].code)

\* The console's database function binds the latest conflict when it runs.
DecideOnConsole(v) ==
    /\ review[v] # NoReview
    /\ Decide(v, LatestCode(review[v].op))

-----------------------------------------------------------------------------
RelayStep(s) ==
    \/ SendBatch(s)
    \/ StageEvents(s)
    \/ RecordStaged(s)
    \/ FetchReceipts(s)
    \/ RecordReceipts(s)

ApplierStep(a) ==
    \/ LockCursor(a)
    \/ RejectEvent(a)
    \/ RefuseDecision(a)
    \/ WaitForItem(a)
    \/ MeetConflict(a)
    \/ CheckEvent(a)
    \/ ApplyEvent(a)
    \/ PostSale(a)
    \/ BookingFails(a)
    \/ RefuseBooking(a)
    \/ CommitReceipt(a)
    \/ RecordConflict(a)

ReviewStep(v) ==
    \/ \E o \in Ops : OpenReview(v, o, "reject-event")
    \/ \E o \in Ops : OpenReview(v, o, "approve-override")
    \/ DecideOnCommandLine(v)
    \/ DecideOnConsole(v)

Next ==
    \/ \E o \in Ops : Capture(o)
    \/ \E s \in Streams : RelayStep(s)
    \/ \E s \in Streams : RelayFails(s)
    \/ \E a \in Appliers, o \in Ops : StartApply(a, o)
    \/ \E a \in Appliers : ApplierStep(a)
    \/ \E a \in Appliers : ApplierFails(a)
    \/ \E o \in Ops, code \in Codes : CloudChanges(o, code)
    \/ \E v \in Reviewers : ReviewStep(v)

Spec == Init /\ [][Next]_vars

\* The relay loop runs for ever, an apply that was started goes on, every
\* stream is applied again and again while it has a staged event, and people
\* review what is open.
Fairness ==
    /\ \A s \in Streams : WF_vars(RelayStep(s))
    /\ \A a \in Appliers : WF_vars(ApplierStep(a))
    /\ \A o \in Ops : SF_vars(\E a \in Appliers : StartApply(a, o))
    /\ \A v \in Reviewers : WF_vars(ReviewStep(v))

FairSpec == Spec /\ Fairness

-----------------------------------------------------------------------------
(* Properties.                                                             *)

TypeOK ==
    /\ outbox \in [Ops -> Nat]
    /\ staged \subseteq Ops
    /\ receipts \in [Ops -> Outcomes]
    /\ relay \in [Streams -> [pc : {"idle", "sent", "echoed", "answered"}, rows : SUBSET Ops]]
    /\ inbox \in [Ops -> Nat]
    /\ applied \in [Ops -> Outcomes]
    /\ cursor \in [Streams -> Nat]
    /\ conflicts \in [Ops -> Seq(Codes)]
    /\ decision \in [Ops -> Decisions]
    /\ booked \in [Ops -> Nat]
    /\ forced \in [Ops -> [seen : SUBSET Codes, met : SUBSET Codes]]
    /\ clash \in [Ops -> SUBSET Codes]
    /\ applier \in [Appliers -> [pc : {"idle", "next", "locked", "checked", "posted", "adrift", "conflict"},
                                 op : Ops \cup {NoOp}, decided : Decisions,
                                 result : Outcomes \cup Codes, seen : SUBSET Codes]]
    /\ review \in [Reviewers -> [op : Ops \cup {NoOp}, kind : {"none", "reject-event", "approve-override"},
                                 code : Codes \cup {"none"}]]
    /\ changes \in 0 .. MaxChanges
    /\ faults \in 0 .. MaxFaults

\* The business effect and the receipt of an event agree: it is booked at
\* most once however often its apply is run, killed or run twice at a time;
\* a positive receipt means it is booked; only a sale can be booked before
\* its receipt.
EffectsMatchReceipts ==
    \A o \in Ops :
        /\ booked[o] <= 1
        /\ applied[o] \in {"cloud-applied", "already-present"} => booked[o] = 1
        /\ Kind[o] # "sale" /\ booked[o] = 1 => applied[o] = "cloud-applied"

\* An event that names an item created on the LAN is booked only after the
\* item's create is booked, although they travel on different streams.
ItemsBeforeUse ==
    \A o \in Ops : booked[o] > 0 /\ Creator[o] # o => booked[Creator[o]] > 0

\* An event is booked against the cloud's books only in the one disagreement
\* that a reviewer approved and that the registry allows to be overridden.
\* This holds of every disagreement that stood when the handler checked the
\* event, and of those its booking guards (stock below zero, an item code)
\* whenever they arose.  It does not hold of the others that arise between a
\* handler's check and its commit: access, the till account and the item name
\* are read without a lock and not read again (phase9PosSaleApply.ts).
Approved(o) ==
    IF decision[o].kind = "approve-override" THEN {decision[o].code} \cap Overridable(Kind[o]) ELSE {}

Undecided(o) == (forced[o].seen \cup (forced[o].met \cap Guarded(Kind[o]))) \ Approved(o)

OverridesDecided == \A o \in Ops : Undecided(o) = {}

\* What the handover preflight counts as settled is settled: a receipt on the
\* LAN is the cloud's outcome; the event is booked, or a reviewer rejected it.
HandoverSound ==
    \A o \in Ops : receipts[o] # "none" =>
        /\ receipts[o] = applied[o]
        /\ booked[o] = 1 \/ decision[o].kind = "reject-event"

\* Each stream is an ordered delivery: staged in the order captured, applied
\* one by one in that order, confirmed by prefixes.
At(s, i) == CHOOSE o \in Inbox(s) : inbox[o] = i

Delivery(s) == INSTANCE OrderedDelivery WITH
    Docs <- Ops,
    accepted <- [i \in 1 .. Cardinality(Inbox(s)) |-> <<At(s, i), At(s, i)>>],
    ledger <- [i \in 1 .. cursor[s] |-> At(s, i)],
    confirmed <- {outbox[o] : o \in Receipted(s)}

ImplementsOrderedDelivery ==
    /\ \A s \in Streams : Delivery(s)!Init
    /\ [][\A s \in Streams : [Delivery(s)!Next]_(Delivery(s)!vars)]_vars

\* The head of a stream is held: its approval names another disagreement than
\* the one it meets now, or it names an item whose create was rejected.
Held(s) ==
    \E o \in Inbox(s) :
        /\ inbox[o] = cursor[s] + 1
        /\ \/ /\ decision[o].kind = "approve-override"
              /\ \/ ~DecisionValid(decision[o], Kind[o])
                 \/ Refusals(o, decision[o]) # {}
           \/ Creator[o] # o /\ booked[Creator[o]] = 0


\* A rejected event is not in the cloud's books, so that it may be entered
\* again (runbook 4.4; an interrupted sale is reported as already-present).
RejectedIsNotBooked ==
    \A o \in Ops : applied[o] = "rejected-conflict" => booked[o] = 0
=============================================================================
