--------------------------- MODULE StockTransfers ---------------------------
(***************************************************************************)
(* The life of a stock transfer: drafts and posted transfers, the four     *)
(* ways of changing one, its deletion, and the immutable revisions that    *)
(* users propose and reviewers approve or reject.                          *)
(*                                                                         *)
(* A transfer carries two flags, the voucher's optional and the header's   *)
(* inventoryApplied, and lines.  Every path but one locks the voucher,     *)
(* most the header too, before it reads what it acts on, so each of those  *)
(* is one step here.  The edit of a posted                                 *)
(* transfer (updateStockTransfer) reads header, voucher and lines in three *)
(* statements without a lock and writes from what it read.                 *)
(*                                                                         *)
(* Stock is followed as what the transfers have moved: an item on one leg, *)
(* from a source to a destination.  The quantity on hand of a location is  *)
(* what other documents left there, plus what the legs brought in, less    *)
(* what they took out.  Values, dates and the movement journal are left    *)
(* out, and so are the refusals that look at stock on hand, which other    *)
(* documents decide: a refused step changes nothing.                       *)
(***************************************************************************)
EXTENDS Integers

CONSTANTS
    Transfers,     \* the transfer vouchers that may be created
    Items,         \* stock items
    Sources,       \* the locations stock is taken from
    Destinations,  \* the locations stock is sent to; a location may be both
    Users,         \* who proposes revisions
    Editors,       \* requests that edit posted transfers
    NoRevision,    \* the content of a revision not yet made
    MaxQuantity,   \* bound on the quantity of a line
    MaxRevisions   \* bound on the revisions made

Keys      == Items \X Sources
Legs      == Keys \X Destinations
Lines     == [Keys -> 0 .. MaxQuantity]   \* quantity 0: there is no such line
Revisions == 1 .. MaxRevisions            \* in the order they are numbered
\* A revision names the lines it changes, at least one (one that changes nothing
\* is refused); the others are written as 0 and 0.
Revision  == {rev \in [of : Transfers, by : Users, base : Lines, new : Lines] :
                 /\ rev.base # rev.new
                 /\ \A k \in Keys : rev.base[k] = rev.new[k] => rev.new[k] = 0}

ASSUME ConstantsAssumption ==
    /\ MaxQuantity \in Nat /\ MaxRevisions \in Nat
    /\ Destinations # {}
    /\ NoRevision \notin Revision

VARIABLES
    transfers,   \* each voucher with its header and lines
    moved,       \* what the steps of each transfer have moved on each leg
    revs,        \* the content of the revisions
    status,      \* the status of the revisions
    edits,       \* what each running edit of a posted transfer has read
    raced        \* transfers written by an edit from values already replaced

vars == <<transfers, moved, revs, status, edits, raced>>

NoLines == [k \in Keys |-> 0]
Nothing == [g \in Legs |-> 0]
SelfLine(lines, dest) == \E k \in Keys : lines[k] > 0 /\ k[2] = dest

\* What the lines move to the destination, and the stock with them moved
\* there or back.
Carried(lines, dest)    == [g \in Legs |-> IF g[2] = dest THEN lines[g[1]] ELSE 0]
With(m, lines, dest)    == [g \in Legs |-> m[g] + Carried(lines, dest)[g]]
Without(m, lines, dest) == [g \in Legs |-> m[g] - Carried(lines, dest)[g]]

\* The stock that the documents say a transfer has moved.
Documented(t) ==
    IF transfers[t].state = "live" /\ ~transfers[t].optional
    THEN Carried(transfers[t].lines, transfers[t].dest) ELSE Nothing

Blank == [state |-> "new", optional |-> TRUE, applied |-> FALSE,
          dest |-> CHOOSE d \in Destinations : TRUE, lines |-> NoLines]
Idle  == [pc |-> "idle"]

Init ==
    /\ transfers = [t \in Transfers |-> Blank]
    /\ moved  = [t \in Transfers |-> Nothing]
    /\ revs   = [r \in Revisions |-> NoRevision]
    /\ status = [r \in Revisions |-> "none"]
    /\ edits  = [e \in Editors |-> Idle]
    /\ raced  = {}

\* A transfer whose stock an edit has falsified is not followed any further.
Live(t) == transfers[t].state = "live" /\ t \notin raced

-----------------------------------------------------------------------------
\* The paths that lock the voucher

\* createStockTransferTx: a transfer is created as a draft or posted.  The
\* route compares source and destination only when all lines share a source.
Create(t, dest, lines, optional) ==
    /\ transfers[t].state = "new" /\ lines # NoLines
    /\ SelfLine(lines, dest) => \E k \in Keys : lines[k] > 0 /\ k[2] # dest
    /\ transfers' = [transfers EXCEPT ![t] =
           [state |-> "live", optional |-> optional, applied |-> ~optional,
            dest |-> dest, lines |-> lines]]
    /\ moved' = [moved EXCEPT ![t] = IF optional THEN @ ELSE With(@, lines, dest)]
    /\ UNCHANGED <<revs, status, edits, raced>>

\* Mutant: the old lines are taken back from the new destination.
SaveFromNewDestination(t, dest, lines) ==
    LET old == transfers[t]
        back == IF old.applied THEN Without(moved[t], old.lines, dest) ELSE moved[t]
    IN  /\ Live(t)
        /\ ~SelfLine(old.lines, old.dest)
        /\ lines # NoLines /\ ~SelfLine(lines, dest)
        /\ moved' = [moved EXCEPT ![t] =
               IF old.optional THEN back ELSE With(back, lines, dest)]
        /\ transfers' = [transfers EXCEPT ![t].dest = dest, ![t].lines = lines,
                                          ![t].applied = ~old.optional]
        /\ UNCHANGED <<revs, status, edits, raced>>

\* saveStockTransferLifecycleTx: reverse the old lines if they were applied,
\* replace them, and apply the new ones unless the transfer is a draft.
Save(t, dest, lines) ==
    LET old == transfers[t]
        back == IF old.applied THEN Without(moved[t], old.lines, old.dest) ELSE moved[t]
    IN  /\ Live(t)
        /\ ~SelfLine(old.lines, old.dest)
        /\ lines # NoLines /\ ~SelfLine(lines, dest)
        /\ moved' = [moved EXCEPT ![t] =
               IF old.optional THEN back ELSE With(back, lines, dest)]
        /\ transfers' = [transfers EXCEPT ![t].dest = dest, ![t].lines = lines,
                                          ![t].applied = ~old.optional]
        /\ UNCHANGED <<revs, status, edits, raced>>

\* finalizeOptionalStockTransferTx: posts a draft; a posted transfer is left
\* as it is, and applied stock under a draft's flag is not moved again.
Finalize(t) ==
    LET old == transfers[t]
    IN  /\ Live(t)
        /\ old.lines # NoLines /\ ~SelfLine(old.lines, old.dest)
        /\ ~(old.applied /\ ~old.optional)
        /\ moved' = [moved EXCEPT ![t] = IF old.applied THEN @
                                         ELSE With(@, old.lines, old.dest)]
        /\ transfers' = [transfers EXCEPT ![t].applied = TRUE, ![t].optional = FALSE]
        /\ UNCHANGED <<revs, status, edits, raced>>

\* reopenStockTransferAsDraft
Reopen(t) ==
    LET old == transfers[t]
    IN  /\ Live(t)
        /\ old.lines # NoLines /\ ~SelfLine(old.lines, old.dest)
        /\ moved' = [moved EXCEPT ![t] = IF old.applied THEN Without(@, old.lines, old.dest)
                                         ELSE @]
        /\ transfers' = [transfers EXCEPT ![t].applied = FALSE, ![t].optional = TRUE]
        /\ UNCHANGED <<revs, status, edits, raced>>

\* PATCH /api/vouchers/:id/optional with toggleVoucherStockTx: suspends or
\* activates the voucher, whatever its lines are.
Toggle(t, optional) ==
    LET old == transfers[t]
    IN  /\ Live(t) /\ old.optional # optional
        /\ moved' = [moved EXCEPT ![t] =
               IF optional /\ old.applied THEN Without(@, old.lines, old.dest)
               ELSE IF ~optional /\ ~old.applied THEN With(@, old.lines, old.dest)
               ELSE @]
        /\ transfers' = [transfers EXCEPT ![t].applied = ~optional, ![t].optional = optional]
        /\ UNCHANGED <<revs, status, edits, raced>>

\* deleteStockTransferVoucher: header and lines are removed, the voucher and
\* the revisions stay.
Delete(t) ==
    LET old == transfers[t]
    IN  /\ Live(t)
        /\ moved' = [moved EXCEPT ![t] =
               IF old.applied \/ ~old.optional THEN Without(@, old.lines, old.dest) ELSE @]
        /\ transfers' = [transfers EXCEPT ![t].state = "deleted", ![t].lines = NoLines]
        /\ UNCHANGED <<revs, status, edits, raced>>

-----------------------------------------------------------------------------
\* The edit of a posted transfer, which locks nothing

\* The route looks at the voucher before the transaction begins.
EditBegin(e, t) ==
    /\ edits[e].pc = "idle" /\ Live(t) /\ ~transfers[t].optional
    /\ edits' = [edits EXCEPT ![e] = [pc |-> "admitted", of |-> t]]
    /\ UNCHANGED <<transfers, moved, revs, status, raced>>

\* Statement one: the header, which must still be there.
EditReadHeader(e) ==
    LET t == edits[e].of
    IN  /\ edits[e].pc = "admitted" /\ Live(t)
        /\ edits' = [edits EXCEPT ![e] =
               [pc |-> "header", of |-> t,
                applied |-> transfers[t].applied, dest |-> transfers[t].dest]]
        /\ UNCHANGED <<transfers, moved, revs, status, raced>>

\* Statement two: the voucher's flag.
EditReadVoucher(e) ==
    LET seen == edits[e]
    IN  /\ seen.pc = "header"
        /\ edits' = [edits EXCEPT ![e] =
               [pc |-> "voucher", of |-> seen.of, applied |-> seen.applied,
                dest |-> seen.dest, optional |-> transfers[seen.of].optional]]
        /\ UNCHANGED <<transfers, moved, revs, status, raced>>

\* Statement three: the lines.
EditReadLines(e) ==
    LET seen == edits[e]
    IN  /\ seen.pc = "voucher"
        /\ edits' = [edits EXCEPT ![e] =
               [pc |-> "lines", of |-> seen.of, applied |-> seen.applied,
                dest |-> seen.dest, optional |-> seen.optional,
                lines |-> transfers[seen.of].lines]]
        /\ UNCHANGED <<transfers, moved, revs, status, raced>>

\* The rest of the transaction, visible at once when it commits.  What it
\* reverses and whether it applies follows from the values it read.
EditWrite(e, dest, lines) ==
    LET seen == edits[e]
        t    == seen.of
        now  == transfers[t]
        back == IF seen.applied \/ ~seen.optional
                THEN Without(moved[t], seen.lines, seen.dest) ELSE moved[t]
    IN  /\ seen.pc = "lines" /\ Live(t) /\ lines # NoLines
        /\ moved' = [moved EXCEPT ![t] =
               IF seen.optional THEN back ELSE With(back, lines, dest)]
        /\ transfers' = [transfers EXCEPT ![t].dest = dest, ![t].lines = lines,
                                          ![t].applied = ~seen.optional]
        /\ edits' = [edits EXCEPT ![e] = Idle]
        /\ raced' = IF /\ seen.applied = now.applied /\ seen.dest = now.dest
                       /\ seen.optional = now.optional /\ seen.lines = now.lines
                    THEN raced ELSE raced \cup {t}
        /\ UNCHANGED <<revs, status>>

\* The request fails and its transaction is rolled back: its header is gone,
\* it lost a deadlock, an item was refused or the connection broke.
EditAbort(e) ==
    /\ edits[e].pc # "idle"
    /\ edits' = [edits EXCEPT ![e] = Idle]
    /\ UNCHANGED <<transfers, moved, revs, status, raced>>

-----------------------------------------------------------------------------
\* Immutable revisions

\* A revision is about the keys whose quantity it changes.
Touches(rev, k) == rev.base[k] # rev.new[k]
Pending(t) == {r \in Revisions : status[r] = "pending" /\ revs[r].of = t}

\* Mutant: any number that is not taken.
AnyFreeRevision(r) == status[r] = "none"

\* The next number; the header's lock makes it unique.
NextRevision(r) == status[r] = "none" /\ \A q \in Revisions : q < r => status[q] # "none"

\* The original quantities submitted with a revision are those of the lines.
DraftedOn(rev, lines) == \A k \in Keys : Touches(rev, k) => rev.base[k] = lines[k]

\* Mutant: every earlier revision of the user is retired, decided or not.
ProposeRetiresAll(r, rev) ==
    /\ NextRevision(r) /\ Live(rev.of)
    /\ DraftedOn(rev, transfers[rev.of].lines)
    /\ \A k \in Keys : Touches(rev, k) => k[2] # transfers[rev.of].dest
    /\ revs' = [revs EXCEPT ![r] = rev]
    /\ status' = [q \in Revisions |->
           IF q = r THEN "pending"
           ELSE IF status[q] # "none" /\ revs[q].of = rev.of /\ revs[q].by = rev.by
                THEN "superseded" ELSE status[q]]
    /\ UNCHANGED <<transfers, moved, edits, raced>>

\* Mutant: the user's pending revision is not retired.
ProposeRetiresNone(r, rev) ==
    /\ NextRevision(r) /\ Live(rev.of)
    /\ DraftedOn(rev, transfers[rev.of].lines)
    /\ \A k \in Keys : Touches(rev, k) => k[2] # transfers[rev.of].dest
    /\ revs' = [revs EXCEPT ![r] = rev]
    /\ status' = [status EXCEPT ![r] = "pending"]
    /\ UNCHANGED <<transfers, moved, edits, raced>>

\* createImmutableStockTransferRevision, for review: the user's own pending
\* revision of the transfer gives way.  One with the same content and note is
\* refused; the note is left out, so the model lets either happen.
Propose(r, rev) ==
    /\ NextRevision(r) /\ Live(rev.of)
    /\ DraftedOn(rev, transfers[rev.of].lines)
    /\ \A k \in Keys : Touches(rev, k) => k[2] # transfers[rev.of].dest
    /\ revs' = [revs EXCEPT ![r] = rev]
    /\ status' = [q \in Revisions |->
           IF q = r THEN "pending"
           ELSE IF q \in Pending(rev.of) /\ revs[q].by = rev.by
                THEN "superseded" ELSE status[q]]
    /\ UNCHANGED <<transfers, moved, edits, raced>>

\* A revision recorded as approved when it is made, which moves nothing: of
\* quantities the editor has saved before (the compatibility lane), or of
\* quantities the lines do not have yet.
RecordApproved(r, rev) ==
    LET now == transfers[rev.of]
    IN  /\ NextRevision(r) /\ Live(rev.of)
        /\ \/ \A k \in Keys : Touches(rev, k) => rev.new[k] = now.lines[k]
           \/ /\ DraftedOn(rev, now.lines)
              /\ \A k \in Keys : Touches(rev, k) => k[2] # now.dest
        /\ revs' = [revs EXCEPT ![r] = rev]
        /\ status' = [status EXCEPT ![r] = "approved"]
        /\ UNCHANGED <<transfers, moved, edits, raced>>

\* Among pending revisions of a transfer the newest that touches a key wins it.
Wins(q, k, pending) ==
    /\ q \in pending /\ Touches(revs[q], k)
    /\ \A p \in pending : Touches(revs[p], k) => p <= q
Contributes(q, pending) == \E k \in Keys : Wins(q, k, pending)
Merged(lines, pending) ==
    [k \in Keys |-> IF \E q \in pending : Wins(q, k, pending)
                    THEN revs[CHOOSE q \in pending : Wins(q, k, pending)].new[k]
                    ELSE lines[k]]

\* What the approval of r makes of the pending revisions: r and those that win
\* a key are approved, the others were overridden.
Decided(r, pending) ==
    [q \in Revisions |->
        IF q \notin pending THEN status[q]
        ELSE IF q = r \/ Contributes(q, pending) THEN "approved" ELSE "superseded"]

\* The stock follows the change of each line, if the transfer is posted.
Apply(t, lines) ==
    LET now == transfers[t]
    IN  /\ moved' = [moved EXCEPT ![t] =
               IF now.applied THEN With(Without(@, now.lines, now.dest), lines, now.dest)
               ELSE @]
        /\ transfers' = [transfers EXCEPT ![t].lines = lines]

\* Mutant: only the revision asked for is compared with the lines.
ApproveUnchecked(r) ==
    LET t       == revs[r].of
        pending == Pending(t)
    IN  /\ status[r] = "pending" /\ Live(t)
        /\ DraftedOn(revs[r], transfers[t].lines)
        /\ Apply(t, Merged(transfers[t].lines, pending))
        /\ status' = Decided(r, pending)
        /\ UNCHANGED <<revs, edits, raced>>

\* Mutant: only the revision asked for is applied, the others are retired.
ApproveClickedOnly(r) ==
    LET t       == revs[r].of
        pending == Pending(t)
    IN  /\ status[r] = "pending" /\ Live(t)
        /\ \A q \in pending : DraftedOn(revs[q], transfers[t].lines)
        /\ Apply(t, Merged(transfers[t].lines, {r}))
        /\ status' = [q \in Revisions |-> IF q = r THEN "approved"
                                          ELSE IF q \in pending THEN "superseded"
                                          ELSE status[q]]
        /\ UNCHANGED <<revs, edits, raced>>

\* approveImmutableStockTransferRevision: approving one pending revision
\* approves all of them, merged, if every one was drafted on today's lines.
\* The destination may be another than the one they were drafted for.
Approve(r) ==
    LET t       == revs[r].of
        pending == Pending(t)
    IN  /\ status[r] = "pending" /\ Live(t)
        /\ \A q \in pending : DraftedOn(revs[q], transfers[t].lines)
        /\ Apply(t, Merged(transfers[t].lines, pending))
        /\ status' = Decided(r, pending)
        /\ UNCHANGED <<revs, edits, raced>>

\* rejectImmutableStockTransferRevision
Reject(r) ==
    /\ status[r] = "pending" /\ Live(revs[r].of)
    /\ status' = [status EXCEPT ![r] = "rejected"]
    /\ UNCHANGED <<transfers, moved, revs, edits, raced>>

-----------------------------------------------------------------------------
Lifecycle(t) ==
    \/ \E dest \in Destinations, lines \in Lines :
           \/ \E optional \in BOOLEAN : Create(t, dest, lines, optional)
           \/ Save(t, dest, lines)
    \/ Finalize(t)
    \/ Reopen(t)
    \/ \E optional \in BOOLEAN : Toggle(t, optional)
    \/ Delete(t)

Edit(e) ==
    \/ \E t \in Transfers : EditBegin(e, t)
    \/ EditReadHeader(e)
    \/ EditReadVoucher(e)
    \/ EditReadLines(e)
    \/ \E dest \in Destinations, lines \in Lines : EditWrite(e, dest, lines)
    \/ EditAbort(e)

Revise(r) ==
    \/ \E rev \in Revision : Propose(r, rev) \/ RecordApproved(r, rev)
    \/ Approve(r)
    \/ Reject(r)

Next ==
    \/ \E t \in Transfers : Lifecycle(t)
    \/ \E e \in Editors : Edit(e)
    \/ \E r \in Revisions : Revise(r)

Spec == Init /\ [][Next]_vars

-----------------------------------------------------------------------------
\* Properties

\* What an edit may have read at each of its steps.
EditStates ==
    {Idle}
    \cup [pc : {"admitted"}, of : Transfers]
    \cup [pc : {"header"}, of : Transfers, applied : BOOLEAN, dest : Destinations]
    \cup [pc : {"voucher"}, of : Transfers, applied : BOOLEAN, dest : Destinations,
          optional : BOOLEAN]
    \cup [pc : {"lines"}, of : Transfers, applied : BOOLEAN, dest : Destinations,
          optional : BOOLEAN, lines : Lines]

\* The values of the variables; revisions are numbered without gaps, and those
\* that have a number have a content.
TypeOK ==
    /\ transfers \in [Transfers -> [state : {"new", "live", "deleted"}, optional : BOOLEAN,
                                    applied : BOOLEAN, dest : Destinations, lines : Lines]]
    /\ moved \in [Transfers -> [Legs -> Int]]
    /\ revs \in [Revisions -> Revision \cup {NoRevision}]
    /\ status \in [Revisions -> {"none", "pending", "approved", "rejected", "superseded"}]
    /\ \A r \in Revisions : status[r] = "none" <=> revs[r] = NoRevision
    /\ \A q, r \in Revisions : q < r /\ status[q] = "none" => status[r] = "none"
    /\ edits \in [Editors -> EditStates]
    /\ raced \subseteq Transfers

\* A posted transfer has moved exactly its lines and a draft or a deleted one
\* nothing, through any sequence of saves, posts, reopens, suspensions,
\* approvals and edits; except where two changes crossed in an edit
\* (updateStockTransfer, and the paths of stockTransferLifecycle.ts,
\* optionalStockToggle.ts and stockTransferDeletion.ts).
StockMatchesDocuments ==
    \A t \in Transfers : t \notin raced => moved[t] = Documented(t)

\* "Posted stock-transfer edits must reverse and reapply the exact persisted
\* value" (exactStockTransferEditRoute.ts): the same without the exception.
EditsReverseWhatIsStored ==
    \A t \in Transfers : moved[t] = Documented(t)

\* A user has at most one pending revision of a transfer, however requests
\* interleave (createImmutableStockTransferRevision).
OnePendingPerUser ==
    \A q, r \in Revisions :
        /\ status[q] = "pending" /\ status[r] = "pending"
        /\ revs[q].of = revs[r].of /\ revs[q].by = revs[r].by
        => q = r

\* What was decided about a revision stays decided and its content is never
\* rewritten, whatever is proposed and approved later.
DecisionsAreFinal ==
    [][\A r \in Revisions : status[r] \notin {"none", "pending"} =>
           status'[r] = status[r] /\ revs'[r] = revs[r]]_vars

\* The approval of a revision replaces the quantities its author saw, and puts
\* in their place the author's or those of a newer revision approved with it:
\* no change made in between is lost (approveImmutableStockTransferRevision).
ApprovalReplacesWhatWasSeen ==
    [][\A r \in Revisions : status[r] = "pending" /\ status'[r] = "approved" =>
           LET t == revs[r].of
           IN  \A k \in Keys : Touches(revs[r], k) =>
                   /\ transfers[t].lines[k] = revs[r].base[k]
                   /\ \E q \in Revisions :
                          /\ q >= r /\ status[q] = "pending" /\ status'[q] = "approved"
                          /\ revs[q].of = t /\ Touches(revs[q], k)
                          /\ transfers'[t].lines[k] = revs[q].new[k]]_vars

\* A pending revision is retired only because its author made another, or
\* because newer revisions that are approved in the same step override all it
\* asks for: approving the clicked one never discards another's.
NothingDiscarded ==
    [][\A r \in Revisions : status[r] = "pending" /\ status'[r] = "superseded" =>
           \/ \E q \in Revisions :
                  /\ status[q] = "none" /\ status'[q] = "pending"
                  /\ revs'[q].of = revs[r].of /\ revs'[q].by = revs[r].by
           \/ \A k \in Keys : Touches(revs[r], k) =>
                  \E q \in Revisions :
                      /\ q > r /\ status[q] = "pending" /\ status'[q] = "approved"
                      /\ revs[q].of = revs[r].of /\ Touches(revs[q], k)]_vars
=============================================================================
