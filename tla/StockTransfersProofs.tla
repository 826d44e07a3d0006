------------------------ MODULE StockTransfersProofs ------------------------
(***************************************************************************)
(* Proofs about StockTransfers, for any transfers, items, locations, users *)
(* and requests and any bounds.  What makes the stock invariant inductive  *)
(* is FlagsAgree: outside a race the header's flag is the opposite of the  *)
(* voucher's, so a path that decides by one of them decides by both.       *)
(***************************************************************************)
EXTENDS StockTransfers, WellFoundedInduction, TLAPS

\* The stock of a transfer is applied unless it is a draft.
FlagsAgree ==
    \A t \in Transfers : Live(t) => transfers[t].applied = ~transfers[t].optional

IInv ==
    /\ TypeOK
    /\ FlagsAgree
    /\ StockMatchesDocuments
    /\ OnePendingPerUser

-----------------------------------------------------------------------------
(* Stock that goes there and back                                          *)

LEMMA CarriedType ==
    ASSUME NEW lines \in Lines, NEW dest \in Destinations
    PROVE  Carried(lines, dest) \in [Legs -> Int]
BY ConstantsAssumption DEF Carried, Lines, Legs

LEMMA MovedType ==
    ASSUME NEW m \in [Legs -> Int], NEW lines \in Lines, NEW dest \in Destinations
    PROVE  /\ With(m, lines, dest) \in [Legs -> Int]
           /\ Without(m, lines, dest) \in [Legs -> Int]
BY CarriedType DEF With, Without

LEMMA ThereFromNothing ==
    ASSUME NEW lines \in Lines, NEW dest \in Destinations
    PROVE  With(Nothing, lines, dest) = Carried(lines, dest)
<1>1. \A g \in Legs : Nothing[g] + Carried(lines, dest)[g] = Carried(lines, dest)[g]
    BY CarriedType DEF Nothing
<1>2. Carried(lines, dest) = [g \in Legs |-> Carried(lines, dest)[g]]
    BY CarriedType
<1> QED
    BY <1>1, <1>2 DEF With

LEMMA ThereAndBack ==
    ASSUME NEW lines \in Lines, NEW dest \in Destinations
    PROVE  Without(Carried(lines, dest), lines, dest) = Nothing
BY CarriedType DEF Without, Nothing

\* What an invariant state says of a transfer that is followed.
LEMMA LiveTransfer ==
    ASSUME IInv, NEW t \in Transfers, Live(t)
    PROVE  /\ transfers[t].lines \in Lines /\ transfers[t].dest \in Destinations
           /\ transfers[t].applied \in BOOLEAN /\ transfers[t].optional \in BOOLEAN
           /\ transfers[t].state = "live"
           /\ transfers[t].applied = ~transfers[t].optional
           /\ moved[t] \in [Legs -> Int]
           /\ transfers[t].applied =>
                  moved[t] = Carried(transfers[t].lines, transfers[t].dest)
           /\ ~transfers[t].applied => moved[t] = Nothing
BY DEF IInv, TypeOK, FlagsAgree, StockMatchesDocuments, Documented, Live

\* Taking back what a transfer has moved, if it has, leaves nothing moved.
LEMMA LiveTakenBack ==
    ASSUME IInv, NEW t \in Transfers, Live(t)
    PROVE  (IF transfers[t].applied
            THEN Without(moved[t], transfers[t].lines, transfers[t].dest)
            ELSE moved[t]) = Nothing
BY LiveTransfer, ThereAndBack

TransferRecord == [state : {"new", "live", "deleted"}, optional : BOOLEAN,
                   applied : BOOLEAN, dest : Destinations, lines : Lines]

\* A step that concerns one transfer keeps the invariant if it leaves that
\* transfer, unless raced, with the stock of its documents.
LEMMA OneTransfer ==
    ASSUME IInv, NEW t \in Transfers,
           NEW rec \in TransferRecord, NEW m \in [Legs -> Int],
           transfers' = [transfers EXCEPT ![t] = rec],
           moved' = [moved EXCEPT ![t] = m],
           raced' = raced \/ raced' = raced \cup {t},
           edits' \in [Editors -> EditStates],
           UNCHANGED <<revs, status>>,
           t \notin raced' =>
               /\ rec.state = "live" => rec.applied = ~rec.optional
               /\ rec.state = "live" /\ rec.applied => m = Carried(rec.lines, rec.dest)
               /\ ~(rec.state = "live" /\ rec.applied) => m = Nothing
    PROVE  IInv'
<1>1. /\ transfers' \in [Transfers -> TransferRecord]
      /\ moved' \in [Transfers -> [Legs -> Int]]
      /\ transfers'[t] = rec /\ moved'[t] = m
      /\ \A u \in Transfers : u # t => transfers'[u] = transfers[u] /\ moved'[u] = moved[u]
    BY DEF IInv, TypeOK, TransferRecord
<1>2. raced \subseteq raced' /\ raced' \subseteq Transfers
    BY DEF IInv, TypeOK
<1>3. TypeOK'
    BY <1>1, <1>2 DEF IInv, TypeOK, TransferRecord, EditStates
<1>4. FlagsAgree'
  <2> SUFFICES ASSUME NEW u \in Transfers, Live(u)'
               PROVE  transfers'[u].applied = ~transfers'[u].optional
      BY DEF FlagsAgree
  <2>1. CASE u = t
      BY <2>1, <1>1 DEF Live
  <2>2. CASE u # t
      BY <2>2, <1>1, <1>2 DEF IInv, FlagsAgree, Live
  <2> QED
      BY <2>1, <2>2
<1>5. StockMatchesDocuments'
  <2> SUFFICES ASSUME NEW u \in Transfers, u \notin raced'
               PROVE  moved'[u] = Documented(u)'
      BY DEF StockMatchesDocuments
  <2>1. CASE u = t
      BY <2>1, <1>1 DEF Documented, TransferRecord
  <2>2. CASE u # t
      BY <2>2, <1>1, <1>2 DEF IInv, StockMatchesDocuments, Documented
  <2> QED
      BY <2>1, <2>2
<1>6. OnePendingPerUser'
    BY DEF IInv, OnePendingPerUser
<1> QED
    BY <1>3, <1>4, <1>5, <1>6 DEF IInv

-----------------------------------------------------------------------------
(* The paths that lock header and voucher                                  *)

LEMMA InitInv == Init => IInv
<1> SUFFICES ASSUME Init PROVE IInv
    OBVIOUS
<1>1. Blank \in TransferRecord /\ Nothing \in [Legs -> Int]
    BY ConstantsAssumption DEF Blank, TransferRecord, NoLines, Lines, Nothing
<1>2. TypeOK
    BY <1>1 DEF Init, TypeOK, TransferRecord, EditStates, Idle
<1>3. FlagsAgree /\ StockMatchesDocuments
    BY DEF Init, FlagsAgree, StockMatchesDocuments, Live, Blank, Documented
<1>4. OnePendingPerUser
    BY DEF Init, OnePendingPerUser
<1> QED
    BY <1>2, <1>3, <1>4 DEF IInv

LEMMA CreateInv ==
    ASSUME IInv, NEW t \in Transfers, NEW dest \in Destinations, NEW lines \in Lines,
           NEW optional \in BOOLEAN, Create(t, dest, lines, optional)
    PROVE  IInv'
<1> DEFINE rec == [state |-> "live", optional |-> optional, applied |-> ~optional,
                   dest |-> dest, lines |-> lines]
           m   == IF optional THEN moved[t] ELSE With(moved[t], lines, dest)
<1>1. rec \in TransferRecord
    BY DEF TransferRecord
<1>2. moved[t] \in [Legs -> Int] /\ m \in [Legs -> Int]
    BY MovedType DEF IInv, TypeOK
<1>3. t \notin raced => moved[t] = Nothing
    BY DEF Create, IInv, StockMatchesDocuments, Documented
<1>4. t \notin raced => m = IF optional THEN Nothing ELSE Carried(lines, dest)
    BY <1>3, ThereFromNothing
<1>5. /\ transfers' = [transfers EXCEPT ![t] = rec]
      /\ moved' = [moved EXCEPT ![t] = m]
      /\ UNCHANGED <<revs, status, edits, raced>>
    BY DEF Create, IInv, TypeOK
<1>6. edits' \in [Editors -> EditStates]
    BY <1>5 DEF IInv, TypeOK
<1> QED
  <2> HIDE DEF rec, m
  <2>1. rec.state = "live" /\ rec.applied = ~optional /\ rec.optional = optional
        /\ rec.lines = lines /\ rec.dest = dest
      BY DEF rec
  <2> QED
      BY <1>1, <1>2, <1>4, <1>5, <1>6, <2>1, OneTransfer

\* The other steps rewrite fields of a transfer that is followed.
LEMMA Rewritten ==
    ASSUME IInv, NEW t \in Transfers,
           NEW rec \in TransferRecord, NEW m \in [Legs -> Int],
           transfers' = [transfers EXCEPT ![t] = rec],
           moved' = [moved EXCEPT ![t] = m],
           UNCHANGED <<revs, status, edits, raced>>,
           rec.state = "live" => rec.applied = ~rec.optional,
           m = IF rec.state = "live" /\ rec.applied
               THEN Carried(rec.lines, rec.dest) ELSE Nothing
    PROVE  IInv'
<1>1. edits' \in [Editors -> EditStates]
    BY DEF IInv, TypeOK
<1> QED
    BY <1>1, OneTransfer

LEMMA SaveInv ==
    ASSUME IInv, NEW t \in Transfers, NEW dest \in Destinations, NEW lines \in Lines,
           Save(t, dest, lines)
    PROVE  IInv'
<1> DEFINE old  == transfers[t]
           back == IF old.applied THEN Without(moved[t], old.lines, old.dest)
                   ELSE moved[t]
           m    == IF old.optional THEN back ELSE With(back, lines, dest)
           rec  == [old EXCEPT !.dest = dest, !.lines = lines, !.applied = ~old.optional]
<1>1. Live(t) /\ old.state = "live" /\ old.optional \in BOOLEAN
    BY LiveTransfer DEF Save
<1>2. old \in TransferRecord
    BY DEF IInv, TypeOK, TransferRecord
<1>3. m = IF old.optional THEN Nothing ELSE Carried(lines, dest)
    BY <1>1, LiveTakenBack, ThereFromNothing
<1>4. m \in [Legs -> Int]
    BY <1>3, CarriedType DEF Nothing
<1>5. /\ transfers' = [transfers EXCEPT ![t] = rec]
      /\ moved' = [moved EXCEPT ![t] = m]
      /\ UNCHANGED <<revs, status, edits, raced>>
    BY DEF Save
<1>6. /\ rec \in TransferRecord
      /\ rec.state = "live" /\ rec.applied = ~old.optional /\ rec.optional = old.optional
      /\ rec.lines = lines /\ rec.dest = dest
  <2> HIDE DEF old
  <2> QED
      BY <1>1, <1>2 DEF TransferRecord
<1> HIDE DEF m, rec, back
<1> QED
    BY <1>1, <1>3, <1>4, <1>5, <1>6, Rewritten

LEMMA FinalizeInv ==
    ASSUME IInv, NEW t \in Transfers, Finalize(t)
    PROVE  IInv'
<1> DEFINE old == transfers[t]
           m   == IF old.applied THEN moved[t]
                  ELSE With(moved[t], old.lines, old.dest)
           rec == [old EXCEPT !.applied = TRUE, !.optional = FALSE]
<1>1. /\ Live(t) /\ old.state = "live"
      /\ old.optional \in BOOLEAN /\ old.applied = ~old.optional
      /\ old.lines \in Lines /\ old.dest \in Destinations
      /\ moved[t] = IF old.applied THEN Carried(old.lines, old.dest) ELSE Nothing
    BY LiveTransfer DEF Finalize
<1>2. old \in TransferRecord
    BY DEF IInv, TypeOK, TransferRecord
<1>3. m = Carried(old.lines, old.dest)
    BY <1>1, ThereFromNothing, ThereAndBack
<1>4. m \in [Legs -> Int]
    BY <1>1, <1>3, CarriedType DEF Nothing
<1>5. /\ transfers' = [transfers EXCEPT ![t] = rec]
      /\ moved' = [moved EXCEPT ![t] = m]
      /\ UNCHANGED <<revs, status, edits, raced>>
    BY DEF Finalize
<1>6. /\ rec \in TransferRecord
      /\ rec.state = "live" /\ rec.applied = TRUE /\ rec.optional = FALSE
      /\ rec.lines = old.lines /\ rec.dest = old.dest
  <2> HIDE DEF old
  <2> QED
      BY <1>1, <1>2 DEF TransferRecord
<1> HIDE DEF m, rec
<1> QED
    BY <1>1, <1>3, <1>4, <1>5, <1>6, Rewritten

LEMMA ReopenInv ==
    ASSUME IInv, NEW t \in Transfers, Reopen(t)
    PROVE  IInv'
<1> DEFINE old == transfers[t]
           m   == IF old.applied THEN Without(moved[t], old.lines, old.dest)
                  ELSE moved[t]
           rec == [old EXCEPT !.applied = FALSE, !.optional = TRUE]
<1>1. /\ Live(t) /\ old.state = "live"
      /\ old.optional \in BOOLEAN /\ old.applied = ~old.optional
      /\ old.lines \in Lines /\ old.dest \in Destinations
      /\ moved[t] = IF old.applied THEN Carried(old.lines, old.dest) ELSE Nothing
    BY LiveTransfer DEF Reopen
<1>2. old \in TransferRecord
    BY DEF IInv, TypeOK, TransferRecord
<1>3. m = Nothing
    BY <1>1, ThereFromNothing, ThereAndBack
<1>4. m \in [Legs -> Int]
    BY <1>1, <1>3, CarriedType DEF Nothing
<1>5. /\ transfers' = [transfers EXCEPT ![t] = rec]
      /\ moved' = [moved EXCEPT ![t] = m]
      /\ UNCHANGED <<revs, status, edits, raced>>
    BY DEF Reopen
<1>6. /\ rec \in TransferRecord
      /\ rec.state = "live" /\ rec.applied = FALSE /\ rec.optional = TRUE
      /\ rec.lines = old.lines /\ rec.dest = old.dest
  <2> HIDE DEF old
  <2> QED
      BY <1>1, <1>2 DEF TransferRecord
<1> HIDE DEF m, rec
<1> QED
    BY <1>1, <1>3, <1>4, <1>5, <1>6, Rewritten

LEMMA ToggleInv ==
    ASSUME IInv, NEW t \in Transfers, NEW optional \in BOOLEAN,
           Toggle(t, optional)
    PROVE  IInv'
<1> DEFINE old == transfers[t]
           m   == IF optional /\ old.applied THEN Without(moved[t], old.lines, old.dest)
                  ELSE IF ~optional /\ ~old.applied
                       THEN With(moved[t], old.lines, old.dest)
                  ELSE moved[t]
           rec == [old EXCEPT !.applied = ~optional, !.optional = optional]
<1>1. /\ Live(t) /\ old.state = "live"
      /\ old.optional \in BOOLEAN /\ old.applied = ~old.optional
      /\ old.lines \in Lines /\ old.dest \in Destinations
      /\ moved[t] = IF old.applied THEN Carried(old.lines, old.dest) ELSE Nothing
    BY LiveTransfer DEF Toggle
<1>2. old \in TransferRecord
    BY DEF IInv, TypeOK, TransferRecord
<1>3. m = IF optional THEN Nothing ELSE Carried(old.lines, old.dest)
    BY <1>1, ThereFromNothing, ThereAndBack
<1>4. m \in [Legs -> Int]
    BY <1>1, <1>3, CarriedType DEF Nothing
<1>5. /\ transfers' = [transfers EXCEPT ![t] = rec]
      /\ moved' = [moved EXCEPT ![t] = m]
      /\ UNCHANGED <<revs, status, edits, raced>>
    BY DEF Toggle
<1>6. /\ rec \in TransferRecord
      /\ rec.state = "live" /\ rec.applied = ~optional /\ rec.optional = optional
      /\ rec.lines = old.lines /\ rec.dest = old.dest
  <2> HIDE DEF old
  <2> QED
      BY <1>1, <1>2 DEF TransferRecord
<1> HIDE DEF m, rec
<1> QED
    BY <1>1, <1>3, <1>4, <1>5, <1>6, Rewritten

LEMMA DeleteInv ==
    ASSUME IInv, NEW t \in Transfers, Delete(t)
    PROVE  IInv'
<1> DEFINE old == transfers[t]
           m   == IF old.applied \/ ~old.optional
                  THEN Without(moved[t], old.lines, old.dest) ELSE moved[t]
           rec == [old EXCEPT !.state = "deleted", !.lines = NoLines]
<1>1. /\ Live(t) /\ old.state = "live"
      /\ old.optional \in BOOLEAN /\ old.applied = ~old.optional
      /\ old.lines \in Lines /\ old.dest \in Destinations
      /\ moved[t] = IF old.applied THEN Carried(old.lines, old.dest) ELSE Nothing
    BY LiveTransfer DEF Delete
<1>2. old \in TransferRecord
    BY DEF IInv, TypeOK, TransferRecord
<1>3. m = Nothing
    BY <1>1, ThereFromNothing, ThereAndBack
<1>4. m \in [Legs -> Int]
    BY <1>1, <1>3, CarriedType DEF Nothing
<1>5. /\ transfers' = [transfers EXCEPT ![t] = rec]
      /\ moved' = [moved EXCEPT ![t] = m]
      /\ UNCHANGED <<revs, status, edits, raced>>
    BY DEF Delete
<1>6. /\ rec \in TransferRecord
      /\ rec.state = "deleted"
  <2>1. NoLines \in Lines
      BY ConstantsAssumption DEF NoLines, Lines
  <2> HIDE DEF old
  <2> QED
      BY <1>1, <1>2, <2>1 DEF TransferRecord
<1> HIDE DEF m, rec
<1> QED
    BY <1>1, <1>3, <1>4, <1>5, <1>6, Rewritten

-----------------------------------------------------------------------------
(* The edit of a posted transfer                                           *)

\* The steps that only read, and the one that gives up.
LEMMA EditReadsInv ==
    ASSUME IInv, NEW e \in Editors, NEW seen \in EditStates,
           edits' = [edits EXCEPT ![e] = seen],
           UNCHANGED <<transfers, moved, revs, status, raced>>
    PROVE  IInv'
<1>1. edits' \in [Editors -> EditStates]
    BY DEF IInv, TypeOK
<1>2. TypeOK'
    BY <1>1 DEF IInv, TypeOK, EditStates
<1>3. (FlagsAgree /\ StockMatchesDocuments /\ OnePendingPerUser)'
    BY DEF IInv, FlagsAgree, StockMatchesDocuments, OnePendingPerUser, Documented, Live
<1> QED
    BY <1>2, <1>3 DEF IInv

LEMMA EditBeginInv ==
    ASSUME IInv, NEW e \in Editors, NEW t \in Transfers, EditBegin(e, t)
    PROVE  IInv'
<1>1. [pc |-> "admitted", of |-> t] \in EditStates
    BY DEF EditStates
<1> QED
    BY <1>1, EditReadsInv DEF EditBegin

\* What the state of an edit tells of what it has read.
LEMMA SeenType ==
    ASSUME TypeOK, NEW e \in Editors
    PROVE  /\ edits[e] \in EditStates
           /\ edits[e].pc # "idle" => edits[e].of \in Transfers
           /\ edits[e].pc \in {"header", "voucher", "lines"} =>
                  edits[e].applied \in BOOLEAN /\ edits[e].dest \in Destinations
           /\ edits[e].pc \in {"voucher", "lines"} => edits[e].optional \in BOOLEAN
           /\ edits[e].pc = "lines" => edits[e].lines \in Lines
BY DEF TypeOK, EditStates, Idle

LEMMA EditReadHeaderInv ==
    ASSUME IInv, NEW e \in Editors, EditReadHeader(e)
    PROVE  IInv'
<1> DEFINE t    == edits[e].of
           seen == [pc |-> "header", of |-> t,
                    applied |-> transfers[t].applied, dest |-> transfers[t].dest]
<1>1. t \in Transfers
    BY SeenType DEF IInv, EditReadHeader
<1>2. transfers[t].applied \in BOOLEAN /\ transfers[t].dest \in Destinations
    BY <1>1 DEF IInv, TypeOK
<1>3. seen \in EditStates
    BY <1>1, <1>2 DEF EditStates
<1> QED
    BY <1>3, EditReadsInv DEF EditReadHeader

LEMMA EditReadVoucherInv ==
    ASSUME IInv, NEW e \in Editors, EditReadVoucher(e)
    PROVE  IInv'
<1> DEFINE old  == edits[e]
           seen == [pc |-> "voucher", of |-> old.of, applied |-> old.applied,
                    dest |-> old.dest, optional |-> transfers[old.of].optional]
<1>1. /\ old.of \in Transfers
      /\ old.applied \in BOOLEAN /\ old.dest \in Destinations
    BY SeenType DEF IInv, EditReadVoucher
<1>2. transfers[old.of].optional \in BOOLEAN
    BY <1>1 DEF IInv, TypeOK
<1>3. seen \in EditStates
    BY <1>1, <1>2 DEF EditStates
<1> QED
    BY <1>3, EditReadsInv DEF EditReadVoucher

LEMMA EditReadLinesInv ==
    ASSUME IInv, NEW e \in Editors, EditReadLines(e)
    PROVE  IInv'
<1> DEFINE old  == edits[e]
           seen == [pc |-> "lines", of |-> old.of, applied |-> old.applied,
                    dest |-> old.dest, optional |-> old.optional,
                    lines |-> transfers[old.of].lines]
<1>1. /\ old.of \in Transfers /\ old.optional \in BOOLEAN
      /\ old.applied \in BOOLEAN /\ old.dest \in Destinations
    BY SeenType DEF IInv, EditReadLines
<1>2. transfers[old.of].lines \in Lines
    BY <1>1 DEF IInv, TypeOK
<1>3. seen \in EditStates
    BY <1>1, <1>2 DEF EditStates
<1> QED
    BY <1>3, EditReadsInv DEF EditReadLines

LEMMA EditAbortInv ==
    ASSUME IInv, NEW e \in Editors, EditAbort(e)
    PROVE  IInv'
<1>1. Idle \in EditStates
    BY DEF EditStates
<1> QED
    BY <1>1, EditReadsInv DEF EditAbort

\* An edit that writes from what is still stored is a save; any other puts its
\* transfer among the raced ones.
LEMMA EditWriteInv ==
    ASSUME IInv, NEW e \in Editors, NEW dest \in Destinations, NEW lines \in Lines,
           EditWrite(e, dest, lines)
    PROVE  IInv'
<1> DEFINE seen == edits[e]
           t    == seen.of
           now  == transfers[t]
           back == IF seen.applied \/ ~seen.optional
                   THEN Without(moved[t], seen.lines, seen.dest) ELSE moved[t]
           m    == IF seen.optional THEN back ELSE With(back, lines, dest)
           rec  == [now EXCEPT !.dest = dest, !.lines = lines, !.applied = ~seen.optional]
           Same == /\ seen.applied = now.applied /\ seen.dest = now.dest
                   /\ seen.optional = now.optional /\ seen.lines = now.lines
<1>1. /\ t \in Transfers /\ seen.optional \in BOOLEAN /\ seen.applied \in BOOLEAN
      /\ seen.dest \in Destinations /\ seen.lines \in Lines
    BY SeenType DEF IInv, EditWrite
<1>2. /\ Live(t) /\ now.state = "live"
      /\ now.optional \in BOOLEAN /\ now.applied = ~now.optional
      /\ now.lines \in Lines /\ now.dest \in Destinations
      /\ moved[t] = IF now.applied THEN Carried(now.lines, now.dest) ELSE Nothing
    BY <1>1, LiveTransfer DEF EditWrite
<1>3. now \in TransferRecord /\ moved[t] \in [Legs -> Int]
    BY <1>1 DEF IInv, TypeOK, TransferRecord
<1>4. back \in [Legs -> Int]
    BY <1>1, <1>3, MovedType
<1>5. m \in [Legs -> Int]
    BY <1>4, MovedType
<1>6. Same => m = IF seen.optional THEN Nothing ELSE Carried(lines, dest)
  <2> SUFFICES ASSUME Same
               PROVE  m = IF seen.optional THEN Nothing ELSE Carried(lines, dest)
      OBVIOUS
  <2>1. back = Nothing
    <3>1. CASE now.applied
      BY <1>2, <3>1, ThereAndBack
    <3>2. CASE ~now.applied
      BY <1>2, <3>2
    <3> QED
      BY <3>1, <3>2
  <2> QED
      BY <2>1, ThereFromNothing
<1>7. /\ transfers' = [transfers EXCEPT ![t] = rec]
      /\ moved' = [moved EXCEPT ![t] = m]
      /\ edits' = [edits EXCEPT ![e] = Idle]
      /\ raced' = IF Same THEN raced ELSE raced \cup {t}
      /\ UNCHANGED <<revs, status>>
    BY DEF EditWrite
<1>8. /\ rec \in TransferRecord
      /\ rec.state = "live" /\ rec.applied = ~seen.optional
      /\ rec.lines = lines /\ rec.dest = dest /\ rec.optional = now.optional
  <2> HIDE DEF now, seen
  <2> QED
      BY <1>1, <1>2, <1>3 DEF TransferRecord
<1>9. t \notin raced' => Same
    BY <1>7
<1>10. edits' \in [Editors -> EditStates]
    BY <1>7 DEF IInv, TypeOK, EditStates
<1>11. t \notin raced' => rec.applied = ~rec.optional
    BY <1>8, <1>9
<1> HIDE DEF m, rec, Same
<1> QED
  <2>1. raced' = raced \/ raced' = raced \cup {t}
      BY <1>7
  <2>2. t \notin raced' =>
            m = IF rec.applied THEN Carried(rec.lines, rec.dest) ELSE Nothing
      BY <1>1, <1>6, <1>8, <1>9
  <2> HIDE DEF t, seen
  <2> QED
      BY <1>1, <1>5, <1>7, <1>8, <1>10, <1>11, <2>1, <2>2, OneTransfer

-----------------------------------------------------------------------------
(* Revisions                                                               *)

LEMMA RevisionType ==
    ASSUME NEW rev \in Revision
    PROVE  /\ rev.of \in Transfers /\ rev.by \in Users
           /\ rev.base \in Lines /\ rev.new \in Lines
BY DEF Revision

LEMMA NumberedType ==
    ASSUME TypeOK, NEW r \in Revisions, status[r] # "none"
    PROVE  revs[r] \in Revision
BY DEF TypeOK

\* A step that leaves transfers and stock alone.
LEMMA TransfersUntouched ==
    ASSUME IInv, UNCHANGED <<transfers, moved, edits, raced>>,
           revs' \in [Revisions -> Revision \cup {NoRevision}],
           status' \in [Revisions ->
               {"none", "pending", "approved", "rejected", "superseded"}],
           \A q \in Revisions : status'[q] = "none" <=> revs'[q] = NoRevision,
           \A p, q \in Revisions : p < q /\ status'[p] = "none" => status'[q] = "none",
           OnePendingPerUser'
    PROVE  IInv'
<1>1. TypeOK'
    BY DEF IInv, TypeOK, EditStates
<1>2. (FlagsAgree /\ StockMatchesDocuments)'
    BY DEF IInv, FlagsAgree, StockMatchesDocuments, Documented, Live
<1> QED
    BY <1>1, <1>2 DEF IInv

\* A new revision takes the next number.
LEMMA Numbering ==
    ASSUME TypeOK, NEW r \in Revisions, NextRevision(r), NEW rev \in Revision,
           revs' = [revs EXCEPT ![r] = rev],
           status' \in [Revisions ->
               {"none", "pending", "approved", "rejected", "superseded"}],
           \A q \in Revisions : status'[q] = "none" <=> status[q] = "none" /\ q # r
    PROVE  /\ revs' \in [Revisions -> Revision \cup {NoRevision}]
           /\ revs'[r] = rev
           /\ \A q \in Revisions : q # r => revs'[q] = revs[q]
           /\ \A q \in Revisions : status'[q] = "none" <=> revs'[q] = NoRevision
           /\ \A p, q \in Revisions :
                  p < q /\ status'[p] = "none" => status'[q] = "none"
<1>1. /\ revs' \in [Revisions -> Revision \cup {NoRevision}]
      /\ revs'[r] = rev
      /\ \A q \in Revisions : q # r => revs'[q] = revs[q]
    BY DEF TypeOK
<1>2. rev # NoRevision
    BY ConstantsAssumption
<1>3. \A q \in Revisions : status'[q] = "none" <=> revs'[q] = NoRevision
    BY <1>1, <1>2 DEF TypeOK, NextRevision
<1>4. ASSUME NEW p \in Revisions, NEW q \in Revisions, p < q, status'[p] = "none"
      PROVE  status'[q] = "none"
  <2>1. status[p] = "none" /\ status[q] = "none"
      BY <1>4 DEF TypeOK
  <2>2. p # r /\ (q = r => p < r)
      BY <1>4
  <2>3. q # r
      BY <2>1, <2>2 DEF NextRevision
  <2> QED
      BY <2>1, <2>3
<1> QED
    BY <1>1, <1>3, <1>4

LEMMA ProposeInv ==
    ASSUME IInv, NEW r \in Revisions, NEW rev \in Revision, Propose(r, rev)
    PROVE  IInv'
<1>1. TypeOK
    BY DEF IInv
<1>2. /\ status' \in [Revisions ->
             {"none", "pending", "approved", "rejected", "superseded"}]
      /\ \A q \in Revisions : status'[q] = "none" <=> status[q] = "none" /\ q # r
      /\ status'[r] = "pending"
      /\ \A q \in Revisions : q # r /\ status'[q] = "pending" =>
             status[q] = "pending" /\ ~(revs[q].of = rev.of /\ revs[q].by = rev.by)
    BY <1>1 DEF Propose, TypeOK, Pending
<1>3. revs' = [revs EXCEPT ![r] = rev] /\ NextRevision(r)
    BY DEF Propose
<1>4. /\ revs' \in [Revisions -> Revision \cup {NoRevision}]
      /\ revs'[r] = rev
      /\ \A q \in Revisions : q # r => revs'[q] = revs[q]
      /\ \A q \in Revisions : status'[q] = "none" <=> revs'[q] = NoRevision
      /\ \A p, q \in Revisions : p < q /\ status'[p] = "none" => status'[q] = "none"
    BY <1>1, <1>2, <1>3, Numbering
<1>5. OnePendingPerUser'
    BY <1>2, <1>4 DEF IInv, OnePendingPerUser
<1> QED
    BY <1>2, <1>4, <1>5, TransfersUntouched DEF Propose

LEMMA RecordApprovedInv ==
    ASSUME IInv, NEW r \in Revisions, NEW rev \in Revision, RecordApproved(r, rev)
    PROVE  IInv'
<1>1. TypeOK
    BY DEF IInv
<1>2. /\ status' \in [Revisions ->
             {"none", "pending", "approved", "rejected", "superseded"}]
      /\ \A q \in Revisions : status'[q] = "none" <=> status[q] = "none" /\ q # r
      /\ status'[r] = "approved"
      /\ \A q \in Revisions : q # r => status'[q] = status[q]
    BY <1>1 DEF RecordApproved, TypeOK
<1>3. revs' = [revs EXCEPT ![r] = rev] /\ NextRevision(r)
    BY DEF RecordApproved
<1>4. /\ revs' \in [Revisions -> Revision \cup {NoRevision}]
      /\ \A q \in Revisions : q # r => revs'[q] = revs[q]
      /\ \A q \in Revisions : status'[q] = "none" <=> revs'[q] = NoRevision
      /\ \A p, q \in Revisions : p < q /\ status'[p] = "none" => status'[q] = "none"
    BY <1>1, <1>2, <1>3, Numbering
<1>5. OnePendingPerUser'
    BY <1>2, <1>4 DEF IInv, OnePendingPerUser
<1> QED
    BY <1>2, <1>4, <1>5, TransfersUntouched DEF RecordApproved

LEMMA RejectInv ==
    ASSUME IInv, NEW r \in Revisions, Reject(r)
    PROVE  IInv'
<1>1. TypeOK
    BY DEF IInv
<1>2. /\ status' \in [Revisions ->
             {"none", "pending", "approved", "rejected", "superseded"}]
      /\ revs' = revs /\ status[r] # "none" /\ status'[r] = "rejected"
      /\ \A q \in Revisions : q # r => status'[q] = status[q]
    BY <1>1 DEF Reject, TypeOK
<1>3. \A q \in Revisions : status'[q] = "none" <=> status[q] = "none"
    BY <1>2
<1>4. /\ revs' \in [Revisions -> Revision \cup {NoRevision}]
      /\ \A q \in Revisions : status'[q] = "none" <=> revs'[q] = NoRevision
      /\ \A p, q \in Revisions : p < q /\ status'[p] = "none" => status'[q] = "none"
    BY <1>1, <1>2, <1>3 DEF TypeOK
<1>5. OnePendingPerUser'
    BY <1>2 DEF IInv, OnePendingPerUser
<1> QED
    BY <1>2, <1>4, <1>5, TransfersUntouched DEF Reject

-----------------------------------------------------------------------------
(* The merge of pending revisions                                          *)

LEMMA Newest ==
    ASSUME NEW S \in SUBSET Revisions, S # {}
    PROVE  \E m \in S : \A p \in S : p <= m
<1> DEFINE T    == {MaxRevisions - p : p \in S}
           Less == OpToRel(<, Nat)
<1>1. \A p \in S : p \in Nat /\ p <= MaxRevisions /\ MaxRevisions - p \in Nat
    BY ConstantsAssumption DEF Revisions
<1>2. T \subseteq Nat /\ T # {}
    BY <1>1
<1>3. PICK x \in T : \A y \in T : ~(<<y, x>> \in Less)
  <2> HIDE DEF T, Less
  <2>1. IsWellFoundedOn(Less, Nat)
      BY NatLessThanWellFounded DEF Less
  <2> QED
      BY <1>2, <2>1, WFMin
<1>4. \A y \in T : ~(y < x)
    BY <1>2, <1>3 DEF OpToRel
<1>5. PICK m \in S : x = MaxRevisions - m
    OBVIOUS
<1>6. ASSUME NEW p \in S PROVE p <= m
  <2>1. ~(MaxRevisions - p < MaxRevisions - m)
      BY <1>4, <1>5
  <2> QED
      BY <2>1, <1>1, ConstantsAssumption
<1> QED
    BY <1>6

\* The merge gives a key that pending revisions touch to the newest of them
\* and keeps the quantity of any other.
LEMMA MergedLine ==
    ASSUME TypeOK, NEW t \in Transfers, NEW lines \in Lines, NEW k \in Keys
    PROVE  /\ (\E p \in Pending(t) : Touches(revs[p], k)) =>
                  \E q \in Pending(t) :
                      Wins(q, k, Pending(t)) /\ Merged(lines, Pending(t))[k] = revs[q].new[k]
           /\ ~(\E p \in Pending(t) : Touches(revs[p], k)) =>
                  Merged(lines, Pending(t))[k] = lines[k]
<1> DEFINE S == {p \in Pending(t) : Touches(revs[p], k)}
           w == CHOOSE q \in Pending(t) : Wins(q, k, Pending(t))
<1>1. ASSUME S # {}
      PROVE  \E q \in Pending(t) :
                 Wins(q, k, Pending(t)) /\ Merged(lines, Pending(t))[k] = revs[q].new[k]
  <2>1. S \in SUBSET Revisions
      BY DEF Pending
  <2>2. PICK m \in S : \A p \in S : p <= m
    <3> HIDE DEF S
    <3> QED
      BY <1>1, <2>1, Newest
  <2>3. Wins(m, k, Pending(t)) /\ m \in Pending(t)
      BY <2>2 DEF Wins
  <2>4. w \in Pending(t) /\ Wins(w, k, Pending(t))
      BY <2>3
  <2>5. Merged(lines, Pending(t))[k] = revs[w].new[k]
      BY <2>3 DEF Merged
  <2> HIDE DEF w
  <2> QED
      BY <2>4, <2>5
<1>2. ASSUME S = {}
      PROVE  Merged(lines, Pending(t))[k] = lines[k]
  <2>1. \A q \in Pending(t) : ~Wins(q, k, Pending(t))
      BY <1>2 DEF Wins
  <2> QED
      BY <2>1 DEF Merged
<1> QED
    BY <1>1, <1>2

LEMMA MergedType ==
    ASSUME TypeOK, NEW t \in Transfers, NEW lines \in Lines
    PROVE  Merged(lines, Pending(t)) \in Lines
<1>1. ASSUME NEW k \in Keys
      PROVE  Merged(lines, Pending(t))[k] \in 0 .. MaxQuantity
  <2>1. lines[k] \in 0 .. MaxQuantity
      BY DEF Lines
  <2>2. \A q \in Pending(t) : revs[q].new[k] \in 0 .. MaxQuantity
    <3> TAKE q \in Pending(t)
    <3>1. revs[q] \in Revision
        BY NumberedType DEF Pending
    <3> QED
        BY <3>1, RevisionType DEF Lines
  <2> QED
      BY <2>1, <2>2, MergedLine
<1> QED
    BY <1>1 DEF Merged, Lines

LEMMA ApproveInv ==
    ASSUME IInv, NEW r \in Revisions, Approve(r)
    PROVE  IInv'
<1> DEFINE t     == revs[r].of
           now   == transfers[t]
           lines == Merged(now.lines, Pending(t))
           rec   == [now EXCEPT !.lines = lines]
           m     == IF now.applied
                    THEN With(Without(moved[t], now.lines, now.dest), lines, now.dest)
                    ELSE moved[t]
<1>1. TypeOK /\ t \in Transfers /\ Live(t)
    BY NumberedType, RevisionType DEF IInv, Approve
<1>2. /\ now.state = "live"
      /\ now.optional \in BOOLEAN /\ now.applied = ~now.optional
      /\ now.lines \in Lines /\ now.dest \in Destinations
      /\ moved[t] = IF now.applied THEN Carried(now.lines, now.dest) ELSE Nothing
    BY <1>1, LiveTransfer
<1>3. now \in TransferRecord
    BY <1>1 DEF TypeOK, TransferRecord
<1>4. lines \in Lines
    BY <1>1, <1>2, MergedType
<1>5. m = IF now.applied THEN Carried(lines, now.dest) ELSE Nothing
    BY <1>2, <1>4, ThereFromNothing, ThereAndBack
<1>6. m \in [Legs -> Int]
  <2>1. Carried(lines, now.dest) \in [Legs -> Int]
      BY <1>2, <1>4, CarriedType
  <2>2. Nothing \in [Legs -> Int]
      BY DEF Nothing
  <2> HIDE DEF m
  <2> QED
      BY <1>5, <2>1, <2>2
<1>7. /\ rec \in TransferRecord
      /\ rec.state = "live" /\ rec.applied = now.applied /\ rec.optional = now.optional
      /\ rec.lines = lines /\ rec.dest = now.dest
  <2> HIDE DEF now, lines
  <2> QED
      BY <1>2, <1>3, <1>4 DEF TransferRecord
<1>8. /\ transfers' = [transfers EXCEPT ![t] = rec]
      /\ moved' = [moved EXCEPT ![t] = m]
      /\ UNCHANGED <<revs, edits, raced>>
    BY DEF Approve, Apply
<1>9. /\ status' \in [Revisions ->
             {"none", "pending", "approved", "rejected", "superseded"}]
      /\ \A q \in Revisions : status'[q] = "none" <=> status[q] = "none"
      /\ \A q \in Revisions : status'[q] = "pending" => status[q] = "pending"
    BY <1>1 DEF Approve, Decided, TypeOK, Pending
<1>10. TypeOK'
  <2>1. /\ transfers' \in [Transfers -> TransferRecord]
        /\ moved' \in [Transfers -> [Legs -> Int]]
    <3> HIDE DEF rec, m
    <3> QED
      BY <1>1, <1>6, <1>7, <1>8 DEF TypeOK, TransferRecord
  <2>2. /\ revs' \in [Revisions -> Revision \cup {NoRevision}]
        /\ \A q \in Revisions : status'[q] = "none" <=> revs'[q] = NoRevision
        /\ \A p, q \in Revisions : p < q /\ status'[p] = "none" => status'[q] = "none"
      BY <1>1, <1>8, <1>9 DEF TypeOK
  <2>3. edits' \in [Editors -> EditStates] /\ raced' \subseteq Transfers
      BY <1>1, <1>8 DEF TypeOK, EditStates
  <2> QED
      BY <1>9, <2>1, <2>2, <2>3 DEF TypeOK, TransferRecord
<1>11. \A u \in Transfers : u # t => transfers'[u] = transfers[u] /\ moved'[u] = moved[u]
    BY <1>1, <1>8 DEF TypeOK
<1>12. transfers'[t] = rec /\ moved'[t] = m
  <2> HIDE DEF rec, m
  <2> QED
    BY <1>1, <1>8 DEF TypeOK
<1>13. FlagsAgree'
  <2> SUFFICES ASSUME NEW u \in Transfers, Live(u)'
               PROVE  transfers'[u].applied = ~transfers'[u].optional
      BY DEF FlagsAgree
  <2> HIDE DEF rec, t
  <2>1. CASE u = t
      BY <2>1, <1>2, <1>7, <1>12
  <2>2. CASE u # t
      BY <2>2, <1>8, <1>11 DEF IInv, FlagsAgree, Live
  <2> QED
      BY <2>1, <2>2
<1>14. StockMatchesDocuments'
  <2> SUFFICES ASSUME NEW u \in Transfers, u \notin raced'
               PROVE  moved'[u] = Documented(u)'
      BY DEF StockMatchesDocuments
  <2> HIDE DEF rec, m, t, lines
  <2>1. CASE u = t
      BY <2>1, <1>2, <1>5, <1>7, <1>12 DEF Documented
  <2>2. CASE u # t
      BY <2>2, <1>8, <1>11 DEF IInv, StockMatchesDocuments, Documented
  <2> QED
      BY <2>1, <2>2
<1>15. OnePendingPerUser'
    BY <1>8, <1>9 DEF IInv, OnePendingPerUser
<1> QED
    BY <1>10, <1>13, <1>14, <1>15 DEF IInv

-----------------------------------------------------------------------------
(* Every step                                                              *)

LEMMA StutterInv == IInv /\ UNCHANGED vars => IInv'
BY DEF IInv, vars, TypeOK, FlagsAgree, StockMatchesDocuments, OnePendingPerUser,
       Documented, Live, Pending, EditStates

LEMMA LifecycleInv ==
    ASSUME IInv, NEW t \in Transfers, Lifecycle(t)
    PROVE  IInv'
BY CreateInv, SaveInv, FinalizeInv, ReopenInv, ToggleInv, DeleteInv DEF Lifecycle

LEMMA EditInv ==
    ASSUME IInv, NEW e \in Editors, Edit(e)
    PROVE  IInv'
BY EditBeginInv, EditReadHeaderInv, EditReadVoucherInv, EditReadLinesInv,
   EditWriteInv, EditAbortInv DEF Edit

LEMMA ReviseInv ==
    ASSUME IInv, NEW r \in Revisions, Revise(r)
    PROVE  IInv'
BY ProposeInv, RecordApprovedInv, ApproveInv, RejectInv DEF Revise

\* The inductive invariant, from which the safety results follow.
THEOREM Invariant == Spec => []IInv
<1>1. Init => IInv
    BY InitInv
<1>2. IInv /\ [Next]_vars => IInv'
    BY LifecycleInv, EditInv, ReviseInv, StutterInv DEF Next
<1> QED
    BY <1>1, <1>2, PTL DEF Spec

\* The values of the variables, the numbering of the revisions included.
THEOREM TypeCorrect == Spec => []TypeOK
<1>1. IInv => TypeOK
    BY DEF IInv
<1> QED
    BY <1>1, Invariant, PTL

\* Outside a race of an edit, the stock moved is that of the documents.
THEOREM StockFollowsDocuments == Spec => []StockMatchesDocuments
<1>1. IInv => StockMatchesDocuments
    BY DEF IInv
<1> QED
    BY <1>1, Invariant, PTL

\* A user has one pending revision of a transfer at most.
THEOREM OnePending == Spec => []OnePendingPerUser
<1>1. IInv => OnePendingPerUser
    BY DEF IInv
<1> QED
    BY <1>1, Invariant, PTL

-----------------------------------------------------------------------------
(* What no step does                                                       *)

Kept(r)     == status'[r] = status[r] /\ revs'[r] = revs[r]
Decision(r) == status[r] \notin {"none", "pending"} => Kept(r)

Replaces(r) ==
    LET t == revs[r].of
    IN  \A k \in Keys : Touches(revs[r], k) =>
            /\ transfers[t].lines[k] = revs[r].base[k]
            /\ \E q \in Revisions :
                   /\ q >= r /\ status[q] = "pending" /\ status'[q] = "approved"
                   /\ revs[q].of = t /\ Touches(revs[q], k)
                   /\ transfers'[t].lines[k] = revs[q].new[k]

GaveWay(r) ==
    \E q \in Revisions :
        /\ status[q] = "none" /\ status'[q] = "pending"
        /\ revs'[q].of = revs[r].of /\ revs'[q].by = revs[r].by

Overridden(r) ==
    \A k \in Keys : Touches(revs[r], k) =>
        \E q \in Revisions :
            /\ q > r /\ status[q] = "pending" /\ status'[q] = "approved"
            /\ revs[q].of = revs[r].of /\ Touches(revs[q], k)

Fates(r) ==
    /\ Decision(r)
    /\ status[r] = "pending" /\ status'[r] = "approved" => Replaces(r)
    /\ status[r] = "pending" /\ status'[r] = "superseded" => GaveWay(r) \/ Overridden(r)

LEMMA KeptFates ==
    ASSUME NEW r \in Revisions, Kept(r)
    PROVE  Fates(r)
BY DEF Kept, Fates, Decision

\* An approval applies the winner of each key and retires only those that win
\* none: a winner q of a key is newer than r, unless it is r.
LEMMA ApproveFates ==
    ASSUME TypeOK, NEW c \in Revisions, Approve(c), NEW r \in Revisions
    PROVE  Fates(r)
<1> DEFINE t   == revs[c].of
           now == transfers[t]
<1>1. t \in Transfers /\ now.lines \in Lines /\ now \in TransferRecord
    BY NumberedType, RevisionType DEF Approve, TypeOK, TransferRecord
<1>2. CASE r \notin Pending(t)
  <2>1. Kept(r)
      BY <1>2 DEF Approve, Decided, Kept, TypeOK
  <2> QED
      BY <2>1, KeptFates
<1>3. CASE r \in Pending(t)
  <2>1. status[r] = "pending" /\ revs[r].of = t
      BY <1>3 DEF Pending
  <2>2. \A q \in Pending(t) : Contributes(q, Pending(t)) => status'[q] = "approved"
      BY DEF Approve, Decided, Pending
  <2>3. transfers'[t].lines = Merged(now.lines, Pending(t))
      BY <1>1 DEF Approve, Apply, TypeOK, TransferRecord
  <2>4. ASSUME NEW k \in Keys, Touches(revs[r], k)
        PROVE  \E q \in Revisions :
                   /\ q >= r /\ q \in Pending(t) /\ status[q] = "pending"
                   /\ status'[q] = "approved" /\ Wins(q, k, Pending(t))
                   /\ revs[q].of = t /\ Touches(revs[q], k)
                   /\ transfers'[t].lines[k] = revs[q].new[k]
    <3>1. PICK q \in Pending(t) :
              Wins(q, k, Pending(t)) /\ Merged(now.lines, Pending(t))[k] = revs[q].new[k]
        BY <1>1, <1>3, <2>4, MergedLine
    <3>2. q \in Revisions /\ status[q] = "pending" /\ revs[q].of = t
        BY DEF Pending
    <3>3. q >= r /\ Touches(revs[q], k)
        BY <1>3, <2>4, <3>1, <3>2 DEF Wins, Revisions
    <3>4. status'[q] = "approved"
        BY <2>2, <3>1 DEF Contributes
    <3> QED
        BY <2>3, <3>1, <3>2, <3>3, <3>4
  <2>5. \A k \in Keys : Touches(revs[r], k) => now.lines[k] = revs[r].base[k]
      BY <1>3 DEF Approve, DraftedOn
  <2>6. Replaces(r)
      BY <2>1, <2>4, <2>5 DEF Replaces
  <2>7. ASSUME status'[r] = "superseded"
        PROVE  Overridden(r)
    <3> SUFFICES ASSUME NEW k \in Keys, Touches(revs[r], k)
                 PROVE  \E q \in Revisions :
                            /\ q > r /\ status[q] = "pending" /\ status'[q] = "approved"
                            /\ revs[q].of = revs[r].of /\ Touches(revs[q], k)
        BY DEF Overridden
    <3>1. PICK q \in Revisions :
              /\ q >= r /\ status[q] = "pending" /\ status'[q] = "approved"
              /\ revs[q].of = t /\ Touches(revs[q], k)
        BY <2>4
    <3>2. q # r
        BY <2>7, <3>1
    <3>3. q > r
        BY <3>1, <3>2 DEF Revisions
    <3> QED
        BY <2>1, <3>1, <3>3
  <2> QED
      BY <2>1, <2>6, <2>7 DEF Fates, Decision
<1> QED
    BY <1>2, <1>3

LEMMA ProposeFates ==
    ASSUME TypeOK, NEW n \in Revisions, NEW rev \in Revision, Propose(n, rev),
           NEW r \in Revisions
    PROVE  Fates(r)
<1>1. status[n] = "none" /\ status'[n] = "pending" /\ revs'[n] = rev
    BY DEF Propose, NextRevision, TypeOK
<1>2. CASE r = n
    BY <1>1, <1>2 DEF Fates, Decision
<1>3. CASE r # n /\ ~(r \in Pending(rev.of) /\ revs[r].by = rev.by)
  <2>1. Kept(r)
      BY <1>3 DEF Propose, Kept, TypeOK
  <2> QED
      BY <2>1, KeptFates
<1>4. CASE r # n /\ r \in Pending(rev.of) /\ revs[r].by = rev.by
  <2>1. status[r] = "pending" /\ revs[r].of = rev.of /\ revs[r].by = rev.by
        /\ status'[r] = "superseded"
      BY <1>4 DEF Propose, Pending
  <2>2. GaveWay(r)
      BY <1>1, <2>1 DEF GaveWay
  <2> QED
      BY <2>1, <2>2 DEF Fates, Decision
<1> QED
    BY <1>2, <1>3, <1>4

LEMMA RecordApprovedFates ==
    ASSUME TypeOK, NEW n \in Revisions, NEW rev \in Revision, RecordApproved(n, rev),
           NEW r \in Revisions
    PROVE  Fates(r)
<1>1. status[n] = "none"
    BY DEF RecordApproved, NextRevision
<1>2. CASE r = n
    BY <1>1, <1>2 DEF Fates, Decision
<1>3. CASE r # n
  <2>1. Kept(r)
      BY <1>3 DEF RecordApproved, Kept, TypeOK
  <2> QED
      BY <2>1, KeptFates
<1> QED
    BY <1>2, <1>3

LEMMA RejectFates ==
    ASSUME TypeOK, NEW n \in Revisions, Reject(n), NEW r \in Revisions
    PROVE  Fates(r)
<1>1. CASE r = n
  <2>1. status[r] = "pending" /\ status'[r] = "rejected"
      BY <1>1 DEF Reject, TypeOK
  <2> QED
      BY <2>1 DEF Fates, Decision
<1>2. CASE r # n
  <2>1. Kept(r)
      BY <1>2 DEF Reject, Kept, TypeOK
  <2> QED
      BY <2>1, KeptFates
<1> QED
    BY <1>1, <1>2

LEMMA StepFates ==
    ASSUME TypeOK, [Next]_vars, NEW r \in Revisions
    PROVE  Fates(r)
<1>1. ASSUME NEW t \in Transfers, Lifecycle(t) PROVE Kept(r)
    BY <1>1 DEF Lifecycle, Create, Save, Finalize, Reopen, Toggle, Delete, Kept
<1>2. ASSUME NEW e \in Editors, Edit(e) PROVE Kept(r)
    BY <1>2 DEF Edit, EditBegin, EditReadHeader, EditReadVoucher, EditReadLines,
                EditWrite, EditAbort, Kept
<1>3. ASSUME NEW n \in Revisions, Revise(n) PROVE Fates(r)
    BY <1>3, ProposeFates, RecordApprovedFates, ApproveFates, RejectFates DEF Revise
<1>4. UNCHANGED vars => Kept(r)
    BY DEF vars, Kept
<1> QED
    BY <1>1, <1>2, <1>3, <1>4, KeptFates DEF Next

\* Decided revisions are never decided again nor rewritten.
THEOREM DecisionsKept == Spec => DecisionsAreFinal
<1>1. IInv /\ [Next]_vars =>
          [\A r \in Revisions : status[r] \notin {"none", "pending"} =>
               status'[r] = status[r] /\ revs'[r] = revs[r]]_vars
    BY StepFates DEF IInv, Fates, Decision, Kept
<1> QED
    BY <1>1, Invariant, PTL DEF Spec, DecisionsAreFinal

\* An approval replaces what the author saw with what the author or a newer
\* approved author asked for.
THEOREM ApprovalsReplaceWhatWasSeen == Spec => ApprovalReplacesWhatWasSeen
<1>1. IInv /\ [Next]_vars =>
          [\A r \in Revisions :
               status[r] = "pending" /\ status'[r] = "approved" => Replaces(r)]_vars
    BY StepFates DEF IInv, Fates
<1> QED
    BY <1>1, Invariant, PTL DEF Spec, ApprovalReplacesWhatWasSeen, Replaces

\* A pending revision gives way to its author's next, or to newer ones that
\* are approved with its key.
THEOREM NoneDiscarded == Spec => NothingDiscarded
<1>1. IInv /\ [Next]_vars =>
          [\A r \in Revisions :
               status[r] = "pending" /\ status'[r] = "superseded" =>
                   \/ GaveWay(r)
                   \/ Overridden(r)]_vars
    BY StepFates DEF IInv, Fates
<1> QED
    BY <1>1, Invariant, PTL DEF Spec, NothingDiscarded, GaveWay, Overridden
=============================================================================
