------------------------- MODULE DurableOutboxProofs -------------------------
(***************************************************************************)
(* What DurableOutbox guarantees for every value of its constants: typing, *)
(* acknowledgements that are backed by a voucher of the right company,     *)
(* booking in queue order, and settled operations that stay settled.       *)
(*                                                                         *)
(* Queue order needs more than its own statement: whatever is on its way   *)
(* (a packet, a job, the claimed row of a run) has all its predecessors    *)
(* booked already, and the rest of a run's snapshot has them booked or     *)
(* ahead of it in the same snapshot.                                       *)
(*                                                                         *)
(* Booking at most once rests on the boundary's row (Single), and booking  *)
(* after the dependencies on the claim (Released).  Together they give the *)
(* refinement of SavedQueue.                                               *)
(***************************************************************************)
EXTENDS DurableOutbox, TLAPS

-----------------------------------------------------------------------------
(* The inductive invariant. *)

\* A run's fields fit its step.
RunShape(r) ==
  /\ r.step \in {"idle", "listing"} => r.todo = {}
  /\ r.step \in {"idle", "listing", "next"} => r.item = NoOne
  /\ r.step \in {"waiting", "answered"} => r.item \in Ops
  /\ r.step = "answered" <=> r.result # "none"

\* Every request that is still on its way is the one its tab waits for.
Links ==
  /\ \A t \in Tabs : \A p \in wire :
       p.from = t => run[t].step = "waiting" /\ run[t].item = p.op
  /\ \A t \in Tabs : \A j \in jobs :
       j.from = t => run[t].step = "waiting" /\ run[t].item = j.op
  /\ \A p \in wire, j \in jobs : p.from \in Tabs => j.from # p.from
  /\ \A i, j \in jobs : i.from \in Tabs /\ i.from = j.from => i = j

Shape ==
  /\ \A t \in Tabs : RunShape(run[t])
  /\ \A c \in Companies, o \in Ops :
       request[c][o].state = "completed" => request[c][o].result # "none"
  /\ Links

Saved(o) == item[o].state # "absent"

\* The operations a claim has put on their way.
Moving ==
  {o \in Ops : \/ \E p \in wire : p.op = o
               \/ \E j \in jobs : j.op = o
               \/ \E t \in Tabs : run[t].item = o}

\* Only saved operations travel, and later rows get later instants.
AllSaved ==
  /\ \A o \in Ops : item[o].createdAt <= clock
  /\ \A o \in Moving : Saved(o)
  /\ \A t \in Tabs : \A o \in run[t].todo : Saved(o)
  /\ \A e \in journal : Saved(e[1])

\* Wherever an acknowledgement is, its voucher is booked.
Sound ==
  /\ AcknowledgedIsBooked
  /\ BookedForOwner
  /\ \A t \in Tabs : run[t].result = "acknowledged" => Booked(run[t].item)
  /\ \A j \in jobs : j.result = "acknowledged" => Booked(j.op)
  /\ \A c \in Companies, o \in Ops :
       request[c][o].result = "acknowledged" => Booked(o)

\* Everything before an operation is booked.
Ready(o) == \A b \in Ops : Before(b, o) => Booked(b)

Ordered ==
  /\ BookedInQueueOrder
  /\ \A o \in Moving : Ready(o)
  /\ \A t \in Tabs : \A o \in run[t].todo : \A b \in Ops :
       Before(b, o) => Booked(b) \/ b \in run[t].todo \/ b = run[t].item

OutboxInv == TypeOK /\ Shape /\ AllSaved /\ Sound /\ Ordered

-----------------------------------------------------------------------------
(* The kinds of steps. *)

\* A step that only changes leases, delays, saved bodies or the session.
Quiet ==
  /\ \A o \in Ops : item'[o].state = item[o].state /\ item'[o].createdAt = item[o].createdAt
  /\ UNCHANGED <<clock, run, wire, jobs, request, journal>>

\* Those steps are quiet.
LEMMA QuietSteps ==
  ASSUME TypeOK,
         \/ \E o \in Ops : SpoilSavedBody(o) \/ BackoffEnds(o) \/ LeaseExpires(o) \/ LeaseOverrun(o)
         \/ \E a \in Actors \cup {NoOne} : SwitchSession(a)
  PROVE  Quiet
<1>1. ASSUME NEW o \in Ops, SpoilSavedBody(o) PROVE Quiet
  BY <1>1 DEF SpoilSavedBody, Quiet, TypeOK, Row
<1>2. ASSUME NEW o \in Ops, BackoffEnds(o) PROVE Quiet
  BY <1>2 DEF BackoffEnds, Quiet, TypeOK, Row
<1>3. ASSUME NEW o \in Ops, LeaseExpires(o) \/ LeaseOverrun(o) PROVE Quiet
  BY <1>3 DEF LeaseExpires, LeaseOverrun, ExpireLease, Quiet, TypeOK, Row
<1>4. ASSUME NEW a \in Actors \cup {NoOne}, SwitchSession(a) PROVE Quiet
  BY <1>4 DEF SwitchSession, Quiet
<1>5. QED
  BY <1>1, <1>2, <1>3, <1>4

\* The server answers a request it reads with an outcome, and with an
\* acknowledgement only one it has stored.
LEMMA Replies ==
  ASSUME TypeOK, Shape, Sound, NEW p \in wire,
         Unauthenticated(p) \/ Replay(p) \/ RefuseReplay(p)
  PROVE  \E r \in Outcomes : Reply(p, r) /\ (r = "acknowledged" => Booked(p.op))
<1>1. CASE Unauthenticated(p)
  BY <1>1 DEF Unauthenticated, Outcomes
<1>2. CASE RefuseReplay(p)
  BY <1>2 DEF RefuseReplay, Outcomes
<1>3. CASE Replay(p)
  <2>1. Company[session] \in Companies /\ p.op \in Ops
    BY <1>3 DEF Replay, TypeOK, Companies, Packet
  <2>2. Stored(p) \in Request /\ Stored(p).result # "none"
    BY <1>3, <2>1 DEF Replay, Stored, TypeOK, Shape
  <2>3. Stored(p).result \in Outcomes
    BY <2>2 DEF Request
  <2>4. Stored(p).result = "acknowledged" => Booked(p.op)
    BY <2>1 DEF Stored, Sound
  <2>5. QED
    BY <1>3, <2>3, <2>4 DEF Replay
<1>4. QED
  BY <1>1, <1>2, <1>3

\* A job ends once, with an outcome, and an acknowledgement books its voucher.
Ends(j, r) ==
  /\ j.result = "none"
  /\ Finished(j, r)
  /\ r = "acknowledged" => <<j.op, Company[Owner[j.op]]>> \in journal'
  /\ journal' \subseteq journal \cup {<<j.op, Company[Owner[j.op]]>>}
  /\ journal \subseteq journal'
  /\ journal' = journal \/ j.as = Owner[j.op]
  /\ UNCHANGED <<item, clock, run, session, wire, request, switches>>

\* The handler's steps are of that kind.
LEMMA HandlerSteps ==
  ASSUME NEW j \in jobs, Handle(j)
  PROVE  \E r \in Outcomes : Ends(j, r)
<1>1. CASE RefuseScope(j)
  BY <1>1 DEF RefuseScope, Ends, Outcomes
<1>2. CASE PostVoucher(j)
  BY <1>2 DEF PostVoucher, Ends, Outcomes, InScope
<1>3. CASE FailVoucher(j)
  BY <1>3 DEF FailVoucher, Ends, Outcomes
<1>4. QED
  BY <1>1, <1>2, <1>3 DEF Handle

-----------------------------------------------------------------------------
(* Typing. *)

\* A fault stays within its bound.
LEMMA FaultBound == ASSUME TypeOK, Fault PROVE faults' \in 0 .. MaxFaults
  BY OutboxAssumption DEF TypeOK, Fault

\* A queued operation is a row.
LEMMA NewRowTyped ==
  ASSUME NEW c \in Nat PROVE [NoRow EXCEPT !.state = "pending", !.createdAt = c] \in Row
  BY DEF NoRow, Row, States

\* What a tab has left keeps its type.
LEMMA AbandonedTyped ==
  ASSUME TypeOK, NEW t \in Tabs
  PROVE  Abandoned(wire, t) \subseteq Packet /\ Abandoned(jobs, t) \subseteq Job
<1>1. ASSUME NEW p \in wire PROVE (IF p.from = t THEN [p EXCEPT !.from = NoOne] ELSE p) \in Packet
  BY DEF TypeOK, Packet
<1>2. ASSUME NEW j \in jobs PROVE (IF j.from = t THEN [j EXCEPT !.from = NoOne] ELSE j) \in Job
  BY DEF TypeOK, Job
<1>3. QED
  BY <1>1, <1>2 DEF Abandoned

\* An answered run is a run.
LEMMA AnswerTyped ==
  ASSUME TypeOK, NEW t \in Tabs, NEW r \in Results, Answer(t, r) PROVE run' \in [Tabs -> Run]
<1>1. run[t] \in Run
  BY DEF TypeOK
<1>2. [run[t] EXCEPT !.step = "answered", !.result = r] \in Run
  BY <1>1 DEF Run
<1>3. run' = [run EXCEPT ![t] = [run[t] EXCEPT !.step = "answered", !.result = r]]
  BY DEF Answer, TypeOK
<1>4. QED
  BY <1>2, <1>3 DEF TypeOK

\* What a result is recorded as.
LEMMA OutcomeTyped ==
  ASSUME NEW r \in Results
  PROVE  /\ Outcome(r) \in States \ {"absent"}
         /\ Outcome(r) = "acknowledged" => r = "acknowledged"
  BY DEF Outcome, Results, Outcomes, States, Settled, Review

\* The row a settlement writes, and the run it leaves.
SettledRow(t) ==
  [item[run[t].item] EXCEPT !.state = Outcome(run[t].result), !.leaseOwner = NoOne,
                            !.leased = FALSE, !.due = (run[t].result # "retry")]

RunAfter(t) ==
  IF run[t].result = "acknowledged"
  THEN [run[t] EXCEPT !.step = "next", !.item = NoOne, !.result = "none"] ELSE Idle

\* The run a claim leaves: it waits for the server, or has its answer already.
ClaimedRun(t, o) ==
  IF item[o].vetted
  THEN [run[t] EXCEPT !.step = "waiting", !.item = o, !.todo = @ \ {o}]
  ELSE [run[t] EXCEPT !.step = "answered", !.item = o, !.todo = @ \ {o},
                      !.result = "unsupported"]

ClaimStep(t, o) ==
  /\ run[t].step = "next"
  /\ Deliverable(o)
  /\ item' = [item EXCEPT ![o] =
       [item[o] EXCEPT !.state = "sending", !.leaseOwner = t, !.leased = TRUE]]
  /\ run' = [run EXCEPT ![t] = ClaimedRun(t, o)]
  /\ wire' = IF item[o].vetted THEN wire \cup {[op |-> o, from |-> t]} ELSE wire
  /\ UNCHANGED <<clock, session, jobs, request, journal, faults, switches>>

\* A claim takes a first operation of the snapshot.
LEMMA ClaimNextStep ==
  ASSUME TypeOK, NEW t \in Tabs, ClaimNext(t)
  PROVE  \E o \in FirstOf(run[t].todo) : ClaimStep(t, o)
<1>1. PICK o \in FirstOf(run[t].todo) :
        /\ run[t].step = "next"
        /\ Deliverable(o)
        /\ item' = [item EXCEPT ![o].state = "sending", ![o].leaseOwner = t, ![o].leased = TRUE]
        /\ \/ /\ item[o].vetted
              /\ wire' = wire \cup {[op |-> o, from |-> t]}
              /\ run' = [run EXCEPT ![t].step = "waiting", ![t].item = o, ![t].todo = @ \ {o}]
           \/ /\ ~item[o].vetted
              /\ run' = [run EXCEPT ![t].step = "answered", ![t].item = o, ![t].todo = @ \ {o},
                                    ![t].result = "unsupported"]
              /\ UNCHANGED wire
        /\ UNCHANGED <<clock, session, jobs, request, journal, faults, switches>>
  BY DEF ClaimNext
<1>2. run[t] \in Run /\ o \in Ops
  BY DEF TypeOK, Run, FirstOf
<1>3. item' = [item EXCEPT ![o] =
        [item[o] EXCEPT !.state = "sending", !.leaseOwner = t, !.leased = TRUE]]
  BY <1>1, <1>2 DEF TypeOK
<1>4. run' = [run EXCEPT ![t] = ClaimedRun(t, o)]
  <2>1. CASE item[o].vetted
    BY <1>1, <1>2, <2>1 DEF TypeOK, ClaimedRun
  <2>2. CASE ~item[o].vetted
    BY <1>1, <1>2, <2>2 DEF TypeOK, ClaimedRun
  <2>3. QED
    BY <2>1, <2>2
<1>5. QED
  BY <1>1, <1>3, <1>4 DEF ClaimStep

\* What settling an operation changes: its row, if the tab still holds the lease, and the run.
LEMMA SettlementEffect ==
  ASSUME TypeOK, Shape, NEW t \in Tabs, SettleOperation(t)
  PROVE  /\ run[t].step = "answered"
         /\ run[t].item \in Ops
         /\ run[t].result \in Results
         /\ run' = [run EXCEPT ![t] = RunAfter(t)]
         /\ \/ Holds(t, run[t].item) /\ item' = [item EXCEPT ![run[t].item] = SettledRow(t)]
            \/ item' = item
         /\ UNCHANGED <<clock, session, wire, jobs, request, journal, faults, switches>>
<1>1. run[t] \in Run /\ run[t].step = "answered" /\ RunShape(run[t])
  BY DEF TypeOK, Shape, SettleOperation
<1>2. run[t].item \in Ops /\ run[t].result \in Results
  BY <1>1 DEF RunShape, Run
<1>3. run' = [run EXCEPT ![t] = RunAfter(t)]
  BY DEF SettleOperation, RunAfter, TypeOK
<1>4. CASE Holds(t, run[t].item)
  <2>1. item' = [item EXCEPT ![run[t].item] = SettledRow(t)]
    BY <1>2, <1>4 DEF SettleOperation, SettledRow, TypeOK
  <2>2. QED
    BY <1>1, <1>2, <1>3, <1>4, <2>1 DEF SettleOperation
<1>5. CASE ~Holds(t, run[t].item)
  BY <1>1, <1>2, <1>3, <1>5 DEF SettleOperation
<1>6. QED
  BY <1>4, <1>5

\* A reply keeps the types.
LEMMA ReplyTyped ==
  ASSUME TypeOK, NEW p \in wire, NEW r \in Outcomes, Reply(p, r) PROVE TypeOK'
  BY AnswerTyped DEF Reply, TypeOK, Packet, Results

\* A finished job is a job.
LEMMA FinishedTyped ==
  ASSUME TypeOK, NEW j \in jobs, NEW r \in Outcomes, Finished(j, r) PROVE jobs' \subseteq Job
  BY DEF Finished, TypeOK, Job

\* A stored response is a request row.
LEMMA StoredTyped ==
  ASSUME TypeOK, NEW j \in jobs, j.result # "none",
         request' = [request EXCEPT ![Company[j.as]][j.op] =
                       [@ EXCEPT !.state = "completed", !.result = j.result]]
  PROVE  request' \in [Companies -> [Ops -> Request]]
<1>1. j \in Job /\ j.result \in Outcomes /\ Company[j.as] \in Companies
  BY DEF TypeOK, Job, Companies
<1>2. request[Company[j.as]][j.op] \in Request
  BY <1>1 DEF TypeOK, Job
<1>3. [request[Company[j.as]][j.op] EXCEPT !.state = "completed", !.result = j.result] \in Request
  BY <1>1, <1>2 DEF Request
<1>4. request' = [request EXCEPT ![Company[j.as]] = [request[Company[j.as]] EXCEPT ![j.op] =
        [request[Company[j.as]][j.op] EXCEPT !.state = "completed", !.result = j.result]]]
  BY <1>1 DEF TypeOK, Job
<1>5. QED
  BY <1>1, <1>3, <1>4 DEF TypeOK, Job

\* Every step keeps the types.
LEMMA TypeKept ==
  ASSUME TypeOK, Shape, Sound, Next
  PROVE  TypeOK'
<1>1. ASSUME NEW o \in Ops, QueueOperation(o) PROVE TypeOK'
  <2>1. clock + 1 \in Nat
    BY DEF TypeOK
  <2>2. item' \in [Ops -> Row]
    BY <1>1, <2>1, NewRowTyped DEF TypeOK, QueueOperation
  <2>3. QED
    BY <1>1, <2>1, <2>2 DEF TypeOK, QueueOperation
<1>2. ASSUME NEW o \in Ops, SpoilSavedBody(o) PROVE TypeOK'
  BY <1>2, FaultBound DEF SpoilSavedBody, TypeOK, Row
<1>3. ASSUME NEW o \in Ops, BackoffEnds(o) PROVE TypeOK'
  BY <1>3 DEF BackoffEnds, TypeOK, Row
<1>4. ASSUME NEW o \in Ops, LeaseExpires(o) PROVE TypeOK'
  BY <1>4 DEF LeaseExpires, ExpireLease, TypeOK, Row
<1>5. ASSUME NEW o \in Ops, LeaseOverrun(o) PROVE TypeOK'
  BY <1>5, FaultBound DEF LeaseOverrun, ExpireLease, TypeOK, Row
<1>6. ASSUME NEW t \in Tabs, StartRun(t) PROVE TypeOK'
  BY <1>6 DEF StartRun, TypeOK, Run, Idle
<1>7. ASSUME NEW t \in Tabs, ListCandidates(t) PROVE TypeOK'
  <2>1. Candidates(run[t].actor) \in SUBSET Ops /\ run[t] \in Run
    BY DEF Candidates, TypeOK
  <2>2. [run[t] EXCEPT !.step = "next", !.todo = Candidates(run[t].actor)] \in Run
    BY <2>1 DEF Run
  <2>3. run' = [run EXCEPT ![t] =
                  [run[t] EXCEPT !.step = "next", !.todo = Candidates(run[t].actor)]]
    BY <1>7 DEF ListCandidates, TypeOK
  <2>4. run' \in [Tabs -> Run]
    BY <2>2, <2>3 DEF TypeOK
  <2>5. QED
    BY <1>7, <2>4 DEF ListCandidates, TypeOK
<1>8. ASSUME NEW t \in Tabs, ClaimNext(t) PROVE TypeOK'
  <2>1. PICK o \in FirstOf(run[t].todo) : ClaimStep(t, o)
    BY <1>8, ClaimNextStep
  <2>2. run[t] \in Run /\ o \in Ops /\ item[o] \in Row
    BY <2>1 DEF TypeOK, FirstOf, Run
  <2>3. ClaimedRun(t, o) \in Run
    BY <2>2 DEF ClaimedRun, Run, Results
  <2>4. [item[o] EXCEPT !.state = "sending", !.leaseOwner = t, !.leased = TRUE] \in Row
    BY <2>2 DEF Row, States
  <2>5. run' \in [Tabs -> Run] /\ item' \in [Ops -> Row]
    BY <2>1, <2>3, <2>4 DEF ClaimStep, TypeOK
  <2>6. [op |-> o, from |-> t] \in Packet
    BY <2>2 DEF Packet
  <2>7. wire' \subseteq Packet
    BY <2>1, <2>6 DEF ClaimStep, TypeOK
  <2>8. QED
    BY <2>1, <2>5, <2>7 DEF ClaimStep, TypeOK
<1>9. ASSUME NEW t \in Tabs, StopRun(t) PROVE TypeOK'
  BY <1>9 DEF StopRun, TypeOK, Run, Idle
<1>10. ASSUME NEW t \in Tabs, SettleOperation(t) PROVE TypeOK'
  <2>1. run[t].item \in Ops /\ run[t].result \in Results
    BY <1>10, SettlementEffect
  <2>2. RunAfter(t) \in Run
    BY DEF RunAfter, TypeOK, Run, Idle
  <2>3. Outcome(run[t].result) \in States
    BY <2>1, OutcomeTyped
  <2>4. SettledRow(t) \in Row
    <3>1. item[run[t].item] \in Row
      BY <2>1 DEF TypeOK
    <3>2. QED
      BY <2>3, <3>1 DEF SettledRow, Row
  <2>5. item' \in [Ops -> Row] /\ run' \in [Tabs -> Run]
    BY <1>10, <2>2, <2>4, SettlementEffect DEF TypeOK
  <2>6. QED
    BY <1>10, <2>5 DEF SettleOperation, TypeOK
<1>11. ASSUME NEW t \in Tabs, Interrupted(t) PROVE TypeOK'
  <2>1. run' \in [Tabs -> Run]
    <3>1. PICK r \in {"retry", "unproven"} : Answer(t, r)
      BY <1>11 DEF Interrupted
    <3>2. r \in Results
      BY DEF Results, Outcomes
    <3>3. QED
      BY <3>1, <3>2, AnswerTyped
  <2>2. faults' \in 0 .. MaxFaults /\ wire' \subseteq Packet /\ jobs' \subseteq Job
    BY <1>11, FaultBound, AbandonedTyped DEF Interrupted
  <2>3. QED
    BY <1>11, <2>1, <2>2 DEF Interrupted, TypeOK
<1>12. ASSUME NEW t \in Tabs, ConnectionLost(t) PROVE TypeOK'
  BY <1>12, AnswerTyped DEF ConnectionLost, TypeOK, Results, Outcomes
<1>13. ASSUME NEW t \in Tabs, CloseTab(t) PROVE TypeOK'
  <2>1. faults' \in 0 .. MaxFaults /\ wire' \subseteq Packet /\ jobs' \subseteq Job
    BY <1>13, FaultBound, AbandonedTyped DEF CloseTab
  <2>2. run' \in [Tabs -> Run]
    BY <1>13 DEF CloseTab, TypeOK, Run, Idle
  <2>3. item' \in [Ops -> Row]
    <3>1. ASSUME NEW o \in Ops PROVE [item[o] EXCEPT !.leaseOwner = NoOne] \in Row /\ item[o] \in Row
      BY DEF TypeOK, Row
    <3>2. QED
      BY <1>13, <3>1 DEF CloseTab
  <2>4. QED
    BY <1>13, <2>1, <2>2, <2>3 DEF CloseTab, TypeOK
<1>14. ASSUME NEW a \in Actors \cup {NoOne}, SwitchSession(a) PROVE TypeOK'
  BY <1>14, OutboxAssumption DEF SwitchSession, TypeOK
<1>15. ASSUME NEW p \in wire, Unauthenticated(p) \/ Replay(p) \/ RefuseReplay(p) PROVE TypeOK'
  BY <1>15, Replies, ReplyTyped
<1>16. ASSUME NEW p \in wire, AdmitRequest(p) PROVE TypeOK'
  <2>1. p \in Packet /\ session \in Actors
    BY <1>16 DEF AdmitRequest, TypeOK
  <2>2. [op |-> p.op, from |-> p.from, as |-> session, result |-> "none"] \in Job
    BY <2>1 DEF Packet, Job
  <2>3. [state |-> "processing", as |-> session, result |-> "none"] \in Request
    BY <2>1 DEF Request
  <2>4. request' \in [Companies -> [Ops -> Request]]
    BY <1>16, <2>1, <2>3 DEF AdmitRequest, TypeOK, Packet
  <2>5. jobs' \subseteq Job /\ wire' \subseteq Packet
    BY <1>16, <2>2 DEF AdmitRequest, TypeOK
  <2>6. QED
    BY <1>16, <2>4, <2>5 DEF AdmitRequest, TypeOK
<1>17. ASSUME NEW j \in jobs, RefuseScope(j) PROVE TypeOK'
  BY <1>17, FinishedTyped DEF RefuseScope, TypeOK, Outcomes
<1>18. ASSUME NEW j \in jobs, PostVoucher(j) PROVE TypeOK'
  BY <1>18, FinishedTyped DEF PostVoucher, TypeOK, Job, Companies, Outcomes
<1>19. ASSUME NEW j \in jobs, FailVoucher(j) PROVE TypeOK'
  BY <1>19, FinishedTyped, FaultBound DEF FailVoucher, TypeOK, Outcomes
<1>20. ASSUME NEW j \in jobs, Finish(j) PROVE TypeOK'
  <2>1. Respond(j) /\ j.result \in Results
    BY <1>20 DEF Finish, StoreResponse, LoseResponse, Respond, TypeOK, Job, Results
  <2>2. run' \in [Tabs -> Run]
    BY <2>1, AnswerTyped DEF Respond, TypeOK, Job
  <2>3. request' \in [Companies -> [Ops -> Request]] /\ faults' \in 0 .. MaxFaults
    BY <1>20, <2>1, StoredTyped, FaultBound DEF Finish, StoreResponse, LoseResponse, Respond, TypeOK
  <2>4. QED
    BY <2>1, <2>2, <2>3 DEF Respond, TypeOK
<1>21. ASSUME ServerRestart PROVE TypeOK'
  BY <1>21, FaultBound DEF ServerRestart, TypeOK
<1>22. QED
  BY <1>1, <1>2, <1>3, <1>4, <1>5, <1>6, <1>7, <1>8, <1>9, <1>10, <1>11, <1>12, <1>13, <1>14,
     <1>15, <1>16, <1>17, <1>18, <1>19, <1>20, <1>21
     DEF Next, DeviceStep, TabStep, Serve, Handle

-----------------------------------------------------------------------------
(* Every step is of one of a few kinds. *)

\* A run starts or stops.
Cleared(t, r) ==
  /\ run[t].step # "waiting"
  /\ run' = [run EXCEPT ![t] = r]
  /\ RunShape(r) /\ r.todo = {} /\ r.item = NoOne /\ r.result = "none"
  /\ UNCHANGED <<item, clock, wire, jobs, request, journal>>

\* A tab no longer waits for what it sent; the server may still get it.
Left(t, r) ==
  /\ run' = [run EXCEPT ![t] = r]
  /\ RunShape(r) /\ r.result # "acknowledged"
  /\ \/ r.todo = {} /\ r.item = NoOne
     \/ r.todo = run[t].todo /\ r.item = run[t].item
  /\ wire' = Abandoned(wire, t)
  /\ jobs' = Abandoned(jobs, t)
  /\ \A o \in Ops : item'[o].state = item[o].state /\ item'[o].createdAt = item[o].createdAt
  /\ UNCHANGED <<clock, request, journal>>

\* An interruption, a lost connection and a closed tab leave what was sent.
LEMMA LeavingSteps ==
  ASSUME TypeOK, Shape, NEW t \in Tabs, Interrupted(t) \/ ConnectionLost(t) \/ CloseTab(t)
  PROVE  \E r \in Run : Left(t, r)
<1>1. run[t] \in Run /\ RunShape(run[t])
  BY DEF TypeOK, Shape
<1>2. ASSUME NEW r \in {"retry", "unproven"}, run[t].step = "waiting", Answer(t, r),
             wire' = Abandoned(wire, t), jobs' = Abandoned(jobs, t),
             UNCHANGED <<item, clock, request, journal>>
      PROVE  \E s \in Run : Left(t, s)
  <2> DEFINE s == [run[t] EXCEPT !.step = "answered", !.result = r]
  <2>1. s \in Run /\ RunShape(s) /\ s.todo = run[t].todo /\ s.item = run[t].item /\ s.result = r
    BY <1>1, <1>2 DEF Run, RunShape, Results, Outcomes
  <2>2. run' = [run EXCEPT ![t] = s]
    BY <1>2 DEF Answer, TypeOK
  <2>3. QED
    BY <1>2, <2>1, <2>2 DEF Left
<1>3. CASE Interrupted(t)
  BY <1>2, <1>3 DEF Interrupted
<1>4. CASE ConnectionLost(t)
  <2>1. wire = Abandoned(wire, t) /\ jobs = Abandoned(jobs, t)
    BY <1>4 DEF ConnectionLost, Abandoned
  <2>2. QED
    BY <1>2, <1>4, <2>1 DEF ConnectionLost
<1>5. CASE CloseTab(t)
  <2>1. \A o \in Ops : item'[o].state = item[o].state /\ item'[o].createdAt = item[o].createdAt
    BY <1>5 DEF CloseTab, TypeOK, Row
  <2>2. Idle \in Run /\ RunShape(Idle) /\ Idle.todo = {} /\ Idle.item = NoOne /\ Idle.result = "none"
    BY DEF Idle, Run, RunShape
  <2>3. QED
    BY <1>5, <2>1, <2>2 DEF CloseTab, Left
<1>6. QED
  BY <1>3, <1>4, <1>5

\* Starting and stopping a run clears it.
LEMMA ClearingSteps ==
  ASSUME TypeOK, NEW t \in Tabs, StartRun(t) \/ StopRun(t)
  PROVE  \E r \in Run : Cleared(t, r)
<1>1. CASE StartRun(t)
  <2> DEFINE r == [Idle EXCEPT !.step = "listing", !.actor = session]
  <2>1. r \in Run /\ RunShape(r) /\ r.todo = {} /\ r.item = NoOne /\ r.result = "none"
    BY <1>1 DEF StartRun, TypeOK, Idle, Run, RunShape
  <2>2. QED
    BY <1>1, <2>1 DEF StartRun, Cleared
<1>2. CASE StopRun(t)
  <2>1. Idle \in Run /\ RunShape(Idle) /\ Idle.todo = {} /\ Idle.item = NoOne /\ Idle.result = "none"
    BY DEF Idle, Run, RunShape
  <2>2. QED
    BY <1>2, <2>1 DEF StopRun, Cleared
<1>3. QED
  BY <1>1, <1>2

\* The kinds of a step of Next.
Kinds ==
  \/ Quiet
  \/ \E o \in Ops : QueueOperation(o)
  \/ \E t \in Tabs :
       \/ \E r \in Run : Cleared(t, r) \/ Left(t, r)
       \/ ListCandidates(t)
       \/ \E o \in FirstOf(run[t].todo) : ClaimStep(t, o)
       \/ SettleOperation(t)
  \/ \E p \in wire :
       \/ \E r \in Outcomes : Reply(p, r) /\ (r = "acknowledged" => Booked(p.op))
       \/ AdmitRequest(p)
  \/ \E j \in jobs : (\E r \in Outcomes : Ends(j, r)) \/ Finish(j)
  \/ ServerRestart

\* Every step is of one of these kinds.
LEMMA StepKinds == ASSUME TypeOK, Shape, Sound, Next PROVE Kinds
<1>1. ASSUME NEW o \in Ops, DeviceStep(o) PROVE Kinds
  BY <1>1, QuietSteps DEF DeviceStep, Kinds
<1>2. ASSUME NEW t \in Tabs, TabStep(t) PROVE Kinds
  BY <1>2, LeavingSteps, ClearingSteps, ClaimNextStep DEF TabStep, Kinds
<1>3. ASSUME NEW a \in Actors \cup {NoOne}, SwitchSession(a) PROVE Kinds
  BY <1>3, QuietSteps DEF Kinds
<1>4. ASSUME NEW p \in wire, Serve(p) PROVE Kinds
  BY <1>4, Replies DEF Serve, Kinds
<1>5. ASSUME NEW j \in jobs, Handle(j) \/ Finish(j) PROVE Kinds
  BY <1>5, HandlerSteps DEF Kinds
<1>6. QED
  BY <1>1, <1>2, <1>3, <1>4, <1>5 DEF Next, Kinds

-----------------------------------------------------------------------------
(* Each part of the invariant is kept by every kind of step. *)

\* Nothing is on its way for a tab that does not wait.
LEMMA NothingSent ==
  ASSUME Links, NEW t \in Tabs, run[t].step # "waiting"
  PROVE  (\A p \in wire : p.from # t) /\ (\A j \in jobs : j.from # t)
  BY DEF Links

\* What a tab has left no longer names it, and keeps the rest as it was.
LEMMA AbandonedLinks ==
  ASSUME TypeOK, NEW t \in Tabs
  PROVE  /\ \A q \in Abandoned(wire, t) : q.from # t /\ \E p \in wire :
              q.op = p.op /\ (q.from # NoOne => q = p)
         /\ \A k \in Abandoned(jobs, t) : k.from # t /\ \E j \in jobs :
              k.op = j.op /\ k.result = j.result /\ k.as = j.as /\ (k.from # NoOne => k = j)
<1>1. NoOne # t
  BY OutboxAssumption
<1>2. \A p \in wire : p \in Packet /\ [p EXCEPT !.from = NoOne].op = p.op
                      /\ [p EXCEPT !.from = NoOne].from = NoOne
  BY DEF TypeOK, Packet
<1>3. \A j \in jobs : /\ j \in Job /\ [j EXCEPT !.from = NoOne].op = j.op
                      /\ [j EXCEPT !.from = NoOne].from = NoOne
                      /\ [j EXCEPT !.from = NoOne].result = j.result
                      /\ [j EXCEPT !.from = NoOne].as = j.as
  BY DEF TypeOK, Job
<1>4. ASSUME NEW q \in Abandoned(wire, t)
      PROVE  q.from # t /\ \E p \in wire : q.op = p.op /\ (q.from # NoOne => q = p)
  <2>1. PICK p \in wire : q = IF p.from = t THEN [p EXCEPT !.from = NoOne] ELSE p
    BY DEF Abandoned
  <2>2. QED
    BY <1>1, <1>2, <2>1
<1>5. ASSUME NEW k \in Abandoned(jobs, t)
      PROVE  k.from # t /\ \E j \in jobs :
               k.op = j.op /\ k.result = j.result /\ k.as = j.as /\ (k.from # NoOne => k = j)
  <2>1. PICK j \in jobs : k = IF j.from = t THEN [j EXCEPT !.from = NoOne] ELSE j
    BY DEF Abandoned
  <2>2. QED
    BY <1>1, <1>3, <2>1
<1>6. QED
  BY <1>4, <1>5

\* The server's answer to tab t.
LEMMA AnswerEffect ==
  ASSUME TypeOK, Shape, NEW t \in Tabs, run[t].step = "waiting", NEW r \in Outcomes, Answer(t, r)
  PROVE  \E s \in Run : /\ run' = [run EXCEPT ![t] = s]
                        /\ RunShape(s)
                        /\ s.result = r /\ s.todo = run[t].todo /\ s.item = run[t].item
<1> DEFINE s == [run[t] EXCEPT !.step = "answered", !.result = r]
<1>1. run[t] \in Run /\ RunShape(run[t])
  BY DEF TypeOK, Shape
<1>2. s \in Run /\ RunShape(s) /\ s.result = r /\ s.todo = run[t].todo /\ s.item = run[t].item
  BY <1>1 DEF Run, RunShape, Results, Outcomes
<1>3. run' = [run EXCEPT ![t] = s]
  BY DEF Answer, TypeOK
<1>4. QED
  BY <1>2, <1>3

\* A tab that waits for nothing changes its run.
LEMMA LocalStepKeepsShape ==
  ASSUME TypeOK, Shape, NEW t \in Tabs, run[t].step # "waiting", NEW r, RunShape(r),
         run' = [run EXCEPT ![t] = r], UNCHANGED <<wire, jobs, request>>
  PROVE  Shape'
<1>1. \A u \in Tabs : run'[u] = IF u = t THEN r ELSE run[u]
  BY DEF TypeOK
<1>2. (\A p \in wire : p.from # t) /\ (\A j \in jobs : j.from # t)
  BY NothingSent DEF Shape
<1>3. Links'
  BY <1>1, <1>2 DEF Shape, Links
<1>4. QED
  BY <1>1, <1>3 DEF Shape, RunShape

\* Requests on their way stay linked to the tabs that wait for them.
LEMMA ShapeKept == ASSUME TypeOK, Shape, Kinds PROVE Shape'
<1>1. CASE Quiet
  BY <1>1 DEF Quiet, Shape, Links, RunShape
<1>2. ASSUME NEW o \in Ops, QueueOperation(o) PROVE Shape'
  BY <1>2 DEF QueueOperation, Shape, Links, RunShape
<1>3. ASSUME NEW t \in Tabs, NEW r \in Run, Cleared(t, r) PROVE Shape'
  BY <1>3, LocalStepKeepsShape DEF Cleared
<1>4. ASSUME NEW t \in Tabs, NEW r \in Run, Left(t, r) PROVE Shape'
  <2>1. \A u \in Tabs : run'[u] = IF u = t THEN r ELSE run[u]
    BY <1>4 DEF TypeOK, Left
  <2>2. Links'
    BY <1>4, <2>1, AbandonedLinks, OutboxAssumption DEF Left, Shape, Links
  <2>3. QED
    BY <1>4, <2>1, <2>2 DEF Shape, RunShape, Left
<1>5. ASSUME NEW t \in Tabs, ListCandidates(t) PROVE Shape'
  <2> DEFINE r == [run[t] EXCEPT !.step = "next", !.todo = Candidates(run[t].actor)]
  <2>1. run[t] \in Run /\ RunShape(run[t]) /\ run[t].step = "listing"
    BY <1>5 DEF TypeOK, Shape, ListCandidates
  <2>2. RunShape(r)
    BY <2>1 DEF RunShape, Run
  <2>3. run' = [run EXCEPT ![t] = r]
    BY <1>5 DEF ListCandidates, TypeOK
  <2> HIDE DEF r
  <2>4. QED
    BY <1>5, <2>1, <2>2, <2>3, LocalStepKeepsShape DEF ListCandidates
<1>6. ASSUME NEW t \in Tabs, NEW o \in FirstOf(run[t].todo), ClaimStep(t, o) PROVE Shape'
  <2>1. run[t] \in Run /\ RunShape(run[t]) /\ run[t].step = "next" /\ o \in Ops
    BY <1>6 DEF TypeOK, Shape, ClaimStep, FirstOf, Run
  <2>2. RunShape(ClaimedRun(t, o)) /\ ClaimedRun(t, o).item = o
        /\ (item[o].vetted => ClaimedRun(t, o).step = "waiting")
    BY <2>1 DEF RunShape, Run, ClaimedRun
  <2>3. CASE item[o].vetted
    <3>1. \A u \in Tabs : run'[u] = IF u = t THEN ClaimedRun(t, o) ELSE run[u]
      BY <1>6 DEF ClaimStep, TypeOK
    <3>2. (\A p \in wire : p.from # t) /\ (\A j \in jobs : j.from # t)
      BY <2>1, NothingSent DEF Shape
    <3>3. wire' = wire \cup {[op |-> o, from |-> t]} /\ jobs' = jobs /\ request' = request
      BY <1>6, <2>3 DEF ClaimStep
    <3>4. Links'
      BY <2>2, <2>3, <3>1, <3>2, <3>3 DEF Shape, Links
    <3>5. QED
      BY <2>2, <3>1, <3>3, <3>4 DEF Shape, RunShape
  <2>4. CASE ~item[o].vetted
    BY <1>6, <2>1, <2>2, <2>4, LocalStepKeepsShape DEF ClaimStep
  <2>5. QED
    BY <2>3, <2>4
<1>7. ASSUME NEW t \in Tabs, SettleOperation(t) PROVE Shape'
  <2>1. run[t] \in Run /\ RunShape(run[t])
    BY DEF TypeOK, Shape
  <2>2. RunShape(RunAfter(t))
    BY <1>7, <2>1, SettlementEffect DEF RunAfter, RunShape, Run, Idle
  <2>3. QED
    BY <1>7, <2>2, SettlementEffect, LocalStepKeepsShape
<1>8. ASSUME NEW p \in wire, NEW r \in Outcomes, Reply(p, r) PROVE Shape'
  <2>1. wire' = wire \ {p} /\ jobs' = jobs /\ request' = request /\ p \in Packet
    BY <1>8 DEF Reply, TypeOK
  <2>2. CASE p.from = NoOne
    BY <1>8, <2>1, <2>2 DEF Reply, Shape, Links, RunShape
  <2>3. CASE p.from # NoOne
    <3>1. p.from \in Tabs /\ run[p.from].step = "waiting" /\ Answer(p.from, r)
      BY <1>8, <2>1, <2>3 DEF Reply, Packet, Shape, Links
    <3>2. PICK s \in Run : /\ run' = [run EXCEPT ![p.from] = s] /\ RunShape(s)
      BY <3>1, AnswerEffect
    <3>3. \A u \in Tabs : run'[u] = IF u = p.from THEN s ELSE run[u]
      BY <3>2 DEF TypeOK
    <3>4. \A q \in wire : q.from = p.from => q = p
      BY <2>1, <3>1 DEF Shape, Links, TypeOK, Packet
    <3>5. Links'
      BY <2>1, <3>1, <3>3, <3>4 DEF Shape, Links
    <3>6. QED
      BY <2>1, <3>2, <3>3, <3>5 DEF Shape, RunShape
  <2>4. QED
    BY <2>2, <2>3
<1>9. ASSUME NEW p \in wire, AdmitRequest(p) PROVE Shape'
  <2>1. /\ jobs' = jobs \cup {[op |-> p.op, from |-> p.from, as |-> session, result |-> "none"]}
        /\ wire' = wire \ {p} /\ run' = run
    BY <1>9 DEF AdmitRequest
  <2>2. \A q \in wire : q.from \in Tabs /\ q.from = p.from => q = p
    BY DEF Shape, Links, TypeOK, Packet
  <2>3. Links'
    BY <2>1, <2>2 DEF Shape, Links
  <2>4. \A c \in Companies, o \in Ops :
          request'[c][o] = request[c][o] \/ request'[c][o].state = "processing"
    BY <1>9 DEF AdmitRequest, TypeOK
  <2>5. QED
    BY <2>1, <2>3, <2>4 DEF Shape, RunShape
<1>10. ASSUME NEW j \in jobs, NEW r \in Outcomes, Ends(j, r) PROVE Shape'
  <2>1. /\ jobs' = (jobs \ {j}) \cup {[j EXCEPT !.result = r]}
        /\ [j EXCEPT !.result = r].op = j.op /\ [j EXCEPT !.result = r].from = j.from
    BY <1>10 DEF Ends, Finished, TypeOK, Job
  <2> DEFINE k == [j EXCEPT !.result = r]
  <2> HIDE DEF k
  <2>2. wire' = wire /\ run' = run /\ request' = request
    BY <1>10 DEF Ends
  <2>3. \A i \in jobs' : i = k \/ (i \in jobs /\ i # j)
    BY <2>1 DEF k
  <2>4. k.op = j.op /\ k.from = j.from
    BY <2>1 DEF k
  <2>5. Links'
    BY <2>2, <2>3, <2>4 DEF Shape, Links
  <2>6. QED
    BY <2>2, <2>5 DEF Shape, RunShape
<1>11. ASSUME NEW j \in jobs, Finish(j) PROVE Shape'
  <2>1. Respond(j) /\ j \in Job /\ j.result \in Outcomes /\ jobs' = jobs \ {j} /\ wire' = wire
    BY <1>11 DEF Finish, StoreResponse, LoseResponse, Respond, TypeOK, Job
  <2>2. \A c \in Companies, o \in Ops :
          request'[c][o].state = "completed" => request'[c][o].result # "none"
    <3>1. CASE LoseResponse(j)
      BY <3>1 DEF LoseResponse, Shape
    <3>2. CASE StoreResponse(j)
      <4> DEFINE old == request[Company[j.as]][j.op]
                 new == [old EXCEPT !.state = "completed", !.result = j.result]
      <4>1. old \in Request /\ Company[j.as] \in Companies /\ j.op \in Ops
        BY <2>1 DEF TypeOK, Job, Companies
      <4>2. new.result # "none"
        BY <2>1, <4>1 DEF Request, Outcomes
      <4>3. request' = [request EXCEPT ![Company[j.as]][j.op] = new]
        BY <3>2, <4>1 DEF StoreResponse, TypeOK
      <4> HIDE DEF new, old
      <4>4. \A c \in Companies, o \in Ops :
              request'[c][o] = request[c][o] \/ request'[c][o] = new
        BY <4>1, <4>3 DEF TypeOK
      <4>5. QED
        BY <4>2, <4>4 DEF Shape
    <3>3. QED
      BY <1>11, <3>1, <3>2 DEF Finish
  <2>3. CASE j.from = NoOne
    BY <2>1, <2>2, <2>3 DEF Respond, Shape, Links, RunShape
  <2>4. CASE j.from # NoOne
    <3>1. j.from \in Tabs /\ run[j.from].step = "waiting" /\ Answer(j.from, j.result)
      BY <2>1, <2>4 DEF Respond, Job, Shape, Links
    <3>2. PICK s \in Run : /\ run' = [run EXCEPT ![j.from] = s] /\ RunShape(s)
      BY <2>1, <3>1, AnswerEffect
    <3>3. \A u \in Tabs : run'[u] = IF u = j.from THEN s ELSE run[u]
      BY <3>2 DEF TypeOK
    <3>4. Links'
      BY <2>1, <3>1, <3>3 DEF Shape, Links
    <3>5. QED
      BY <2>2, <3>2, <3>3, <3>4 DEF Shape, RunShape
  <2>5. QED
    BY <2>3, <2>4
<1>12. CASE ServerRestart
  BY <1>12 DEF ServerRestart, Shape, Links, RunShape
<1>13. QED
  BY <1>1, <1>2, <1>3, <1>4, <1>5, <1>6, <1>7, <1>8, <1>9, <1>10, <1>11, <1>12 DEF Kinds

\* What a step that queues nothing may do to a row.
RowStep(o) ==
  /\ item'[o].createdAt = item[o].createdAt
  /\ item'[o].state = "absent" <=> item[o].state = "absent"
  /\ item[o].state \in Settled => item'[o].state = item[o].state
  /\ item'[o].state = "acknowledged" => item[o].state = "acknowledged" \/ Booked(o)

\* A step queues an operation or leaves every row in place.
LEMMA RowSteps ==
  ASSUME TypeOK, Shape, Sound, Kinds
  PROVE  \/ \E o \in Ops : QueueOperation(o)
         \/ clock' = clock /\ \A o \in Ops : RowStep(o)
<1>1. CASE Quiet
  BY <1>1 DEF Quiet, RowStep
<1>2. ASSUME NEW t \in Tabs, NEW r \in Run, Cleared(t, r) \/ Left(t, r)
      PROVE  clock' = clock /\ \A o \in Ops : RowStep(o)
  BY <1>2 DEF Cleared, Left, RowStep
<1>3. ASSUME NEW t \in Tabs, ListCandidates(t)
      PROVE  clock' = clock /\ \A o \in Ops : RowStep(o)
  BY <1>3 DEF ListCandidates, RowStep
<1>4. ASSUME NEW t \in Tabs, NEW c \in FirstOf(run[t].todo), ClaimStep(t, c)
      PROVE  clock' = clock /\ \A o \in Ops : RowStep(o)
  <2> DEFINE row == [item[c] EXCEPT !.state = "sending", !.leaseOwner = t, !.leased = TRUE]
  <2>1. c \in Ops /\ item[c] \in Row /\ item[c].state \in {"pending", "sending"}
    BY <1>4 DEF TypeOK, FirstOf, Run, ClaimStep, Deliverable, Claimable
  <2>2. row.state = "sending" /\ row.createdAt = item[c].createdAt
    BY <2>1 DEF Row
  <2>3. clock' = clock /\ item' = [item EXCEPT ![c] = row]
    BY <1>4 DEF ClaimStep
  <2> HIDE DEF row
  <2>4. \A o \in Ops : item'[o] = IF o = c THEN row ELSE item[o]
    BY <2>3 DEF TypeOK
  <2>5. QED
    BY <2>1, <2>2, <2>3, <2>4 DEF RowStep, Settled, Review
<1>5. ASSUME NEW t \in Tabs, SettleOperation(t)
      PROVE  clock' = clock /\ \A o \in Ops : RowStep(o)
  <2>1. clock' = clock /\ run[t].item \in Ops /\ run[t].result \in Results
    BY <1>5, SettlementEffect
  <2>2. CASE item' = item
    BY <2>1, <2>2 DEF RowStep
  <2>3. CASE Holds(t, run[t].item) /\ item' = [item EXCEPT ![run[t].item] = SettledRow(t)]
    <3>1. item[run[t].item] \in Row /\ item[run[t].item].state = "sending"
      BY <2>1, <2>3 DEF TypeOK, Holds
    <3>2. /\ SettledRow(t).state = Outcome(run[t].result)
          /\ SettledRow(t).createdAt = item[run[t].item].createdAt
      BY <3>1 DEF SettledRow, Row
    <3>3. /\ Outcome(run[t].result) # "absent"
          /\ Outcome(run[t].result) = "acknowledged" => Booked(run[t].item)
      BY <2>1, OutcomeTyped DEF Sound
    <3>4. \A o \in Ops : item'[o] = IF o = run[t].item THEN SettledRow(t) ELSE item[o]
      BY <2>3 DEF TypeOK
    <3>5. QED
      BY <2>1, <3>1, <3>2, <3>3, <3>4 DEF RowStep, Settled, Review
  <2>4. QED
    BY <1>5, <2>2, <2>3, SettlementEffect
<1>6. ASSUME NEW p \in wire, (\E r \in Outcomes : Reply(p, r)) \/ AdmitRequest(p)
      PROVE  clock' = clock /\ \A o \in Ops : RowStep(o)
  BY <1>6 DEF Reply, AdmitRequest, RowStep
<1>7. ASSUME NEW j \in jobs, (\E r \in Outcomes : Ends(j, r)) \/ Finish(j)
      PROVE  clock' = clock /\ \A o \in Ops : RowStep(o)
  BY <1>7 DEF Ends, Finish, StoreResponse, LoseResponse, Respond, RowStep
<1>8. CASE ServerRestart
  BY <1>8 DEF ServerRestart, RowStep
<1>9. CASE \E o \in Ops : QueueOperation(o)
  BY <1>9
<1>10. QED
  BY <1>1, <1>2, <1>3, <1>4, <1>5, <1>6, <1>7, <1>8, <1>9 DEF Kinds, Quiet

\* No operation slips in before a saved one, and none is forgotten.
LEMMA QueueKept ==
  ASSUME TypeOK, Shape, AllSaved, Sound, Kinds
  PROVE  /\ \A o \in Ops : item'[o].createdAt <= clock'
         /\ \A o \in Ops : Saved(o) => Saved(o)'
         /\ \A a, b \in Ops : Saved(b) /\ Before(a, b)' => Before(a, b)
<1>1. ASSUME NEW o \in Ops, QueueOperation(o)
      PROVE  /\ \A b \in Ops : item'[b].createdAt <= clock'
             /\ \A b \in Ops : Saved(b) => Saved(b)'
             /\ \A a, b \in Ops : Saved(b) /\ Before(a, b)' => Before(a, b)
  <2> DEFINE row == [NoRow EXCEPT !.state = "pending", !.createdAt = clock + 1]
  <2>1. row.state = "pending" /\ row.createdAt = clock + 1
    BY DEF NoRow
  <2>2. clock \in Nat /\ clock' = clock + 1 /\ item[o].state = "absent" /\ item' = [item EXCEPT ![o] = row]
    BY <1>1 DEF QueueOperation, TypeOK
  <2> HIDE DEF row
  <2>3. \A b \in Ops : item'[b] = IF b = o THEN row ELSE item[b]
    BY <2>2 DEF TypeOK
  <2>4. \A b \in Ops : item[b].createdAt \in Nat /\ item[b].createdAt <= clock
    BY DEF TypeOK, Row, AllSaved
  <2>5. QED
    BY <2>1, <2>2, <2>3, <2>4 DEF Saved, Before
<1>2. ASSUME clock' = clock, \A o \in Ops : RowStep(o)
      PROVE  /\ \A b \in Ops : item'[b].createdAt <= clock'
             /\ \A b \in Ops : Saved(b) => Saved(b)'
             /\ \A a, b \in Ops : Saved(b) /\ Before(a, b)' => Before(a, b)
  BY <1>2 DEF RowStep, AllSaved, Saved, Before
<1>3. QED
  BY <1>1, <1>2, RowSteps

\* Only operations on their way get booked, in the company that captured them.
LEMMA JournalKept ==
  ASSUME TypeOK, Kinds
  PROVE  /\ journal \subseteq journal'
         /\ \A e \in journal' : e \in journal \/ \E o \in Moving : e = <<o, Company[Owner[o]]>>
<1>1. ASSUME NEW j \in jobs, NEW r \in Outcomes, Ends(j, r)
      PROVE  /\ journal \subseteq journal'
             /\ \A e \in journal' : e \in journal \/ \E o \in Moving : e = <<o, Company[Owner[o]]>>
  <2>1. j.op \in Moving
    BY DEF Moving, TypeOK, Job
  <2>2. QED
    BY <1>1, <2>1 DEF Ends
<1>2. CASE journal' = journal
  BY <1>2
<1>3. QED
  BY <1>1, <1>2, SettlementEffect DEF Kinds, Quiet, QueueOperation, Cleared, Left, ListCandidates,
     ClaimStep, SettleOperation, Reply, AdmitRequest, Finish, StoreResponse, LoseResponse, Respond,
     ServerRestart

\* What a step may do to the run of a tab.
RunStep(u) ==
  /\ run'[u].result = "acknowledged" => run'[u].item = run[u].item /\ Booked(run[u].item)
  /\ \/ run'[u].todo = {} /\ run'[u].item \in {NoOne, run[u].item}
     \/ /\ run'[u].todo = run[u].todo
        /\ run'[u].item = run[u].item \/ (run'[u].item = NoOne /\ Booked(run[u].item))
     \/ run'[u].todo = Candidates(run[u].actor) /\ run'[u].item = run[u].item
     \/ \E o \in FirstOf(run[u].todo) :
          /\ run[u].item = NoOne /\ run'[u].item = o /\ run'[u].todo = run[u].todo \ {o}
          /\ ParentsAcknowledged(o)

\* Every step treats every tab's run that way.
LEMMA RunSteps ==
  ASSUME TypeOK, Shape, Sound, Kinds
  PROVE  \A u \in Tabs : RunStep(u)
<1>1. ASSUME run' = run PROVE \A u \in Tabs : RunStep(u)
  BY <1>1 DEF RunStep, Sound
<1>2. ASSUME NEW t \in Tabs, NEW r \in Run, Cleared(t, r) \/ Left(t, r)
      PROVE  \A u \in Tabs : RunStep(u)
  <2>1. \A u \in Tabs : run'[u] = IF u = t THEN r ELSE run[u]
    BY <1>2 DEF Cleared, Left, TypeOK
  <2>2. r.result # "acknowledged"
    BY <1>2 DEF Cleared, Left
  <2>3. r.item \in {NoOne, run[t].item} /\ (r.todo = {} \/ (r.todo = run[t].todo /\ r.item = run[t].item))
    BY <1>2 DEF Cleared, Left
  <2>4. QED
    BY <2>1, <2>2, <2>3 DEF RunStep, Sound
<1>3. ASSUME NEW t \in Tabs, ListCandidates(t) PROVE \A u \in Tabs : RunStep(u)
  <2> DEFINE r == [run[t] EXCEPT !.step = "next", !.todo = Candidates(run[t].actor)]
  <2>1. run[t] \in Run /\ RunShape(run[t]) /\ run[t].step = "listing"
    BY <1>3 DEF TypeOK, Shape, ListCandidates
  <2>2. r.todo = Candidates(run[t].actor) /\ r.item = run[t].item /\ r.result = "none"
    BY <2>1 DEF RunShape, Run
  <2>3. run' = [run EXCEPT ![t] = r]
    BY <1>3 DEF ListCandidates, TypeOK
  <2> HIDE DEF r
  <2>4. \A u \in Tabs : run'[u] = IF u = t THEN r ELSE run[u]
    BY <2>3 DEF TypeOK
  <2>5. QED
    BY <2>2, <2>4 DEF RunStep, Sound
<1>4. ASSUME NEW t \in Tabs, NEW o \in FirstOf(run[t].todo), ClaimStep(t, o)
      PROVE  \A u \in Tabs : RunStep(u)
  <2>1. run[t] \in Run /\ RunShape(run[t]) /\ run[t].step = "next"
    BY <1>4 DEF TypeOK, Shape, ClaimStep
  <2>2. /\ ClaimedRun(t, o).item = o /\ ClaimedRun(t, o).todo = run[t].todo \ {o}
        /\ ClaimedRun(t, o).result # "acknowledged" /\ run[t].item = NoOne
    BY <2>1 DEF ClaimedRun, RunShape, Run
  <2>3. \A u \in Tabs : run'[u] = IF u = t THEN ClaimedRun(t, o) ELSE run[u]
    BY <1>4 DEF ClaimStep, TypeOK
  <2>4. ParentsAcknowledged(o)
    BY <1>4 DEF ClaimStep, Deliverable
  <2>5. QED
    BY <2>2, <2>3, <2>4 DEF RunStep, Sound
<1>5. ASSUME NEW t \in Tabs, SettleOperation(t) PROVE \A u \in Tabs : RunStep(u)
  <2>1. run[t] \in Run
    BY DEF TypeOK
  <2>2. /\ RunAfter(t).result = "none" /\ RunAfter(t).item = NoOne
        /\ RunAfter(t).todo = {} \/ (RunAfter(t).todo = run[t].todo /\ Booked(run[t].item))
    BY <2>1 DEF RunAfter, Idle, Run, Sound
  <2>3. \A u \in Tabs : run'[u] = IF u = t THEN RunAfter(t) ELSE run[u]
    BY <1>5, SettlementEffect DEF TypeOK
  <2>4. QED
    BY <2>2, <2>3 DEF RunStep, Sound
<1>6. ASSUME NEW t \in Tabs, run[t].step = "waiting", NEW r \in Outcomes, Answer(t, r),
             r = "acknowledged" => Booked(run[t].item)
      PROVE  \A u \in Tabs : RunStep(u)
  <2>1. PICK s \in Run : /\ run' = [run EXCEPT ![t] = s]
                         /\ s.result = r /\ s.todo = run[t].todo /\ s.item = run[t].item
    BY <1>6, AnswerEffect
  <2>2. \A u \in Tabs : run'[u] = IF u = t THEN s ELSE run[u]
    BY <2>1 DEF TypeOK
  <2>3. QED
    BY <1>6, <2>1, <2>2 DEF RunStep, Sound
<1>7. ASSUME NEW p \in wire, NEW r \in Outcomes, Reply(p, r), r = "acknowledged" => Booked(p.op)
      PROVE  \A u \in Tabs : RunStep(u)
  <2>1. p.from \in Tabs \cup {NoOne}
    BY DEF TypeOK, Packet
  <2>2. CASE p.from = NoOne
    BY <1>1, <1>7, <2>2 DEF Reply
  <2>3. CASE p.from # NoOne
    BY <1>6, <1>7, <2>1, <2>3 DEF Reply, Shape, Links
  <2>4. QED
    BY <2>2, <2>3
<1>8. ASSUME NEW j \in jobs, Finish(j) PROVE \A u \in Tabs : RunStep(u)
  <2>1. j \in Job /\ Respond(j) /\ j.result \in Outcomes
    BY <1>8 DEF Finish, StoreResponse, LoseResponse, Respond, TypeOK, Job
  <2>2. CASE j.from = NoOne
    BY <1>1, <2>1, <2>2 DEF Respond
  <2>3. CASE j.from # NoOne
    BY <1>6, <2>1, <2>3 DEF Respond, Shape, Links, Job, Sound
  <2>4. QED
    BY <2>2, <2>3
<1>9. QED
  BY <1>1, <1>2, <1>3, <1>4, <1>5, <1>7, <1>8
     DEF Kinds, Quiet, QueueOperation, AdmitRequest, Ends, ServerRestart

\* A claim puts one operation on its way; no other step adds any.
LEMMA MovingKept ==
  ASSUME TypeOK, Shape, Sound, Kinds, NEW o \in Moving'
  PROVE  \/ o \in Moving
         \/ /\ \E u \in Tabs : run[u].item = NoOne /\ o \in FirstOf(run[u].todo)
            /\ ParentsAcknowledged(o)
<1> DEFINE Claimed == /\ \E u \in Tabs : run[u].item = NoOne /\ o \in FirstOf(run[u].todo)
                      /\ ParentsAcknowledged(o)
<1>1. o \in Ops /\ NoOne \notin Ops
  BY OutboxAssumption DEF Moving
<1>2. ASSUME NEW t \in Tabs, run'[t].item = o PROVE o \in Moving \/ Claimed
  BY <1>1, <1>2, RunSteps DEF RunStep, Moving
<1>3. ASSUME NEW p \in wire', p.op = o PROVE o \in Moving \/ Claimed
  <2>1. CASE wire' \subseteq wire
    BY <1>1, <1>3, <2>1 DEF Moving
  <2>2. ASSUME NEW t \in Tabs, NEW r \in Run, Left(t, r) PROVE o \in Moving
    BY <1>1, <1>3, <2>2, AbandonedLinks DEF Left, Moving
  <2>3. ASSUME NEW t \in Tabs, NEW c \in FirstOf(run[t].todo), ClaimStep(t, c)
        PROVE  o \in Moving \/ Claimed
    <3>1. run[t].item = NoOne /\ ParentsAcknowledged(c)
      BY <2>3 DEF ClaimStep, Shape, RunShape, Deliverable
    <3>2. p \in wire \/ p.op = c
      BY <1>3, <2>3 DEF ClaimStep
    <3>3. QED
      BY <1>1, <1>3, <3>1, <3>2 DEF Moving
  <2>4. QED
    BY <2>1, <2>2, <2>3 DEF Kinds, Quiet, QueueOperation, Cleared, ListCandidates, SettleOperation,
       Reply, AdmitRequest, Ends, Finish, StoreResponse, LoseResponse, Respond, ServerRestart
<1>4. ASSUME NEW j \in jobs', j.op = o PROVE o \in Moving \/ Claimed
  <2>1. CASE jobs' \subseteq jobs
    BY <1>1, <1>4, <2>1 DEF Moving
  <2>2. ASSUME NEW t \in Tabs, NEW r \in Run, Left(t, r) PROVE o \in Moving
    BY <1>1, <1>4, <2>2, AbandonedLinks DEF Left, Moving
  <2>3. ASSUME NEW p \in wire, AdmitRequest(p) PROVE o \in Moving
    BY <1>1, <1>4, <2>3 DEF AdmitRequest, Moving
  <2>4. ASSUME NEW k \in jobs, NEW r \in Outcomes, Ends(k, r) PROVE o \in Moving
    <3>1. [k EXCEPT !.result = r].op = k.op
      BY DEF TypeOK, Job
    <3>2. QED
      BY <1>1, <1>4, <2>4, <3>1 DEF Ends, Finished, Moving
  <2>5. QED
    BY <2>1, <2>2, <2>3, <2>4 DEF Kinds, Quiet, QueueOperation, Cleared, ListCandidates, ClaimStep,
       SettleOperation, Reply, Finish, StoreResponse, LoseResponse, Respond, ServerRestart
<1>5. QED
  BY <1>2, <1>3, <1>4 DEF Moving

\* Only saved operations are on their way, booked or in a snapshot.
LEMMA AllSavedKept == ASSUME TypeOK, Shape, AllSaved, Sound, Kinds PROVE AllSaved'
<1>1. \A o \in Ops : item'[o].createdAt <= clock'
  BY QueueKept
<1>2. \A o \in Moving' : Saved(o)'
  <2>1. \A u \in Tabs : FirstOf(run[u].todo) \subseteq run[u].todo
    BY DEF FirstOf
  <2>2. \A o \in Moving' : o \in Ops /\ Saved(o)
    BY <2>1, MovingKept DEF AllSaved, Moving
  <2>3. QED
    BY <2>2, QueueKept
<1>3. \A t \in Tabs : \A o \in run'[t].todo : Saved(o)'
  <2>1. \A t \in Tabs : run'[t].todo \subseteq run[t].todo \cup Candidates(run[t].actor)
    BY RunSteps DEF RunStep
  <2>2. \A t \in Tabs : \A o \in run'[t].todo : o \in Ops /\ Saved(o)
    BY <2>1 DEF Candidates, AllSaved, Saved, TypeOK, Run
  <2>3. QED
    BY <2>2, QueueKept
<1>4. \A e \in journal' : Saved(e[1])'
  <2>1. \A e \in journal' : e[1] \in Ops /\ Saved(e[1])
    BY JournalKept DEF AllSaved, Moving, TypeOK
  <2>2. QED
    BY <2>1, QueueKept
<1>5. QED
  BY <1>1, <1>2, <1>3, <1>4 DEF AllSaved

\* What is booked stays booked.
LEMMA BookedKept ==
  ASSUME TypeOK, Kinds, NEW o, Booked(o)
  PROVE  Booked(o)'
  BY JournalKept DEF Booked

\* No job holds an acknowledgement without its voucher.
LEMMA JobsSound ==
  ASSUME TypeOK, Sound, Kinds, NEW k \in jobs', k.result = "acknowledged"
  PROVE  Booked(k.op)'
<1>1. CASE jobs' \subseteq jobs
  BY <1>1, BookedKept DEF Sound
<1>2. ASSUME NEW t \in Tabs, NEW r \in Run, Left(t, r) PROVE Booked(k.op)'
  BY <1>2, AbandonedLinks, BookedKept DEF Left, Sound
<1>3. ASSUME NEW p \in wire, AdmitRequest(p) PROVE Booked(k.op)'
  BY <1>3, BookedKept DEF AdmitRequest, Sound
<1>4. ASSUME NEW j \in jobs, NEW r \in Outcomes, Ends(j, r) PROVE Booked(k.op)'
  <2>1. [j EXCEPT !.result = r].op = j.op /\ [j EXCEPT !.result = r].result = r
    BY DEF TypeOK, Job
  <2>2. k \in jobs \/ k = [j EXCEPT !.result = r]
    BY <1>4 DEF Ends, Finished
  <2>3. QED
    BY <1>4, <2>1, <2>2, BookedKept DEF Ends, Sound, Booked
<1>5. QED
  BY <1>1, <1>2, <1>3, <1>4 DEF Kinds, Quiet, QueueOperation, Cleared, ListCandidates, ClaimStep,
     SettleOperation, Reply, Finish, StoreResponse, LoseResponse, Respond, ServerRestart

\* Nor does a stored response.
LEMMA RequestsSound ==
  ASSUME TypeOK, Sound, Kinds, NEW c \in Companies, NEW o \in Ops,
         request'[c][o].result = "acknowledged"
  PROVE  Booked(o)'
<1>1. CASE request' = request
  BY <1>1, BookedKept DEF Sound
<1>2. ASSUME NEW p \in wire, AdmitRequest(p) PROVE Booked(o)'
  <2> DEFINE new == [state |-> "processing", as |-> session, result |-> "none"]
  <2>1. request'[c][o] = request[c][o] \/ request'[c][o] = new
    BY <1>2 DEF AdmitRequest, TypeOK
  <2>2. QED
    BY <2>1, BookedKept DEF Sound
<1>3. ASSUME NEW j \in jobs, StoreResponse(j) PROVE Booked(o)'
  <2> DEFINE old == request[Company[j.as]][j.op]
             new == [old EXCEPT !.state = "completed", !.result = j.result]
  <2>1. Company[j.as] \in Companies /\ j.op \in Ops /\ old \in Request
    BY DEF TypeOK, Job, Companies
  <2>2. new.result = j.result
    BY <2>1 DEF Request
  <2>3. request' = [request EXCEPT ![Company[j.as]][j.op] = new]
    BY <1>3, <2>1 DEF StoreResponse, TypeOK
  <2> HIDE DEF new, old
  <2>4. request'[c][o] = request[c][o] \/ (o = j.op /\ request'[c][o] = new)
    BY <2>1, <2>3 DEF TypeOK
  <2>5. QED
    BY <2>2, <2>4, BookedKept DEF Sound
<1>4. QED
  BY <1>1, <1>2, <1>3 DEF Kinds, Quiet, QueueOperation, Cleared, Left, ListCandidates, ClaimStep,
     SettleOperation, Reply, Ends, Finish, LoseResponse, ServerRestart

\* Acknowledgements stay backed by vouchers of the right company.
LEMMA SoundKept == ASSUME TypeOK, Shape, Sound, Kinds PROVE Sound'
<1>1. AcknowledgedIsBooked'
  <2>1. ASSUME NEW o \in Ops, item'[o].state = "acknowledged" PROVE Booked(o)
    <3>1. CASE RowStep(o)
      BY <2>1, <3>1 DEF RowStep, Sound, AcknowledgedIsBooked
    <3>2. ASSUME NEW q \in Ops, QueueOperation(q) PROVE Booked(o)
      <4> DEFINE row == [NoRow EXCEPT !.state = "pending", !.createdAt = clock + 1]
      <4>1. row.state = "pending" /\ item' = [item EXCEPT ![q] = row]
        BY <3>2 DEF QueueOperation, NoRow
      <4> HIDE DEF row
      <4>2. item'[o] = row \/ item'[o] = item[o]
        BY <4>1 DEF TypeOK
      <4>3. QED
        BY <2>1, <4>1, <4>2 DEF Sound, AcknowledgedIsBooked
    <3>3. QED
      BY <3>1, <3>2, RowSteps
  <2>2. QED
    BY <2>1, BookedKept DEF AcknowledgedIsBooked
<1>2. BookedForOwner'
  BY JournalKept DEF Sound, BookedForOwner
<1>3. (\A t \in Tabs : run[t].result = "acknowledged" => Booked(run[t].item))'
  <2>1. ASSUME NEW t \in Tabs, run'[t].result = "acknowledged" PROVE Booked(run'[t].item)
    BY <2>1, RunSteps DEF RunStep
  <2>2. QED
    BY <2>1, JournalKept DEF Booked
<1>4. QED
  BY <1>1, <1>2, <1>3, JobsSound, RequestsSound DEF Sound

\* A claimed operation has everything before it booked.
LEMMA FirstIsReady ==
  ASSUME Ordered, OutboxAssumption, NEW u \in Tabs, run[u].item = NoOne, NEW o \in FirstOf(run[u].todo)
  PROVE  Ready(o)
  BY DEF Ordered, FirstOf, Ready, OutboxAssumption

\* The snapshot of candidates leaves out only booked predecessors.
LEMMA CandidatesOrdered ==
  ASSUME TypeOK, Sound, NEW a, NEW o \in Candidates(a), NEW b \in Ops, Before(b, o)
  PROVE  Booked(b) \/ b \in Candidates(a)
<1>1. item[b] \in Row /\ o \in Ops /\ Owner[b] = a
  BY DEF TypeOK, Candidates, Before
<1>2. item[b].state \in {"pending", "sending", "acknowledged"}
  BY <1>1 DEF Candidates, Before, Row, States, Settled
<1>3. CASE item[b].state = "acknowledged"
  BY <1>3 DEF Sound, AcknowledgedIsBooked
<1>4. CASE item[b].state \in {"pending", "sending"}
  <2>1. ASSUME NEW c \in Ops, Before(c, b) PROVE Before(c, o)
    <3>1. item[b].createdAt \in Nat /\ item[c].createdAt \in Nat /\ item[o].createdAt \in Nat
      BY <1>1 DEF TypeOK, Row
    <3>2. QED
      BY <2>1, <3>1 DEF Before
  <2>2. QED
    BY <1>1, <1>4, <2>1 DEF Candidates
<1>5. QED
  BY <1>2, <1>3, <1>4

\* What is booked or on its way stays in queue order.
LEMMA OrderedKept == ASSUME OutboxInv, Kinds PROVE Ordered'
<1> USE DEF OutboxInv
<1>1. ASSUME NEW o \in Moving' PROVE o \in Ops /\ Saved(o) /\ Ready(o)
  <2>1. \A u \in Tabs : FirstOf(run[u].todo) \subseteq run[u].todo
    BY DEF FirstOf
  <2>2. QED
    BY <2>1, MovingKept, FirstIsReady, OutboxAssumption DEF Ordered, AllSaved, Moving
<1>2. ASSUME NEW a \in Ops, NEW b \in Ops, Saved(b), Before(a, b)' PROVE Before(a, b)
  BY <1>2, QueueKept
<1>3. BookedInQueueOrder'
  <2>1. ASSUME NEW a \in Ops, NEW b \in Ops, Before(a, b)', Booked(b)' PROVE Booked(a)'
    <3>1. Booked(b) \/ b \in Moving
      BY <2>1, JournalKept DEF Booked
    <3>2. Saved(b)
      BY <3>1 DEF AllSaved, Booked
    <3>3. Booked(a)
      BY <1>2, <2>1, <3>1, <3>2 DEF Ordered, BookedInQueueOrder, Ready
    <3>4. QED
      BY <3>3, BookedKept
  <2>2. QED
    BY <2>1 DEF BookedInQueueOrder
<1>4. \A o \in Moving' : Ready(o)'
  BY <1>1, <1>2, BookedKept DEF Ready
<1>5. ASSUME NEW t \in Tabs, NEW o \in run'[t].todo, NEW b \in Ops, Before(b, o)'
      PROVE  Booked(b)' \/ b \in run'[t].todo \/ b = run'[t].item
  <2>1. run'[t].todo \subseteq run[t].todo \cup Candidates(run[t].actor) /\ RunStep(t)
    BY RunSteps DEF RunStep
  <2>2. o \in Ops /\ Saved(o)
    BY <2>1 DEF Candidates, AllSaved, Saved, TypeOK, Run
  <2>3. Before(b, o)
    BY <1>2, <1>5, <2>2
  <2>4. CASE run'[t].todo = Candidates(run[t].actor)
    BY <1>5, <2>3, <2>4, CandidatesOrdered, BookedKept
  <2>5. CASE run'[t].todo = run[t].todo
             /\ (run'[t].item = run[t].item \/ (run'[t].item = NoOne /\ Booked(run[t].item)))
    BY <1>5, <2>3, <2>5, BookedKept DEF Ordered
  <2>6. ASSUME NEW c \in FirstOf(run[t].todo), run[t].item = NoOne,
               run'[t].item = c, run'[t].todo = run[t].todo \ {c}
        PROVE  Booked(b)' \/ b \in run'[t].todo \/ b = run'[t].item
    BY <1>5, <2>3, <2>6, BookedKept, OutboxAssumption DEF Ordered
  <2>7. CASE run'[t].todo = {}
    BY <1>5, <2>7
  <2>8. QED
    BY <2>1, <2>4, <2>5, <2>6, <2>7 DEF RunStep
<1>6. QED
  BY <1>3, <1>4, <1>5 DEF Ordered

-----------------------------------------------------------------------------
(* The theorems. *)

\* The invariant holds at the start ...
LEMMA OutboxInit == Init => OutboxInv
<1> SUFFICES ASSUME Init PROVE OutboxInv
  OBVIOUS
<1>1. TypeOK
  BY OutboxAssumption DEF Init, TypeOK, Row, Run, Request, NoRow, Idle, NoRequest, States
<1>2. Shape
  BY DEF Init, Shape, RunShape, Links, Idle, NoRequest
<1>3. Moving = {} /\ journal = {}
  BY OutboxAssumption DEF Init, Moving, Idle
<1>4. AllSaved
  BY <1>3 DEF Init, AllSaved, NoRow, Idle
<1>5. Sound
  BY <1>3 DEF Init, Sound, AcknowledgedIsBooked, BookedForOwner, NoRow, Idle, NoRequest
<1>6. Ordered
  BY <1>3 DEF Init, Ordered, BookedInQueueOrder, Booked, Idle
<1>7. QED
  BY <1>1, <1>2, <1>4, <1>5, <1>6 DEF OutboxInv

\* ... and every step keeps it.
LEMMA OutboxNext == OutboxInv /\ [Next]_vars => OutboxInv'
<1> SUFFICES ASSUME OutboxInv, [Next]_vars PROVE OutboxInv'
  OBVIOUS
<1>1. CASE Next
  <2>1. Kinds
    BY <1>1, StepKinds DEF OutboxInv
  <2>2. QED
    BY <1>1, <2>1, TypeKept, ShapeKept, AllSavedKept, SoundKept, OrderedKept DEF OutboxInv
<1>2. CASE UNCHANGED vars
  BY <1>2 DEF vars, OutboxInv, TypeOK, Shape, RunShape, Links, AllSaved, Moving, Saved, Sound,
     AcknowledgedIsBooked, BookedForOwner, Booked, Ordered, BookedInQueueOrder, Ready, Before
<1>3. QED
  BY <1>1, <1>2

\* The inductive invariant holds throughout.
THEOREM OutboxInvariant == Spec => []OutboxInv
  BY OutboxInit, OutboxNext, PTL DEF Spec

\* Every variable keeps its shape.
THEOREM TypeCorrect == Spec => []TypeOK
  BY OutboxInvariant, PTL DEF OutboxInv

\* An acknowledged operation has its voucher in its own company's ledger,
\* whatever the tabs, lost answers, crashes and session changes.
THEOREM AcknowledgementsAreBooked == Spec => []AcknowledgedIsBooked
<1>1. OutboxInv => AcknowledgedIsBooked
  BY DEF OutboxInv, Sound
<1>2. QED
  BY <1>1, OutboxInvariant, PTL

\* A voucher is only ever booked in the company that captured it.
THEOREM BookingsStayInCompany == Spec => []BookedForOwner
<1>1. OutboxInv => BookedForOwner
  BY DEF OutboxInv, Sound
<1>2. QED
  BY <1>1, OutboxInvariant, PTL

\* No number of tabs, operations and faults lets a later capture of an actor be
\* booked before an earlier one.
THEOREM BookingKeepsQueueOrder == Spec => []BookedInQueueOrder
<1>1. OutboxInv => BookedInQueueOrder
  BY DEF OutboxInv, Ordered
<1>2. QED
  BY <1>1, OutboxInvariant, PTL

\* A settled operation never changes again, whichever answer arrives late.
THEOREM SettlementsAreFinal == Spec => SettledIsFinal
<1>1. OutboxInv /\ [Next]_vars =>
        [\A o \in Ops : item[o].state \in Settled => item'[o].state = item[o].state]_vars
  <2> SUFFICES ASSUME OutboxInv, [Next]_vars, vars' # vars, NEW o \in Ops, item[o].state \in Settled
               PROVE  item'[o].state = item[o].state
    OBVIOUS
  <2>1. Kinds
    BY StepKinds DEF OutboxInv
  <2>2. CASE RowStep(o)
    BY <2>2 DEF RowStep
  <2>3. ASSUME NEW q \in Ops, QueueOperation(q) PROVE item'[o].state = item[o].state
    BY <2>3 DEF QueueOperation, Settled, Review, OutboxInv, TypeOK
  <2>4. QED
    BY <2>1, <2>2, <2>3, RowSteps DEF OutboxInv
<1>2. QED
  BY <1>1, OutboxInvariant, PTL DEF Spec, SettledIsFinal

-----------------------------------------------------------------------------
(* What is on its way is handled once, and its dependencies are settled. *)

\* A company's row belongs to at most one job; before it exists, and as long as
\* its job has no result, the voucher is not posted.
Single ==
  /\ \A j \in jobs : request[Company[j.as]][j.op].state = "processing"
  /\ \A i, j \in jobs : i.op = j.op /\ Company[i.as] = Company[j.as] => i = j
  /\ BookedOnce
  /\ \A c \in Companies, o \in Ops :
       request[c][o].state = "none" => <<o, c>> \notin journal

\* A claim releases an operation only after its dependencies.
Released == \A o \in Moving : ParentsAcknowledged(o)

\* The jobs a step leaves alone, but for the tab they answer.
SameJobs ==
  \A i, j \in jobs' : \E k, l \in jobs :
    /\ i.op = k.op /\ i.as = k.as /\ i.result = k.result
    /\ j.op = l.op /\ j.as = l.as /\ j.result = l.result
    /\ k = l => i = j

LEMMA SameJobsSingle ==
  ASSUME TypeOK, Single, SameJobs, journal' = journal, request' = request
  PROVE  Single'
<1>1. \A i, j \in jobs' : i.op = j.op /\ Company[i.as] = Company[j.as] => i = j
  BY DEF Single, SameJobs
<1>2. \A j \in jobs' : request[Company[j.as]][j.op].state = "processing"
  BY DEF Single, SameJobs
<1>3. \A j \in jobs' : j.result = "none" => <<j.op, Company[j.as]>> \notin journal
  BY DEF Single, SameJobs, BookedOnce
<1>4. QED
  BY <1>1, <1>2, <1>3 DEF Single, BookedOnce

LEMMA SingleKept == ASSUME TypeOK, Single, Kinds PROVE Single'
<1>1. ASSUME jobs' \subseteq jobs, journal' = journal, request' = request PROVE Single'
  <2>1. SameJobs
    BY <1>1 DEF SameJobs
  <2>2. QED
    BY <1>1, <2>1, SameJobsSingle
<1>2. ASSUME NEW t \in Tabs, NEW r \in Run, Left(t, r) PROVE Single'
  <2> DEFINE left(j) == IF j.from = t THEN [j EXCEPT !.from = NoOne] ELSE j
  <2>1. \A j \in jobs : left(j).op = j.op /\ left(j).as = j.as /\ left(j).result = j.result
    BY DEF TypeOK, Job
  <2>2. \A i \in jobs' : \E j \in jobs : i = left(j)
    BY <1>2 DEF Left, Abandoned
  <2> HIDE DEF left
  <2>3. SameJobs
    BY <2>1, <2>2 DEF SameJobs
  <2>4. QED
    BY <1>2, <2>3, SameJobsSingle DEF Left
<1>3. ASSUME NEW p \in wire, AdmitRequest(p) PROVE Single'
  <2> DEFINE new == [op |-> p.op, from |-> p.from, as |-> session, result |-> "none"]
             row == [state |-> "processing", as |-> session, result |-> "none"]
  <2>1. p.op \in Ops /\ session \in Actors /\ Company[session] \in Companies
    BY <1>3 DEF AdmitRequest, TypeOK, Packet, Companies
  <2>2. /\ jobs' = jobs \cup {new} /\ journal' = journal
        /\ request' = [request EXCEPT ![Company[session]][p.op] = row]
        /\ request[Company[session]][p.op].state = "none"
    BY <1>3 DEF AdmitRequest, Stored
  <2>3. new.op = p.op /\ new.as = session /\ row.state = "processing"
    OBVIOUS
  <2> HIDE DEF new, row
  <2>4. \A j \in jobs : j.op \in Ops /\ j.as \in Actors /\ Company[j.as] \in Companies
    BY DEF TypeOK, Job, Companies
  <2>5. \A c \in Companies, o \in Ops :
          request'[c][o] = IF c = Company[session] /\ o = p.op THEN row ELSE request[c][o]
    BY <2>1, <2>2 DEF TypeOK
  <2>6. \A j \in jobs : ~(j.op = p.op /\ Company[j.as] = Company[session])
    BY <2>2 DEF Single
  <2>7. <<p.op, Company[session]>> \notin journal
    BY <2>1, <2>2 DEF Single
  <2>8. \A j \in jobs' : request'[Company[j.as]][j.op].state = "processing"
    BY <2>1, <2>2, <2>3, <2>4, <2>5 DEF Single
  <2>9. \A i, j \in jobs' : i.op = j.op /\ Company[i.as] = Company[j.as] => i = j
    BY <2>2, <2>3, <2>6 DEF Single
  <2>10. BookedOnce'
    BY <2>2, <2>3, <2>7 DEF Single, BookedOnce
  <2>11. \A c \in Companies, o \in Ops : request'[c][o].state = "none" => <<o, c>> \notin journal'
    BY <2>2, <2>3, <2>5 DEF Single
  <2>12. QED
    BY <2>8, <2>9, <2>10, <2>11 DEF Single
<1>4. ASSUME NEW j \in jobs, NEW r \in Outcomes, Ends(j, r) PROVE Single'
  <2> DEFINE done == [j EXCEPT !.result = r]
  <2>1. done.op = j.op /\ done.as = j.as /\ done.result = r /\ r # "none"
    BY DEF TypeOK, Job, Outcomes
  <2>2. jobs' = (jobs \ {j}) \cup {done} /\ request' = request
    BY <1>4 DEF Ends, Finished
  <2> HIDE DEF done
  <2>3. \A e \in journal' : e \in journal \/ e = <<j.op, Company[j.as]>>
    BY <1>4 DEF Ends
  <2>4. j.op \in Ops /\ Company[j.as] \in Companies
    BY DEF TypeOK, Job, Companies
  <2>5. \A i \in jobs' : request'[Company[i.as]][i.op].state = "processing"
    BY <2>1, <2>2 DEF Single
  <2>6. \A i, k \in jobs' : i.op = k.op /\ Company[i.as] = Company[k.as] => i = k
    BY <2>1, <2>2 DEF Single
  <2>7. BookedOnce'
    <3>1. SUFFICES ASSUME NEW i \in jobs', i.result = "none"
                   PROVE  <<i.op, Company[i.as]>> \notin journal'
      BY DEF BookedOnce
    <3>2. i \in jobs /\ i # j
      BY <2>1, <2>2, <3>1
    <3>3. <<i.op, Company[i.as]>> \notin journal
      BY <3>1, <3>2 DEF Single, BookedOnce
    <3>4. <<i.op, Company[i.as]>> # <<j.op, Company[j.as]>>
      BY <3>2 DEF Single
    <3>5. QED
      BY <2>3, <3>3, <3>4
  <2>8. ASSUME NEW c \in Companies, NEW o \in Ops, request'[c][o].state = "none"
        PROVE  <<o, c>> \notin journal'
    <3>1. <<o, c>> \notin journal
      BY <2>2, <2>8 DEF Single
    <3>2. <<o, c>> # <<j.op, Company[j.as]>>
      BY <2>2, <2>8 DEF Single
    <3>3. QED
      BY <2>3, <3>1, <3>2
  <2>9. QED
    BY <2>5, <2>6, <2>7, <2>8 DEF Single
<1>5. ASSUME NEW j \in jobs, Finish(j) PROVE Single'
  <2>1. jobs' = jobs \ {j} /\ journal' = journal
    BY <1>5 DEF Finish, StoreResponse, LoseResponse, Respond
  <2>2. CASE LoseResponse(j)
    BY <1>1, <2>1, <2>2 DEF LoseResponse
  <2>3. CASE StoreResponse(j)
    <3> DEFINE old == request[Company[j.as]][j.op]
               new == [old EXCEPT !.state = "completed", !.result = j.result]
    <3>1. old \in Request /\ Company[j.as] \in Companies /\ j.op \in Ops
      BY DEF TypeOK, Job, Companies
    <3>2. new.state = "completed"
      BY <3>1 DEF Request
    <3>3. request' = [request EXCEPT ![Company[j.as]][j.op] = new]
      BY <2>3, <3>1 DEF StoreResponse, TypeOK
    <3> HIDE DEF old, new
    <3>4. \A c \in Companies, o \in Ops :
            request'[c][o] = IF c = Company[j.as] /\ o = j.op THEN new ELSE request[c][o]
      BY <3>1, <3>3 DEF TypeOK
    <3>5. \A i \in jobs : i.op \in Ops /\ Company[i.as] \in Companies
      BY DEF TypeOK, Job, Companies
    <3>6. \A i \in jobs' : request'[Company[i.as]][i.op].state = "processing"
      BY <2>1, <3>4, <3>5 DEF Single
    <3>7. \A c \in Companies, o \in Ops :
            request'[c][o].state = "none" => <<o, c>> \notin journal'
      BY <2>1, <3>2, <3>4 DEF Single
    <3>8. BookedOnce' /\ \A i, k \in jobs' : i.op = k.op /\ Company[i.as] = Company[k.as] => i = k
      BY <2>1 DEF Single, BookedOnce
    <3>9. QED
      BY <3>6, <3>7, <3>8 DEF Single
  <2>4. QED
    BY <1>5, <2>2, <2>3 DEF Finish
<1>6. QED
  BY <1>1, <1>2, <1>3, <1>4, <1>5 DEF Kinds, Quiet, QueueOperation, Cleared, ListCandidates,
     ClaimStep, SettleOperation, Reply, ServerRestart

\* What was acknowledged stays so, and nothing but a claim puts it on its way.
LEMMA ReleasedKept == ASSUME TypeOK, Shape, Sound, Released, Kinds PROVE Released'
<1>1. SUFFICES ASSUME NEW o \in Moving', NEW p \in Parents[o]
               PROVE  Owner[p] = Owner[o] /\ item'[p].state = "acknowledged"
  BY DEF Released, ParentsAcknowledged
<1>2. ParentsAcknowledged(o)
  BY MovingKept DEF Released
<1>3. Owner[p] = Owner[o] /\ item[p].state = "acknowledged" /\ p \in Ops
  BY <1>2, OutboxAssumption DEF ParentsAcknowledged, Moving
<1>4. CASE \A b \in Ops : RowStep(b)
  BY <1>3, <1>4 DEF RowStep, Settled
<1>5. ASSUME NEW q \in Ops, QueueOperation(q) PROVE item'[p] = item[p]
  BY <1>3, <1>5 DEF QueueOperation, TypeOK
<1>6. QED
  BY <1>3, <1>4, <1>5, RowSteps

QueueInv == OutboxInv /\ Single /\ Released

LEMMA QueueInit == Init => QueueInv
<1> SUFFICES ASSUME Init PROVE QueueInv
  OBVIOUS
<1>1. Moving = {}
  BY OutboxAssumption DEF Init, Moving, Idle
<1>2. Single /\ Released
  BY <1>1 DEF Init, Single, BookedOnce, Released
<1>3. QED
  BY <1>2, OutboxInit DEF QueueInv

LEMMA QueueNext == QueueInv /\ [Next]_vars => QueueInv'
<1> SUFFICES ASSUME QueueInv, [Next]_vars PROVE QueueInv'
  OBVIOUS
<1>1. OutboxInv'
  BY OutboxNext DEF QueueInv
<1>2. CASE Next
  <2>1. Kinds
    BY <1>2, StepKinds DEF QueueInv, OutboxInv
  <2>2. QED
    BY <1>1, <2>1, SingleKept, ReleasedKept DEF QueueInv, OutboxInv
<1>3. CASE UNCHANGED vars
  BY <1>1, <1>3 DEF vars, QueueInv, Single, BookedOnce, Released, Moving, ParentsAcknowledged
<1>4. QED
  BY <1>2, <1>3

LEMMA QueueInvariant == Spec => []QueueInv
  BY QueueInit, QueueNext, PTL DEF Spec

\* No retry, replay, second tab, late packet or restart books a voucher again.
THEOREM VouchersAreBookedOnce == Spec => []BookedOnce
<1>1. QueueInv => BookedOnce
  BY DEF QueueInv, Single
<1>2. QED
  BY <1>1, QueueInvariant, PTL

-----------------------------------------------------------------------------
(* The refinement of SavedQueue. *)

\* Queue order and the books are the same on both levels.
LEMMA SameQueue ==
  ASSUME TypeOK
  PROVE  /\ \A o \in Ops : item[o].state \in States
         /\ \A o \in Ops : ShownOf(item[o].state) = "nothing" <=> item[o].state = "absent"
         /\ \A a, b \in Ops : Queue!Earlier(a, b) <=> Before(a, b)
         /\ \A o \in Ops : Queue!InBooks(o) <=> Booked(o)
<1>1. \A o \in Ops : item[o].state \in States
  BY DEF TypeOK, Row
<1>2. \A o \in Ops : ShownOf(item[o].state) = "nothing" <=> item[o].state = "absent"
  BY <1>1 DEF ShownOf, States, Settled, Review
<1>3. QED
  BY <1>1, <1>2 DEF Queue!Earlier, Before, Queue!InBooks, Queue!Voucher, Booked

\* Neither what the device shows nor the books change.
LEMMA NothingShown ==
  ASSUME \A o \in Ops : /\ ShownOf(item'[o].state) = ShownOf(item[o].state)
                        /\ item'[o].createdAt = item[o].createdAt,
         journal' = journal
  PROVE  UNCHANGED Queue!vars
  BY DEF Queue!vars

LEMMA CaptureRefines ==
  ASSUME TypeOK, AllSaved, NEW o \in Ops, QueueOperation(o)
  PROVE  Queue!Capture(o)
<1> DEFINE row == [NoRow EXCEPT !.state = "pending", !.createdAt = clock + 1]
<1>1. row.state = "pending" /\ row.createdAt = clock + 1
  BY DEF NoRow
<1>2. clock \in Nat /\ item[o].state = "absent" /\ item' = [item EXCEPT ![o] = row] /\ journal' = journal
  BY DEF QueueOperation, TypeOK
<1> HIDE DEF row
<1>3. \A b \in Ops : item'[b] = IF b = o THEN row ELSE item[b]
  BY <1>2 DEF TypeOK
<1>4. \A b \in Ops : item[b].createdAt \in Nat /\ item[b].createdAt <= clock
  BY DEF TypeOK, Row, AllSaved
<1>5. ShownOf("pending") = "saved" /\ ShownOf("absent") = "nothing"
  BY DEF ShownOf, Review
<1>6. [b \in Ops |-> ShownOf(item'[b].state)]
        = [[b \in Ops |-> ShownOf(item[b].state)] EXCEPT ![o] = "saved"]
  BY <1>1, <1>3, <1>5
<1>7. \A b \in Ops : item'[o].createdAt > item[b].createdAt
  BY <1>1, <1>2, <1>3, <1>4
<1>8. \A b \in Ops \ {o} : item'[b].createdAt = item[b].createdAt
  BY <1>3
<1>9. QED
  BY <1>2, <1>5, <1>6, <1>7, <1>8 DEF Queue!Capture

LEMMA ClaimShowsNothing ==
  ASSUME TypeOK, NEW t \in Tabs, NEW c \in FirstOf(run[t].todo), ClaimStep(t, c)
  PROVE  UNCHANGED Queue!vars
<1> DEFINE row == [item[c] EXCEPT !.state = "sending", !.leaseOwner = t, !.leased = TRUE]
<1>1. c \in Ops /\ item[c] \in Row /\ item[c].state \in {"pending", "sending"}
  BY DEF TypeOK, FirstOf, Run, ClaimStep, Deliverable, Claimable
<1>2. row.state = "sending" /\ row.createdAt = item[c].createdAt
  BY <1>1 DEF Row
<1>3. item' = [item EXCEPT ![c] = row] /\ journal' = journal
  BY DEF ClaimStep
<1> HIDE DEF row
<1>4. \A o \in Ops : item'[o] = IF o = c THEN row ELSE item[o]
  BY <1>3 DEF TypeOK
<1>5. \A s \in {"pending", "sending"} : ShownOf(s) = "saved"
  BY DEF ShownOf, Review
<1>6. QED
  BY <1>1, <1>2, <1>3, <1>4, <1>5, NothingShown

LEMMA SettlementRefines ==
  ASSUME TypeOK, Shape, Sound, NEW t \in Tabs, SettleOperation(t)
  PROVE  \/ \E o \in Ops : Queue!Acknowledge(o) \/ Queue!AskForReview(o)
         \/ UNCHANGED Queue!vars
<1> DEFINE o == run[t].item
           s == Outcome(run[t].result)
<1>1. o \in Ops /\ run[t].result \in Results /\ journal' = journal
  BY SettlementEffect
<1>2. CASE item' = item
  BY <1>1, <1>2, NothingShown
<1>3. CASE Holds(t, o) /\ item' = [item EXCEPT ![o] = SettledRow(t)]
  <2>1. item[o] \in Row /\ item[o].state = "sending"
    BY <1>1, <1>3 DEF TypeOK, Holds
  <2>2. SettledRow(t).state = s /\ SettledRow(t).createdAt = item[o].createdAt
    BY <2>1 DEF SettledRow, Row
  <2>3. \A b \in Ops : item'[b] = IF b = o THEN SettledRow(t) ELSE item[b]
    BY <1>3 DEF TypeOK
  <2>4. s \in {"pending", "acknowledged"} \cup Review
        /\ (s = "acknowledged" => Booked(o))
    <3>1. s \in {"pending", "acknowledged"} \cup Review
      BY <1>1 DEF Outcome, Results, Outcomes, Review
    <3>2. s = "acknowledged" => Booked(o)
      BY <1>1, OutcomeTyped DEF Sound
    <3>3. QED
      BY <3>1, <3>2
  <2> HIDE DEF o, s
  <2>5. ShownOf("sending") = "saved" /\ ShownOf("pending") = "saved"
        /\ ShownOf("acknowledged") = "acknowledged" /\ \A r \in Review : ShownOf(r) = "review"
    BY DEF ShownOf, Review
  <2>6. [b \in Ops |-> item'[b].createdAt] = [b \in Ops |-> item[b].createdAt]
    BY <2>2, <2>3
  <2>7. [b \in Ops |-> ShownOf(item'[b].state)]
          = [[b \in Ops |-> ShownOf(item[b].state)] EXCEPT ![o] = ShownOf(s)]
    BY <2>2, <2>3
  <2>8. ShownOf(item[o].state) = "saved"
    BY <2>1, <2>5
  <2>9. CASE s = "pending"
    BY <1>1, <2>2, <2>3, <2>5, <2>8, <2>9, NothingShown
  <2>10. CASE s = "acknowledged"
    BY <1>1, <2>4, <2>5, <2>6, <2>7, <2>8, <2>10, SameQueue
       DEF Queue!Acknowledge, Queue!Show
  <2>11. CASE s \in Review
    BY <1>1, <2>5, <2>6, <2>7, <2>8, <2>11 DEF Queue!AskForReview, Queue!Show
  <2>12. QED
    BY <2>4, <2>9, <2>10, <2>11
<1>4. QED
  BY <1>2, <1>3, SettlementEffect

LEMMA BookingRefines ==
  ASSUME QueueInv, NEW j \in jobs, NEW r \in Outcomes, Ends(j, r)
  PROVE  (\E o \in Ops : Queue!Book(o)) \/ UNCHANGED Queue!vars
<1> DEFINE o == j.op
<1>1. o \in Ops /\ o \in Moving /\ TypeOK
  BY DEF QueueInv, OutboxInv, TypeOK, Job, Moving
<1>2. item' = item
  BY DEF Ends
<1>3. CASE journal' = journal
  BY <1>2, <1>3, NothingShown
<1>4. CASE journal' # journal
  <2>1. journal' = journal \cup {Queue!Voucher(o)} /\ ~Queue!InBooks(o)
    BY <1>4 DEF Ends, Queue!Voucher, Queue!InBooks
  <2>2. Saved(o) /\ Ready(o) /\ ParentsAcknowledged(o)
    BY <1>1 DEF QueueInv, OutboxInv, AllSaved, Ordered, Released
  <2>3. \A b \in Ops : Queue!Earlier(b, o) => Queue!InBooks(b)
    BY <1>1, <2>2, SameQueue DEF Ready
  <2>4. \A p \in Parents[o] : p \in Ops
    BY <1>1, OutboxAssumption
  <2>5. \A p \in Parents[o] : Owner[p] = Owner[o] /\ ShownOf(item[p].state) = "acknowledged"
    BY <2>2 DEF ParentsAcknowledged, ShownOf, Review
  <2>6. ShownOf(item[o].state) # "nothing"
    BY <1>1, <2>2, SameQueue DEF Saved
  <2> HIDE DEF o
  <2>7. Queue!Book(o)
    BY <1>1, <1>2, <2>1, <2>3, <2>4, <2>5, <2>6 DEF Queue!Book
  <2>8. QED
    BY <1>1, <2>7
<1>5. QED
  BY <1>3, <1>4

\* The outbox and the boundary implement the queue.
THEOREM OutboxIsASavedQueue == Spec => ImplementsSavedQueue
<1>1. Init => Queue!Init
  <2> SUFFICES ASSUME Init PROVE Queue!Init
    OBVIOUS
  <2>1. \A o \in Ops : item[o] = NoRow
    BY DEF Init
  <2>2. \A o \in Ops : ShownOf(item[o].state) = "nothing" /\ item[o].createdAt = 0
    BY <2>1 DEF NoRow, ShownOf, Review
  <2>3. QED
    BY <2>2 DEF Init, Queue!Init
<1>2. QueueInv /\ [Next]_vars => [Queue!Next]_(Queue!vars)
  <2> SUFFICES ASSUME QueueInv, [Next]_vars
               PROVE  Queue!Next \/ UNCHANGED Queue!vars
    OBVIOUS
  <2> USE DEF QueueInv, OutboxInv
  <2>1. CASE Next
    <3>1. Kinds
      BY <2>1, StepKinds
    <3>2. ASSUME NEW o \in Ops, QueueOperation(o) PROVE Queue!Next
      BY <3>2, CaptureRefines DEF Queue!Next
    <3>3. ASSUME NEW t \in Tabs, SettleOperation(t) PROVE Queue!Next \/ UNCHANGED Queue!vars
      BY <3>3, SettlementRefines DEF Queue!Next
    <3>4. ASSUME NEW j \in jobs, NEW r \in Outcomes, Ends(j, r)
          PROVE  Queue!Next \/ UNCHANGED Queue!vars
      BY <3>4, BookingRefines DEF Queue!Next
    <3>5. ASSUME item' = item, journal' = journal PROVE UNCHANGED Queue!vars
      BY <3>5, NothingShown
    <3>6. CASE Quiet \/ \E t \in Tabs, r \in Run : Left(t, r)
      BY <3>6, NothingShown DEF Quiet, Left
    <3>7. QED
      BY <3>1, <3>2, <3>3, <3>4, <3>5, <3>6, ClaimShowsNothing
         DEF Kinds, Cleared, ListCandidates, Reply, AdmitRequest, Finish, StoreResponse,
             LoseResponse, Respond, ServerRestart
  <2>2. CASE UNCHANGED vars
    BY <2>2, NothingShown DEF vars
  <2>3. QED
    BY <2>1, <2>2
<1>3. QED
  BY <1>1, <1>2, QueueInvariant, PTL DEF Spec, ImplementsSavedQueue, Queue!Spec
=============================================================================
