---------------------------- MODULE DurableOutbox ----------------------------
(***************************************************************************)
(* The browser's durable voucher outbox and the server request boundary it *)
(* talks to.  The tabs of one device share one IndexedDB table; each tab   *)
(* runs deliverOfflineOperations at most once at a time.  The server keeps *)
(* one operational_voucher_requests row per company and operation id.      *)
(*                                                                         *)
(* Every await of the code is a step boundary.  A browser transaction is   *)
(* one step, and so is the claim of a row with the fetch that follows it   *)
(* without an await.  Each capture gets its own createdAt instant.  The    *)
(* session cookie is shared by the tabs.                                   *)
(***************************************************************************)
EXTENDS Naturals, FiniteSets

CONSTANTS
  Ops,           \* operation ids captured on this device
  Actors,        \* a user signed in to a company
  Tabs,          \* browser tabs
  Owner,         \* the actor that captured an operation
  Company,       \* the company of an actor
  Parents,       \* the dependencies of an operation
  NoOne,         \* no actor, no tab, no operation
  ServerErrors,  \* whether the posting handler may fail with a 5xx status
  MaxFaults,     \* bound: failures and refusals in a behaviour
  MaxSwitches    \* bound: sign-ins, sign-outs and company switches

ASSUME OutboxAssumption ==
  /\ Owner \in [Ops -> Actors]
  /\ Parents \in [Ops -> SUBSET Ops]
  /\ NoOne \notin Ops \cup Actors \cup Tabs
  /\ ServerErrors \in BOOLEAN
  /\ MaxFaults \in Nat
  /\ MaxSwitches \in Nat

VARIABLES
  item,      \* the offlineOperations row of every operation
  clock,     \* createdAt of the latest row
  run,       \* the deliverOfflineOperations call of every tab
  session,   \* the actor of the session cookie
  wire,      \* requests the server has not read, or keeps waiting
  jobs,      \* requests that own their boundary row and are being handled
  request,   \* operational_voucher_requests by company and operation
  journal,   \* posted vouchers: operation and company
  faults, switches

vars == <<item, clock, run, session, wire, jobs, request, journal, faults, switches>>

-----------------------------------------------------------------------------
Companies == {Company[a] : a \in Actors}

Review == {"conflict", "rejected", "needs_review"}
Settled == {"acknowledged"} \cup Review
States == {"absent", "pending", "sending"} \cup Settled

\* What a status code means to the outbox; "unproven" is a 2xx whose body does
\* not prove the posting, "unsupported" a saved body that fails revalidation.
Outcomes == {"acknowledged", "paused", "retry", "conflict", "rejected", "unproven"}
Results == Outcomes \cup {"unsupported"}

Row == [state : States, createdAt : Nat, vetted : BOOLEAN,
        leaseOwner : Tabs \cup {NoOne}, leased : BOOLEAN, due : BOOLEAN]

NoRow == [state |-> "absent", createdAt |-> 0, vetted |-> TRUE,
          leaseOwner |-> NoOne, leased |-> FALSE, due |-> TRUE]

\* todo holds the snapshot of candidates still to visit, item the claimed row.
Run == [step : {"idle", "listing", "next", "waiting", "answered"},
        actor : Actors \cup {NoOne}, todo : SUBSET Ops,
        item : Ops \cup {NoOne}, result : Results \cup {"none"}]

Idle == [step |-> "idle", actor |-> NoOne, todo |-> {}, item |-> NoOne, result |-> "none"]

Packet == [op : Ops, from : Tabs \cup {NoOne}]
Job == [op : Ops, from : Tabs \cup {NoOne}, as : Actors, result : Outcomes \cup {"none"}]
Request == [state : {"none", "processing", "completed"},
            as : Actors \cup {NoOne}, result : Outcomes \cup {"none"}]

NoRequest == [state |-> "none", as |-> NoOne, result |-> "none"]

Init ==
  /\ item = [o \in Ops |-> NoRow]
  /\ clock = 0
  /\ run = [t \in Tabs |-> Idle]
  /\ session \in Actors
  /\ wire = {}
  /\ jobs = {}
  /\ request = [c \in Companies |-> [o \in Ops |-> NoRequest]]
  /\ journal = {}
  /\ faults = 0
  /\ switches = 0

Fault == faults < MaxFaults /\ faults' = faults + 1

-----------------------------------------------------------------------------
(* The outbox table. *)

\* Queue order of one actor: listOfflineOperations sorts by createdAt.
Before(a, b) ==
  /\ Owner[a] = Owner[b]
  /\ item[a].state # "absent"
  /\ item[b].state # "absent"
  /\ item[a].createdAt < item[b].createdAt

QueueOperation(o) ==
  /\ item[o].state = "absent"
  /\ clock' = clock + 1
  /\ item' = [item EXCEPT ![o] = [NoRow EXCEPT !.state = "pending", !.createdAt = clock + 1]]
  /\ UNCHANGED <<run, session, wire, jobs, request, journal, faults, switches>>

\* A saved body predates the capture policy or is altered on the device.
SpoilSavedBody(o) ==
  /\ item[o].state = "pending" /\ item[o].vetted
  /\ Fault
  /\ item' = [item EXCEPT ![o].vetted = FALSE]
  /\ UNCHANGED <<clock, run, session, wire, jobs, request, journal, switches>>

BackoffEnds(o) ==
  /\ ~item[o].due
  /\ item' = [item EXCEPT ![o].due = TRUE]
  /\ UNCHANGED <<clock, run, session, wire, jobs, request, journal, faults, switches>>

\* The tab that leased the row still waits for its answer.
LeaseInUse(o) == \E t \in Tabs : item[o].leaseOwner = t /\ run[t].item = o

ExpireLease(o) ==
  /\ item[o].leased
  /\ item' = [item EXCEPT ![o].leased = FALSE]
  /\ UNCHANGED <<clock, run, session, wire, jobs, request, journal, switches>>

LeaseExpires(o) == ~LeaseInUse(o) /\ ExpireLease(o) /\ UNCHANGED faults

\* A request outlives the ten minutes of its lease.
LeaseOverrun(o) == LeaseInUse(o) /\ Fault /\ ExpireLease(o)

\* Mutant: a row left in sending is never claimed again.
ClaimablePending(o) == item[o].due /\ item[o].state = "pending"

Claimable(o) ==
  /\ item[o].due
  /\ \/ item[o].state = "pending"
     \/ item[o].state = "sending" /\ ~item[o].leased

-----------------------------------------------------------------------------
(* deliverOfflineOperations *)

StartRun(t) ==
  /\ run[t].step = "idle"
  /\ session # NoOne
  /\ run' = [run EXCEPT ![t] = [Idle EXCEPT !.step = "listing", !.actor = session]]
  /\ UNCHANGED <<item, clock, session, wire, jobs, request, journal, faults, switches>>

\* The candidates a run will visit: it skips acknowledged rows and stops at
\* the first one that waits for review, all as they are now.
Candidates(a) ==
  {o \in Ops : /\ Owner[o] = a
               /\ item[o].state \in {"pending", "sending"}
               /\ \A b \in Ops : Before(b, o) => item[b].state \notin Review}

ListCandidates(t) ==
  /\ run[t].step = "listing"
  /\ run' = [run EXCEPT ![t].step = "next", ![t].todo = Candidates(run[t].actor)]
  /\ UNCHANGED <<item, clock, session, wire, jobs, request, journal, faults, switches>>

FirstOf(S) == {o \in S : \A b \in S : ~Before(b, o)}

ParentsAcknowledged(o) ==
  \A p \in Parents[o] : Owner[p] = Owner[o] /\ item[p].state = "acknowledged"

Deliverable(o) == ParentsAcknowledged(o) /\ Claimable(o)

ClaimNext(t) ==
  \E o \in FirstOf(run[t].todo) :
    /\ run[t].step = "next"
    /\ Deliverable(o)
    /\ item' = [item EXCEPT ![o].state = "sending", ![o].leaseOwner = t, ![o].leased = TRUE]
    /\ \/ /\ item[o].vetted
          /\ wire' = wire \cup {[op |-> o, from |-> t]}
          /\ run' = [run EXCEPT ![t].step = "waiting", ![t].item = o, ![t].todo = @ \ {o}]
       \/ /\ ~item[o].vetted
          /\ run' = [run EXCEPT ![t].step = "answered", ![t].item = o, ![t].todo = @ \ {o},
                                ![t].result = "unsupported"]
          /\ UNCHANGED wire
    /\ UNCHANGED <<clock, session, jobs, request, journal, faults, switches>>

\* Mutant: a candidate that cannot be claimed is skipped, the run goes on.
StopRunSkips(t) ==
  /\ run[t].step = "next"
  /\ \A o \in FirstOf(run[t].todo) : ~Deliverable(o)
  /\ run' = [run EXCEPT ![t] = IF run[t].todo = {} THEN Idle
                               ELSE [@ EXCEPT !.todo = @ \ FirstOf(@)]]
  /\ UNCHANGED <<item, clock, session, wire, jobs, request, journal, faults, switches>>

StopRun(t) ==
  /\ run[t].step = "next"
  /\ \A o \in FirstOf(run[t].todo) : ~Deliverable(o)
  /\ run' = [run EXCEPT ![t] = Idle]
  /\ UNCHANGED <<item, clock, session, wire, jobs, request, journal, faults, switches>>

\* Mutant: any 2xx counts as an acknowledgement.
OutcomeAnySuccess(r) ==
  CASE r \in {"acknowledged", "unproven"} -> "acknowledged"
    [] r \in {"conflict", "rejected"} -> r
    [] r \in {"paused", "retry"} -> "pending"
    [] r = "unsupported" -> "needs_review"

\* Mutant: the name of the outcome is stored as the state.
OutcomeAsState(r) == r

\* What settleOperation records for a result.
Outcome(r) ==
  CASE r \in {"acknowledged", "conflict", "rejected"} -> r
    [] r \in {"paused", "retry"} -> "pending"
    [] r \in {"unproven", "unsupported"} -> "needs_review"

\* Mutant: the answer is recorded without looking at the owner of the lease.
HoldsAnyway(t, o) == TRUE

Holds(t, o) == item[o].state = "sending" /\ item[o].leaseOwner = t

SettleOperation(t) ==
  LET o == run[t].item
      r == run[t].result
  IN /\ run[t].step = "answered"
     /\ \/ /\ Holds(t, o)
           /\ item' = [item EXCEPT ![o].state = Outcome(r), ![o].leaseOwner = NoOne,
                                   ![o].leased = FALSE, ![o].due = (r # "retry")]
        \/ ~Holds(t, o) /\ UNCHANGED item
     /\ run' = [run EXCEPT ![t] =
                  IF r = "acknowledged"
                  THEN [@ EXCEPT !.step = "next", !.item = NoOne, !.result = "none"]
                  ELSE Idle]
     /\ UNCHANGED <<clock, session, wire, jobs, request, journal, faults, switches>>

Answer(t, r) == run' = [run EXCEPT ![t].step = "answered", ![t].result = r]

Abandoned(S, t) == {IF p.from = t THEN [p EXCEPT !.from = NoOne] ELSE p : p \in S}

\* The request fails in transit, or something on the way answers in the
\* server's place; the server may still get it.
Interrupted(t) ==
  /\ run[t].step = "waiting"
  /\ Fault
  /\ \E r \in {"retry", "unproven"} : Answer(t, r)
  /\ wire' = Abandoned(wire, t)
  /\ jobs' = Abandoned(jobs, t)
  /\ UNCHANGED <<item, clock, session, request, journal, switches>>

\* The server died with the request.
ConnectionLost(t) ==
  /\ run[t].step = "waiting"
  /\ \A p \in wire \cup jobs : p.from # t
  /\ Answer(t, "retry")
  /\ UNCHANGED <<item, clock, session, wire, jobs, request, journal, faults, switches>>

\* A closed or reloaded tab comes back with a fresh runnerId, which owns no
\* lease.
CloseTab(t) ==
  /\ run[t].step # "idle"
  /\ Fault
  /\ run' = [run EXCEPT ![t] = Idle]
  /\ item' = [o \in Ops |-> IF item[o].leaseOwner = t
                            THEN [item[o] EXCEPT !.leaseOwner = NoOne] ELSE item[o]]
  /\ wire' = Abandoned(wire, t)
  /\ jobs' = Abandoned(jobs, t)
  /\ UNCHANGED <<clock, session, request, journal, switches>>

SwitchSession(a) ==
  /\ a # session
  /\ switches < MaxSwitches
  /\ switches' = switches + 1
  /\ session' = a
  /\ UNCHANGED <<item, clock, run, wire, jobs, request, journal, faults>>

-----------------------------------------------------------------------------
(* operationalVoucherBoundary, enforceOfflineOperationScope and the posting *)
(* handler.  A replay that waits for the owner of its row stays on the wire. *)

Stored(p) == request[Company[session]][p.op]

Reply(p, r) ==
  /\ wire' = wire \ {p}
  /\ IF p.from = NoOne THEN UNCHANGED run ELSE Answer(p.from, r)
  /\ UNCHANGED <<item, clock, session, jobs, request, journal, faults, switches>>

Unauthenticated(p) == session = NoOne /\ Reply(p, "paused")

Replay(p) ==
  /\ session # NoOne
  /\ Stored(p).state = "completed" /\ Stored(p).as = session
  /\ Reply(p, Stored(p).result)

\* Another authorization context, or an outcome that stays uncertain.
RefuseReplay(p) ==
  /\ session # NoOne
  /\ \/ Stored(p).state # "none" /\ Stored(p).as # session
     \/ Stored(p).state = "processing"
  /\ Reply(p, "conflict")

\* Mutant: a request whose row nobody completed is handled again.
AdmitUncompleted(p) ==
  /\ session # NoOne
  /\ Stored(p).state # "completed"
  /\ wire' = wire \ {p}
  /\ jobs' = jobs \cup {[op |-> p.op, from |-> p.from, as |-> session, result |-> "none"]}
  /\ request' = [request EXCEPT ![Company[session]][p.op] =
                   [state |-> "processing", as |-> session, result |-> "none"]]
  /\ UNCHANGED <<item, clock, run, session, journal, faults, switches>>

AdmitRequest(p) ==
  /\ session # NoOne
  /\ Stored(p).state = "none"
  /\ wire' = wire \ {p}
  /\ jobs' = jobs \cup {[op |-> p.op, from |-> p.from, as |-> session, result |-> "none"]}
  /\ request' = [request EXCEPT ![Company[session]][p.op] =
                   [state |-> "processing", as |-> session, result |-> "none"]]
  /\ UNCHANGED <<item, clock, run, session, journal, faults, switches>>

\* Mutant: the server trusts the client's own session check.
InScopeAlways(j) == TRUE

InScope(j) == j.as = Owner[j.op]

Finished(j, r) == jobs' = (jobs \ {j}) \cup {[j EXCEPT !.result = r]}

RefuseScope(j) ==
  /\ j.result = "none"
  /\ ~InScope(j)
  /\ Finished(j, "conflict")
  /\ UNCHANGED <<item, clock, run, session, wire, request, journal, faults, switches>>

PostVoucher(j) ==
  /\ j.result = "none"
  /\ InScope(j)
  /\ journal' = journal \cup {<<j.op, Company[j.as]>>}
  /\ Finished(j, "acknowledged")
  /\ UNCHANGED <<item, clock, run, session, wire, request, faults, switches>>

\* Validation and conflicts, or an error that rolls the transaction back.
FailVoucher(j) ==
  /\ j.result = "none"
  /\ InScope(j)
  /\ Fault
  /\ \E r \in {"conflict", "rejected"} \cup (IF ServerErrors THEN {"retry"} ELSE {}) : Finished(j, r)
  /\ UNCHANGED <<item, clock, run, session, wire, request, journal, switches>>

Respond(j) ==
  /\ j.result # "none"
  /\ jobs' = jobs \ {j}
  /\ IF j.from = NoOne THEN UNCHANGED run ELSE Answer(j.from, j.result)
  /\ UNCHANGED <<item, clock, session, wire, journal, switches>>

\* The finish event stores the response, whatever its status.
StoreResponse(j) ==
  /\ Respond(j)
  /\ request' = [request EXCEPT ![Company[j.as]][j.op] =
                   [@ EXCEPT !.state = "completed", !.result = j.result]]
  /\ UNCHANGED faults

\* The response is not stored: no finish event on a closed connection, or the
\* update fails.  The row stays in processing.
LoseResponse(j) == Respond(j) /\ Fault /\ UNCHANGED request

ServerRestart ==
  /\ jobs # {}
  /\ Fault
  /\ jobs' = {}
  /\ UNCHANGED <<item, clock, run, session, wire, request, journal, switches>>

-----------------------------------------------------------------------------
DeviceStep(o) ==
  \/ QueueOperation(o) \/ SpoilSavedBody(o) \/ BackoffEnds(o)
  \/ LeaseExpires(o) \/ LeaseOverrun(o)

TabStep(t) ==
  \/ StartRun(t) \/ ListCandidates(t) \/ ClaimNext(t) \/ StopRun(t) \/ SettleOperation(t)
  \/ Interrupted(t) \/ ConnectionLost(t) \/ CloseTab(t)

Serve(p) == Unauthenticated(p) \/ Replay(p) \/ RefuseReplay(p) \/ AdmitRequest(p)
Handle(j) == RefuseScope(j) \/ PostVoucher(j) \/ FailVoucher(j)
Finish(j) == StoreResponse(j) \/ LoseResponse(j)

Next ==
  \/ \E o \in Ops : DeviceStep(o)
  \/ \E t \in Tabs : TabStep(t)
  \/ \E a \in Actors \cup {NoOne} : SwitchSession(a)
  \/ \E p \in wire : Serve(p)
  \/ \E j \in jobs : Handle(j) \/ Finish(j)
  \/ ServerRestart

Spec == Init /\ [][Next]_vars

\* What goes on by itself: a run that started, leases and delays that elapse,
\* the server with the requests it reads.  No timer starts a run: reconnection,
\* the banner's retry button and the next capture do.
FairSpec ==
  /\ Spec
  /\ \A t \in Tabs : /\ WF_vars(ListCandidates(t))
                     /\ WF_vars(ClaimNext(t) \/ StopRun(t))
                     /\ WF_vars(SettleOperation(t))
                     /\ WF_vars(ConnectionLost(t))
  /\ \A o \in Ops : /\ WF_vars(BackoffEnds(o))
                    /\ WF_vars(LeaseExpires(o))
                    /\ WF_vars(\E j \in jobs : j.op = o /\ Handle(j))
                    /\ WF_vars(\E j \in jobs : j.op = o /\ Finish(j))
  /\ \A o \in Ops, t \in Tabs : WF_vars(\E p \in wire : p.op = o /\ p.from = t /\ Serve(p))

-----------------------------------------------------------------------------
(* Properties. *)

\* Every variable has the shape of the tables and calls it stands for.
TypeOK ==
  /\ item \in [Ops -> Row]
  /\ clock \in Nat
  /\ run \in [Tabs -> Run]
  /\ session \in Actors \cup {NoOne}
  /\ wire \subseteq Packet
  /\ jobs \subseteq Job
  /\ request \in [Companies -> [Ops -> Request]]
  /\ journal \subseteq Ops \X Companies
  /\ faults \in 0..MaxFaults
  /\ switches \in 0..MaxSwitches

Booked(o) == <<o, Company[Owner[o]]>> \in journal

\* An operation shown as acknowledged has its voucher in the ledger of the
\* company it was captured for (deliverOfflineOperations with
\* operationalVoucherBoundary, whose replays may come from another tab's call).
AcknowledgedIsBooked == \A o \in Ops : item[o].state = "acknowledged" => Booked(o)

\* No tab overtakes: at every moment the vouchers of one actor are booked up to
\* some point of that actor's queue, whichever tabs, retries, lost answers and
\* late requests booked them ("Never overtake it with a later business write").
BookedInQueueOrder == \A a, b \in Ops : Before(a, b) /\ Booked(b) => Booked(a)

\* A voucher is booked only in the company of the actor that captured it, even
\* when another tab switches the shared session while requests are on their way
\* (enforceOfflineOperationScope).  ImplementsSavedQueue says it of every step.
BookedForOwner == \A e \in journal : e[2] = Company[Owner[e[1]]]

\* A request whose voucher may still be posted finds none in the journal: the
\* boundary lets no retry, replay, second tab or late packet book it again,
\* whatever became of the request that booked it (claimRequest).
BookedOnce ==
  \A j \in jobs : j.result = "none" => <<j.op, Company[j.as]>> \notin journal

\* A settled operation never changes again: an answer that arrives after the
\* lease passed to another tab is not recorded (settleOperation).
SettledIsFinal ==
  [][\A o \in Ops : item[o].state \in Settled => item'[o].state = item[o].state]_vars

\* An operation of the queue up to o needs review, or depends on one that was
\* not captured before it: neither clears without a person.
Blocked(o) ==
  \E b \in Ops :
    /\ b = o \/ Before(b, o)
    /\ item[b].state \in Review \/ \E p \in Parents[b] : ~Before(p, b)

\* The server has stored a 5xx as the answer to an operation of the queue up to
\* o, and replays it to every retry.
ErrorStored(o) ==
  \E b \in Ops : /\ b = o \/ Before(b, o)
                 /\ request[Company[Owner[b]]][b].result = "retry"

\* The actor of o stays signed in, and runs keep being started.
Served(o) ==
  /\ <>[](session = Owner[o])
  /\ []<><<\E t \in Tabs : StartRun(t)>>_vars

Unsettled(o) == item[o].state \in {"pending", "sending"} /\ ~Blocked(o)

\* No operation stays unsettled for ever, unless its queue is blocked, however
\* its tab was closed or its answers were lost (deliverOfflineOperations).
\* Two conditions: something keeps starting runs, which no timer of the code
\* does; and no 5xx was stored for the queue, which is replayed for ever.
EverySavedSettles ==
  \A o \in Ops : Served(o) => []<>(~Unsettled(o) \/ ErrorStored(o))

\* The same without the second condition: a 5xx is retried until the operation
\* settles (requirement 4 of the plan of offline phase 1).
RetriesSettle ==
  \A o \in Ops : Served(o) => []<>~Unsettled(o)

-----------------------------------------------------------------------------
(* What the outbox and the boundary implement. *)

ShownOf(state) ==
  CASE state = "absent" -> "nothing"
    [] state \in {"pending", "sending"} -> "saved"
    [] state = "acknowledged" -> "acknowledged"
    [] state \in Review -> "review"

Queue == INSTANCE SavedQueue
  WITH shown <- [o \in Ops |-> ShownOf(item[o].state)],
       place <- [o \in Ops |-> item[o].createdAt],
       books <- journal

\* Seen from the device and the ledgers, the tabs, leases, retries, replays and
\* restarts are one queue: booked in order, after its dependencies, in its own
\* company, and shown as acknowledged only with the voucher in the books.
ImplementsSavedQueue == Queue!Spec

=============================================================================
