---------------------------- MODULE WriterFence ----------------------------
(***************************************************************************)
(* The Phase 7 writer fence between the cloud database and the factory LAN *)
(* database, and the handover of the write authority in both directions.   *)
(*                                                                         *)
(* Each database has one row phase7_writer.state.  A trigger on every      *)
(* business table compares it with the settings the session announced and  *)
(* holds a share lock on it until the transaction ends.  In front of the   *)
(* trigger stand gates that read the row, or only the process's own        *)
(* configuration, without a lock: their answer may be old by the time the  *)
(* transaction writes.  A process reads its configuration once, when it    *)
(* starts; a cloud instance that was forgotten keeps an old one.           *)
(*                                                                         *)
(* The steps of the DBA and of the operators follow the order of the       *)
(* runbook; what each of them can rely on is in the guard of its action.   *)
(***************************************************************************)
EXTENDS Integers

CONSTANTS
    CloudApps,     \* the processes of the ERP that work on the cloud database
    LanApp,        \* the one process of the ERP on the factory server
    RelaySettings, \* whether the relay's sessions announce the LAN's epoch
    MaxEpoch,      \* bound on the epochs the DBA opens
    MaxCaptures    \* bound on the business writes the LAN captures

ASSUME ConstantsAssumption ==
    /\ LanApp \notin CloudApps
    /\ RelaySettings \subseteq BOOLEAN
    /\ MaxEpoch \in Nat /\ MaxCaptures \in Nat

VARIABLES
    fence,      \* phase7_writer.state of each database: is it open, its epoch
    conf,       \* what each process read from its environment when it started
    tx,         \* how far the transaction of each process is
    captured,   \* business writes committed on the LAN, each with its evidence
    applied,    \* captured writes that the operators applied in the cloud
    receipted,  \* applied writes whose receipt is recorded on the LAN
    cleared,    \* the cloud epoch the last successful preflight was run for
    last        \* the last business commit of either database

vars == <<fence, conf, tx, captured, applied, receipted, cleared, last>>

Apps  == CloudApps \cup {LanApp}
Sites == {"cloud", "lan"}
SiteOf(a) == IF a = LanApp THEN "lan" ELSE "cloud"

\* "users" serves users and background jobs (cloud primary, LAN primary),
\* "apply" is a cloud instance fenced at HTTP that an operator applies with,
\* "closed" is the LAN's read-only mode.
Roles == {"users", "apply", "closed"}
TxStates == {"idle", "admitted", "writing"}

Opened(e) == [open |-> TRUE, epoch |-> e]
LanFrozen == conf[LanApp].role = "closed"
NewestEpoch(e) == \A s \in Sites : e > fence[s].epoch

Init ==
    /\ fence = [s \in Sites |-> IF s = "cloud" THEN Opened(1)
                                ELSE [open |-> FALSE, epoch |-> 0]]
    /\ conf = [a \in Apps |-> IF a = LanApp THEN [role |-> "closed", epoch |-> 0]
                              ELSE [role |-> "users", epoch |-> 1]]
    /\ tx = [a \in Apps |-> "idle"]
    /\ captured = 0 /\ applied = 0 /\ receipted = 0
    /\ cleared = 1
    /\ last = [site |-> "cloud", epoch |-> 0, role |-> "users", pending |-> 0]

-----------------------------------------------------------------------------
\* Transactions

\* Mutant: the trigger looks only at whether the database is open.
TriggerIgnoresEpoch(s, epoch) == fence[s].open

\* phase7_writer.assert_current_epoch: the comparison of the trigger.
TriggerAdmits(s, epoch) == fence[s].open /\ fence[s].epoch = epoch

\* The gate in front of a write.  A cloud process serving users looks at its
\* configuration only; the LAN and the apply read the database's row as well,
\* without locking it.
GateAdmits(a) ==
    /\ conf[a].role # "closed"
    /\ a = LanApp \/ conf[a].role = "apply" =>
           fence[SiteOf(a)].open /\ fence[SiteOf(a)].epoch = conf[a].epoch

Admit(a) ==
    /\ tx[a] = "idle" /\ GateAdmits(a)
    /\ tx' = [tx EXCEPT ![a] = "admitted"]
    /\ UNCHANGED <<fence, conf, captured, applied, receipted, cleared, last>>

\* The first statement of the transaction that writes: the trigger takes the
\* share lock, or refuses and the transaction ends.
BeginWrite(a) ==
    /\ tx[a] = "admitted"
    /\ tx' = [tx EXCEPT ![a] = IF TriggerAdmits(SiteOf(a), conf[a].epoch)
                               THEN "writing" ELSE "idle"]
    /\ UNCHANGED <<fence, conf, captured, applied, receipted, cleared, last>>

\* A LAN business write commits together with its evidence.
CommitCapture(a) ==
    /\ a = LanApp
    /\ captured < MaxCaptures /\ captured' = captured + 1
    /\ UNCHANGED applied

\* Mutant: the apply does not look for the row that was staged next.
CommitApplyUnstaged(a) ==
    /\ a # LanApp /\ conf[a].role = "apply"
    /\ applied < MaxCaptures /\ applied' = applied + 1
    /\ UNCHANGED captured

\* An apply books the next captured write; with none left it books nothing.
CommitApply(a) ==
    /\ a # LanApp /\ conf[a].role = "apply"
    /\ applied < captured /\ applied' = applied + 1
    /\ UNCHANGED captured

CommitUsers(a) ==
    /\ a # LanApp /\ conf[a].role = "users"
    /\ UNCHANGED <<captured, applied>>

Commit(a) ==
    /\ tx[a] = "writing"
    /\ CommitCapture(a) \/ CommitApply(a) \/ CommitUsers(a)
    /\ tx' = [tx EXCEPT ![a] = "idle"]
    /\ last' = [site |-> SiteOf(a), epoch |-> conf[a].epoch,
                role |-> conf[a].role, pending |-> captured - applied]
    /\ UNCHANGED <<fence, conf, receipted, cleared>>

\* A transaction fails, or its process dies and comes back with the same
\* environment.
Abort(a) ==
    /\ tx[a] # "idle"
    /\ tx' = [tx EXCEPT ![a] = "idle"]
    /\ UNCHANGED <<fence, conf, captured, applied, receipted, cleared, last>>

\* The relay stores one more receipt on the LAN, through its own session.  The
\* table is fenced too: a session that announces no epoch is refused.
RecordReceipt ==
    /\ receipted < applied
    /\ \E announces \in RelaySettings : announces /\ fence["lan"].open
    /\ receipted' = receipted + 1
    /\ UNCHANGED <<fence, conf, tx, captured, applied, cleared, last>>

-----------------------------------------------------------------------------
\* The DBA

\* Mutant: the trigger takes no lock, so the UPDATE overtakes open writers.
RowNeverLocked(s) == TRUE

\* An UPDATE of phase7_writer.state waits for the share locks of the
\* transactions that are writing.
RowFree(s) == \A a \in Apps : SiteOf(a) = s => tx[a] # "writing"

\* The database is fenced, by hand or by installing the fence again, which
\* keeps the epoch.
Fence(s) ==
    /\ fence[s].open /\ RowFree(s)
    /\ fence' = [fence EXCEPT ![s].open = FALSE]
    /\ UNCHANGED <<conf, tx, captured, applied, receipted, cleared, last>>

\* The LAN database is opened, under a new epoch, while the cloud is fenced.
OpenLan(e) ==
    /\ ~fence["cloud"].open
    /\ NewestEpoch(e) /\ RowFree("lan")
    /\ fence' = [fence EXCEPT !["lan"] = Opened(e)]
    /\ UNCHANGED <<conf, tx, captured, applied, receipted, cleared, last>>

\* The cloud database is opened, under a new epoch, once the LAN is frozen.
\* The LAN's row stays as it is.
OpenCloud(e) ==
    /\ LanFrozen
    /\ NewestEpoch(e) /\ RowFree("cloud")
    /\ fence' = [fence EXCEPT !["cloud"] = Opened(e)]
    /\ UNCHANGED <<conf, tx, captured, applied, receipted, cleared, last>>

-----------------------------------------------------------------------------
\* The operators: a process is stopped and started with another environment.
\* Its session and with it its transaction end.

Restart(a, role, epoch) ==
    /\ conf' = [conf EXCEPT ![a] = [role |-> role, epoch |-> epoch]]
    /\ tx' = [tx EXCEPT ![a] = "idle"]
    /\ UNCHANGED <<fence, captured, applied, receipted, cleared, last>>

\* Mutant: the server comes up with whatever epoch its database is open under.
LanPrimaryOldEpoch ==
    /\ ~fence["cloud"].open /\ fence["lan"].open
    /\ Restart(LanApp, "users", fence["lan"].epoch)

\* The factory server becomes primary with the epoch the DBA opened for this
\* outage, one newer than the fenced cloud's.  The handover leaves the LAN
\* database open under the epoch of the last outage; only the operators' order
\* keeps the server from coming up with that one.
LanPrimary ==
    /\ ~fence["cloud"].open /\ fence["lan"].open
    /\ fence["lan"].epoch > fence["cloud"].epoch
    /\ Restart(LanApp, "users", fence["lan"].epoch)

FreezeLan ==
    /\ conf[LanApp].role = "users"
    /\ Restart(LanApp, "closed", 0)

\* A cloud instance is started for the apply.  What the operator acknowledges
\* is that the LAN is frozen and the cloud's epoch approved.
StartApplyInstance(a) ==
    /\ LanFrozen /\ fence["cloud"].open
    /\ Restart(a, "apply", fence["cloud"].epoch)

\* Mutant: the preflight looks only at the receipts the cloud can still send.
PreflightOfApplied ==
    /\ LanFrozen /\ fence["cloud"].open
    /\ receipted = applied
    /\ cleared' = fence["cloud"].epoch
    /\ UNCHANGED <<fence, conf, tx, captured, applied, receipted, last>>

\* The preflight of the handover: every captured write has its receipt.
Preflight ==
    /\ LanFrozen /\ fence["cloud"].open
    /\ receipted = captured
    /\ cleared' = fence["cloud"].epoch
    /\ UNCHANGED <<fence, conf, tx, captured, applied, receipted, last>>

\* After the preflight the instances come back for users, one by one.  The
\* operators may still be at it when the authority moves again.
OpenToUsers(a) == Restart(a, "users", cleared)

-----------------------------------------------------------------------------
Next ==
    \/ \E a \in Apps : Admit(a) \/ BeginWrite(a) \/ Commit(a) \/ Abort(a)
    \/ RecordReceipt
    \/ \E s \in Sites : Fence(s)
    \/ \E e \in 1..MaxEpoch : OpenLan(e) \/ OpenCloud(e)
    \/ LanPrimary
    \/ FreezeLan
    \/ \E a \in CloudApps : StartApplyInstance(a) \/ OpenToUsers(a)
    \/ Preflight

Spec == Init /\ [][Next]_vars

-----------------------------------------------------------------------------
\* Properties

\* The variables have their types.  The cloud applies no write twice and none
\* that was not captured, and the LAN holds no receipt for one not applied.
TypeOK ==
    /\ fence \in [Sites -> [open : BOOLEAN, epoch : Nat]]
    /\ conf \in [Apps -> [role : Roles, epoch : Nat]]
    /\ tx \in [Apps -> TxStates]
    /\ captured \in Nat /\ applied \in 0..captured /\ receipted \in 0..applied
    /\ cleared \in Nat
    /\ last \in [site : Sites, epoch : Nat, role : Roles, pending : Int]

\* Exactly one database takes business writes at a time: no transaction of the
\* cloud is writing while one of the LAN is (runbook, section 1).  A gate that
\* answered before the authority moved must not help a late writer, and the
\* fence must not overtake the last transaction of the old one.
OneSiteWrites ==
    \A a \in CloudApps : ~(tx[a] = "writing" /\ tx[LanApp] = "writing")

\* The epochs of business commits never go back, and one epoch belongs to one
\* database: a stale instance, or a transaction admitted under an earlier
\* epoch, never commits after a write of a later one.
CommitsInEpochOrder ==
    [][last' # last =>
         \/ last'.epoch > last.epoch
         \/ last'.epoch = last.epoch /\ last'.site = last.site]_vars

\* When the cloud serves users again, every write the factory captured is in
\* its books: no user writes against stock and balances that miss some.
UsersWriteOnDrainedBooks ==
    last.site = "cloud" /\ last.role = "users" => last.pending = 0

-----------------------------------------------------------------------------
\* What the fence and the order of the steps implement

\* The authority belongs to the site whose row has the newer epoch.  The cloud
\* uses it as soon as its row is open, the LAN once its server is primary with
\* the row's epoch.
Holder == IF fence["cloud"].epoch > fence["lan"].epoch THEN "cloud" ELSE "lan"
InUse  == Holder = "lan" => ~LanFrozen /\ conf[LanApp].epoch = fence["lan"].epoch
TermInForce ==
    [site   |-> Holder,
     epoch  |-> fence[Holder].epoch,
     status |-> CASE ~fence[Holder].open -> "over"
                  [] fence[Holder].open /\ InUse -> "active"
                  [] fence[Holder].open /\ ~InUse -> "ready"]

Authority == INSTANCE WriteAuthority
    WITH term <- TermInForce, missing <- captured - applied

\* Whatever gates, sessions, instances with an old configuration and operators
\* do in which order, the two databases behave as one authority held in terms:
\* a write commits in the term that is in force when it commits, a term that is
\* over never writes again, and the cloud's users write with nothing missing.
ImplementsWriteAuthority == Authority!Spec
=============================================================================
