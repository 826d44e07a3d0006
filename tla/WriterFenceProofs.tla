------------------------- MODULE WriterFenceProofs -------------------------
(***************************************************************************)
(* Proofs about WriterFence, for any number of cloud instances and any     *)
(* bounds.  The inductive invariant says what the share lock gives         *)
(* (Locked), what the operators' order gives (Frozen, EpochOrder) and what *)
(* the preflight gives (Drained).                                          *)
(***************************************************************************)
EXTENDS WriterFence, TLAPS

\* Cloud instances serve users or applies, the factory server is primary or
\* read-only; one that is read-only has no transaction.
RolesOK ==
    /\ \A a \in CloudApps : conf[a].role # "closed"
    /\ conf[LanApp].role # "apply"
    /\ LanFrozen => tx[LanApp] = "idle"

\* A transaction that writes does so under the epoch in force.
Locked == \A a \in Apps :
    tx[a] = "writing" => TriggerAdmits(SiteOf(a), conf[a].epoch)

\* The cloud is open only while the factory server is read-only.
Frozen == fence["cloud"].open => LanFrozen

\* The database that may be written has the newer epoch.
EpochOrder ==
    /\ fence["cloud"].open => fence["cloud"].epoch > fence["lan"].epoch
    /\ ~LanFrozen => fence["lan"].epoch > fence["cloud"].epoch
    /\ last.epoch <= fence[last.site].epoch

\* A cloud epoch that users are let into had its preflight, and nothing was
\* captured since.
Drained ==
    /\ \A a \in CloudApps : conf[a].role = "users" => conf[a].epoch <= cleared
    /\ cleared <= fence["cloud"].epoch
    /\ fence["cloud"].open /\ cleared = fence["cloud"].epoch => applied = captured

IInv ==
    /\ TypeOK
    /\ RolesOK
    /\ Locked
    /\ Frozen
    /\ EpochOrder
    /\ Drained
    /\ UsersWriteOnDrainedBooks

-----------------------------------------------------------------------------
(* The sites are two databases, told apart by the process that uses them.  *)

LEMMA SiteFacts ==
    ASSUME NEW a \in Apps
    PROVE  /\ SiteOf(a) \in Sites
           /\ a = LanApp => SiteOf(a) = "lan"
           /\ a # LanApp => a \in CloudApps /\ SiteOf(a) = "cloud"
BY DEF SiteOf, Sites, Apps

LEMMA LanIsNoCloudApp ==
    /\ LanApp \in Apps
    /\ \A a \in CloudApps : a \in Apps /\ a # LanApp /\ SiteOf(a) = "cloud"
    /\ SiteOf(LanApp) = "lan"
BY ConstantsAssumption DEF SiteOf, Apps

-----------------------------------------------------------------------------
(* The invariant holds at the start and every step keeps it.               *)

LEMMA InitIInv == Init => IInv
<1> SUFFICES ASSUME Init PROVE IInv
    OBVIOUS
<1> USE ConstantsAssumption, LanIsNoCloudApp DEF Init
<1>1. TypeOK
    BY DEF TypeOK, Sites, Roles, TxStates, Opened
<1>2. RolesOK /\ Locked /\ Frozen
    BY DEF RolesOK, Locked, Frozen, LanFrozen
<1>3. EpochOrder /\ Drained /\ UsersWriteOnDrainedBooks
    BY DEF EpochOrder, Drained, UsersWriteOnDrainedBooks, LanFrozen, Sites, Opened
<1> QED
    BY <1>1, <1>2, <1>3 DEF IInv

LEMMA AdmitInv ==
    ASSUME IInv, NEW a \in Apps, Admit(a)
    PROVE  IInv'
<1> USE ConstantsAssumption, LanIsNoCloudApp DEF IInv
<1>1. TypeOK'
    BY DEF Admit, TypeOK, Sites, Roles, TxStates, GateAdmits
<1>2. RolesOK'
    BY DEF Admit, TypeOK, RolesOK, LanFrozen, GateAdmits
<1>3. Locked'
    BY SiteFacts DEF Admit, TypeOK, RolesOK, Locked, TriggerAdmits, LanFrozen, Sites, GateAdmits
<1>4. Frozen'
    BY DEF Admit, TypeOK, Frozen, LanFrozen, Sites, GateAdmits
<1>5. EpochOrder'
    BY DEF Admit, TypeOK, EpochOrder, Frozen, LanFrozen, Sites, GateAdmits
<1>6. Drained' /\ UsersWriteOnDrainedBooks'
    BY DEF Admit, TypeOK, Drained, UsersWriteOnDrainedBooks, RolesOK, Frozen, LanFrozen, Sites, GateAdmits
<1> QED
    BY <1>1, <1>2, <1>3, <1>4, <1>5, <1>6

LEMMA BeginWriteInv ==
    ASSUME IInv, NEW a \in Apps, BeginWrite(a)
    PROVE  IInv'
<1> USE ConstantsAssumption, LanIsNoCloudApp DEF IInv
<1>1. TypeOK'
    BY DEF BeginWrite, TypeOK, Sites, Roles, TxStates
<1>2. RolesOK'
    BY DEF BeginWrite, TypeOK, RolesOK, LanFrozen
<1>3. Locked'
    BY SiteFacts DEF BeginWrite, TypeOK, RolesOK, Locked, TriggerAdmits, LanFrozen, Sites
<1>4. Frozen'
    BY DEF BeginWrite, TypeOK, Frozen, LanFrozen, Sites
<1>5. EpochOrder'
    BY DEF BeginWrite, TypeOK, EpochOrder, Frozen, LanFrozen, Sites
<1>6. Drained' /\ UsersWriteOnDrainedBooks'
    BY DEF BeginWrite, TypeOK, Drained, UsersWriteOnDrainedBooks, RolesOK, Frozen, LanFrozen, Sites
<1> QED
    BY <1>1, <1>2, <1>3, <1>4, <1>5, <1>6

\* What a commit writes under: the epoch in force on its database, which is
\* the newest that anything was committed under, and of a read-write server.
LEMMA CommitEpoch ==
    ASSUME IInv, NEW a \in Apps, tx[a] = "writing"
    PROVE  /\ fence[SiteOf(a)].open /\ fence[SiteOf(a)].epoch = conf[a].epoch
           /\ \/ conf[a].epoch > last.epoch
              \/ conf[a].epoch = last.epoch /\ SiteOf(a) = last.site
           /\ a = LanApp => ~LanFrozen /\ ~fence["cloud"].open
<1> USE ConstantsAssumption, LanIsNoCloudApp, SiteFacts DEF IInv
<1>1. fence[SiteOf(a)].open /\ fence[SiteOf(a)].epoch = conf[a].epoch
    BY DEF Locked, TriggerAdmits
<1>2. a = LanApp => ~LanFrozen /\ ~fence["cloud"].open
    BY DEF RolesOK, Frozen
<1>3. last.site \in Sites /\ last.epoch \in Nat /\ \A s \in Sites : fence[s].epoch \in Nat
    BY DEF TypeOK
<1>4. conf[a].epoch > last.epoch \/ (conf[a].epoch = last.epoch /\ SiteOf(a) = last.site)
    <2>1. CASE SiteOf(a) = last.site
        BY <1>1, <1>3, <2>1 DEF EpochOrder
    <2>2. CASE SiteOf(a) = "cloud" /\ last.site = "lan"
        BY <1>1, <1>3, <2>2 DEF EpochOrder, Sites
    <2>3. CASE SiteOf(a) = "lan" /\ last.site = "cloud"
        BY <1>1, <1>2, <1>3, <2>3 DEF EpochOrder, Sites
    <2> QED
        BY <1>3, <2>1, <2>2, <2>3 DEF Sites
<1> QED
    BY <1>1, <1>2, <1>4

LEMMA CommitInv ==
    ASSUME IInv, NEW a \in Apps, Commit(a)
    PROVE  IInv'
<1> USE ConstantsAssumption, LanIsNoCloudApp DEF IInv
<1> DEFINE entry == [site |-> SiteOf(a), epoch |-> conf[a].epoch,
                     role |-> conf[a].role, pending |-> captured - applied]
<1>1. /\ tx[a] = "writing" /\ tx' = [tx EXCEPT ![a] = "idle"]
      /\ last' = entry
      /\ fence' = fence /\ conf' = conf /\ receipted' = receipted /\ cleared' = cleared
      /\ CommitCapture(a) \/ CommitApply(a) \/ CommitUsers(a)
    BY DEF Commit
<1>2. /\ fence[SiteOf(a)].open /\ fence[SiteOf(a)].epoch = conf[a].epoch
      /\ a = LanApp => ~fence["cloud"].open
    BY <1>1, CommitEpoch
<1>3. conf[a] \in [role : Roles, epoch : Nat] /\ SiteOf(a) \in Sites
    BY SiteFacts DEF TypeOK
<1>4. TypeOK'
    <2>1. last' \in [site : Sites, epoch : Nat, role : Roles, pending : Int]
        BY <1>1, <1>3 DEF TypeOK
    <2>2. captured' \in Nat /\ applied' \in 0..captured' /\ receipted' \in 0..applied'
        BY <1>1 DEF TypeOK, CommitCapture, CommitApply, CommitUsers
    <2> QED
        BY <1>1, <2>1, <2>2 DEF TypeOK, TxStates
<1>5. RolesOK' /\ Locked' /\ Frozen'
    BY <1>1 DEF TypeOK, RolesOK, Locked, TriggerAdmits, Frozen, LanFrozen
<1>6. EpochOrder'
    <2>1. last'.site = SiteOf(a) /\ last'.epoch = conf[a].epoch
        BY <1>1
    <2>2. last'.epoch <= fence[last'.site].epoch
        BY <1>2, <1>3, <2>1
    <2> QED
        BY <1>1, <2>2 DEF EpochOrder, LanFrozen
<1>7. Drained'
    BY <1>1, <1>2 DEF TypeOK, Drained, CommitCapture, CommitApply, CommitUsers
<1>8. UsersWriteOnDrainedBooks'
    <2>1. SUFFICES ASSUME SiteOf(a) = "cloud", conf[a].role = "users"
                   PROVE  captured - applied = 0
        BY <1>1 DEF UsersWriteOnDrainedBooks
    <2>2. a \in CloudApps
        BY <2>1, SiteFacts
    <2>3. conf[a].epoch <= cleared /\ cleared <= conf[a].epoch /\ fence["cloud"].open
        BY <1>2, <2>1, <2>2 DEF Drained
    <2>4. cleared \in Nat /\ conf[a].epoch \in Nat /\ fence["cloud"].epoch = conf[a].epoch
        BY <1>2, <1>3, <2>1 DEF TypeOK
    <2>5. cleared = fence["cloud"].epoch
        BY <2>3, <2>4
    <2>6. applied = captured
        BY <2>3, <2>5 DEF Drained
    <2> QED
        BY <2>6 DEF TypeOK
<1> QED
    BY <1>4, <1>5, <1>6, <1>7, <1>8

LEMMA AbortInv ==
    ASSUME IInv, NEW a \in Apps, Abort(a)
    PROVE  IInv'
<1> USE ConstantsAssumption, LanIsNoCloudApp DEF IInv
<1>1. TypeOK'
    BY DEF Abort, TypeOK, Sites, Roles, TxStates
<1>2. RolesOK'
    BY DEF Abort, TypeOK, RolesOK, LanFrozen
<1>3. Locked'
    BY SiteFacts DEF Abort, TypeOK, RolesOK, Locked, TriggerAdmits, LanFrozen, Sites
<1>4. Frozen'
    BY DEF Abort, TypeOK, Frozen, LanFrozen, Sites
<1>5. EpochOrder'
    BY DEF Abort, TypeOK, EpochOrder, Frozen, LanFrozen, Sites
<1>6. Drained' /\ UsersWriteOnDrainedBooks'
    BY DEF Abort, TypeOK, Drained, UsersWriteOnDrainedBooks, RolesOK, Frozen, LanFrozen, Sites
<1> QED
    BY <1>1, <1>2, <1>3, <1>4, <1>5, <1>6

LEMMA RecordReceiptInv ==
    ASSUME IInv, RecordReceipt
    PROVE  IInv'
<1> USE ConstantsAssumption, LanIsNoCloudApp DEF IInv
<1>1. TypeOK'
    BY DEF RecordReceipt, TypeOK, Sites, Roles, TxStates
<1>2. RolesOK'
    BY DEF RecordReceipt, TypeOK, RolesOK, LanFrozen
<1>3. Locked'
    BY SiteFacts DEF RecordReceipt, TypeOK, RolesOK, Locked, TriggerAdmits, LanFrozen, Sites
<1>4. Frozen'
    BY DEF RecordReceipt, TypeOK, Frozen, LanFrozen, Sites
<1>5. EpochOrder'
    BY DEF RecordReceipt, TypeOK, EpochOrder, Frozen, LanFrozen, Sites
<1>6. Drained' /\ UsersWriteOnDrainedBooks'
    BY DEF RecordReceipt, TypeOK, Drained, UsersWriteOnDrainedBooks, RolesOK, Frozen, LanFrozen, Sites
<1> QED
    BY <1>1, <1>2, <1>3, <1>4, <1>5, <1>6

LEMMA FenceInv ==
    ASSUME IInv, NEW s \in Sites, Fence(s)
    PROVE  IInv'
<1> USE ConstantsAssumption, LanIsNoCloudApp DEF IInv
<1>1. TypeOK'
  <2>1. fence' \in [Sites -> [open : BOOLEAN, epoch : Nat]]
    <3>0. fence[s] \in [open : BOOLEAN, epoch : Nat]
        BY DEF TypeOK
    <3>1. [fence[s] EXCEPT !.open = FALSE] \in [open : BOOLEAN, epoch : Nat]
        BY <3>0
    <3>2. fence' = [fence EXCEPT ![s] = [fence[s] EXCEPT !.open = FALSE]]
        BY DEF Fence, TypeOK
    <3> QED
        BY <3>1, <3>2 DEF TypeOK
  <2> QED
      BY <2>1 DEF Fence, TypeOK
<1>2. RolesOK'
    BY DEF Fence, TypeOK, RolesOK, LanFrozen, RowFree
<1>3. Locked'
    BY SiteFacts DEF Fence, TypeOK, RolesOK, Locked, TriggerAdmits, LanFrozen, Sites, RowFree
<1>4. Frozen'
    BY DEF Fence, TypeOK, Frozen, LanFrozen, Sites, RowFree
<1>5. EpochOrder'
    BY DEF Fence, TypeOK, EpochOrder, Frozen, LanFrozen, Sites, RowFree
<1>6. Drained' /\ UsersWriteOnDrainedBooks'
    BY DEF Fence, TypeOK, Drained, UsersWriteOnDrainedBooks, RolesOK, Frozen, LanFrozen, Sites, RowFree
<1> QED
    BY <1>1, <1>2, <1>3, <1>4, <1>5, <1>6

LEMMA OpenLanInv ==
    ASSUME IInv, NEW e \in 1..MaxEpoch, OpenLan(e)
    PROVE  IInv'
<1> USE ConstantsAssumption, LanIsNoCloudApp DEF IInv
<1>1. TypeOK'
    BY DEF OpenLan, TypeOK, Sites, Roles, TxStates, RowFree, NewestEpoch, Opened
<1>2. RolesOK'
    BY DEF OpenLan, TypeOK, RolesOK, LanFrozen, RowFree, NewestEpoch, Opened
<1>3. Locked'
    BY SiteFacts DEF OpenLan, TypeOK, RolesOK, Locked, TriggerAdmits, LanFrozen, Sites, RowFree, NewestEpoch, Opened
<1>4. Frozen'
    BY DEF OpenLan, TypeOK, Frozen, LanFrozen, Sites, RowFree, NewestEpoch, Opened
<1>5. EpochOrder'
    BY DEF OpenLan, TypeOK, EpochOrder, Frozen, LanFrozen, Sites, RowFree, NewestEpoch, Opened
<1>6. Drained' /\ UsersWriteOnDrainedBooks'
    BY DEF OpenLan, TypeOK, Drained, UsersWriteOnDrainedBooks, RolesOK, Frozen, LanFrozen, Sites, RowFree, NewestEpoch, Opened
<1> QED
    BY <1>1, <1>2, <1>3, <1>4, <1>5, <1>6

LEMMA OpenCloudInv ==
    ASSUME IInv, NEW e \in 1..MaxEpoch, OpenCloud(e)
    PROVE  IInv'
<1> USE ConstantsAssumption, LanIsNoCloudApp DEF IInv
<1>1. TypeOK'
    BY DEF OpenCloud, TypeOK, Sites, Roles, TxStates, RowFree, NewestEpoch, Opened
<1>2. RolesOK'
    BY DEF OpenCloud, TypeOK, RolesOK, LanFrozen, RowFree, NewestEpoch, Opened
<1>3. Locked'
    BY SiteFacts DEF OpenCloud, TypeOK, RolesOK, Locked, TriggerAdmits, LanFrozen, Sites, RowFree, NewestEpoch, Opened
<1>4. Frozen'
    BY DEF OpenCloud, TypeOK, Frozen, LanFrozen, Sites, RowFree, NewestEpoch, Opened
<1>5. EpochOrder'
    BY DEF OpenCloud, TypeOK, EpochOrder, Frozen, LanFrozen, Sites, RowFree, NewestEpoch, Opened
<1>6. Drained' /\ UsersWriteOnDrainedBooks'
    BY DEF OpenCloud, TypeOK, Drained, UsersWriteOnDrainedBooks, RolesOK, Frozen, LanFrozen, Sites, RowFree, NewestEpoch, Opened
<1> QED
    BY <1>1, <1>2, <1>3, <1>4, <1>5, <1>6

LEMMA LanPrimaryInv ==
    ASSUME IInv, LanPrimary
    PROVE  IInv'
<1> USE ConstantsAssumption, LanIsNoCloudApp DEF IInv
<1>1. TypeOK'
    BY DEF LanPrimary, TypeOK, Sites, Roles, TxStates, Restart
<1>2. RolesOK'
    BY DEF LanPrimary, TypeOK, RolesOK, LanFrozen, Restart
<1>3. Locked'
    BY SiteFacts DEF LanPrimary, TypeOK, RolesOK, Locked, TriggerAdmits, LanFrozen, Sites, Restart
<1>4. Frozen'
    BY DEF LanPrimary, TypeOK, Frozen, LanFrozen, Sites, Restart
<1>5. EpochOrder'
    BY DEF LanPrimary, TypeOK, EpochOrder, Frozen, LanFrozen, Sites, Restart
<1>6. Drained' /\ UsersWriteOnDrainedBooks'
    BY DEF LanPrimary, TypeOK, Drained, UsersWriteOnDrainedBooks, RolesOK, Frozen, LanFrozen, Sites, Restart
<1> QED
    BY <1>1, <1>2, <1>3, <1>4, <1>5, <1>6

LEMMA FreezeLanInv ==
    ASSUME IInv, FreezeLan
    PROVE  IInv'
<1> USE ConstantsAssumption, LanIsNoCloudApp DEF IInv
<1>1. TypeOK'
    BY DEF FreezeLan, TypeOK, Sites, Roles, TxStates, Restart
<1>2. RolesOK'
    BY DEF FreezeLan, TypeOK, RolesOK, LanFrozen, Restart
<1>3. Locked'
    BY SiteFacts DEF FreezeLan, TypeOK, RolesOK, Locked, TriggerAdmits, LanFrozen, Sites, Restart
<1>4. Frozen'
    BY DEF FreezeLan, TypeOK, Frozen, LanFrozen, Sites, Restart
<1>5. EpochOrder'
    BY DEF FreezeLan, TypeOK, EpochOrder, Frozen, LanFrozen, Sites, Restart
<1>6. Drained' /\ UsersWriteOnDrainedBooks'
    BY DEF FreezeLan, TypeOK, Drained, UsersWriteOnDrainedBooks, RolesOK, Frozen, LanFrozen, Sites, Restart
<1> QED
    BY <1>1, <1>2, <1>3, <1>4, <1>5, <1>6

LEMMA StartApplyInstanceInv ==
    ASSUME IInv, NEW a \in CloudApps, StartApplyInstance(a)
    PROVE  IInv'
<1> USE ConstantsAssumption, LanIsNoCloudApp DEF IInv
<1>1. TypeOK'
    BY DEF StartApplyInstance, TypeOK, Sites, Roles, TxStates, Restart
<1>2. RolesOK'
    BY DEF StartApplyInstance, TypeOK, RolesOK, LanFrozen, Restart
<1>3. Locked'
    BY SiteFacts DEF StartApplyInstance, TypeOK, RolesOK, Locked, TriggerAdmits, LanFrozen, Sites, Restart
<1>4. Frozen'
    BY DEF StartApplyInstance, TypeOK, Frozen, LanFrozen, Sites, Restart
<1>5. EpochOrder'
    BY DEF StartApplyInstance, TypeOK, EpochOrder, Frozen, LanFrozen, Sites, Restart
<1>6. Drained' /\ UsersWriteOnDrainedBooks'
    BY DEF StartApplyInstance, TypeOK, Drained, UsersWriteOnDrainedBooks, RolesOK, Frozen, LanFrozen, Sites, Restart
<1> QED
    BY <1>1, <1>2, <1>3, <1>4, <1>5, <1>6

LEMMA OpenToUsersInv ==
    ASSUME IInv, NEW a \in CloudApps, OpenToUsers(a)
    PROVE  IInv'
<1> USE ConstantsAssumption, LanIsNoCloudApp DEF IInv
<1>1. TypeOK'
    BY DEF OpenToUsers, TypeOK, Sites, Roles, TxStates, Restart
<1>2. RolesOK'
    BY DEF OpenToUsers, TypeOK, RolesOK, LanFrozen, Restart
<1>3. Locked'
    BY SiteFacts DEF OpenToUsers, TypeOK, RolesOK, Locked, TriggerAdmits, LanFrozen, Sites, Restart
<1>4. Frozen'
    BY DEF OpenToUsers, TypeOK, Frozen, LanFrozen, Sites, Restart
<1>5. EpochOrder'
    BY DEF OpenToUsers, TypeOK, EpochOrder, Frozen, LanFrozen, Sites, Restart
<1>6. Drained' /\ UsersWriteOnDrainedBooks'
    BY DEF OpenToUsers, TypeOK, Drained, UsersWriteOnDrainedBooks, RolesOK, Frozen, LanFrozen, Sites, Restart
<1> QED
    BY <1>1, <1>2, <1>3, <1>4, <1>5, <1>6

LEMMA PreflightInv ==
    ASSUME IInv, Preflight
    PROVE  IInv'
<1> USE ConstantsAssumption, LanIsNoCloudApp DEF IInv
<1>1. TypeOK'
    BY DEF Preflight, TypeOK, Sites, Roles, TxStates
<1>2. RolesOK'
    BY DEF Preflight, TypeOK, RolesOK, LanFrozen
<1>3. Locked'
    BY SiteFacts DEF Preflight, TypeOK, RolesOK, Locked, TriggerAdmits, LanFrozen, Sites
<1>4. Frozen'
    BY DEF Preflight, TypeOK, Frozen, LanFrozen, Sites
<1>5. EpochOrder'
    BY DEF Preflight, TypeOK, EpochOrder, Frozen, LanFrozen, Sites
<1>6. Drained' /\ UsersWriteOnDrainedBooks'
    BY DEF Preflight, TypeOK, Drained, UsersWriteOnDrainedBooks, RolesOK, Frozen, LanFrozen, Sites
<1> QED
    BY <1>1, <1>2, <1>3, <1>4, <1>5, <1>6

-----------------------------------------------------------------------------
(* The theorems.                                                           *)

LEMMA NextIInv == IInv /\ [Next]_vars => IInv'
<1> SUFFICES ASSUME IInv, [Next]_vars PROVE IInv'
    OBVIOUS
<1>1. CASE \E a \in Apps : Admit(a) \/ BeginWrite(a) \/ Commit(a) \/ Abort(a)
    BY <1>1, AdmitInv, BeginWriteInv, CommitInv, AbortInv
<1>2. CASE RecordReceipt
    BY <1>2, RecordReceiptInv
<1>3. CASE \E s \in Sites : Fence(s)
    BY <1>3, FenceInv
<1>4. CASE \E e \in 1..MaxEpoch : OpenLan(e) \/ OpenCloud(e)
    BY <1>4, OpenLanInv, OpenCloudInv
<1>5. CASE LanPrimary \/ FreezeLan \/ Preflight
    BY <1>5, LanPrimaryInv, FreezeLanInv, PreflightInv
<1>6. CASE \E a \in CloudApps : StartApplyInstance(a) \/ OpenToUsers(a)
    BY <1>6, StartApplyInstanceInv, OpenToUsersInv
<1>7. CASE UNCHANGED vars
    BY <1>7 DEF vars, IInv, TypeOK, RolesOK, Locked, TriggerAdmits, Frozen,
                EpochOrder, Drained, UsersWriteOnDrainedBooks, LanFrozen
<1> QED
    BY <1>1, <1>2, <1>3, <1>4, <1>5, <1>6, <1>7 DEF Next

\* The inductive invariant holds in every reachable state.
THEOREM Invariance == Spec => []IInv
<1> QED
    BY InitIInv, NextIInv, PTL DEF Spec

\* The variables keep their types; no write is applied that was not captured.
THEOREM TypeCorrect == Spec => []TypeOK
<1>1. IInv => TypeOK
    BY DEF IInv
<1> QED
    BY <1>1, Invariance, PTL

\* While a transaction of the cloud writes, none of the LAN does: the trigger's
\* share lock keeps both databases' rows as the transactions found them, and
\* the operators never have both open with the factory server primary.
THEOREM OneWritingSite == Spec => []OneSiteWrites
<1>1. IInv => OneSiteWrites
    <2> SUFFICES ASSUME IInv, NEW a \in CloudApps,
                        tx[a] = "writing", tx[LanApp] = "writing"
                 PROVE  FALSE
        BY DEF OneSiteWrites
    <2>1. fence["cloud"].open
        BY CommitEpoch, LanIsNoCloudApp
    <2>2. ~fence["cloud"].open
        BY CommitEpoch, LanIsNoCloudApp
    <2> QED
        BY <2>1, <2>2
<1> QED
    BY <1>1, Invariance, PTL

\* Users of the cloud only write when every captured write is in its books.
THEOREM DrainedBeforeUsers == Spec => []UsersWriteOnDrainedBooks
<1>1. IInv => UsersWriteOnDrainedBooks
    BY DEF IInv
<1> QED
    BY <1>1, Invariance, PTL

\* Business commits follow the order of the epochs, and one epoch is never
\* used by both databases: no stale instance commits after its time.
THEOREM EpochsInOrder == Spec => CommitsInEpochOrder
<1> DEFINE Ordered == last' # last =>
                        \/ last'.epoch > last.epoch
                        \/ last'.epoch = last.epoch /\ last'.site = last.site
<1>1. ASSUME IInv, [Next]_vars
      PROVE  [Ordered]_vars
    <2>1. ASSUME NEW a \in Apps, Commit(a)
          PROVE  Ordered
        <3>1. tx[a] = "writing" /\ last'.epoch = conf[a].epoch /\ last'.site = SiteOf(a)
            BY <2>1 DEF Commit
        <3> QED
            BY <1>1, <3>1, CommitEpoch
    <2>2. (\A a \in Apps : ~Commit(a)) => last' = last
        BY <1>1 DEF Next, vars, Admit, BeginWrite, Abort, RecordReceipt, Fence, OpenLan,
                    OpenCloud, LanPrimary, FreezeLan, StartApplyInstance, OpenToUsers,
                    Restart, Preflight
    <2> QED
        BY <2>1, <2>2
<1> QED
    BY <1>1, Invariance, PTL DEF Spec, CommitsInEpochOrder

-----------------------------------------------------------------------------
(* The refinement of WriteAuthority.                                       *)

LEMMA TermFacts ==
    ASSUME IInv
    PROVE  /\ Holder \in Sites
           /\ fence[Holder].epoch \in Nat
           /\ \A s \in Sites : fence[s].epoch <= fence[Holder].epoch
           /\ TermInForce \in Authority!Terms
<1> USE DEF IInv, TypeOK
<1>1. Holder \in Sites
    BY DEF Holder, Sites
<1>2. \A s \in Sites : fence[s].epoch \in Nat /\ fence[s].open \in BOOLEAN
    OBVIOUS
<1>3. \A s \in Sites : fence[s].epoch <= fence[Holder].epoch
    BY <1>2 DEF Holder, Sites
<1>4. TermInForce.status \in Authority!Statuses
    BY <1>1, <1>2 DEF TermInForce, Authority!Statuses
<1>5. TermInForce \in Authority!Terms
    BY <1>1, <1>2, <1>4 DEF TermInForce, Authority!Terms, Authority!Sites, Sites, Authority!Statuses
<1> QED
    BY <1>1, <1>2, <1>3, <1>5

\* A step that neither moves a row nor restarts the factory server leaves the
\* term in force as it is.
LEMMA TermKept ==
    ASSUME fence' = fence, conf'[LanApp] = conf[LanApp]
    PROVE  TermInForce' = TermInForce
BY DEF TermInForce, Holder, InUse, LanFrozen

\* A transaction that is writing does so in the term in force.
LEMMA WriterInTerm ==
    ASSUME IInv, NEW a \in Apps, tx[a] = "writing"
    PROVE  /\ TermInForce.status = "active"
           /\ TermInForce.site = SiteOf(a)
           /\ TermInForce.epoch = conf[a].epoch
<1> USE ConstantsAssumption, LanIsNoCloudApp, SiteFacts
<1>1. /\ fence[SiteOf(a)].open /\ fence[SiteOf(a)].epoch = conf[a].epoch
      /\ a = LanApp => ~LanFrozen
    BY CommitEpoch
<1>2. \A s \in Sites : fence[s].epoch \in Nat
    BY DEF IInv, TypeOK
<1>3. Holder = SiteOf(a)
    <2>1. CASE a = LanApp
        BY <1>1, <1>2, <2>1 DEF IInv, EpochOrder, Holder, Sites
    <2>2. CASE a # LanApp
        BY <1>1, <1>2, <2>2 DEF IInv, EpochOrder, Holder, Sites
    <2> QED
        BY <2>1, <2>2
<1>4. InUse
    BY <1>1, <1>3 DEF InUse
<1> QED
    BY <1>1, <1>3, <1>4 DEF TermInForce

LEMMA CommitRefines ==
    ASSUME IInv, NEW a \in Apps, Commit(a)
    PROVE  Authority!Capture \/ Authority!Apply \/ Authority!Serve
<1> USE ConstantsAssumption, LanIsNoCloudApp, SiteFacts
<1>1. /\ tx[a] = "writing"
      /\ last' = [site |-> SiteOf(a), epoch |-> conf[a].epoch,
                  role |-> conf[a].role, pending |-> captured - applied]
      /\ fence' = fence /\ conf' = conf
    BY DEF Commit
<1>2. TermInForce' = TermInForce
    BY <1>1, TermKept
<1>3. /\ TermInForce.status = "active"
      /\ TermInForce.site = SiteOf(a)
      /\ TermInForce.epoch = conf[a].epoch
    BY <1>1, WriterInTerm
<1>4. Authority!Write(SiteOf(a), conf[a].role)
    BY <1>1, <1>2, <1>3 DEF Authority!Write
<1>5. captured \in Nat /\ applied \in Nat
    BY DEF IInv, TypeOK
<1>6. CASE CommitCapture(a)
    <2>1. conf[a].role = "users"
        BY <1>1, <1>6 DEF CommitCapture, IInv, TypeOK, RolesOK, LanFrozen, Roles
    <2>2. (captured - applied)' = (captured - applied) + 1
        BY <1>5, <1>6 DEF CommitCapture
    <2>3. SiteOf(a) = "lan"
        BY <1>6 DEF CommitCapture
    <2> QED
        BY <1>4, <2>1, <2>2, <2>3 DEF Authority!Capture
<1>7. CASE CommitApply(a)
    <2>1. captured - applied > 0 /\ (captured - applied)' = (captured - applied) - 1
        BY <1>5, <1>7 DEF CommitApply
    <2>2. SiteOf(a) = "cloud" /\ conf[a].role = "apply"
        BY <1>7 DEF CommitApply
    <2> QED
        BY <1>4, <2>1, <2>2 DEF Authority!Apply
<1>8. CASE CommitUsers(a)
    <2>1. SiteOf(a) = "cloud" /\ conf[a].role = "users"
        BY <1>8 DEF CommitUsers
    <2>2. IInv'
        BY CommitInv
    <2>3. last'.site = "cloud" /\ last'.role = "users" /\ last'.pending = captured - applied
        BY <1>1, <2>1
    <2>4. captured - applied = 0
        BY <2>2, <2>3 DEF IInv, UsersWriteOnDrainedBooks
    <2>5. (captured - applied)' = captured - applied
        BY <1>8 DEF CommitUsers
    <2> QED
        BY <1>4, <2>1, <2>4, <2>5 DEF Authority!Serve
<1> QED
    BY <1>6, <1>7, <1>8 DEF Commit

\* Fencing a database ends its term when that is the one in force.
LEMMA FenceRefines ==
    ASSUME IInv, NEW s \in Sites, Fence(s)
    PROVE  Authority!End \/ UNCHANGED Authority!vars
<1>1. /\ fence[s].open /\ fence' = [fence EXCEPT ![s].open = FALSE]
      /\ conf' = conf /\ last' = last /\ (captured - applied)' = captured - applied
    BY DEF Fence
<1>2. fence \in [Sites -> [open : BOOLEAN, epoch : Nat]]
    BY DEF IInv, TypeOK
<1>3. /\ \A r \in Sites : fence'[r].epoch = fence[r].epoch
      /\ \A r \in Sites : r # s => fence'[r] = fence[r]
      /\ fence'[s].open = FALSE
    BY <1>1, <1>2
<1>4. Holder' = Holder /\ InUse' = InUse /\ Holder \in Sites
    BY <1>1, <1>3, TermFacts DEF Holder, InUse, LanFrozen, Sites
<1>5. CASE s = Holder
    <2>1. TermInForce.status \in {"ready", "active"}
        BY <1>1, <1>5 DEF TermInForce
    <2>2. TermInForce' = [TermInForce EXCEPT !.status = "over"]
        BY <1>3, <1>4, <1>5 DEF TermInForce
    <2> QED
        BY <1>1, <2>1, <2>2 DEF Authority!End, Authority!Turn
<1>6. CASE s # Holder
    <2>1. fence'[Holder] = fence[Holder]
        BY <1>3, <1>4, <1>6
    <2>2. TermInForce' = TermInForce
        BY <1>4, <2>1 DEF TermInForce
    <2> QED
        BY <1>1, <2>2 DEF Authority!vars
<1> QED
    BY <1>5, <1>6

\* A database that is opened under the newest epoch begins a term; the other
\* one's is over by then, or its server is read-only.
LEMMA OpenRefines ==
    ASSUME IInv, NEW e \in 1..MaxEpoch, OpenLan(e) \/ OpenCloud(e)
    PROVE  Authority!Grant
<1> USE ConstantsAssumption
<1>1. PICK s \in Sites :
          /\ fence' = [fence EXCEPT ![s] = Opened(e)]
          /\ \A r \in Sites : e > fence[r].epoch
          /\ s = "lan" => ~fence["cloud"].open
          /\ s = "cloud" => LanFrozen
    BY DEF OpenLan, OpenCloud, NewestEpoch, Sites
<1>2. conf' = conf /\ last' = last /\ (captured - applied)' = captured - applied
    BY DEF OpenLan, OpenCloud
<1>3. fence \in [Sites -> [open : BOOLEAN, epoch : Nat]]
    BY DEF IInv, TypeOK
<1>4. /\ fence'[s].open = TRUE /\ fence'[s].epoch = e
      /\ \A r \in Sites : r # s => fence'[r] = fence[r]
    BY <1>1, <1>3 DEF Opened
<1>5. e \in Nat /\ \A r \in Sites : fence[r].epoch \in Nat
    BY <1>3
<1>6. Holder' = s
    BY <1>1, <1>4, <1>5 DEF Holder, Sites
<1>7. TermInForce'.site = s /\ TermInForce'.epoch = e /\ TermInForce'.status \in {"ready", "active"}
    BY <1>4, <1>6 DEF TermInForce
<1>8. TermInForce' \in Authority!Terms
    BY <1>5, <1>7 DEF TermInForce, Authority!Terms, Authority!Sites, Authority!Statuses, Sites
<1>9. TermInForce.epoch < e
    BY <1>1, <1>5, TermFacts DEF TermInForce
<1>10. TermInForce.status = "active" => s = TermInForce.site
    <2>1. TermInForce.site = Holder /\ Holder \in Sites
        BY TermFacts DEF TermInForce
    <2>2. CASE s = "lan" /\ Holder = "cloud"
        BY <1>1, <2>2 DEF TermInForce
    <2>3. CASE s = "cloud" /\ Holder = "lan"
        BY <1>1, <2>3 DEF TermInForce, InUse
    <2> QED
        BY <2>1, <2>2, <2>3 DEF Sites
<1> QED
    BY <1>2, <1>5, <1>7, <1>8, <1>9, <1>10, TermFacts DEF Authority!Grant, TermInForce

\* The factory server takes up the term its database was opened for.
LEMMA LanPrimaryRefines ==
    ASSUME IInv, LanPrimary
    PROVE  Authority!Start \/ UNCHANGED Authority!vars
<1> USE ConstantsAssumption, LanIsNoCloudApp
<1>1. /\ fence["lan"].open /\ fence["lan"].epoch > fence["cloud"].epoch
      /\ conf' = [conf EXCEPT ![LanApp] = [role |-> "users", epoch |-> fence["lan"].epoch]]
      /\ fence' = fence /\ last' = last /\ (captured - applied)' = captured - applied
    BY DEF LanPrimary, Restart
<1>2. \A s \in Sites : fence[s].epoch \in Nat
    BY DEF IInv, TypeOK
<1>3. conf'[LanApp] = [role |-> "users", epoch |-> fence["lan"].epoch]
    BY <1>1 DEF IInv, TypeOK
<1>4. Holder = "lan" /\ Holder' = "lan" /\ InUse'
    BY <1>1, <1>2, <1>3 DEF Holder, InUse, LanFrozen, Sites
<1>5. TermInForce' = [TermInForce EXCEPT !.status = "active"]
    BY <1>1, <1>4 DEF TermInForce
<1>6. TermInForce.status \in {"ready", "active"}
    BY <1>1, <1>4 DEF TermInForce
<1>7. CASE TermInForce.status = "ready"
    BY <1>1, <1>5, <1>7 DEF Authority!Start, Authority!Turn
<1>8. CASE TermInForce.status = "active"
    <2>1. TermInForce' = TermInForce
        BY <1>5, <1>8 DEF TermInForce
    <2> QED
        BY <1>1, <2>1 DEF Authority!vars
<1> QED
    BY <1>6, <1>7, <1>8

\* A server that goes read-only lays the term down; it can take it up again.
LEMMA FreezeLanRefines ==
    ASSUME IInv, FreezeLan
    PROVE  Authority!Stop \/ UNCHANGED Authority!vars
<1> USE ConstantsAssumption, LanIsNoCloudApp
<1>1. /\ conf[LanApp].role = "users"
      /\ conf' = [conf EXCEPT ![LanApp] = [role |-> "closed", epoch |-> 0]]
      /\ fence' = fence /\ last' = last /\ (captured - applied)' = captured - applied
    BY DEF FreezeLan, Restart
<1>2. \A s \in Sites : fence[s].epoch \in Nat
    BY DEF IInv, TypeOK
<1>3. conf'[LanApp].role = "closed"
    BY <1>1 DEF IInv, TypeOK
<1>4. Holder = "lan" /\ Holder' = "lan" /\ ~InUse'
    BY <1>1, <1>2, <1>3 DEF Holder, InUse, LanFrozen, Sites, IInv, EpochOrder
<1>5. CASE TermInForce.status = "active"
    <2>1. fence["lan"].open
        BY <1>4, <1>5 DEF TermInForce
    <2>2. TermInForce' = [TermInForce EXCEPT !.status = "ready"]
        BY <1>1, <1>4, <2>1 DEF TermInForce
    <2> QED
        BY <1>1, <1>5, <2>2 DEF Authority!Stop, Authority!Turn
<1>6. CASE TermInForce.status # "active"
    <2>1. ~fence["lan"].open \/ ~InUse
        BY <1>4, <1>6 DEF TermInForce
    <2>2. TermInForce' = TermInForce
        BY <1>1, <1>4, <2>1 DEF TermInForce
    <2> QED
        BY <1>1, <2>2 DEF Authority!vars
<1> QED
    BY <1>5, <1>6

LEMMA OthersStutter ==
    ASSUME IInv,
           \/ \E a \in Apps : Admit(a) \/ BeginWrite(a) \/ Abort(a)
           \/ RecordReceipt \/ Preflight
           \/ \E a \in CloudApps : StartApplyInstance(a) \/ OpenToUsers(a)
    PROVE  UNCHANGED Authority!vars
<1> USE ConstantsAssumption, LanIsNoCloudApp
<1>1. fence' = fence /\ last' = last /\ (captured - applied)' = captured - applied
    BY DEF Admit, BeginWrite, Abort, RecordReceipt, Preflight, StartApplyInstance,
           OpenToUsers, Restart
<1>2. conf'[LanApp] = conf[LanApp]
    <2>1. CASE \E a \in CloudApps : StartApplyInstance(a) \/ OpenToUsers(a)
        BY <2>1 DEF StartApplyInstance, OpenToUsers, Restart, IInv, TypeOK
    <2>2. CASE ~\E a \in CloudApps : StartApplyInstance(a) \/ OpenToUsers(a)
        BY <2>2 DEF Admit, BeginWrite, Abort, RecordReceipt, Preflight
    <2> QED
        BY <2>1, <2>2
<1> QED
    BY <1>1, <1>2, TermKept DEF Authority!vars

\* The two databases behave as one authority held in terms.
THEOREM OneAuthority == Spec => ImplementsWriteAuthority
<1>1. Init => Authority!Init
    <2> SUFFICES ASSUME Init PROVE Authority!Init
        OBVIOUS
    <2>1. /\ fence["cloud"] = [open |-> TRUE, epoch |-> 1]
          /\ fence["lan"] = [open |-> FALSE, epoch |-> 0]
        BY DEF Init, Sites, Opened
    <2>2. Holder = "cloud"
        BY <2>1 DEF Holder
    <2>3. TermInForce = [site |-> "cloud", epoch |-> 1, status |-> "active"]
        BY <2>1, <2>2 DEF TermInForce, InUse
    <2> QED
        BY <2>3 DEF Init, Authority!Init
<1>2. IInv /\ [Next]_vars => [Authority!Next]_(Authority!vars)
    <2> SUFFICES ASSUME IInv, [Next]_vars
                 PROVE  Authority!Next \/ UNCHANGED Authority!vars
        OBVIOUS
    <2>1. CASE \E a \in Apps : Commit(a)
        BY <2>1, CommitRefines DEF Authority!Next
    <2>2. CASE \E s \in Sites : Fence(s)
        BY <2>2, FenceRefines DEF Authority!Next
    <2>3. CASE \E e \in 1..MaxEpoch : OpenLan(e) \/ OpenCloud(e)
        BY <2>3, OpenRefines DEF Authority!Next
    <2>4. CASE LanPrimary \/ FreezeLan
        BY <2>4, LanPrimaryRefines, FreezeLanRefines DEF Authority!Next
    <2>5. CASE \/ \E a \in Apps : Admit(a) \/ BeginWrite(a) \/ Abort(a)
               \/ RecordReceipt \/ Preflight
               \/ \E a \in CloudApps : StartApplyInstance(a) \/ OpenToUsers(a)
        BY <2>5, OthersStutter
    <2>6. CASE UNCHANGED vars
        BY <2>6, TermKept DEF vars, Authority!vars
    <2> QED
        BY <2>1, <2>2, <2>3, <2>4, <2>5, <2>6 DEF Next
<1> QED
    BY <1>1, <1>2, Invariance, PTL DEF Spec, ImplementsWriteAuthority, Authority!Spec
=============================================================================
