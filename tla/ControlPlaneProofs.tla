------------------------- MODULE ControlPlaneProofs -------------------------
(***************************************************************************)
(* The safety of domains' rows and the refinement of SendingGate, for any  *)
(* domains and mailboxes, any number of workers and of crashes, and any    *)
(* set of requests.                                                        *)
(*                                                                         *)
(* Nine steps write what the gate shows; everything else leaves it alone   *)
(* and leaves provisioning jobs alone (the *Leaves lemmas).  For each of   *)
(* the nine one lemma (the *Safe lemmas) shows that it keeps the invariant *)
(* and that it is a step of the gate.                                      *)
(***************************************************************************)
EXTENDS ControlPlaneTypes

---------------------------------------------------------------------------
(* What a step may do to rows, and to jobs that provision or are on        *)
(* addresses.                                                              *)

\* Every provisioning job after the step was there before it.
LeavesProvisioning ==
  \A v \in Workers : job'[v].pc \in ProvisionPC => job'[v] = job[v]

\* So was every job on an address.
LeavesAddressJobs ==
  \A v \in Workers : job'[v].pc \in AddressPC => job'[v] = job[v]

LeavesJobs == LeavesProvisioning /\ LeavesAddressJobs

\* Mailboxes, forwarders and lists are left alone, and no account comes or
\* goes.
LeavesAddresses ==
  /\ UNCHANGED <<mailbox, alias, mailing_list>>
  /\ \A m \in Mailboxes : account[m] = "none" <=> account'[m] = "none"

\* The rows that the gate shows are left alone.
LeavesGate == UNCHANGED <<tenant, domain>>

\* A function that returns or raises makes no such job.
LEMMA FinishLeaves ==
  ASSUME TypeOK, NEW w \in Workers, NEW result, Finish(w, result)
  PROVE  LeavesProvisioning /\ LeavesAddressJobs
<1>1. LeavesProvisioning
  BY DEF TypeOK, Finish, Idle, LeavesProvisioning, ProvisionPC
<1>2. LeavesAddressJobs
  BY DEF TypeOK, Finish, Idle, LeavesAddressJobs, AddressPC
<1> QED
  BY <1>1, <1>2

\* Nor does a worker that takes up another job.
LEMMA ReplaceLeaves ==
  ASSUME TypeOK, NEW w \in Workers, NEW next,
         job' = [job EXCEPT ![w] = next]
  PROVE  /\ next.pc \notin ProvisionPC => LeavesProvisioning
         /\ next.pc \notin AddressPC => LeavesAddressJobs
  BY DEF TypeOK, LeavesProvisioning, LeavesAddressJobs

\* Nor one that goes on to a step of another kind.
LEMMA GotoLeaves ==
  ASSUME TypeOK, NEW w \in Workers, NEW pc, Goto(w, pc)
  PROVE  /\ pc \notin ProvisionPC => LeavesProvisioning
         /\ pc \notin AddressPC => LeavesAddressJobs
  BY DEF TypeOK, Job, JobRecord, Goto, LeavesProvisioning, LeavesAddressJobs

\* Nor one that goes on so, with a list of accounts to write.
LEMMA EditLeaves ==
  ASSUME TypeOK, NEW w \in Workers, NEW pc, NEW todo,
         job' = [job EXCEPT ![w].pc = pc, ![w].todo = todo]
  PROVE  /\ pc \notin ProvisionPC => LeavesProvisioning
         /\ pc \notin AddressPC => LeavesAddressJobs
  BY DEF TypeOK, Job, JobRecord, LeavesProvisioning, LeavesAddressJobs

\* Nor a reactivation that decides whether a check follows.
LEMMA RecheckLeaves ==
  ASSUME TypeOK, NEW w \in Workers, NEW recheck,
         job' = [job EXCEPT ![w].pc = "reactivate_list",
                            ![w].recheck = @ /\ recheck]
  PROVE  LeavesProvisioning /\ LeavesAddressJobs
<1>1. "reactivate_list" \notin ProvisionPC \cup AddressPC
  BY DEF ProvisionPC, AddressPC
<1> QED
  BY <1>1 DEF TypeOK, Job, JobRecord, LeavesProvisioning, LeavesAddressJobs

\* Writing permissions makes no account and removes none.
LEMMA WriteKeepsAccounts ==
  ASSUME TypeOK, NEW m, NEW p \in Permissions,
         WritePermissions(m, p) \/ WriteFails(m, p)
  PROVE  \A x \in Mailboxes : account[x] = "none" <=> account'[x] = "none"
  BY DEF TypeOK, WritePermissions, WriteFails, Permissions

\* A readiness check does nothing to provisioning jobs, to addresses and
\* their jobs, or to the backend's domains, and only its commit writes what
\* the gate shows.
LEMMA ReadinessLeaves ==
  ASSUME TypeOK, NEW w \in Workers, ReadinessBegin(w) \/ ReadinessStep(w)
  PROVE  /\ LeavesJobs /\ LeavesAddresses
         /\ UNCHANGED backend_domain
         /\ LeavesGate \/ CheckCommit(w)
<1> DEFINE Goal == /\ LeavesJobs /\ LeavesAddresses
                   /\ UNCHANGED backend_domain
                   /\ LeavesGate \/ CheckCommit(w)
<1> USE DEF rows, addresses, backend, control, LeavesGate, LeavesAddresses,
            LeavesJobs
<1>1. ASSUME NEW d \in Domains, CheckBegin(w, d) PROVE Goal
  BY <1>1
  DEF CheckBegin, CheckRead, Idle, LeavesProvisioning, LeavesAddressJobs,
      ProvisionPC, AddressPC, TypeOK
<1>2. CASE CheckReadAgain(w)
  BY <1>2
  DEF CheckReadAgain, CheckRead, At, Idle, LeavesProvisioning,
      LeavesAddressJobs, ProvisionPC, AddressPC, TypeOK
<1>3. CASE CheckInspect(w)
  BY <1>3
  DEF CheckInspect, At, LeavesProvisioning, LeavesAddressJobs,
      ProvisionPC, AddressPC, TypeOK
<1>4. ASSUME NEW m \in Mailboxes, CheckWrite(w, m) PROVE Goal
  BY <1>4, WriteKeepsAccounts, JobTarget
  DEF CheckWrite, At, LeavesProvisioning, LeavesAddressJobs,
      ProvisionPC, AddressPC, TypeOK
<1>5. ASSUME NEW m \in Mailboxes, CheckWriteFails(w, m) PROVE Goal
  BY <1>5, WriteKeepsAccounts, JobTarget
  DEF CheckWriteFails, At, LeavesProvisioning, LeavesAddressJobs,
      ProvisionPC, AddressPC, TypeOK
<1>6. CASE CheckSynced(w)
  BY <1>6
  DEF CheckSynced, Goto, At, LeavesProvisioning, LeavesAddressJobs,
      ProvisionPC, AddressPC, TypeOK
<1>7. CASE CheckCommit(w)
  BY <1>7, FinishLeaves
  DEF CheckCommit, At
<1> QED
  BY <1>1, <1>2, <1>3, <1>4, <1>5, <1>6, <1>7
  DEF ReadinessBegin, ReadinessStep

\* Suspending or reactivating a domain does nothing to them either, and only
\* the two commits write what the gate shows.
LEMMA SuspensionLeaves ==
  ASSUME TypeOK, NEW w \in Workers, SuspensionBegin(w) \/ SuspensionStep(w)
  PROVE  /\ LeavesJobs /\ LeavesAddresses
         /\ UNCHANGED backend_domain
         /\ LeavesGate \/ SuspendCommit(w) \/ ReactivateCommit(w)
<1> DEFINE Goal == /\ LeavesJobs /\ LeavesAddresses
                   /\ UNCHANGED backend_domain
                   /\ LeavesGate \/ SuspendCommit(w) \/ ReactivateCommit(w)
<1> USE DEF rows, addresses, backend, control, LeavesGate, LeavesAddresses,
            LeavesJobs
<1>1. ASSUME NEW d \in Domains, SuspendBegin(w, d) PROVE Goal
  BY <1>1
  DEF SuspendBegin, Idle, LeavesProvisioning, LeavesAddressJobs,
      ProvisionPC, AddressPC, TypeOK
<1>2. ASSUME NEW d \in Domains, ReactivateBegin(w, d) PROVE Goal
  BY <1>2
  DEF ReactivateBegin, Idle, LeavesProvisioning, LeavesAddressJobs,
      ProvisionPC, AddressPC, TypeOK
<1>3. CASE SuspendRead(w)
  <2>1. LeavesJobs
    <3>1. \A pc \in {"suspend_set"} : pc \notin ProvisionPC \cup AddressPC
      BY DEF ProvisionPC, AddressPC
    <3> QED BY <1>3, <3>1, FinishLeaves, EditLeaves DEF SuspendRead
  <2> QED BY <1>3, <2>1 DEF SuspendRead
<1>4. ASSUME NEW m \in Mailboxes, SuspendWrite(w, m) PROVE Goal
  BY <1>4, WriteKeepsAccounts
  DEF SuspendWrite, Permissions, At, LeavesProvisioning, LeavesAddressJobs,
      ProvisionPC, AddressPC, TypeOK
<1>5. ASSUME NEW m \in Mailboxes, SuspendWriteFails(w, m) PROVE Goal
  BY <1>5, WriteKeepsAccounts
  DEF SuspendWriteFails, Permissions, At, LeavesProvisioning, LeavesAddressJobs,
      ProvisionPC, AddressPC, TypeOK
<1>6. CASE SuspendListed(w)
  BY <1>6
  DEF SuspendListed, Goto, At, LeavesProvisioning, LeavesAddressJobs,
      ProvisionPC, AddressPC, TypeOK
<1>7. CASE SuspendCommit(w)
  BY <1>7, FinishLeaves
  DEF SuspendCommit, At
<1>8. CASE ReactivateRead(w)
  <2>1. LeavesJobs
    <3>1. \A pc \in {"reactivate_list"} : pc \notin ProvisionPC \cup AddressPC
      BY DEF ProvisionPC, AddressPC
    <3> QED BY <1>8, <3>1, FinishLeaves, RecheckLeaves DEF ReactivateRead
  <2> QED BY <1>8, <2>1 DEF ReactivateRead
<1>9. CASE ReactivateList(w)
  BY <1>9
  DEF ReactivateList, At, LeavesProvisioning, LeavesAddressJobs,
      ProvisionPC, AddressPC, TypeOK
<1>10. ASSUME NEW m \in Mailboxes, ReactivateWrite(w, m) PROVE Goal
  BY <1>10, WriteKeepsAccounts
  DEF ReactivateWrite, Permissions, At, LeavesProvisioning, LeavesAddressJobs,
      ProvisionPC, AddressPC, TypeOK
<1>11. ASSUME NEW m \in Mailboxes, ReactivateWriteFails(w, m) PROVE Goal
  BY <1>11, WriteKeepsAccounts
  DEF ReactivateWriteFails, Permissions, At, LeavesProvisioning, LeavesAddressJobs,
      ProvisionPC, AddressPC, TypeOK
<1>12. CASE ReactivateListed(w)
  <2>1. LeavesJobs
    <3>1. \A pc \in {"reactivate_commit", "reactivate_rollback"} :
             pc \notin ProvisionPC \cup AddressPC
      BY DEF ProvisionPC, AddressPC
    <3> QED BY <1>12, <3>1, GotoLeaves, EditLeaves DEF ReactivateListed
  <2> QED BY <1>12, <2>1 DEF ReactivateListed
<1>13. ASSUME NEW m \in Mailboxes, ReactivateUndo(w, m) PROVE Goal
  BY <1>13, WriteKeepsAccounts
  DEF ReactivateUndo, Permissions, At, LeavesProvisioning, LeavesAddressJobs,
      ProvisionPC, AddressPC, TypeOK
<1>14. CASE ReactivateUndone(w)
  BY <1>14, FinishLeaves
  DEF ReactivateUndone, At
<1>15. CASE ReactivateCommit(w)
  <2>1. LeavesJobs
    <3>1. \A pc \in {"check_read"} : pc \notin ProvisionPC \cup AddressPC
      BY DEF ProvisionPC, AddressPC
    <3> QED BY <1>15, <3>1, GotoLeaves, FinishLeaves DEF ReactivateCommit
  <2> QED BY <1>15, <2>1 DEF ReactivateCommit
<1> QED
  BY <1>1, <1>2, <1>3, <1>4, <1>5, <1>6, <1>7, <1>8, <1>9, <1>10, <1>11,
      <1>12, <1>13, <1>14, <1>15
  DEF SuspensionBegin, SuspensionStep

\* Nor does a loop over an organization, whose own writes are those of the
\* organization's status.
LEMMA TenantLeaves ==
  ASSUME TypeOK, NEW w \in Workers, TenantBegin(w) \/ TenantStep(w)
  PROVE  /\ LeavesJobs /\ LeavesAddresses
         /\ UNCHANGED backend_domain
         /\ LeavesGate \/ SuspendTenant(w) \/ ReactivateTenantCommit(w)
<1> DEFINE Goal == /\ LeavesJobs /\ LeavesAddresses
                   /\ UNCHANGED backend_domain
                   /\ \/ LeavesGate
                      \/ SuspendTenant(w) \/ ReactivateTenantCommit(w)
<1> USE DEF rows, addresses, backend, control, LeavesGate, LeavesAddresses,
            LeavesJobs
<1>1. CASE SuspendTenant(w)
  BY <1>1
  DEF SuspendTenant, Loop, LeavesProvisioning, LeavesAddressJobs,
      ProvisionPC, AddressPC, TypeOK
<1>2. CASE ReactivateTenantBegin(w)
  BY <1>2
  DEF ReactivateTenantBegin, Loop, LeavesProvisioning, LeavesAddressJobs,
      ProvisionPC, AddressPC, TypeOK
<1>3. ASSUME NEW d \in Domains, LoopCall(w, d) PROVE Goal
  <2> DEFINE next == [Idle EXCEPT !.pc = EntryPoint[frame[w].pc], !.dom = d]
  <2>1. next.pc \notin ProvisionPC \cup AddressPC
    BY <1>3 DEF LoopCall, EntryPoint, Idle, ProvisionPC, AddressPC
  <2>2. LeavesJobs
    <3>1. job' = [job EXCEPT ![w] = next]
      BY <1>3 DEF LoopCall
    <3> HIDE DEF next
    <3> QED BY <2>1, <3>1, ReplaceLeaves
  <2> QED BY <1>3, <2>2 DEF LoopCall
<1>4. CASE LoopReturn(w)
  BY <1>4
  DEF LoopReturn, Idle, At, LeavesProvisioning, LeavesAddressJobs,
      ProvisionPC, AddressPC, TypeOK
<1>5. CASE LoopReturnToUser(w)
  BY <1>5
  DEF LoopReturnToUser, LeavesProvisioning, LeavesAddressJobs,
      ProvisionPC, AddressPC, TypeOK
<1>6. CASE ReactivateTenantList(w)
  BY <1>6
  DEF ReactivateTenantList, Loop, LeavesProvisioning, LeavesAddressJobs,
      ProvisionPC, AddressPC, TypeOK
<1>7. CASE ReactivateTenantLoopEnd(w)
  BY <1>7
  DEF ReactivateTenantLoopEnd, Loop, LeavesProvisioning, LeavesAddressJobs,
      ProvisionPC, AddressPC, TypeOK
<1>8. CASE ReactivateTenantCommit(w)
  BY <1>8
  DEF ReactivateTenantCommit, Loop, LeavesProvisioning, LeavesAddressJobs,
      ProvisionPC, AddressPC, TypeOK
<1>9. CASE ReactivateTenantRecheck(w)
  BY <1>9
  DEF ReactivateTenantRecheck, Loop, LeavesProvisioning, LeavesAddressJobs,
      ProvisionPC, AddressPC, TypeOK
<1> QED
  BY <1>1, <1>2, <1>3, <1>4, <1>5, <1>6, <1>7, <1>8, <1>9
  DEF TenantBegin, TenantStep

\* An operation on a mailbox does nothing to a provisioning job or to the
\* backend's domains, and writes nothing that the gate shows.
LEMMA MailboxLeaves ==
  ASSUME TypeOK, NEW w \in Workers, MailboxBegin(w) \/ MailboxStep(w)
  PROVE  /\ LeavesProvisioning
         /\ UNCHANGED backend_domain
         /\ LeavesGate
<1> DEFINE Goal == /\ LeavesProvisioning
                   /\ UNCHANGED backend_domain
                   /\ LeavesGate
<1> USE DEF rows, addresses, backend, control, LeavesGate
<1>1. ASSUME NEW m \in Mailboxes, ProvisionMailboxBegin(w, m) PROVE Goal
  BY <1>1
  DEF ProvisionMailboxBegin, MailboxJob, Idle, LeavesProvisioning,
      ProvisionPC, TypeOK
<1>2. ASSUME NEW m \in Mailboxes, SuspendMailboxBegin(w, m) PROVE Goal
  BY <1>2
  DEF SuspendMailboxBegin, MailboxJob, Idle, LeavesProvisioning, ProvisionPC,
      TypeOK
<1>3. ASSUME NEW m \in Mailboxes, ReactivateMailboxBegin(w, m) PROVE Goal
  BY <1>3
  DEF ReactivateMailboxBegin, MailboxJob, Idle, LeavesProvisioning,
      ProvisionPC, TypeOK
<1>4. ASSUME NEW m \in Mailboxes, DeleteMailboxBegin(w, m) PROVE Goal
  BY <1>4
  DEF DeleteMailboxBegin, MailboxJob, Idle, LeavesProvisioning, ProvisionPC,
      TypeOK
<1>5. CASE MailboxReserve(w)
  <2>1. LeavesProvisioning
    <3>1. \A pc \in {"mailbox_create"} : pc \notin ProvisionPC
      BY DEF ProvisionPC
    <3> QED BY <1>5, <3>1, GotoLeaves, FinishLeaves DEF MailboxReserve
  <2> QED BY <1>5, <2>1 DEF MailboxReserve
<1>6. CASE MailboxCreate(w)
  BY <1>6
  DEF MailboxCreate, Goto, At, LeavesProvisioning, ProvisionPC, TypeOK
<1>7. CASE MailboxCreateFails(w)
  BY <1>7
  DEF MailboxCreateFails, Goto, At, LeavesProvisioning, ProvisionPC, TypeOK
<1>8. CASE MailboxDiscard(w)
  BY <1>8, FinishLeaves
  DEF MailboxDiscard, At
<1>9. CASE MailboxSave(w)
  BY <1>9, FinishLeaves
  DEF MailboxSave, At
<1>10. CASE MailboxWrite(w)
  BY <1>10
  DEF MailboxWrite, Goto, WritesPermissions, SavePC, At, LeavesProvisioning,
      ProvisionPC, TypeOK
<1>11. CASE MailboxWriteFails(w)
  BY <1>11, FinishLeaves
  DEF MailboxWriteFails, WritesPermissions, At
<1>12. CASE MailboxDestroy(w)
  BY <1>12
  DEF MailboxDestroy, Goto, At, LeavesProvisioning, ProvisionPC, TypeOK
<1>13. CASE MailboxDestroyFails(w)
  BY <1>13, FinishLeaves
  DEF MailboxDestroyFails, At
<1>14. CASE MailboxSuspendSave(w)
  BY <1>14, FinishLeaves
  DEF MailboxSuspendSave, At
<1>15. CASE MailboxReactivateSave(w)
  BY <1>15, FinishLeaves
  DEF MailboxReactivateSave, At
<1>16. CASE MailboxDeleteSave(w)
  BY <1>16, FinishLeaves
  DEF MailboxDeleteSave, At
<1> QED
  BY <1>1, <1>2, <1>3, <1>4, <1>5, <1>6, <1>7, <1>8, <1>9, <1>10, <1>11,
      <1>12, <1>13, <1>14, <1>15, <1>16
  DEF MailboxBegin, MailboxStep

\* Nor does an operation on a forwarder.
LEMMA ForwarderLeaves ==
  ASSUME TypeOK, NEW w \in Workers, ForwarderBegin(w) \/ ForwarderStep(w)
  PROVE  /\ LeavesProvisioning
         /\ UNCHANGED backend_domain
         /\ LeavesGate
<1> DEFINE Goal == /\ LeavesProvisioning
                   /\ UNCHANGED backend_domain
                   /\ LeavesGate
<1> USE DEF rows, addresses, backend, control, LeavesGate
<1>1. ASSUME NEW m \in Mailboxes, NEW to \in Destinations,
             ProvisionForwarderBegin(w, m, to)
      PROVE  Goal
  BY <1>1
  DEF ProvisionForwarderBegin, ForwarderJob, Idle, LeavesProvisioning,
      ProvisionPC, TypeOK
<1>2. ASSUME NEW m \in Mailboxes, NEW to \in Destinations,
             UpdateForwarderBegin(w, m, to)
      PROVE  Goal
  BY <1>2
  DEF UpdateForwarderBegin, ForwarderJob, Idle, LeavesProvisioning,
      ProvisionPC, TypeOK
<1>3. ASSUME NEW m \in Mailboxes, DeleteForwarderBegin(w, m) PROVE Goal
  BY <1>3
  DEF DeleteForwarderBegin, ForwarderJob, Idle, LeavesProvisioning,
      ProvisionPC, TypeOK
<1>4. CASE ForwarderReserve(w)
  <2>1. LeavesProvisioning
    <3>1. \A pc \in {"forwarder_create"} : pc \notin ProvisionPC
      BY DEF ProvisionPC
    <3> QED BY <1>4, <3>1, GotoLeaves, FinishLeaves DEF ForwarderReserve
  <2> QED BY <1>4, <2>1 DEF ForwarderReserve
<1>5. CASE ForwarderCreate(w)
  BY <1>5
  DEF ForwarderCreate, Goto, At, LeavesProvisioning, ProvisionPC, TypeOK
<1>6. CASE ForwarderCreateFails(w)
  BY <1>6
  DEF ForwarderCreateFails, Goto, At, LeavesProvisioning, ProvisionPC, TypeOK
<1>7. CASE ForwarderDiscard(w)
  BY <1>7, FinishLeaves
  DEF ForwarderDiscard, At
<1>8. CASE ForwarderSave(w)
  BY <1>8, FinishLeaves
  DEF ForwarderSave, At
<1>9. CASE ForwarderUpdate(w)
  BY <1>9
  DEF ForwarderUpdate, Goto, At, LeavesProvisioning, ProvisionPC, TypeOK
<1>10. CASE ForwarderDestroy(w)
  BY <1>10
  DEF ForwarderDestroy, Goto, At, LeavesProvisioning, ProvisionPC, TypeOK
<1>11. CASE ForwarderChangeFails(w)
  BY <1>11, FinishLeaves
  DEF ForwarderChangeFails, At
<1>12. CASE ForwarderUpdateSave(w)
  BY <1>12, FinishLeaves
  DEF ForwarderUpdateSave, At
<1>13. CASE ForwarderDeleteSave(w)
  BY <1>13, FinishLeaves
  DEF ForwarderDeleteSave, At
<1> QED
  BY <1>1, <1>2, <1>3, <1>4, <1>5, <1>6, <1>7, <1>8, <1>9, <1>10, <1>11,
      <1>12, <1>13
  DEF ForwarderBegin, ForwarderStep

\* Nor does a worker that dies.
LEMMA CrashLeaves ==
  ASSUME TypeOK, NEW w \in Workers, Crash(w)
  PROVE  LeavesJobs /\ LeavesAddresses /\ UNCHANGED backend_domain /\ LeavesGate
<1>1. LeavesJobs
  BY DEF Crash, TypeOK, Idle, LeavesJobs, LeavesProvisioning,
         LeavesAddressJobs, ProvisionPC, AddressPC
<1> QED
  BY <1>1 DEF Crash, rows, addresses, backend, LeavesAddresses, LeavesGate

---------------------------------------------------------------------------
(* The steps that write what the gate shows: they keep the rows safe, and  *)
(* each is a step of the gate.                                             *)

RowsSafe == SuspendedNeverSends /\ SendingIsEstablished

\* Verification and the backend's domains are never taken back.
NothingTakenBack ==
  \A d \in Domains : /\ domain[d].verified => domain'[d].verified
                     /\ backend_domain[d] => backend_domain'[d]

GateStep == Gate!GateNext \/ UNCHANGED Gate!gateVars

\* What an UPDATE of a row's permission to send and status leaves.
LEMMA RowWritten ==
  ASSUME TypeOK, NEW d \in Domains, NEW able, NEW status,
         domain' = [domain EXCEPT ![d].sending_enabled = able,
                                  ![d].status = status]
  PROVE  /\ domain'[d].sending_enabled = able
         /\ domain'[d].status = status
         /\ domain'[d].verified = domain[d].verified
         /\ domain'[d].backend_identifier = domain[d].backend_identifier
         /\ \A e \in Domains \ {d} : domain'[e] = domain[e]
  BY DEF TypeOK, DomainRow

\* A job keeps what it knows as long as nothing is taken back.
LEMMA ProvisioningKept ==
  ASSUME Inv, LeavesProvisioning, NothingTakenBack
  PROVE  ProvisioningKnowsBackend'
<1>1. SUFFICES ASSUME NEW v \in Workers, job'[v].pc \in ProvisionPC
               PROVE  /\ domain'[job'[v].dom].verified
                      /\ At(v, "provision_commit")' =>
                            backend_domain'[job'[v].dom]
  BY DEF ProvisioningKnowsBackend, At, ProvisionPC
<1>2. job'[v] = job[v]
  BY <1>1 DEF LeavesProvisioning
<1>3. job[v].dom \in Domains
  BY <1>1, <1>2, BusyJobHasDomain DEF Inv, At, ProvisionPC
<1> QED
  BY <1>1, <1>2, <1>3 DEF Inv, ProvisioningKnowsBackend, NothingTakenBack, At

\* check_domain_dns enables a domain only if it finds it verified,
\* provisioned and not suspended under the lock, whatever it read before.
LEMMA CheckCommitSafe ==
  ASSUME Inv, NEW w \in Workers, CheckCommit(w)
  PROVE  /\ RowsSafe'
         /\ NothingTakenBack
         /\ GateStep
<1>1. PICK d \in Domains : d = job[w].dom
  BY BusyJobHasDomain DEF Inv, CheckCommit, At
<1> DEFINE able == CanSend(w, d)
           status == StatusAfterCheck(w, d)
<1>2. domain' = [domain EXCEPT ![d].sending_enabled = able,
                               ![d].status = status]
  BY <1>1 DEF CheckCommit
<1>3. /\ domain'[d].sending_enabled = able
      /\ domain'[d].status = status
      /\ domain'[d].verified = domain[d].verified
      /\ domain'[d].backend_identifier = domain[d].backend_identifier
      /\ \A e \in Domains \ {d} : domain'[e] = domain[e]
  <2> HIDE DEF able, status
  <2> QED BY <1>1, <1>2, RowWritten DEF Inv
<1>4. able => /\ tenant = "active"
              /\ domain[d].verified
              /\ domain[d].backend_identifier
              /\ domain[d].status # "suspended"
              /\ status = "active"
  BY DEF CanSend, StatusAfterCheck, Operational
<1>5. status = "suspended" <=> domain[d].status = "suspended"
  BY DEF StatusAfterCheck, Operational
<1>6. UNCHANGED <<tenant, backend_domain>>
  BY DEF CheckCommit, backend
<1> HIDE DEF able, status
<1>7. SuspendedNeverSends'
  BY <1>3, <1>4, <1>5 DEF Inv, SuspendedNeverSends
<1>8. SendingIsEstablished'
  BY <1>3, <1>4, <1>6 DEF Inv, SendingIsEstablished
<1>9. NothingTakenBack
  BY <1>3, <1>6 DEF NothingTakenBack
<1>10. CASE able
  <2>1. Gate!Open(d)
    BY <1>1, <1>3, <1>4, <1>5, <1>6, <1>10 DEF Gate!Open
  <2> QED BY <1>1, <1>7, <1>8, <1>9, <2>1 DEF RowsSafe, GateStep, Gate!GateNext
<1>11. CASE ~able
  <2>1. Gate!Close(d)
    BY <1>1, <1>3, <1>5, <1>6, <1>11 DEF Gate!Close
  <2> QED BY <1>1, <1>7, <1>8, <1>9, <2>1 DEF RowsSafe, GateStep, Gate!GateNext
<1> QED
  BY <1>10, <1>11

\* suspend_domain writes the status and takes the permission with it.
LEMMA SuspendCommitSafe ==
  ASSUME Inv, NEW w \in Workers, SuspendCommit(w)
  PROVE  /\ RowsSafe'
         /\ NothingTakenBack
         /\ GateStep
<1>1. PICK d \in Domains : d = job[w].dom
  BY BusyJobHasDomain DEF Inv, SuspendCommit, At
<1>2. /\ domain'[d].sending_enabled = FALSE
      /\ domain'[d].status = "suspended"
      /\ domain'[d].verified = domain[d].verified
      /\ domain'[d].backend_identifier = domain[d].backend_identifier
      /\ \A e \in Domains \ {d} : domain'[e] = domain[e]
  BY <1>1, RowWritten DEF SuspendCommit, Inv
<1>3. UNCHANGED <<tenant, backend_domain>>
  BY DEF SuspendCommit, backend
<1>4. RowsSafe' /\ NothingTakenBack
  BY <1>2, <1>3 DEF Inv, RowsSafe, SuspendedNeverSends, SendingIsEstablished,
                    NothingTakenBack
<1>5. Gate!Stop(d)
  BY <1>1, <1>2, <1>3 DEF Gate!Stop
<1> QED
  BY <1>1, <1>4, <1>5 DEF GateStep, Gate!GateNext

\* reactivate_domain ends a suspension with sending disabled, also when it
\* finds the domain no longer suspended.
LEMMA ReactivateCommitSafe ==
  ASSUME Inv, NEW w \in Workers, ReactivateCommit(w)
  PROVE  /\ RowsSafe'
         /\ NothingTakenBack
         /\ GateStep
<1>1. PICK d \in Domains : d = job[w].dom
  BY BusyJobHasDomain DEF Inv, ReactivateCommit, At
<1> DEFINE status == RestoredStatus(d)
<1>2. domain' = [domain EXCEPT ![d].sending_enabled = FALSE,
                               ![d].status = status]
  BY <1>1 DEF ReactivateCommit
<1>3. status # "suspended"
  BY <1>1 DEF RestoredStatus, Inv, TypeOK, DomainRow
<1> HIDE DEF status
<1>4. /\ domain'[d].sending_enabled = FALSE
      /\ domain'[d].status = status
      /\ domain'[d].verified = domain[d].verified
      /\ domain'[d].backend_identifier = domain[d].backend_identifier
      /\ \A e \in Domains \ {d} : domain'[e] = domain[e]
  BY <1>1, <1>2, RowWritten DEF Inv
<1>5. UNCHANGED <<tenant, backend_domain>>
  BY DEF ReactivateCommit, backend
<1>6. RowsSafe' /\ NothingTakenBack
  BY <1>3, <1>4, <1>5 DEF Inv, RowsSafe, SuspendedNeverSends,
                          SendingIsEstablished, NothingTakenBack
<1>7. Gate!Resume(d)
  BY <1>1, <1>3, <1>4, <1>5 DEF Gate!Resume
<1> QED
  BY <1>1, <1>6, <1>7 DEF GateStep, Gate!GateNext

\* Setting the organization's status opens and closes no domain.
LEMMA OrganizationSafe ==
  ASSUME Inv, NEW w \in Workers, SuspendTenant(w) \/ ReactivateTenantCommit(w)
  PROVE  /\ RowsSafe'
         /\ NothingTakenBack
         /\ GateStep
<1>1. UNCHANGED <<domain, backend_domain>>
  BY DEF SuspendTenant, ReactivateTenantCommit, backend
<1>2. RowsSafe' /\ NothingTakenBack
  BY <1>1 DEF Inv, RowsSafe, SuspendedNeverSends, SendingIsEstablished,
              NothingTakenBack
<1>3. Gate!SetOrganization
  BY <1>1 DEF Gate!SetOrganization
<1> QED
  BY <1>2, <1>3 DEF GateStep, Gate!GateNext

\* A step that leaves the rows alone and takes no backend domain away.
LEMMA LeavingIsSafe ==
  ASSUME Inv, LeavesGate,
         \A d \in Domains : backend_domain[d] => backend_domain'[d]
  PROVE  /\ RowsSafe'
         /\ NothingTakenBack
         /\ GateStep
<1>1. RowsSafe' /\ NothingTakenBack
  BY DEF Inv, LeavesGate, RowsSafe, SuspendedNeverSends,
         SendingIsEstablished, NothingTakenBack
<1>2. UNCHANGED Gate!gateVars
  BY DEF LeavesGate, Gate!gateVars
<1> QED
  BY <1>1, <1>2 DEF GateStep

---------------------------------------------------------------------------
(* Setup, which provisions. *)

\* A provisioning job that goes on to its next step.
LEMMA ProvisioningMoves ==
  ASSUME Inv, NEW w \in Workers, NEW pc \in ProvisionPC,
         job[w].pc \in ProvisionPC, Goto(w, pc), NothingTakenBack,
         pc = "provision_commit" => backend_domain'[job[w].dom]
  PROVE  ProvisioningKnowsBackend'
<1>1. job[w].dom \in Domains /\ domain[job[w].dom].verified
  BY BusyJobHasDomain DEF Inv, ProvisioningKnowsBackend, At, ProvisionPC
<1>2. job'[w].dom = job[w].dom /\ job'[w].pc = pc
  BY DEF Inv, TypeOK, Job, JobRecord, Goto
<1>3. \A v \in Workers \ {w} : job'[v] = job[v]
  BY DEF Inv, TypeOK, Goto
<1>4. \A v \in Workers \ {w} : job[v].pc \in ProvisionPC =>
                                 job[v].dom \in Domains
  BY BusyJobHasDomain DEF Inv, At, ProvisionPC
<1>5. domain'[job[w].dom].verified
  BY <1>1 DEF NothingTakenBack
<1>6. ASSUME NEW v \in Workers \ {w}, job'[v].pc \in ProvisionPC
      PROVE  /\ domain'[job'[v].dom].verified
             /\ job'[v].pc = "provision_commit" => backend_domain'[job'[v].dom]
  BY <1>3, <1>4, <1>6
  DEF Inv, ProvisioningKnowsBackend, NothingTakenBack, At
<1> QED
  BY <1>2, <1>5, <1>6 DEF ProvisioningKnowsBackend, At, ProvisionPC

\* The status of a row that does not send is written: its gate stays closed,
\* and a suspension of it may end.
LEMMA StatusWritten ==
  ASSUME Inv, NEW d \in Domains, NEW status, status # "suspended",
         domain' = [domain EXCEPT ![d].status = status],
         UNCHANGED <<tenant, backend_domain>>
  PROVE  RowsSafe' /\ NothingTakenBack /\ GateStep
<1>1. /\ domain'[d].sending_enabled = domain[d].sending_enabled
      /\ domain'[d].status = status
      /\ domain'[d].verified = domain[d].verified
      /\ domain'[d].backend_identifier = domain[d].backend_identifier
      /\ \A e \in Domains \ {d} : domain'[e] = domain[e]
  BY DEF Inv, TypeOK, DomainRow
<1>2. RowsSafe' /\ NothingTakenBack
  BY <1>1 DEF Inv, RowsSafe, SuspendedNeverSends, SendingIsEstablished,
              NothingTakenBack
<1>3. CASE domain[d].status = "suspended"
  <2>1. ~domain[d].sending_enabled
    BY <1>3 DEF Inv, SuspendedNeverSends
  <2>2. Gate!Resume(d)
    BY <1>1, <2>1 DEF Gate!Resume
  <2> QED BY <1>2, <2>2 DEF GateStep, Gate!GateNext
<1>4. CASE domain[d].status # "suspended"
  <2>1. UNCHANGED Gate!gateVars
    BY <1>1, <1>4 DEF Gate!gateVars
  <2> QED BY <1>2, <2>1 DEF GateStep
<1> QED
  BY <1>3, <1>4

\* A domain that is verified now was not provisioned, so it stays closed,
\* also when the verification ends a suspension.
LEMMA VerifyCommitSafe ==
  ASSUME Inv, NEW w \in Workers, VerifyCommit(w)
  PROVE  RowsSafe' /\ NothingTakenBack /\ GateStep
<1>1. PICK d \in Domains : d = job[w].dom
  BY BusyJobHasDomain DEF Inv, VerifyCommit, At
<1>2. UNCHANGED <<tenant, backend_domain>>
  BY DEF VerifyCommit, backend
<1>3. CASE domain[d].verified
  BY <1>1, <1>2, <1>3, LeavingIsSafe DEF VerifyCommit, LeavesGate
<1>4. CASE ~domain[d].verified
  <2>1. ~domain[d].backend_identifier /\ ~domain[d].sending_enabled
    BY <1>4 DEF Inv, SendingIsEstablished
  <2>2. domain' = [domain EXCEPT ![d].status = "verified",
                                 ![d].verified = TRUE]
    BY <1>1, <1>4 DEF VerifyCommit
  <2>3. /\ domain'[d].sending_enabled = domain[d].sending_enabled
        /\ domain'[d].status = "verified"
        /\ domain'[d].verified
        /\ domain'[d].backend_identifier = domain[d].backend_identifier
        /\ \A e \in Domains \ {d} : domain'[e] = domain[e]
    BY <2>2 DEF Inv, TypeOK, DomainRow
  <2>4. RowsSafe' /\ NothingTakenBack
    BY <1>2, <2>3 DEF Inv, RowsSafe, SuspendedNeverSends,
                      SendingIsEstablished, NothingTakenBack
  <2>5. Gate!Resume(d)
    BY <1>2, <2>1, <2>3 DEF Gate!Resume
  <2> QED BY <2>4, <2>5 DEF GateStep, Gate!GateNext
<1> QED
  BY <1>3, <1>4

\* The last transaction records a domain that Stalwart has and whose
\* ownership is proved; a suspension it overwrites had closed the gate.
LEMMA ProvisionCommitSafe ==
  ASSUME Inv, NEW w \in Workers, ProvisionCommit(w)
  PROVE  RowsSafe' /\ NothingTakenBack /\ GateStep
<1>1. PICK d \in Domains : d = job[w].dom
  BY BusyJobHasDomain DEF Inv, ProvisionCommit, At
<1>2. UNCHANGED <<tenant, backend_domain>>
  BY DEF ProvisionCommit, backend
<1>3. domain[d].verified /\ backend_domain[d]
  BY <1>1 DEF ProvisionCommit, Inv, ProvisioningKnowsBackend, At, ProvisionPC
<1>4. domain' = [domain EXCEPT ![d].backend_identifier = TRUE,
                               ![d].status = "dns_configuration"]
  BY <1>1 DEF ProvisionCommit
<1>5. /\ domain'[d].sending_enabled = domain[d].sending_enabled
      /\ domain'[d].status = "dns_configuration"
      /\ domain'[d].verified = domain[d].verified
      /\ domain'[d].backend_identifier
      /\ \A e \in Domains \ {d} : domain'[e] = domain[e]
  BY <1>4 DEF Inv, TypeOK, DomainRow
<1>6. RowsSafe' /\ NothingTakenBack
  BY <1>2, <1>3, <1>5 DEF Inv, RowsSafe, SuspendedNeverSends,
                          SendingIsEstablished, NothingTakenBack
<1>7. domain[d].status = "suspended" => ~domain[d].sending_enabled
  BY DEF Inv, SuspendedNeverSends
<1>8. Gate!Establish(d)
  BY <1>2, <1>3, <1>5, <1>7 DEF Gate!Establish
<1> QED
  BY <1>6, <1>8 DEF GateStep, Gate!GateNext

\* Verification and provisioning keep the invariant and the gate.
LEMMA SetupSafe ==
  ASSUME Inv, NEW w \in Workers, SetupBegin(w) \/ SetupStep(w)
  PROVE  ProvisioningKnowsBackend' /\ RowsSafe' /\ GateStep
<1> DEFINE Goal == ProvisioningKnowsBackend' /\ RowsSafe' /\ GateStep
<1> USE DEF rows, addresses, backend, control
<1>1. ASSUME NEW d \in Domains, VerifyBegin(w, d) PROVE Goal
  <2> DEFINE next == [Idle EXCEPT !.pc = "verify_commit", !.dom = d]
  <2>1. job' = [job EXCEPT ![w] = next] /\ next.pc \notin ProvisionPC
    BY <1>1 DEF VerifyBegin, Idle, ProvisionPC
  <2>2. LeavesProvisioning
    <3> HIDE DEF next
    <3> QED BY <2>1, ReplaceLeaves DEF Inv
  <2> QED
    BY <1>1, <2>2, LeavingIsSafe, ProvisioningKept DEF VerifyBegin, LeavesGate
<1>2. ASSUME NEW d \in Domains, ProvisionBegin(w, d) PROVE Goal
  <2>1. RowsSafe' /\ GateStep
    BY <1>2, LeavingIsSafe DEF ProvisionBegin, LeavesGate
  <2>2. job'[w].dom = d /\ job'[w].pc = "provision_mark"
    BY <1>2 DEF ProvisionBegin, Idle, Inv, TypeOK
  <2>3. \A v \in Workers \ {w} : job'[v] = job[v]
    BY <1>2 DEF ProvisionBegin, Inv, TypeOK
  <2>4. ProvisioningKnowsBackend'
    BY <1>2, <2>2, <2>3
    DEF ProvisionBegin, Inv, ProvisioningKnowsBackend, At
  <2> QED BY <2>1, <2>4
<1>3. CASE VerifyUnproven(w)
  <2>1. LeavesProvisioning
    BY <1>3, FinishLeaves DEF VerifyUnproven, Inv
  <2> QED
    BY <1>3, <2>1, LeavingIsSafe, ProvisioningKept
    DEF VerifyUnproven, LeavesGate
<1>4. CASE VerifyCommit(w)
  <2>1. LeavesProvisioning
    BY <1>4, FinishLeaves DEF VerifyCommit, Inv
  <2> QED BY <1>4, <2>1, VerifyCommitSafe, ProvisioningKept
<1>5. CASE ProvisionMark(w)
  <2>1. PICK d \in Domains : d = job[w].dom
    BY <1>5, BusyJobHasDomain DEF Inv, ProvisionMark, At
  <2>2. CASE domain[d].backend_identifier
    <3>1. LeavesProvisioning
      BY <1>5, <2>1, <2>2, FinishLeaves DEF ProvisionMark, Inv
    <3> QED
      BY <1>5, <2>1, <2>2, <3>1, LeavingIsSafe, ProvisioningKept
      DEF ProvisionMark, LeavesGate
  <2>3. CASE ~domain[d].backend_identifier
    <3>1. RowsSafe' /\ NothingTakenBack /\ GateStep
      BY <1>5, <2>1, <2>3, StatusWritten DEF ProvisionMark
    <3>2. ProvisioningKnowsBackend'
      BY <1>5, <2>1, <2>3, <3>1, ProvisioningMoves
      DEF ProvisionMark, At, ProvisionPC
    <3> QED BY <3>1, <3>2
  <2> QED BY <2>2, <2>3
<1>6. CASE ProvisionCreate(w)
  <2>1. job[w].dom \in Domains
    BY <1>6, BusyJobHasDomain DEF Inv, ProvisionCreate, At
  <2>2. /\ backend_domain'[job[w].dom]
        /\ \A d \in Domains : backend_domain[d] => backend_domain'[d]
    BY <1>6, <2>1 DEF ProvisionCreate, Inv, TypeOK
  <2>3. RowsSafe' /\ NothingTakenBack /\ GateStep
    BY <1>6, <2>2, LeavingIsSafe DEF ProvisionCreate, LeavesGate
  <2>4. ProvisioningKnowsBackend'
    BY <1>6, <2>2, <2>3, ProvisioningMoves
    DEF ProvisionCreate, At, ProvisionPC
  <2> QED BY <2>3, <2>4
<1>7. CASE ProvisionCreateFails(w)
  <2>1. \A d \in Domains : backend_domain[d] => backend_domain'[d]
    BY <1>7 DEF ProvisionCreateFails, Inv, TypeOK
  <2>2. RowsSafe' /\ NothingTakenBack /\ GateStep
    BY <1>7, <2>1, LeavingIsSafe DEF ProvisionCreateFails, LeavesGate
  <2>3. ProvisioningKnowsBackend'
    BY <1>7, <2>2, ProvisioningMoves
    DEF ProvisionCreateFails, At, ProvisionPC
  <2> QED BY <2>2, <2>3
<1>8. CASE ProvisionRollback(w)
  <2>1. PICK d \in Domains : d = job[w].dom
    BY <1>8, BusyJobHasDomain DEF Inv, ProvisionRollback, At
  <2>2. RowsSafe' /\ NothingTakenBack /\ GateStep
    BY <1>8, <2>1, StatusWritten DEF ProvisionRollback
  <2>3. LeavesProvisioning
    BY <1>8, FinishLeaves DEF ProvisionRollback, Inv
  <2> QED BY <2>2, <2>3, ProvisioningKept
<1>9. CASE ProvisionCommit(w)
  <2>1. LeavesProvisioning
    BY <1>9, FinishLeaves DEF ProvisionCommit, Inv
  <2> QED BY <1>9, <2>1, ProvisionCommitSafe, ProvisioningKept
<1> QED
  BY <1>1, <1>2, <1>3, <1>4, <1>5, <1>6, <1>7, <1>8, <1>9
  DEF SetupBegin, SetupStep

---------------------------------------------------------------------------
(* The theorems about the rows of domains. *)

\* Whoever takes a step, it keeps the invariant and is a step of the gate.
LEMMA StepSafe ==
  ASSUME Inv, [Next]_vars
  PROVE  Inv' /\ GateStep
<1> DEFINE Goal == ProvisioningKnowsBackend' /\ RowsSafe' /\ GateStep
<1>1. ASSUME NEW w \in Workers, LeavesProvisioning, UNCHANGED backend_domain,
             \/ LeavesGate \/ CheckCommit(w)
             \/ SuspendCommit(w) \/ ReactivateCommit(w)
             \/ SuspendTenant(w) \/ ReactivateTenantCommit(w)
      PROVE  Goal
  <2>1. RowsSafe' /\ NothingTakenBack /\ GateStep
    BY <1>1, LeavingIsSafe, CheckCommitSafe, SuspendCommitSafe,
       ReactivateCommitSafe, OrganizationSafe
  <2> QED BY <1>1, <2>1, ProvisioningKept
<1>2. ASSUME NEW w \in Workers, Begin(w) \/ Step(w)
      PROVE  Goal
  <2>1. CASE SetupBegin(w) \/ SetupStep(w)
    BY <2>1, SetupSafe
  <2>2. CASE ReadinessBegin(w) \/ ReadinessStep(w)
    BY <1>1, <2>2, ReadinessLeaves DEF Inv, LeavesJobs
  <2>3. CASE SuspensionBegin(w) \/ SuspensionStep(w)
    BY <1>1, <2>3, SuspensionLeaves DEF Inv, LeavesJobs
  <2>4. CASE TenantBegin(w) \/ TenantStep(w)
    BY <1>1, <2>4, TenantLeaves DEF Inv, LeavesJobs
  <2>5. CASE MailboxBegin(w) \/ MailboxStep(w)
    BY <1>1, <2>5, MailboxLeaves DEF Inv
  <2>6. CASE ForwarderBegin(w) \/ ForwarderStep(w)
    BY <1>1, <2>6, ForwarderLeaves DEF Inv
  <2> QED BY <1>2, <2>1, <2>2, <2>3, <2>4, <2>5, <2>6 DEF Begin, Step
<1>3. ASSUME NEW w \in Workers, Crash(w)
      PROVE  Goal
  <2>1. LeavesProvisioning /\ UNCHANGED backend_domain /\ LeavesGate
    BY <1>3, CrashLeaves DEF Inv, LeavesJobs
  <2> QED BY <1>1, <2>1
<1>4. ASSUME UNCHANGED vars
      PROVE  Goal
  <2>1. LeavesProvisioning /\ UNCHANGED backend_domain /\ LeavesGate
    BY <1>4 DEF vars, rows, backend, LeavesProvisioning, LeavesGate
  <2> QED BY <2>1, LeavingIsSafe, ProvisioningKept
<1>5. Goal
  BY <1>2, <1>3, <1>4 DEF Next
<1>6. TypeOK'
  BY StepTypes DEF Inv
<1> QED
  BY <1>5, <1>6 DEF Inv, RowsSafe

\* The initial rows satisfy the invariant and are an initial gate.
LEMMA InitSafe == Init => Inv /\ Gate!GateInit
<1> SUFFICES ASSUME Init PROVE Inv /\ Gate!GateInit
  OBVIOUS
<1>1. \A d \in Domains :
         /\ ~domain[d].sending_enabled
         /\ domain[d].status # "suspended"
         /\ domain[d].backend_identifier =>
               domain[d].verified /\ backend_domain[d]
  BY DEF Init, NewRow, OnboardedRow, RetiredRow
<1>2. ProvisioningKnowsBackend
  BY DEF Init, Idle, ProvisioningKnowsBackend, At, ProvisionPC
<1>3. Inv
  BY <1>1, <1>2, InitTypes DEF Inv, SuspendedNeverSends, SendingIsEstablished
<1>4. Gate!GateInit
  BY <1>1 DEF Init, Gate!GateInit
<1> QED
  BY <1>3, <1>4

\* The invariant of the rows and of the jobs that provision them.
THEOREM Safe == Spec => []Inv
<1> QED
  BY InitSafe, StepSafe, PTL DEF Spec

(***************************************************************************)
(* A suspended domain is never enabled for sending, however many checks,   *)
(* suspensions, reactivations and provisioning jobs overlap.               *)
(***************************************************************************)
THEOREM SuspensionIsSafe == Spec => []SuspendedNeverSends
<1>1. Inv => SuspendedNeverSends
  BY DEF Inv
<1> QED
  BY Safe, <1>1, PTL

(***************************************************************************)
(* A domain that may send has a backend domain in its row, Stalwart has    *)
(* it, and its ownership was proved.                                       *)
(***************************************************************************)
THEOREM SendingIsSafe == Spec => []SendingIsEstablished
<1>1. Inv => SendingIsEstablished
  BY DEF Inv
<1> QED
  BY Safe, <1>1, PTL

(***************************************************************************)
(* A provisioning job acts on a verified domain, and records only what     *)
(* Stalwart has.                                                           *)
(***************************************************************************)
THEOREM ProvisioningIsSafe == Spec => []ProvisioningKnowsBackend
<1>1. Inv => ProvisioningKnowsBackend
  BY DEF Inv
<1> QED
  BY Safe, <1>1, PTL

(***************************************************************************)
(* The control plane implements the sending gate: each of its steps opens, *)
(* closes, stops, resumes or establishes one domain as the gate allows, or *)
(* sets the organization, or shows nothing.                                *)
(***************************************************************************)
THEOREM ImplementsGate == Spec => GateImplemented
<1>1. Init => Gate!GateInit
  BY InitSafe
<1>2. Inv /\ [Next]_vars => [Gate!GateNext]_Gate!gateVars
  BY StepSafe DEF GateStep
<1> QED
  BY Safe, <1>1, <1>2, PTL DEF Spec, GateImplemented, Gate!GateSpec

(***************************************************************************)
(* And the gate is worth implementing: of its own, whatever is behind it,  *)
(* an open gate belongs to an established domain that no emergency stop    *)
(* covers.                                                                 *)
(***************************************************************************)
THEOREM GateIsSafe == Gate!GateSpec => []Gate!GateSafe
<1>1. Gate!GateInit => Gate!GateSafe
  BY DEF Gate!GateInit, Gate!GateSafe
<1>2. Gate!GateSafe /\ [Gate!GateNext]_Gate!gateVars => Gate!GateSafe'
  <2> SUFFICES ASSUME Gate!GateSafe, [Gate!GateNext]_Gate!gateVars
               PROVE  Gate!GateSafe'
    OBVIOUS
  <2> USE DEF Gate!GateSafe
  <2>1. ASSUME NEW d \in Domains, Gate!Open(d) PROVE Gate!GateSafe'
    BY <2>1 DEF Gate!Open
  <2>2. ASSUME NEW d \in Domains, Gate!Close(d) PROVE Gate!GateSafe'
    BY <2>2 DEF Gate!Close
  <2>3. ASSUME NEW d \in Domains, Gate!Stop(d) PROVE Gate!GateSafe'
    BY <2>3 DEF Gate!Stop
  <2>4. ASSUME NEW d \in Domains, Gate!Resume(d) PROVE Gate!GateSafe'
    BY <2>4 DEF Gate!Resume
  <2>5. ASSUME NEW d \in Domains, Gate!Establish(d) PROVE Gate!GateSafe'
    BY <2>5 DEF Gate!Establish
  <2>6. CASE Gate!SetOrganization
    BY <2>6 DEF Gate!SetOrganization
  <2>7. CASE UNCHANGED Gate!gateVars
    BY <2>7 DEF Gate!gateVars
  <2> QED
    BY <2>1, <2>2, <2>3, <2>4, <2>5, <2>6, <2>7 DEF Gate!GateNext
<1> QED
  BY <1>1, <1>2, PTL DEF Gate!GateSpec
=============================================================================
