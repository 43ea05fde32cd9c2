------------------------- MODULE ControlPlaneTypes --------------------------
(***************************************************************************)
(* ControlPlane is type-correct, for any domains and mailboxes, any number *)
(* of workers and of crashes, and any set of requests.  One lemma for each *)
(* way a job or a loop goes on, then one for each part, with a step for    *)
(* each of its actions and under it one for each variable it assigns.      *)
(***************************************************************************)
EXTENDS ControlPlane, TLAPS

---------------------------------------------------------------------------
(* Jobs, frames and rows keep their types. *)

\* A worker that is in no operation.
LEMMA IdleIsJob == Idle \in Job
  BY DEF Idle, Job, JobRecord, OnRow, DomainPC, AddressPC, Permissions

\* A worker that is in no loop over an organization.
LEMMA NoFrameIsFrame == NoFrame \in Frame
  BY DEF NoFrame, Frame, FramePC

\* A job at a step of some operation is on a domain.
LEMMA BusyJobHasDomain ==
  ASSUME TypeOK, NEW w \in Workers, ~At(w, "idle") \/ job[w].result # "none"
  PROVE  job[w].dom \in Domains
  BY DEF TypeOK, At, Job, OnRow

\* A job at a step of an operation on an address knows which one.
LEMMA AddressJobHasBox ==
  ASSUME TypeOK, NEW w \in Workers, job[w].pc \in AddressPC
  PROVE  job[w].box \in Mailboxes
  BY DEF TypeOK, Job, OnRow

\* A function that returns or raises leaves a job.
LEMMA FinishTyped ==
  ASSUME TypeOK, NEW w \in Workers, ~At(w, "idle"),
         NEW result \in {"ok", "failed"}, Finish(w, result)
  PROVE  job' \in [Workers -> Job]
<1>1. job[w].dom \in Domains
  BY BusyJobHasDomain
<1>2. [Idle EXCEPT !.dom = job[w].dom, !.result = result] \in Job
  BY <1>1 DEF Idle, Job, JobRecord, OnRow, DomainPC, AddressPC, Permissions
<1> QED
  BY <1>2, IdleIsJob DEF TypeOK, Finish

\* No step belongs to an operation on domains and to one on addresses.
LEMMA KindsOfSteps == DomainPC \cap AddressPC = {} /\ "idle" \notin AddressPC
  BY DEF DomainPC, AddressPC

\* An operation on a domain goes on to its next step.
LEMMA GotoDomainTyped ==
  ASSUME TypeOK, NEW w \in Workers, ~At(w, "idle"),
         NEW pc \in DomainPC, Goto(w, pc)
  PROVE  job' \in [Workers -> Job]
<1> DEFINE next == [job[w] EXCEPT !.pc = pc]
<1>1. job[w] \in JobRecord /\ job[w].dom \in Domains
  BY BusyJobHasDomain DEF TypeOK, Job
<1>2. next \in JobRecord
  BY <1>1 DEF JobRecord
<1>3. next.pc \notin AddressPC /\ next.dom \in Domains
  BY <1>1, KindsOfSteps DEF JobRecord
<1>4. next \in Job
  BY <1>2, <1>3 DEF Job, OnRow
<1> QED
  BY <1>4 DEF TypeOK, Goto

\* An operation on an address goes on to its next step.
LEMMA GotoAddressTyped ==
  ASSUME TypeOK, NEW w \in Workers, job[w].pc \in AddressPC,
         NEW pc \in AddressPC, Goto(w, pc)
  PROVE  job' \in [Workers -> Job]
<1> DEFINE next == [job[w] EXCEPT !.pc = pc]
<1>1. job[w] \in JobRecord /\ OnRow(job[w])
  BY DEF TypeOK, Job
<1>2. next \in JobRecord
  BY <1>1 DEF JobRecord
<1>3. next.dom = job[w].dom /\ next.box = job[w].box /\ next.pc = pc
  BY <1>1 DEF JobRecord
<1>4. next \in Job
  BY <1>1, <1>2, <1>3, KindsOfSteps DEF Job, OnRow
<1> QED
  BY <1>4 DEF TypeOK, Goto

\* Any job about a domain may replace the one a worker has.
LEMMA DomainJobTyped ==
  ASSUME TypeOK, NEW w \in Workers, NEW next \in JobRecord,
         next.pc \in DomainPC, next.dom \in Domains,
         job' = [job EXCEPT ![w] = next]
  PROVE  job' \in [Workers -> Job]
<1>1. next \in Job
  BY KindsOfSteps DEF Job, OnRow
<1> QED
  BY <1>1 DEF TypeOK

\* An operation on a domain begins, at the request of a user or of a loop.
LEMMA BeginDomainTyped ==
  ASSUME TypeOK, NEW w \in Workers, NEW d \in Domains, NEW pc \in DomainPC,
         job' = [job EXCEPT ![w] = [Idle EXCEPT !.pc = pc, !.dom = d]]
  PROVE  job' \in [Workers -> Job]
<1> DEFINE next == [Idle EXCEPT !.pc = pc, !.dom = d]
<1>1. next \in JobRecord /\ next.pc \in DomainPC /\ next.dom \in Domains
  BY DEF Idle, JobRecord, Permissions
<1> QED
  BY <1>1, DomainJobTyped

\* An account is written with permissions or not at all.
LEMMA WriteTyped ==
  ASSUME TypeOK, NEW m, NEW p \in Permissions,
         WritePermissions(m, p) \/ WriteFails(m, p)
  PROVE  account' \in [Mailboxes -> Account]
  BY DEF TypeOK, WritePermissions, WriteFails, Account

---------------------------------------------------------------------------
(* Pieces of the steps that check, suspend and reactivate. *)

\* The permission set that grants or withholds sending.
LEMMA SendingTyped == \A b : Sending(b) \in Permissions
  BY DEF Sending, Permissions

\* The query for the active mailboxes of a domain.
LEMMA ActiveMailboxesTyped == \A d : ActiveMailboxes(d) \in SUBSET Mailboxes
  BY DEF ActiveMailboxes

\* What a job will write on accounts is a permission set.
LEMMA JobTarget ==
  ASSUME TypeOK, NEW w \in Workers
  PROVE  job[w].target \in Permissions
  BY DEF TypeOK, Job, JobRecord

\* What a reactivation may have to undo are mailboxes.
LEMMA DoneTyped ==
  ASSUME TypeOK, NEW w \in Workers
  PROVE  job[w].done \in SUBSET Mailboxes
  BY DEF TypeOK, Job, JobRecord

\* The first read of a readiness check leaves a job on the domain.
LEMMA CheckReadTyped ==
  ASSUME TypeOK, NEW w \in Workers, NEW d \in Domains, CheckRead(w, d)
  PROVE  job' \in [Workers -> Job]
<1> DEFINE next == [Idle EXCEPT !.pc = "check_inspect", !.dom = d,
                                !.target = PolicyFromRead(d)]
<1>1. PolicyFromRead(d) \in Permissions
  BY SendingTyped DEF PolicyFromRead, Permissions
<1>2. /\ next \in JobRecord
      /\ next.pc \in DomainPC /\ next.dom \in Domains
  BY <1>1 DEF Idle, JobRecord, DomainPC
<1> QED
  BY <1>2, DomainJobTyped DEF CheckRead

\* A job on a domain goes on with a new list of accounts.
LEMMA BusyJobEdited ==
  ASSUME TypeOK, NEW w \in Workers, ~At(w, "idle"), NEW pc \in DomainPC,
         NEW todo \in SUBSET Mailboxes,
         job' = [job EXCEPT ![w].pc = pc, ![w].todo = todo]
  PROVE  job' \in [Workers -> Job]
<1> DEFINE next == [job[w] EXCEPT !.pc = pc, !.todo = todo]
<1>1. job[w] \in JobRecord /\ job[w].dom \in Domains
  BY BusyJobHasDomain DEF TypeOK, Job
<1>2. /\ next \in JobRecord
      /\ next.pc \in DomainPC /\ next.dom \in Domains
  BY <1>1 DEF JobRecord
<1>3. job' = [job EXCEPT ![w] = next]
  BY DEF TypeOK
<1> QED
  BY <1>2, <1>3, DomainJobTyped

\* A call for one account is over: it is no longer to be written.
LEMMA TickOffTyped ==
  ASSUME TypeOK, NEW w \in Workers, NEW m \in Mailboxes,
         job[w].pc \in DomainPC, ~At(w, "idle"),
         \/ job' = [job EXCEPT ![w].todo = @ \ {m}]
         \/ job' = [job EXCEPT ![w].todo = @ \ {m}, ![w].done = @ \cup {m}]
         \/ job' = [job EXCEPT ![w].todo = @ \ {m}, ![w].failed = @ \cup {m}]
  PROVE  job' \in [Workers -> Job]
<1> DEFINE todo   == job[w].todo \ {m}
           done   == job[w].done \cup {m}
           failed == job[w].failed \cup {m}
           next1  == [job[w] EXCEPT !.todo = todo]
           next2  == [job[w] EXCEPT !.todo = todo, !.done = done]
           next3  == [job[w] EXCEPT !.todo = todo, !.failed = failed]
<1>1. job[w] \in JobRecord /\ job[w].dom \in Domains
  BY BusyJobHasDomain DEF TypeOK, Job
<1>2. /\ todo \in SUBSET Mailboxes /\ done \in SUBSET Mailboxes
      /\ failed \in SUBSET Mailboxes
  BY <1>1 DEF JobRecord
<1>3. /\ next1 \in JobRecord /\ next2 \in JobRecord /\ next3 \in JobRecord
      /\ \A j \in {next1, next2, next3} :
            j.pc \in DomainPC /\ j.dom \in Domains
  BY <1>1, <1>2 DEF JobRecord
<1>4. \/ job' = [job EXCEPT ![w] = next1]
      \/ job' = [job EXCEPT ![w] = next2]
      \/ job' = [job EXCEPT ![w] = next3]
  BY DEF TypeOK
<1>5. CASE job' = [job EXCEPT ![w] = next1]
  BY <1>3, <1>5, DomainJobTyped
<1>6. CASE job' = [job EXCEPT ![w] = next2]
  BY <1>3, <1>6, DomainJobTyped
<1>7. CASE job' = [job EXCEPT ![w] = next3]
  BY <1>3, <1>7, DomainJobTyped
<1> QED
  BY <1>4, <1>5, <1>6, <1>7

\* The DNS verdict and the query for the mailboxes to write.
LEMMA InspectTyped ==
  ASSUME TypeOK, NEW w \in Workers, CheckInspect(w)
  PROVE  job' \in [Workers -> Job]
<1>1. PICK ready \in BOOLEAN :
        job' = [job EXCEPT
            ![w].pc = "check_sync",
            ![w].ready = ready,
            ![w].target = IF @ = "inherit" THEN Sending(ready) ELSE @,
            ![w].todo = ActiveMailboxes(job[w].dom)]
  BY DEF CheckInspect
<1> DEFINE target == IF job[w].target = "inherit" THEN Sending(ready)
                                                  ELSE job[w].target
           todo   == ActiveMailboxes(job[w].dom)
           next   == [job[w] EXCEPT !.pc = "check_sync", !.ready = ready,
                                    !.target = target, !.todo = todo]
<1>2. job[w] \in JobRecord /\ job[w].dom \in Domains
  BY BusyJobHasDomain DEF TypeOK, Job, CheckInspect, At
<1>3. target \in Permissions /\ todo \in SUBSET Mailboxes
  BY JobTarget, SendingTyped, ActiveMailboxesTyped
<1>4. /\ next \in JobRecord
      /\ next.pc \in DomainPC /\ next.dom \in Domains
  <2> HIDE DEF target, todo
  <2> QED BY <1>2, <1>3 DEF JobRecord, DomainPC
<1>5. job' = [job EXCEPT ![w] = next]
  BY <1>1 DEF TypeOK
<1> QED
  BY <1>4, <1>5, DomainJobTyped

\* A reactivation asked for by a user, with its check at the end.
LEMMA BeginReactivationTyped ==
  ASSUME TypeOK, NEW w \in Workers, NEW d \in Domains, ReactivateBegin(w, d)
  PROVE  job' \in [Workers -> Job]
<1> DEFINE next == [Idle EXCEPT !.pc = "reactivate_read", !.dom = d,
                                !.recheck = TRUE]
<1>1. /\ next \in JobRecord
      /\ next.pc \in DomainPC /\ next.dom \in Domains
  BY DEF Idle, JobRecord, DomainPC, Permissions
<1> QED
  BY <1>1, DomainJobTyped DEF ReactivateBegin

\* A reactivation that goes on; only provisioned domains are checked after.
LEMMA RecheckTyped ==
  ASSUME TypeOK, NEW w \in Workers, At(w, "reactivate_read"),
         job' = [job EXCEPT
                   ![w].pc = "reactivate_list",
                   ![w].recheck = @ /\ domain[job[w].dom].backend_identifier]
  PROVE  job' \in [Workers -> Job]
<1> DEFINE recheck == /\ job[w].recheck
                      /\ domain[job[w].dom].backend_identifier
           next    == [job[w] EXCEPT !.pc = "reactivate_list",
                                     !.recheck = recheck]
<1>1. job[w] \in JobRecord /\ job[w].dom \in Domains
  BY BusyJobHasDomain DEF TypeOK, Job, At
<1>2. recheck \in BOOLEAN
  OBVIOUS
<1>3. /\ next \in JobRecord
      /\ next.pc \in DomainPC /\ next.dom \in Domains
  <2> HIDE DEF recheck
  <2> QED BY <1>1, <1>2 DEF JobRecord, DomainPC
<1>4. job' = [job EXCEPT ![w] = next]
  BY DEF TypeOK
<1> QED
  BY <1>3, <1>4, DomainJobTyped

\* An operation on a mailbox begins, on the domain of its address.
LEMMA BeginMailboxTyped ==
  ASSUME TypeOK, NEW w \in Workers, NEW m \in Mailboxes,
         NEW pc \in AddressPC, NEW target \in Permissions,
         MailboxJob(w, pc, m, target)
  PROVE  job' \in [Workers -> Job]
<1> DEFINE next == [Idle EXCEPT !.pc = pc, !.dom = DomainOf[m], !.box = m,
                                !.target = target]
<1>1. DomainOf[m] \in Domains
  BY ConstantsAssumption
<1>2. next \in JobRecord
  BY <1>1 DEF Idle, JobRecord, Permissions
<1>3. next.box = m /\ next.dom = DomainOf[m]
  BY DEF Idle
<1>4. next \in Job
  BY <1>1, <1>2, <1>3 DEF Job, OnRow
<1> QED
  BY <1>4 DEF TypeOK, MailboxJob

\* An operation on a forwarder begins, with where it is to forward.
LEMMA BeginForwarderTyped ==
  ASSUME TypeOK, NEW w \in Workers, NEW m \in Mailboxes,
         NEW pc \in AddressPC, NEW to \in Destinations \cup {Nowhere},
         ForwarderJob(w, pc, m, to)
  PROVE  job' \in [Workers -> Job]
<1> DEFINE next == [Idle EXCEPT !.pc = pc, !.dom = DomainOf[m], !.box = m,
                                !.to = to]
<1>1. DomainOf[m] \in Domains
  BY ConstantsAssumption
<1>2. next \in JobRecord
  BY <1>1 DEF Idle, JobRecord, Permissions
<1>3. next.box = m /\ next.dom = DomainOf[m]
  BY DEF Idle
<1>4. next \in Job
  BY <1>1, <1>2, <1>3 DEF Job, OnRow
<1> QED
  BY <1>4 DEF TypeOK, ForwarderJob

\* Where a job will forward is a list of destinations, or none.
LEMMA JobTo ==
  ASSUME TypeOK, NEW w \in Workers
  PROVE  job[w].to \in Destinations \cup {Nowhere}
  BY DEF TypeOK, Job, JobRecord

\* A list in Stalwart is created, changed or removed, or not.
LEMMA ListTyped ==
  ASSUME TypeOK, NEW m, NEW to \in Destinations \cup {Nowhere},
         UNCHANGED mailing_list \/ WriteList(m, to)
  PROVE  mailing_list' \in [Mailboxes -> Destinations \cup {Nowhere}]
  BY DEF TypeOK, WriteList

\* A list is created for the forwarder that a job is about, or not.
LEMMA CreateListTyped ==
  ASSUME TypeOK, NEW w \in Workers, UNCHANGED mailing_list \/ CreateList(w)
  PROVE  mailing_list' \in [Mailboxes -> Destinations \cup {Nowhere}]
  BY JobTo DEF TypeOK, CreateList

\* A loop over an organization goes to its next phase.
LEMMA LoopTyped ==
  ASSUME TypeOK, NEW w \in Workers, NEW pc \in FramePC,
         NEW todo \in SUBSET Domains, Loop(w, pc, todo)
  PROVE  frame' \in [Workers -> Frame]
<1>1. [frame[w] EXCEPT !.pc = pc, !.todo = todo] \in Frame
    BY DEF TypeOK, Frame
<1> QED BY <1>1 DEF TypeOK, Loop

---------------------------------------------------------------------------
(* Setup. *)

\* Verification and provisioning keep the types.
LEMMA SetupTypes ==
  ASSUME TypeOK, NEW w \in Workers, SetupBegin(w) \/ SetupStep(w)
  PROVE  TypeOK'
<1> USE DEF TypeOK, rows, addresses, backend, control
<1>1. ASSUME NEW d \in Domains, VerifyBegin(w, d) PROVE TypeOK'
  <2>1. job' \in [Workers -> Job]
    BY <1>1, BeginDomainTyped DEF VerifyBegin, DomainPC
  <2> QED BY <1>1, <2>1 DEF VerifyBegin
<1>2. ASSUME NEW d \in Domains, ProvisionBegin(w, d) PROVE TypeOK'
  <2>1. job' \in [Workers -> Job]
    BY <1>2, BeginDomainTyped DEF ProvisionBegin, DomainPC
  <2> QED BY <1>2, <2>1 DEF ProvisionBegin
<1>3. CASE VerifyUnproven(w)
  <2>1. job' \in [Workers -> Job]
    BY <1>3, FinishTyped DEF VerifyUnproven, At
  <2> QED BY <1>3, <2>1 DEF VerifyUnproven
<1>4. CASE VerifyCommit(w)
  <2>1. job' \in [Workers -> Job]
    BY <1>4, FinishTyped DEF VerifyCommit, At
  <2>2. domain' \in [Domains -> DomainRow]
    BY <1>4, ZenonT(60) DEF VerifyCommit, DomainRow, DomainStatus
  <2> QED BY <1>4, <2>1, <2>2 DEF VerifyCommit
<1>5. CASE ProvisionMark(w)
  <2>1. job' \in [Workers -> Job]
    BY <1>5, FinishTyped, GotoDomainTyped DEF ProvisionMark, At, DomainPC
  <2>2. domain' \in [Domains -> DomainRow]
    BY <1>5 DEF ProvisionMark, DomainRow, DomainStatus
  <2> QED BY <1>5, <2>1, <2>2 DEF ProvisionMark
<1>6. CASE ProvisionCreate(w)
  <2>1. job' \in [Workers -> Job]
    BY <1>6, GotoDomainTyped DEF ProvisionCreate, At, DomainPC
  <2> QED BY <1>6, <2>1 DEF ProvisionCreate
<1>7. CASE ProvisionCreateFails(w)
  <2>1. job' \in [Workers -> Job]
    BY <1>7, GotoDomainTyped DEF ProvisionCreateFails, At, DomainPC
  <2> QED BY <1>7, <2>1 DEF ProvisionCreateFails
<1>8. CASE ProvisionRollback(w)
  <2>1. job' \in [Workers -> Job]
    BY <1>8, FinishTyped DEF ProvisionRollback, At
  <2>2. domain' \in [Domains -> DomainRow]
    BY <1>8 DEF ProvisionRollback, DomainRow, DomainStatus
  <2> QED BY <1>8, <2>1, <2>2 DEF ProvisionRollback
<1>9. CASE ProvisionCommit(w)
  <2>1. job' \in [Workers -> Job]
    BY <1>9, FinishTyped DEF ProvisionCommit, At
  <2>2. domain' \in [Domains -> DomainRow]
    BY <1>9, ZenonT(60) DEF ProvisionCommit, DomainRow, DomainStatus
  <2> QED BY <1>9, <2>1, <2>2 DEF ProvisionCommit
<1> QED
  BY <1>1, <1>2, <1>3, <1>4, <1>5, <1>6, <1>7, <1>8, <1>9
  DEF SetupBegin, SetupStep

---------------------------------------------------------------------------
(* Readiness. *)

\* A readiness check keeps the types.
LEMMA ReadinessTypes ==
  ASSUME TypeOK, NEW w \in Workers, ReadinessBegin(w) \/ ReadinessStep(w)
  PROVE  TypeOK'
<1> USE DEF TypeOK, rows, addresses, backend, control
<1>1. ASSUME NEW d \in Domains, CheckBegin(w, d) PROVE TypeOK'
  <2>1. job' \in [Workers -> Job]
    BY <1>1, CheckReadTyped DEF CheckBegin
  <2> QED BY <1>1, <2>1 DEF CheckBegin
<1>2. CASE CheckReadAgain(w)
  <2>1. job' \in [Workers -> Job]
    BY <1>2, CheckReadTyped, BusyJobHasDomain DEF CheckReadAgain, At
  <2> QED BY <1>2, <2>1 DEF CheckReadAgain
<1>3. CASE CheckInspect(w)
  <2>1. job' \in [Workers -> Job]
    BY <1>3, InspectTyped DEF CheckInspect, At
  <2> QED BY <1>3, <2>1 DEF CheckInspect
<1>4. ASSUME NEW m \in Mailboxes, CheckWrite(w, m) PROVE TypeOK'
  <2>1. job' \in [Workers -> Job]
    BY <1>4, TickOffTyped DEF CheckWrite, At, DomainPC
  <2>2. account' \in [Mailboxes -> Account]
    BY <1>4, WriteTyped, JobTarget DEF CheckWrite
  <2> QED BY <1>4, <2>1, <2>2 DEF CheckWrite
<1>5. ASSUME NEW m \in Mailboxes, CheckWriteFails(w, m) PROVE TypeOK'
  <2>1. job' \in [Workers -> Job]
    BY <1>5, TickOffTyped DEF CheckWriteFails, At, DomainPC
  <2>2. account' \in [Mailboxes -> Account]
    BY <1>5, WriteTyped, JobTarget DEF CheckWriteFails
  <2> QED BY <1>5, <2>1, <2>2 DEF CheckWriteFails
<1>6. CASE CheckSynced(w)
  <2>1. job' \in [Workers -> Job]
    BY <1>6, GotoDomainTyped DEF CheckSynced, At, DomainPC
  <2> QED BY <1>6, <2>1 DEF CheckSynced
<1>7. CASE CheckCommit(w)
  <2>1. job' \in [Workers -> Job]
    BY <1>7, FinishTyped DEF CheckCommit, At
  <2>2. domain' \in [Domains -> DomainRow]
    <3> DEFINE d == job[w].dom
               able == CanSend(w, d)
               status == StatusAfterCheck(w, d)
    <3>1. d \in Domains /\ domain[d] \in DomainRow
      BY <1>7, BusyJobHasDomain DEF CheckCommit, At
    <3>2. able \in BOOLEAN
      BY <3>1 DEF CanSend, CheckPassed, DomainRow
    <3>3. status \in DomainStatus
      BY <3>1 DEF StatusAfterCheck, DomainRow, DomainStatus
    <3>4. domain' = [domain EXCEPT ![d].sending_enabled = able,
                                   ![d].status = status]
      BY <1>7 DEF CheckCommit
    <3> HIDE DEF d, able, status
    <3> QED BY <3>1, <3>2, <3>3, <3>4 DEF DomainRow
  <2> QED BY <1>7, <2>1, <2>2 DEF CheckCommit
<1> QED
  BY <1>1, <1>2, <1>3, <1>4, <1>5, <1>6, <1>7
  DEF ReadinessBegin, ReadinessStep

---------------------------------------------------------------------------
(* Suspension and reactivation of a domain. *)

\* Suspension and reactivation of a domain keep the types.
LEMMA SuspensionTypes ==
  ASSUME TypeOK, NEW w \in Workers, SuspensionBegin(w) \/ SuspensionStep(w)
  PROVE  TypeOK'
<1> USE DEF TypeOK, rows, addresses, backend, control
<1>1. ASSUME NEW d \in Domains, SuspendBegin(w, d) PROVE TypeOK'
  <2>1. job' \in [Workers -> Job]
    BY <1>1, BeginDomainTyped DEF SuspendBegin, DomainPC
  <2> QED BY <1>1, <2>1 DEF SuspendBegin
<1>2. ASSUME NEW d \in Domains, ReactivateBegin(w, d) PROVE TypeOK'
  <2>1. job' \in [Workers -> Job]
    BY <1>2, BeginReactivationTyped DEF ReactivateBegin
  <2> QED BY <1>2, <2>1 DEF ReactivateBegin
<1>3. CASE SuspendRead(w)
  <2>1. job' \in [Workers -> Job]
    <3> HIDE DEF TypeOK
    <3>1. ~At(w, "idle") /\ "suspend_set" \in DomainPC
      BY <1>3 DEF SuspendRead, At, DomainPC
    <3>2. ActiveMailboxes(job[w].dom) \in SUBSET Mailboxes
      BY ActiveMailboxesTyped
    <3> QED BY <1>3, <3>1, <3>2, FinishTyped, BusyJobEdited DEF SuspendRead
  <2> QED BY <1>3, <2>1 DEF SuspendRead
<1>4. ASSUME NEW m \in Mailboxes, SuspendWrite(w, m) PROVE TypeOK'
  <2>1. job' \in [Workers -> Job]
    BY <1>4, TickOffTyped DEF SuspendWrite, At, DomainPC
  <2>2. account' \in [Mailboxes -> Account]
    BY <1>4, WriteTyped DEF SuspendWrite, Permissions
  <2> QED BY <1>4, <2>1, <2>2 DEF SuspendWrite
<1>5. ASSUME NEW m \in Mailboxes, SuspendWriteFails(w, m) PROVE TypeOK'
  <2>1. job' \in [Workers -> Job]
    BY <1>5, TickOffTyped DEF SuspendWriteFails, At, DomainPC
  <2>2. account' \in [Mailboxes -> Account]
    BY <1>5, WriteTyped DEF SuspendWriteFails, Permissions
  <2> QED BY <1>5, <2>1, <2>2 DEF SuspendWriteFails
<1>6. CASE SuspendListed(w)
  <2>1. job' \in [Workers -> Job]
    BY <1>6, GotoDomainTyped DEF SuspendListed, At, DomainPC
  <2> QED BY <1>6, <2>1 DEF SuspendListed
<1>7. CASE SuspendCommit(w)
  <2>1. job' \in [Workers -> Job]
    BY <1>7, FinishTyped DEF SuspendCommit, At
  <2>2. domain' \in [Domains -> DomainRow]
    BY <1>7, ZenonT(60) DEF SuspendCommit, DomainRow, DomainStatus
  <2> QED BY <1>7, <2>1, <2>2 DEF SuspendCommit
<1>8. CASE ReactivateRead(w)
  <2>1. job' \in [Workers -> Job]
    BY <1>8, FinishTyped, RecheckTyped DEF ReactivateRead, At
  <2> QED BY <1>8, <2>1 DEF ReactivateRead
<1>9. CASE ReactivateList(w)
  <2>1. job' \in [Workers -> Job]
    <3> HIDE DEF TypeOK
    <3>1. ~At(w, "idle") /\ "reactivate_set" \in DomainPC
      BY <1>9 DEF ReactivateList, At, DomainPC
    <3>2. ActiveMailboxes(job[w].dom) \in SUBSET Mailboxes
      BY ActiveMailboxesTyped
    <3> QED BY <1>9, <3>1, <3>2, BusyJobEdited DEF ReactivateList
  <2> QED BY <1>9, <2>1 DEF ReactivateList
<1>10. ASSUME NEW m \in Mailboxes, ReactivateWrite(w, m) PROVE TypeOK'
  <2>1. job' \in [Workers -> Job]
    BY <1>10, TickOffTyped DEF ReactivateWrite, At, DomainPC
  <2>2. account' \in [Mailboxes -> Account]
    BY <1>10, WriteTyped DEF ReactivateWrite, Permissions
  <2> QED BY <1>10, <2>1, <2>2 DEF ReactivateWrite
<1>11. ASSUME NEW m \in Mailboxes, ReactivateWriteFails(w, m) PROVE TypeOK'
  <2>1. job' \in [Workers -> Job]
    BY <1>11, TickOffTyped DEF ReactivateWriteFails, At, DomainPC
  <2>2. account' \in [Mailboxes -> Account]
    BY <1>11, WriteTyped DEF ReactivateWriteFails, Permissions
  <2> QED BY <1>11, <2>1, <2>2 DEF ReactivateWriteFails
<1>12. CASE ReactivateListed(w)
  <2>1. job' \in [Workers -> Job]
    <3> HIDE DEF TypeOK
    <3>1. /\ ~At(w, "idle")
          /\ "reactivate_commit" \in DomainPC
          /\ "reactivate_rollback" \in DomainPC
      BY <1>12 DEF ReactivateListed, At, DomainPC
    <3>2. job[w].done \in SUBSET Mailboxes
      BY DoneTyped
    <3>3. CASE Goto(w, "reactivate_commit")
      BY <3>1, <3>3, GotoDomainTyped
    <3>4. CASE job' = [job EXCEPT ![w].pc = "reactivate_rollback",
                                  ![w].todo = job[w].done]
      BY <3>1, <3>2, <3>4, BusyJobEdited
    <3> QED BY <1>12, <3>3, <3>4 DEF ReactivateListed
  <2> QED BY <1>12, <2>1 DEF ReactivateListed
<1>13. ASSUME NEW m \in Mailboxes, ReactivateUndo(w, m) PROVE TypeOK'
  <2>1. job' \in [Workers -> Job]
    BY <1>13, TickOffTyped DEF ReactivateUndo, At, DomainPC
  <2>2. account' \in [Mailboxes -> Account]
    BY <1>13, WriteTyped DEF ReactivateUndo, Permissions
  <2> QED BY <1>13, <2>1, <2>2 DEF ReactivateUndo
<1>14. CASE ReactivateUndone(w)
  <2>1. job' \in [Workers -> Job]
    BY <1>14, FinishTyped DEF ReactivateUndone, At
  <2> QED BY <1>14, <2>1 DEF ReactivateUndone
<1>15. CASE ReactivateCommit(w)
  <2>1. job' \in [Workers -> Job]
    BY <1>15, FinishTyped, GotoDomainTyped DEF ReactivateCommit, At, DomainPC
  <2>2. domain' \in [Domains -> DomainRow]
    <3> DEFINE d == job[w].dom
               status == RestoredStatus(d)
    <3>1. d \in Domains /\ domain[d] \in DomainRow
      BY <1>15, BusyJobHasDomain DEF ReactivateCommit, At
    <3>2. status \in DomainStatus
      BY <3>1 DEF RestoredStatus, DomainRow, DomainStatus
    <3>3. domain' = [domain EXCEPT ![d].sending_enabled = FALSE,
                                   ![d].status = status]
      BY <1>15 DEF ReactivateCommit
    <3> HIDE DEF d, status
    <3> QED BY <3>1, <3>2, <3>3 DEF DomainRow
  <2> QED BY <1>15, <2>1, <2>2 DEF ReactivateCommit
<1> QED
  BY <1>1, <1>2, <1>3, <1>4, <1>5, <1>6, <1>7, <1>8, <1>9, <1>10, <1>11,
      <1>12, <1>13, <1>14, <1>15
  DEF SuspensionBegin, SuspensionStep

---------------------------------------------------------------------------
(* Loops over an organization. *)

\* Suspension and reactivation of an organization keep the types.
LEMMA TenantTypes ==
  ASSUME TypeOK, NEW w \in Workers, TenantBegin(w) \/ TenantStep(w)
  PROVE  TypeOK'
<1> USE DEF TypeOK, rows, addresses, backend, control
<1>1. CASE SuspendTenant(w)
  <2>1. frame' \in [Workers -> Frame]
    BY <1>1, LoopTyped DEF SuspendTenant, FramePC
  <2>2. tenant' \in TenantStatus
    BY <1>1 DEF SuspendTenant, TenantStatus
  <2> QED BY <1>1, <2>1, <2>2 DEF SuspendTenant
<1>2. CASE ReactivateTenantBegin(w)
  <2>1. frame' \in [Workers -> Frame]
    BY <1>2, LoopTyped DEF ReactivateTenantBegin, FramePC
  <2> QED BY <1>2, <2>1 DEF ReactivateTenantBegin
<1>3. ASSUME NEW d \in Domains, LoopCall(w, d) PROVE TypeOK'
  <2>1. job' \in [Workers -> Job]
    <3>1. EntryPoint[frame[w].pc] \in DomainPC
      BY <1>3 DEF LoopCall, EntryPoint, DomainPC
    <3> HIDE DEF TypeOK
    <3> QED BY <1>3, <3>1, BeginDomainTyped DEF LoopCall
  <2> QED BY <1>3, <2>1 DEF LoopCall
<1>4. CASE LoopReturn(w)
  <2>1. job' \in [Workers -> Job]
    BY <1>4, IdleIsJob DEF LoopReturn
  <2>2. frame' \in [Workers -> Frame]
    <3> DEFINE d == job[w].dom
               old == frame[w]
               restored == IF /\ old.pc = "reactivate_loop"
                              /\ job[w].result = "ok"
                           THEN old.restored \cup {d} ELSE old.restored
               failed == IF job[w].result = "failed"
                         THEN old.failed \cup {d} ELSE old.failed
               next == [old EXCEPT !.todo = @ \ {d}, !.restored = restored,
                                   !.failed = failed]
    <3>1. d \in Domains /\ old \in Frame
      BY <1>4, BusyJobHasDomain DEF LoopReturn
    <3>2. restored \in SUBSET Domains /\ failed \in SUBSET Domains
      BY <3>1 DEF Frame
    <3>3. next \in Frame
      <4> HIDE DEF d, old, restored, failed
      <4> QED BY <3>1, <3>2 DEF Frame
    <3>4. frame' = [frame EXCEPT ![w] = next]
      BY <1>4 DEF LoopReturn
    <3> HIDE DEF next
    <3> QED BY <3>3, <3>4
  <2> QED BY <1>4, <2>1, <2>2 DEF LoopReturn
<1>5. CASE LoopReturnToUser(w)
  <2>1. frame' \in [Workers -> Frame]
    BY <1>5, NoFrameIsFrame DEF LoopReturnToUser
  <2> QED BY <1>5, <2>1 DEF LoopReturnToUser
<1>6. CASE ReactivateTenantList(w)
  <2>1. frame' \in [Workers -> Frame]
    BY <1>6, LoopTyped DEF ReactivateTenantList, FramePC
  <2> QED BY <1>6, <2>1 DEF ReactivateTenantList
<1>7. CASE ReactivateTenantLoopEnd(w)
  <2>1. frame' \in [Workers -> Frame]
    BY <1>7, LoopTyped DEF ReactivateTenantLoopEnd, Frame, FramePC
  <2> QED BY <1>7, <2>1 DEF ReactivateTenantLoopEnd
<1>8. CASE ReactivateTenantCommit(w)
  <2>1. frame' \in [Workers -> Frame]
    BY <1>8, LoopTyped DEF ReactivateTenantCommit, FramePC
  <2>2. tenant' \in TenantStatus
    BY <1>8 DEF ReactivateTenantCommit, TenantStatus
  <2> QED BY <1>8, <2>1, <2>2 DEF ReactivateTenantCommit
<1>9. CASE ReactivateTenantRecheck(w)
  <2>1. frame' \in [Workers -> Frame]
    BY <1>9, LoopTyped DEF ReactivateTenantRecheck, FramePC
  <2> QED BY <1>9, <2>1 DEF ReactivateTenantRecheck
<1> QED
  BY <1>1, <1>2, <1>3, <1>4, <1>5, <1>6, <1>7, <1>8, <1>9
  DEF TenantBegin, TenantStep

---------------------------------------------------------------------------
(* Mailboxes. *)

\* The operations on mailboxes keep the types.
LEMMA MailboxTypes ==
  ASSUME TypeOK, NEW w \in Workers, MailboxBegin(w) \/ MailboxStep(w)
  PROVE  TypeOK'
<1> USE DEF TypeOK, rows, addresses, backend, control
<1>1. ASSUME NEW m \in Mailboxes, ProvisionMailboxBegin(w, m) PROVE TypeOK'
  <2>1. job' \in [Workers -> Job]
    BY <1>1, BeginMailboxTyped, SendingTyped
    DEF ProvisionMailboxBegin, AccessFromRead, AddressPC, DomainRow
  <2> QED BY <1>1, <2>1 DEF ProvisionMailboxBegin
<1>2. ASSUME NEW m \in Mailboxes, SuspendMailboxBegin(w, m) PROVE TypeOK'
  <2>1. job' \in [Workers -> Job]
    BY <1>2, BeginMailboxTyped DEF SuspendMailboxBegin, AddressPC, Permissions
  <2> QED BY <1>2, <2>1 DEF SuspendMailboxBegin
<1>3. ASSUME NEW m \in Mailboxes, ReactivateMailboxBegin(w, m) PROVE TypeOK'
  <2>1. job' \in [Workers -> Job]
    BY <1>3, BeginMailboxTyped, SendingTyped
    DEF ReactivateMailboxBegin, AccessFromRead, AddressPC, DomainRow
  <2> QED BY <1>3, <2>1 DEF ReactivateMailboxBegin
<1>4. ASSUME NEW m \in Mailboxes, DeleteMailboxBegin(w, m) PROVE TypeOK'
  <2>1. job' \in [Workers -> Job]
    BY <1>4, BeginMailboxTyped DEF DeleteMailboxBegin, AddressPC, Permissions
  <2> QED BY <1>4, <2>1 DEF DeleteMailboxBegin
<1>5. CASE MailboxReserve(w)
  <2>1. job' \in [Workers -> Job]
    BY <1>5, FinishTyped, GotoAddressTyped DEF MailboxReserve, At, AddressPC
  <2>2. mailbox' \in [Mailboxes -> MailboxRow]
    <3>1. [status |-> "provisioning", backend_identifier |-> FALSE]
             \in MailboxRow
      BY DEF MailboxRow, MailboxStatus
    <3> QED BY <1>5, <3>1 DEF MailboxReserve
  <2> QED BY <1>5, <2>1, <2>2 DEF MailboxReserve
<1>6. CASE MailboxCreate(w)
  <2>1. job' \in [Workers -> Job]
    BY <1>6, GotoAddressTyped DEF MailboxCreate, At, AddressPC
  <2>2. account' \in [Mailboxes -> Account]
    BY <1>6, JobTarget DEF MailboxCreate, CreateAccount, Account
  <2> QED BY <1>6, <2>1, <2>2 DEF MailboxCreate
<1>7. CASE MailboxCreateFails(w)
  <2>1. job' \in [Workers -> Job]
    BY <1>7, GotoAddressTyped DEF MailboxCreateFails, At, AddressPC
  <2>2. account' \in [Mailboxes -> Account]
    BY <1>7, JobTarget DEF MailboxCreateFails, CreateAccount, Account
  <2> QED BY <1>7, <2>1, <2>2 DEF MailboxCreateFails
<1>8. CASE MailboxDiscard(w)
  <2>1. job' \in [Workers -> Job]
    BY <1>8, FinishTyped DEF MailboxDiscard, At
  <2>2. mailbox' \in [Mailboxes -> MailboxRow]
    BY <1>8 DEF MailboxDiscard, NoMailboxRow, MailboxRow, MailboxStatus
  <2> QED BY <1>8, <2>1, <2>2 DEF MailboxDiscard
<1>9. CASE MailboxSave(w)
  <2>1. job' \in [Workers -> Job]
    BY <1>9, FinishTyped DEF MailboxSave, At
  <2>2. mailbox' \in [Mailboxes -> MailboxRow]
    BY <1>9 DEF MailboxSave, ServedMailbox, MailboxRow, MailboxStatus
  <2> QED BY <1>9, <2>1, <2>2 DEF MailboxSave
<1>10. CASE MailboxWrite(w)
  <2>1. job' \in [Workers -> Job]
    BY <1>10, GotoAddressTyped
    DEF MailboxWrite, WritesPermissions, SavePC, At, AddressPC
  <2>2. account' \in [Mailboxes -> Account]
    BY <1>10, WriteTyped, JobTarget DEF MailboxWrite
  <2> QED BY <1>10, <2>1, <2>2 DEF MailboxWrite
<1>11. CASE MailboxWriteFails(w)
  <2>1. job' \in [Workers -> Job]
    BY <1>11, FinishTyped DEF MailboxWriteFails, WritesPermissions, At
  <2>2. account' \in [Mailboxes -> Account]
    BY <1>11, WriteTyped, JobTarget DEF MailboxWriteFails
  <2> QED BY <1>11, <2>1, <2>2 DEF MailboxWriteFails
<1>12. CASE MailboxDestroy(w)
  <2>1. job' \in [Workers -> Job]
    BY <1>12, GotoAddressTyped DEF MailboxDestroy, At, AddressPC
  <2>2. account' \in [Mailboxes -> Account]
    BY <1>12 DEF MailboxDestroy, DestroyAccount, Account
  <2> QED BY <1>12, <2>1, <2>2 DEF MailboxDestroy
<1>13. CASE MailboxDestroyFails(w)
  <2>1. job' \in [Workers -> Job]
    BY <1>13, FinishTyped DEF MailboxDestroyFails, At
  <2>2. account' \in [Mailboxes -> Account]
    BY <1>13 DEF MailboxDestroyFails, DestroyAccount, Account
  <2> QED BY <1>13, <2>1, <2>2 DEF MailboxDestroyFails
<1>14. CASE MailboxSuspendSave(w)
  <2>1. job' \in [Workers -> Job]
    BY <1>14, FinishTyped DEF MailboxSuspendSave, At
  <2>2. mailbox' \in [Mailboxes -> MailboxRow]
    BY <1>14, ZenonT(60) DEF MailboxSuspendSave, MailboxRow, MailboxStatus
  <2> QED BY <1>14, <2>1, <2>2 DEF MailboxSuspendSave
<1>15. CASE MailboxReactivateSave(w)
  <2>1. job' \in [Workers -> Job]
    BY <1>15, FinishTyped DEF MailboxReactivateSave, At
  <2>2. mailbox' \in [Mailboxes -> MailboxRow]
    BY <1>15, ZenonT(60) DEF MailboxReactivateSave, MailboxRow, MailboxStatus
  <2> QED BY <1>15, <2>1, <2>2 DEF MailboxReactivateSave
<1>16. CASE MailboxDeleteSave(w)
  <2>1. job' \in [Workers -> Job]
    BY <1>16, FinishTyped DEF MailboxDeleteSave, At
  <2>2. mailbox' \in [Mailboxes -> MailboxRow]
    BY <1>16 DEF MailboxDeleteSave, MailboxRow, MailboxStatus
  <2> QED BY <1>16, <2>1, <2>2 DEF MailboxDeleteSave
<1> QED
  BY <1>1, <1>2, <1>3, <1>4, <1>5, <1>6, <1>7, <1>8, <1>9, <1>10, <1>11,
      <1>12, <1>13, <1>14, <1>15, <1>16
  DEF MailboxBegin, MailboxStep

---------------------------------------------------------------------------
(* Forwarders. *)

\* The operations on forwarders keep the types.
LEMMA ForwarderTypes ==
  ASSUME TypeOK, NEW w \in Workers, ForwarderBegin(w) \/ ForwarderStep(w)
  PROVE  TypeOK'
<1> USE DEF TypeOK, rows, addresses, backend, control
<1>1. ASSUME NEW m \in Mailboxes, NEW to \in Destinations,
             ProvisionForwarderBegin(w, m, to)
      PROVE TypeOK'
  <2>1. job' \in [Workers -> Job]
    BY <1>1, BeginForwarderTyped DEF ProvisionForwarderBegin, AddressPC
  <2> QED BY <1>1, <2>1 DEF ProvisionForwarderBegin
<1>2. ASSUME NEW m \in Mailboxes, NEW to \in Destinations,
             UpdateForwarderBegin(w, m, to)
      PROVE TypeOK'
  <2>1. job' \in [Workers -> Job]
    BY <1>2, BeginForwarderTyped DEF UpdateForwarderBegin, AddressPC
  <2> QED BY <1>2, <2>1 DEF UpdateForwarderBegin
<1>3. ASSUME NEW m \in Mailboxes, DeleteForwarderBegin(w, m) PROVE TypeOK'
  <2>1. job' \in [Workers -> Job]
    BY <1>3, BeginForwarderTyped DEF DeleteForwarderBegin, AddressPC
  <2> QED BY <1>3, <2>1 DEF DeleteForwarderBegin
<1>4. CASE ForwarderReserve(w)
  <2>1. job' \in [Workers -> Job]
    BY <1>4, FinishTyped, GotoAddressTyped DEF ForwarderReserve, At, AddressPC
  <2>2. alias' \in [Mailboxes -> AliasRow]
    BY <1>4, JobTo DEF ForwarderReserve, AliasRow, AliasStatus
  <2> QED BY <1>4, <2>1, <2>2 DEF ForwarderReserve
<1>5. CASE ForwarderCreate(w)
  <2>1. job' \in [Workers -> Job]
    BY <1>5, GotoAddressTyped DEF ForwarderCreate, At, AddressPC
  <2>2. mailing_list' \in [Mailboxes -> Destinations \cup {Nowhere}]
    BY <1>5, CreateListTyped DEF ForwarderCreate
  <2> QED BY <1>5, <2>1, <2>2 DEF ForwarderCreate
<1>6. CASE ForwarderCreateFails(w)
  <2>1. job' \in [Workers -> Job]
    BY <1>6, GotoAddressTyped DEF ForwarderCreateFails, At, AddressPC
  <2>2. mailing_list' \in [Mailboxes -> Destinations \cup {Nowhere}]
    BY <1>6, CreateListTyped DEF ForwarderCreateFails
  <2> QED BY <1>6, <2>1, <2>2 DEF ForwarderCreateFails
<1>7. CASE ForwarderDiscard(w)
  <2>1. job' \in [Workers -> Job]
    BY <1>7, FinishTyped DEF ForwarderDiscard, At
  <2>2. alias' \in [Mailboxes -> AliasRow]
    BY <1>7 DEF ForwarderDiscard, NoAliasRow, AliasRow, AliasStatus
  <2> QED BY <1>7, <2>1, <2>2 DEF ForwarderDiscard
<1>8. CASE ForwarderSave(w)
  <2>1. job' \in [Workers -> Job]
    BY <1>8, FinishTyped DEF ForwarderSave, At
  <2>2. alias' \in [Mailboxes -> AliasRow]
    BY <1>8 DEF ForwarderSave, AliasRow, AliasStatus
  <2> QED BY <1>8, <2>1, <2>2 DEF ForwarderSave
<1>9. CASE ForwarderUpdate(w)
  <2>1. job' \in [Workers -> Job]
    BY <1>9, GotoAddressTyped DEF ForwarderUpdate, At, AddressPC
  <2>2. mailing_list' \in [Mailboxes -> Destinations \cup {Nowhere}]
    BY <1>9, ListTyped, JobTo DEF ForwarderUpdate
  <2> QED BY <1>9, <2>1, <2>2 DEF ForwarderUpdate
<1>10. CASE ForwarderDestroy(w)
  <2>1. job' \in [Workers -> Job]
    BY <1>10, GotoAddressTyped DEF ForwarderDestroy, At, AddressPC
  <2>2. mailing_list' \in [Mailboxes -> Destinations \cup {Nowhere}]
    BY <1>10, ListTyped DEF ForwarderDestroy
  <2> QED BY <1>10, <2>1, <2>2 DEF ForwarderDestroy
<1>11. CASE ForwarderChangeFails(w)
  <2>1. job' \in [Workers -> Job]
    BY <1>11, FinishTyped DEF ForwarderChangeFails, At
  <2>2. mailing_list' \in [Mailboxes -> Destinations \cup {Nowhere}]
    BY <1>11, ListTyped, JobTo DEF ForwarderChangeFails
  <2> QED BY <1>11, <2>1, <2>2 DEF ForwarderChangeFails
<1>12. CASE ForwarderUpdateSave(w)
  <2>1. job' \in [Workers -> Job]
    BY <1>12, FinishTyped DEF ForwarderUpdateSave, At
  <2>2. alias' \in [Mailboxes -> AliasRow]
    BY <1>12, JobTo, ZenonT(60) DEF ForwarderUpdateSave, AliasRow, AliasStatus
  <2> QED BY <1>12, <2>1, <2>2 DEF ForwarderUpdateSave
<1>13. CASE ForwarderDeleteSave(w)
  <2>1. job' \in [Workers -> Job]
    BY <1>13, FinishTyped DEF ForwarderDeleteSave, At
  <2>2. alias' \in [Mailboxes -> AliasRow]
    BY <1>13, ZenonT(60) DEF ForwarderDeleteSave, AliasRow, AliasStatus
  <2> QED BY <1>13, <2>1, <2>2 DEF ForwarderDeleteSave
<1> QED
  BY <1>1, <1>2, <1>3, <1>4, <1>5, <1>6, <1>7, <1>8, <1>9, <1>10, <1>11,
      <1>12, <1>13
  DEF ForwarderBegin, ForwarderStep

---------------------------------------------------------------------------
(* Type correctness. *)

\* A worker that dies leaves well-typed rows.
LEMMA CrashTypes ==
  ASSUME TypeOK, NEW w \in Workers, Crash(w)
  PROVE  TypeOK'
<1> USE DEF TypeOK, Crash, rows, addresses, backend
<1>1. job' \in [Workers -> Job] /\ frame' \in [Workers -> Frame]
  BY IdleIsJob, NoFrameIsFrame
<1>2. crashes' \in 0..MaxCrashes
  BY ConstantsAssumption
<1> QED
  BY <1>1, <1>2

\* The initial rows, accounts and workers are well-typed.
LEMMA InitTypes == Init => TypeOK
<1> SUFFICES ASSUME Init PROVE TypeOK
  OBVIOUS
<1>1. {NewRow, OnboardedRow, RetiredRow} \subseteq DomainRow
  <2>1. NewRow \in DomainRow /\ OnboardedRow \in DomainRow
    BY DEF NewRow, OnboardedRow, DomainRow, DomainStatus
  <2>2. RetiredRow \in DomainRow
    BY <2>1 DEF RetiredRow, DomainRow, DomainStatus
  <2> QED BY <2>1, <2>2
<1>2. {NoMailboxRow, ServedMailbox} \subseteq MailboxRow
  BY DEF NoMailboxRow, ServedMailbox, MailboxRow, MailboxStatus
<1>3. domain \in [Domains -> DomainRow] /\ mailbox \in [Mailboxes -> MailboxRow]
  BY <1>1, <1>2 DEF Init
<1>4. backend_domain \in [Domains -> BOOLEAN]
  BY <1>3 DEF Init, DomainRow
<1>5. account \in [Mailboxes -> Account]
  BY DEF Init, Account, Permissions
<1>6. job \in [Workers -> Job] /\ frame \in [Workers -> Frame]
  BY IdleIsJob, NoFrameIsFrame DEF Init
<1>7. tenant \in TenantStatus /\ crashes \in 0..MaxCrashes
  BY ConstantsAssumption DEF Init, TenantStatus
<1>8. /\ alias \in [Mailboxes -> AliasRow]
      /\ mailing_list \in [Mailboxes -> Destinations \cup {Nowhere}]
  BY DEF Init, NoAliasRow, AliasRow, AliasStatus
<1> QED
  BY <1>3, <1>4, <1>5, <1>6, <1>7, <1>8 DEF TypeOK

\* Every action of every part keeps the types.
LEMMA StepTypes == TypeOK /\ [Next]_vars => TypeOK'
<1>1. ASSUME TypeOK, NEW w \in Workers, Begin(w) \/ Step(w)
      PROVE  TypeOK'
  BY <1>1, SetupTypes, ReadinessTypes, SuspensionTypes, TenantTypes,
     MailboxTypes, ForwarderTypes DEF Begin, Step
<1>2. ASSUME TypeOK, UNCHANGED vars
      PROVE  TypeOK'
  BY <1>2 DEF TypeOK, vars, rows, addresses, backend, control
<1> QED
  BY <1>1, <1>2, CrashTypes DEF Next

(***************************************************************************)
(* Whatever the requests and tasks do to each other, every row, account,   *)
(* job and loop keeps its type; in particular a job that acts on a domain  *)
(* or a mailbox always knows which one.                                    *)
(***************************************************************************)
THEOREM TypeCorrect == Spec => []TypeOK
<1> QED
  BY InitTypes, StepTypes, PTL DEF Spec
=============================================================================
