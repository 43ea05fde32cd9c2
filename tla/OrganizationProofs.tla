------------------------- MODULE OrganizationProofs -------------------------
(***************************************************************************)
(* Who may end a suspension, of a domain and of a whole organization, for  *)
(* any domains and mailboxes, any number of workers and of crashes, and    *)
(* any set of requests.                                                    *)
(*                                                                         *)
(* Neither suspend_domain nor suspend_tenant waits for a setup job or for  *)
(* a domain's reactivation that is under way, and these write the row      *)
(* without asking whether it was suspended in the meantime.  So both       *)
(* results say what holds where none is.  For one domain it is read off    *)
(* the steps that write a row.  For the organization, many workers loop    *)
(* over the same domains at once; the invariant says which of them still   *)
(* answers for each domain that is not suspended.                          *)
(***************************************************************************)
EXTENDS ControlPlaneProofs

SetupPC   == {"verify_commit"} \cup ProvisionPC
SuspendPC == {"suspend_read", "suspend_set", "suspend_commit"}
CheckPC   == {"check_read", "check_inspect", "check_sync", "check_commit"}
ReactivatePC ==
  { "reactivate_read", "reactivate_list", "reactivate_set",
    "reactivate_rollback", "reactivate_commit" }

---------------------------------------------------------------------------
(* The end of a domain's suspension. *)

\* Every way to write a row's status, or the organization's.
WritesStatus(w) ==
  \/ CheckCommit(w) \/ SuspendCommit(w) \/ ReactivateCommit(w)
  \/ SuspendTenant(w) \/ ReactivateTenantCommit(w)
  \/ VerifyCommit(w) \/ ProvisionMark(w)
  \/ ProvisionRollback(w) \/ ProvisionCommit(w)

\* Other steps leave them alone.
LEMMA StatusWriters ==
  ASSUME TypeOK, NEW w \in Workers, Begin(w) \/ Step(w)
  PROVE  LeavesGate \/ WritesStatus(w)
<1>1. ASSUME SetupBegin(w) \/ SetupStep(w)
      PROVE  LeavesGate \/ WritesStatus(w)
  BY <1>1
  DEF SetupBegin, SetupStep, VerifyBegin, ProvisionBegin, VerifyUnproven,
      ProvisionCreate, ProvisionCreateFails, WritesStatus, LeavesGate, rows
<1> QED
  BY <1>1, ReadinessLeaves, SuspensionLeaves, TenantLeaves,
     MailboxLeaves, ForwarderLeaves
  DEF Begin, Step, WritesStatus

Stopped(d) == domain[d].status \in {"suspended", "decommissioned"}

\* The steps that may end a suspension of d.
LiftsSuspension(w, d) ==
  /\ job[w].dom = d
  /\ ReactivateCommit(w) \/ job[w].pc \in SetupPC

\* Whoever writes it, a row that is stopped stays so unless such a step is
\* taken on it: no readiness check, no other suspension and nothing that an
\* organization's loop does of its own ends a stop.
LEMMA StopEnds ==
  ASSUME TypeOK, NEW w \in Workers, WritesStatus(w),
         NEW d \in Domains, ~LiftsSuspension(w, d)
  PROVE  /\ Stopped(d) => Stopped(d)'
         /\ domain[d].status = "suspended" => domain'[d].status = "suspended"
<1> USE DEF Stopped
<1>1. CASE CheckCommit(w)
  <2>1. PICK e \in Domains : e = job[w].dom
    BY <1>1, BusyJobHasDomain DEF CheckCommit, At
  <2> DEFINE able == CanSend(w, e)
             status == StatusAfterCheck(w, e)
  <2>2. Stopped(e) => status = domain[e].status
    BY DEF StatusAfterCheck, Operational
  <2>3. domain' = [domain EXCEPT ![e].sending_enabled = able,
                                 ![e].status = status]
    BY <1>1, <2>1 DEF CheckCommit
  <2> HIDE DEF able, status
  <2>4. /\ domain'[e].status = status
        /\ \A x \in Domains \ {e} : domain'[x] = domain[x]
    BY <2>3 DEF TypeOK, DomainRow
  <2> QED BY <2>2, <2>4
<1>2. CASE SuspendCommit(w)
  <2>1. PICK e \in Domains : e = job[w].dom
    BY <1>2, BusyJobHasDomain DEF SuspendCommit, At
  <2>2. /\ domain'[e].status = "suspended"
        /\ \A x \in Domains \ {e} : domain'[x] = domain[x]
    BY <1>2, <2>1 DEF SuspendCommit, TypeOK, DomainRow
  <2> QED BY <2>2
<1>3. CASE ReactivateCommit(w)
  <2>1. PICK e \in Domains : e = job[w].dom
    BY <1>3, BusyJobHasDomain DEF ReactivateCommit, At
  <2> DEFINE status == RestoredStatus(e)
  <2>2. domain' = [domain EXCEPT ![e].sending_enabled = FALSE,
                                 ![e].status = status]
    BY <1>3, <2>1 DEF ReactivateCommit
  <2>3. \A x \in Domains \ {e} : domain'[x] = domain[x]
    <3> HIDE DEF status
    <3> QED BY <2>2 DEF TypeOK
  <2>4. LiftsSuspension(w, e)
    BY <1>3, <2>1 DEF LiftsSuspension
  <2> QED BY <2>3, <2>4
<1>4. CASE SuspendTenant(w) \/ ReactivateTenantCommit(w)
  BY <1>4 DEF SuspendTenant, ReactivateTenantCommit
<1>5. CASE \/ VerifyCommit(w) \/ ProvisionMark(w)
           \/ ProvisionRollback(w) \/ ProvisionCommit(w)
  <2> DEFINE e == job[w].dom
  <2>1. \A x \in Domains \ {e} : domain'[x] = domain[x]
    BY <1>5
    DEF VerifyCommit, ProvisionMark, ProvisionRollback, ProvisionCommit, TypeOK
  <2>2. job[w].pc \in SetupPC
    BY <1>5
    DEF VerifyCommit, ProvisionMark, ProvisionRollback, ProvisionCommit, At,
        SetupPC, ProvisionPC
  <2> QED BY <2>1, <2>2 DEF LiftsSuspension
<1> QED
  BY <1>1, <1>2, <1>3, <1>4, <1>5 DEF WritesStatus

\* So is any row, whoever takes a step.
LEMMA StopStays ==
  ASSUME TypeOK, NEW w \in Workers, Begin(w) \/ Step(w),
         NEW d \in Domains, ~LiftsSuspension(w, d)
  PROVE  /\ Stopped(d) => Stopped(d)'
         /\ domain[d].status = "suspended" => domain'[d].status = "suspended"
  BY StatusWriters, StopEnds DEF LeavesGate, Stopped

\* The jobs that may end a suspension of d, whatever is asked for.
EndsSuspension(w, d) ==
  /\ job[w].dom = d
  /\ job[w].pc \in SetupPC \cup {"reactivate_commit"}

LEMMA SuspensionEnds ==
  ASSUME TypeOK, [Next]_vars, NEW d \in Domains,
         domain[d].status = "suspended", domain'[d].status # "suspended"
  PROVE  \E w \in Workers : EndsSuspension(w, d)
<1>1. PICK w \in Workers : Begin(w) \/ Step(w)
  BY DEF Next, Crash, vars, rows
<1>2. LiftsSuspension(w, d)
  BY <1>1, StopStays
<1> QED
  BY <1>2 DEF LiftsSuspension, EndsSuspension, ReactivateCommit, At

(***************************************************************************)
(* Whatever is asked for, a domain's suspension is ended by a job that is  *)
(* on this domain, and only by its reactivation or by its verification or  *)
(* provisioning (lifecycle.reactivate_domain, provisioning.                *)
(* provision_domain, services.verify_domain_and_record).                   *)
(***************************************************************************)
THEOREM WhoEndsSuspensions ==
  Spec => [][\A d \in Domains :
                /\ domain[d].status = "suspended"
                /\ domain'[d].status # "suspended"
                => \E w \in Workers : EndsSuspension(w, d)]_vars
<1>1. TypeOK /\ [Next]_vars =>
        [\A d \in Domains :
            /\ domain[d].status = "suspended"
            /\ domain'[d].status # "suspended"
            => \E w \in Workers : EndsSuspension(w, d)]_vars
  BY SuspensionEnds
<1> QED
  BY TypeCorrect, <1>1, PTL DEF Spec

\* No setup job is under way on a suspended domain.  None begins on one, so
\* this asks only that none was when the domain was suspended.
NoSetupOverlaps ==
  \A w \in Workers :
    job[w].pc \in SetupPC => domain[job[w].dom].status # "suspended"

(***************************************************************************)
(* Where no setup of a domain overlaps its suspension, the suspension ends *)
(* by a reactivation's own transaction and by nothing else.                *)
(***************************************************************************)
THEOREM ReactivationEndsSuspensions ==
  Spec /\ []NoSetupOverlaps => SuspensionEndsByReactivation
<1>1. TypeOK /\ NoSetupOverlaps /\ [Next]_vars =>
        [\A d \in Domains :
            /\ domain[d].status = "suspended"
            /\ domain'[d].status # "suspended"
            => \E w \in Workers : /\ At(w, "reactivate_commit")
                                  /\ job[w].dom = d]_vars
  BY SuspensionEnds DEF NoSetupOverlaps, EndsSuspension, At
<1> QED
  BY TypeCorrect, <1>1, PTL DEF Spec, SuspensionEndsByReactivation

---------------------------------------------------------------------------
(* How a worker's own job goes on, inside a loop or outside of one. *)

\* What a loop calls, and what its body is doing then.
Body ==
  [ suspend_loop    |-> {"idle"} \cup SuspendPC,
    rollback_loop   |-> {"idle"} \cup SuspendPC,
    reactivate_loop |-> {"idle"} \cup ReactivatePC,
    recheck_loop    |-> {"idle"} \cup CheckPC ]

\* A worker's job belongs to the loop it is in; a job under way has no result
\* yet, and only a loop gets to see one; a reactivation that a loop calls is
\* not followed by a check.
JobFits(w) ==
  /\ frame[w].pc \in DOMAIN Body => job[w].pc \in Body[frame[w].pc]
  /\ frame[w].pc \notin DOMAIN Body \cup {"none"} => At(w, "idle")
  /\ ~At(w, "idle") \/ frame[w].pc \notin DOMAIN Body => job[w].result = "none"
  /\ At(w, "idle") \/ frame[w].pc = "reactivate_loop" => ~job[w].recheck

\* Who asks for nothing that could overlap a suspension.
NobodySetsUp      == Requests \cap {"verify", "provision"} = {}
NobodyReactivates == "reactivate" \notin Requests

Others(w) == \A v \in Workers \ {w} : job'[v] = job[v] /\ frame'[v] = frame[v]

\* w takes up a job outside of any loop.
TakesUp(w) ==
  /\ UNCHANGED control /\ Others(w)
  /\ At(w, "idle") /\ frame[w].pc = "none"
  /\ job'[w].pc # "idle" /\ job'[w].result = "none"
  /\ NobodySetsUp => job'[w].pc \notin SetupPC
  /\ NobodyReactivates => job'[w].pc \notin ReactivatePC

\* w goes on with a job that is at one of the steps in pcs.
GoesOn(w, pcs) ==
  /\ UNCHANGED control /\ Others(w)
  /\ job[w].pc \in pcs /\ job'[w].pc \in pcs
  /\ job'[w].dom = job[w].dom
  /\ job[w].result = "none" => job'[w].result = "none"
  /\ job'[w].recheck => job[w].recheck

\* Its function returns or raises.
Ends(w, pcs) ==
  /\ UNCHANGED control /\ Others(w)
  /\ job[w].pc \in pcs
  /\ \E result \in {"ok", "failed"} : Finish(w, result)

\* The reactivation that was asked for alone ends in a check.
Rechecks(w) ==
  /\ UNCHANGED control /\ Others(w)
  /\ ReactivateCommit(w)
  /\ job[w].recheck /\ job'[w].pc = "check_read"
  /\ job[w].result = "none" => job'[w].result = "none"

\* A jump to the next step goes on.
LEMMA GotoGoesOn ==
  ASSUME TypeOK, NEW w \in Workers, UNCHANGED control, NEW pcs, NEW pc \in pcs,
         job[w].pc \in pcs, Goto(w, pc)
  PROVE  GoesOn(w, pcs)
<1>1. /\ job'[w].pc = pc /\ job'[w].dom = job[w].dom
      /\ job'[w].result = job[w].result /\ job'[w].recheck = job[w].recheck
      /\ \A v \in Workers \ {w} : job'[v] = job[v]
  BY DEF Goto, TypeOK, Job, JobRecord
<1> QED
  BY <1>1 DEF GoesOn, Others, control

\* A return ends a job and disturbs no other.
LEMMA FinishEnds ==
  ASSUME TypeOK, NEW w \in Workers, UNCHANGED control, NEW pcs,
         job[w].pc \in pcs, NEW result \in {"ok", "failed"}, Finish(w, result)
  PROVE  Ends(w, pcs)
  BY DEF Finish, TypeOK, Ends, Others, control

\* A readiness check.
LEMMA ReadinessGoesOn ==
  ASSUME TypeOK, NEW w \in Workers, ReadinessStep(w)
  PROVE  GoesOn(w, CheckPC) \/ Ends(w, CheckPC)
<1> DEFINE Goal == GoesOn(w, CheckPC) \/ Ends(w, CheckPC)
<1> USE DEF At, CheckPC
<1>1. CASE CheckReadAgain(w)
  BY <1>1 DEF CheckReadAgain, CheckRead, Idle, TypeOK, GoesOn, Others, control
<1>2. CASE CheckInspect(w)
  BY <1>2
  DEF CheckInspect, TypeOK, Job, JobRecord, GoesOn, Others, control
<1>3. ASSUME NEW m \in Mailboxes, CheckWrite(w, m) \/ CheckWriteFails(w, m)
      PROVE  Goal
  BY <1>3
  DEF CheckWrite, CheckWriteFails, TypeOK, Job, JobRecord, GoesOn, Others,
      control
<1>4. CASE CheckSynced(w)
  <2>1. UNCHANGED control /\ Goto(w, "check_commit")
    BY <1>4 DEF CheckSynced
  <2> QED BY <1>4, <2>1, GotoGoesOn DEF CheckSynced
<1>5. CASE CheckCommit(w)
  BY <1>5, FinishEnds DEF CheckCommit
<1> QED
  BY <1>1, <1>2, <1>3, <1>4, <1>5 DEF ReadinessStep

\* When a suspension of a domain returns, the row is stopped.
HasStopped(w) ==
  domain'[job[w].dom].status \in {"suspended", "decommissioned"}

LEMMA SuspensionGoesOn ==
  ASSUME TypeOK, NEW w \in Workers, SuspensionStep(w),
         job[w].pc \in SuspendPC
  PROVE  \/ GoesOn(w, SuspendPC)
         \/ Ends(w, SuspendPC) /\ HasStopped(w)
<1> DEFINE Goal == \/ GoesOn(w, SuspendPC)
                   \/ Ends(w, SuspendPC) /\ HasStopped(w)
<1>1. CASE SuspendRead(w)
  <2>1. UNCHANGED control /\ At(w, "suspend_read")
    BY <1>1 DEF SuspendRead
  <2>2. CASE /\ Finish(w, "failed")
             /\ domain[job[w].dom].status = "decommissioned"
    <3>1. Ends(w, SuspendPC)
      BY <2>1, <2>2, FinishEnds DEF At, SuspendPC
    <3>2. HasStopped(w)
      BY <1>1, <2>2 DEF SuspendRead, rows, HasStopped
    <3> QED BY <3>1, <3>2
  <2>3. CASE job' = [job EXCEPT ![w].pc = "suspend_set",
                                ![w].todo = ActiveMailboxes(job[w].dom)]
    BY <2>1, <2>3
    DEF At, SuspendPC, TypeOK, Job, JobRecord, GoesOn, Others, control
  <2> QED BY <1>1, <2>2, <2>3 DEF SuspendRead
<1>2. ASSUME NEW m \in Mailboxes, SuspendWrite(w, m) \/ SuspendWriteFails(w, m)
      PROVE  Goal
  BY <1>2
  DEF SuspendWrite, SuspendWriteFails, TypeOK, Job, JobRecord, GoesOn, Others,
      control, At, SuspendPC
<1>3. CASE SuspendListed(w)
  BY <1>3, GotoGoesOn DEF SuspendListed, At, SuspendPC
<1>4. CASE SuspendCommit(w)
  <2>1. PICK e \in Domains : e = job[w].dom
    BY <1>4, BusyJobHasDomain DEF SuspendCommit, At
  <2>2. Ends(w, SuspendPC)
    BY <1>4, FinishEnds DEF SuspendCommit, At, SuspendPC
  <2>3. domain'[e].status = "suspended"
    BY <1>4, <2>1 DEF SuspendCommit, TypeOK, DomainRow
  <2> QED BY <2>1, <2>2, <2>3 DEF HasStopped
<1> QED
  BY <1>1, <1>2, <1>3, <1>4
  DEF SuspensionStep, ReactivateRead, ReactivateList, ReactivateWrite,
      ReactivateWriteFails, ReactivateListed, ReactivateUndo, ReactivateUndone,
      ReactivateCommit, At, SuspendPC

\* A reactivation of a domain.
LEMMA ReactivationGoesOn ==
  ASSUME TypeOK, NEW w \in Workers, SuspensionStep(w),
         job[w].pc \notin SuspendPC
  PROVE  \/ GoesOn(w, ReactivatePC) \/ Ends(w, ReactivatePC)
         \/ Rechecks(w)
<1> DEFINE Goal == \/ GoesOn(w, ReactivatePC) \/ Ends(w, ReactivatePC)
                   \/ Rechecks(w)
<1> USE DEF At, ReactivatePC
<1>1. CASE ReactivateRead(w)
  <2>1. UNCHANGED control
    BY <1>1 DEF ReactivateRead
  <2>2. CASE Finish(w, "failed") \/ Finish(w, "ok")
    BY <1>1, <2>1, <2>2, FinishEnds DEF ReactivateRead
  <2>3. ASSUME NEW recheck,
               job' = [job EXCEPT ![w].pc = "reactivate_list",
                                  ![w].recheck = @ /\ recheck]
        PROVE  Goal
    <3>1. /\ job'[w].pc = "reactivate_list" /\ job'[w].dom = job[w].dom
          /\ job'[w].result = job[w].result
          /\ job'[w].recheck = (job[w].recheck /\ recheck)
          /\ \A v \in Workers \ {w} : job'[v] = job[v]
      BY <2>3 DEF TypeOK, Job, JobRecord
    <3> QED BY <1>1, <2>1, <3>1 DEF ReactivateRead, GoesOn, Others, control
  <2> QED BY <1>1, <2>2, <2>3 DEF ReactivateRead
<1>2. CASE ReactivateList(w)
  BY <1>2
  DEF ReactivateList, TypeOK, Job, JobRecord, GoesOn, Others, control
<1>3. ASSUME NEW m \in Mailboxes,
             ReactivateWrite(w, m) \/ ReactivateWriteFails(w, m)
      PROVE  Goal
  BY <1>3
  DEF ReactivateWrite, ReactivateWriteFails, TypeOK, Job, JobRecord, GoesOn,
      Others, control
<1>4. CASE ReactivateListed(w)
  <2>1. UNCHANGED control
    BY <1>4 DEF ReactivateListed
  <2>2. CASE Goto(w, "reactivate_commit")
    BY <1>4, <2>1, <2>2, GotoGoesOn DEF ReactivateListed
  <2>3. CASE job' = [job EXCEPT ![w].pc = "reactivate_rollback",
                                ![w].todo = job[w].done]
    BY <1>4, <2>1, <2>3
    DEF ReactivateListed, TypeOK, Job, JobRecord, GoesOn, Others, control
  <2> QED BY <1>4, <2>2, <2>3 DEF ReactivateListed
<1>5. ASSUME NEW m \in Mailboxes, ReactivateUndo(w, m)
      PROVE  Goal
  BY <1>5
  DEF ReactivateUndo, TypeOK, Job, JobRecord, GoesOn, Others, control
<1>6. CASE ReactivateUndone(w)
  BY <1>6, FinishEnds DEF ReactivateUndone
<1>7. CASE ReactivateCommit(w)
  <2>1. UNCHANGED control
    BY <1>7 DEF ReactivateCommit
  <2>2. CASE job[w].recheck
    BY <1>7, <2>1, <2>2
    DEF ReactivateCommit, Goto, TypeOK, Job, JobRecord, Rechecks, Others,
        control
  <2>3. CASE ~job[w].recheck
    BY <1>7, <2>1, <2>3, FinishEnds DEF ReactivateCommit
  <2> QED BY <2>2, <2>3
<1> QED
  BY <1>1, <1>2, <1>3, <1>4, <1>5, <1>6, <1>7
  DEF SuspensionStep, SuspendRead, SuspendWrite, SuspendWriteFails,
      SuspendListed, SuspendCommit, SuspendPC

\* Verification and provisioning.
LEMMA SetupGoesOn ==
  ASSUME TypeOK, NEW w \in Workers, SetupStep(w)
  PROVE  GoesOn(w, SetupPC) \/ Ends(w, SetupPC)
<1> DEFINE Goal == GoesOn(w, SetupPC) \/ Ends(w, SetupPC)
<1> USE DEF At, SetupPC, ProvisionPC
<1>1. CASE VerifyUnproven(w)
  BY <1>1, FinishEnds DEF VerifyUnproven
<1>2. CASE VerifyCommit(w)
  BY <1>2, FinishEnds DEF VerifyCommit
<1>3. CASE ProvisionMark(w)
  BY <1>3, FinishEnds, GotoGoesOn DEF ProvisionMark
<1>4. CASE ProvisionCreate(w)
  BY <1>4, GotoGoesOn DEF ProvisionCreate
<1>5. CASE ProvisionCreateFails(w)
  BY <1>5, GotoGoesOn DEF ProvisionCreateFails
<1>6. CASE ProvisionRollback(w)
  BY <1>6, FinishEnds DEF ProvisionRollback
<1>7. CASE ProvisionCommit(w)
  BY <1>7, FinishEnds DEF ProvisionCommit
<1> QED
  BY <1>1, <1>2, <1>3, <1>4, <1>5, <1>6, <1>7 DEF SetupStep

\* An operation on a mailbox.
LEMMA MailboxGoesOn ==
  ASSUME TypeOK, NEW w \in Workers, MailboxStep(w)
  PROVE  GoesOn(w, AddressPC) \/ Ends(w, AddressPC)
<1> USE DEF At, AddressPC
<1>1. CASE MailboxReserve(w)
  BY <1>1, FinishEnds, GotoGoesOn DEF MailboxReserve
<1>2. CASE MailboxCreate(w)
  BY <1>2, GotoGoesOn DEF MailboxCreate
<1>3. CASE MailboxCreateFails(w)
  BY <1>3, GotoGoesOn DEF MailboxCreateFails
<1>4. CASE MailboxDiscard(w)
  BY <1>4, FinishEnds DEF MailboxDiscard
<1>5. CASE MailboxSave(w)
  BY <1>5, FinishEnds DEF MailboxSave
<1>6. CASE MailboxWrite(w)
  BY <1>6, GotoGoesOn DEF MailboxWrite, WritesPermissions, SavePC
<1>7. CASE MailboxWriteFails(w)
  BY <1>7, FinishEnds DEF MailboxWriteFails, WritesPermissions
<1>8. CASE MailboxDestroy(w)
  BY <1>8, GotoGoesOn DEF MailboxDestroy
<1>9. CASE MailboxDestroyFails(w)
  BY <1>9, FinishEnds DEF MailboxDestroyFails
<1>10. CASE MailboxSuspendSave(w)
  BY <1>10, FinishEnds DEF MailboxSuspendSave
<1>11. CASE MailboxReactivateSave(w)
  BY <1>11, FinishEnds DEF MailboxReactivateSave
<1>12. CASE MailboxDeleteSave(w)
  BY <1>12, FinishEnds DEF MailboxDeleteSave
<1> QED
  BY <1>1, <1>2, <1>3, <1>4, <1>5, <1>6, <1>7, <1>8, <1>9, <1>10, <1>11, <1>12
  DEF MailboxStep

\* An operation on a forwarder.
LEMMA ForwarderGoesOn ==
  ASSUME TypeOK, NEW w \in Workers, ForwarderStep(w)
  PROVE  GoesOn(w, AddressPC) \/ Ends(w, AddressPC)
<1> USE DEF At, AddressPC
<1>1. CASE ForwarderReserve(w)
  BY <1>1, FinishEnds, GotoGoesOn DEF ForwarderReserve
<1>2. CASE ForwarderCreate(w)
  BY <1>2, GotoGoesOn DEF ForwarderCreate
<1>3. CASE ForwarderCreateFails(w)
  BY <1>3, GotoGoesOn DEF ForwarderCreateFails
<1>4. CASE ForwarderDiscard(w)
  BY <1>4, FinishEnds DEF ForwarderDiscard
<1>5. CASE ForwarderSave(w)
  BY <1>5, FinishEnds DEF ForwarderSave
<1>6. CASE ForwarderUpdate(w)
  BY <1>6, GotoGoesOn DEF ForwarderUpdate
<1>7. CASE ForwarderDestroy(w)
  BY <1>7, GotoGoesOn DEF ForwarderDestroy
<1>8. CASE ForwarderChangeFails(w)
  BY <1>8, FinishEnds DEF ForwarderChangeFails
<1>9. CASE ForwarderUpdateSave(w)
  BY <1>9, FinishEnds DEF ForwarderUpdateSave
<1>10. CASE ForwarderDeleteSave(w)
  BY <1>10, FinishEnds DEF ForwarderDeleteSave
<1> QED
  BY <1>1, <1>2, <1>3, <1>4, <1>5, <1>6, <1>7, <1>8, <1>9, <1>10
  DEF ForwarderStep

\* A request or a task that begins outside of any loop.
LEMMA TakeUp ==
  ASSUME TypeOK, NEW w \in Workers, NEW op, Free(w, op), UNCHANGED control,
         NEW next, job' = [job EXCEPT ![w] = next],
         next.pc # "idle", next.result = "none",
         next.pc \in SetupPC => op \in {"verify", "provision"},
         next.pc \in ReactivatePC => op = "reactivate"
  PROVE  TakesUp(w)
<1>1. job'[w] = next /\ Others(w)
  BY DEF TypeOK, Others, control
<1> QED
  BY <1>1 DEF Free, TakesUp, NobodySetsUp, NobodyReactivates

\* Each does.
LEMMA BeginsFresh ==
  ASSUME TypeOK, NEW w \in Workers,
         \/ SetupBegin(w) \/ ReadinessBegin(w) \/ SuspensionBegin(w)
         \/ MailboxBegin(w) \/ ForwarderBegin(w)
  PROVE  TakesUp(w)
<1>1. ASSUME NEW d \in Domains, VerifyBegin(w, d) PROVE TakesUp(w)
  <2> DEFINE next == [Idle EXCEPT !.pc = "verify_commit", !.dom = d]
  <2>1. /\ next.pc = "verify_commit" /\ next.result = "none"
        /\ next.pc \notin ReactivatePC
    BY DEF Idle, ReactivatePC
  <2>2. /\ Free(w, "verify") /\ UNCHANGED control
        /\ job' = [job EXCEPT ![w] = next]
    BY <1>1 DEF VerifyBegin
  <2> HIDE DEF next
  <2> QED BY <2>1, <2>2, TakeUp
<1>2. ASSUME NEW d \in Domains, ProvisionBegin(w, d) PROVE TakesUp(w)
  <2> DEFINE next == [Idle EXCEPT !.pc = "provision_mark", !.dom = d]
  <2>1. /\ next.pc = "provision_mark" /\ next.result = "none"
        /\ next.pc \notin ReactivatePC
    BY DEF Idle, ReactivatePC
  <2>2. /\ Free(w, "provision") /\ UNCHANGED control
        /\ job' = [job EXCEPT ![w] = next]
    BY <1>2 DEF ProvisionBegin
  <2> HIDE DEF next
  <2> QED BY <2>1, <2>2, TakeUp
<1>3. ASSUME NEW d \in Domains, CheckBegin(w, d) PROVE TakesUp(w)
  <2> DEFINE next == [Idle EXCEPT !.pc = "check_inspect", !.dom = d,
                                  !.target = PolicyFromRead(d)]
  <2>1. /\ next.pc = "check_inspect" /\ next.result = "none"
        /\ next.pc \notin SetupPC \cup ReactivatePC
    BY DEF Idle, SetupPC, ProvisionPC, ReactivatePC
  <2>2. /\ Free(w, "check") /\ UNCHANGED control
        /\ job' = [job EXCEPT ![w] = next]
    BY <1>3 DEF CheckBegin, CheckRead
  <2> HIDE DEF next
  <2> QED BY <2>1, <2>2, TakeUp
<1>4. ASSUME NEW d \in Domains, SuspendBegin(w, d) PROVE TakesUp(w)
  <2> DEFINE next == [Idle EXCEPT !.pc = "suspend_read", !.dom = d]
  <2>1. /\ next.pc = "suspend_read" /\ next.result = "none"
        /\ next.pc \notin SetupPC \cup ReactivatePC
    BY DEF Idle, SetupPC, ProvisionPC, ReactivatePC
  <2>2. /\ Free(w, "suspend") /\ UNCHANGED control
        /\ job' = [job EXCEPT ![w] = next]
    BY <1>4 DEF SuspendBegin
  <2> HIDE DEF next
  <2> QED BY <2>1, <2>2, TakeUp
<1>5. ASSUME NEW d \in Domains, ReactivateBegin(w, d) PROVE TakesUp(w)
  <2> DEFINE next == [Idle EXCEPT !.pc = "reactivate_read", !.dom = d,
                                  !.recheck = TRUE]
  <2>1. /\ next.pc = "reactivate_read" /\ next.result = "none"
        /\ next.pc \notin SetupPC
    BY DEF Idle, SetupPC, ProvisionPC
  <2>2. /\ Free(w, "reactivate") /\ UNCHANGED control
        /\ job' = [job EXCEPT ![w] = next]
    BY <1>5 DEF ReactivateBegin
  <2> HIDE DEF next
  <2> QED BY <2>1, <2>2, TakeUp
<1>6. AddressPC \cap ({"idle"} \cup SetupPC \cup ReactivatePC) = {}
  BY DEF AddressPC, SetupPC, ProvisionPC, ReactivatePC
<1>7. ASSUME NEW op, Free(w, op), UNCHANGED control, NEW m,
             NEW pc \in AddressPC, NEW target, MailboxJob(w, pc, m, target)
      PROVE  TakesUp(w)
  <2> DEFINE next == [Idle EXCEPT !.pc = pc, !.dom = DomainOf[m], !.box = m,
                                  !.target = target]
  <2>1. next.pc = pc /\ next.result = "none"
    BY DEF Idle
  <2>2. job' = [job EXCEPT ![w] = next]
    BY <1>7 DEF MailboxJob
  <2> HIDE DEF next
  <2> QED BY <1>6, <1>7, <2>1, <2>2, TakeUp
<1>8. ASSUME NEW op, Free(w, op), UNCHANGED control, NEW m,
             NEW pc \in AddressPC, NEW to, ForwarderJob(w, pc, m, to)
      PROVE  TakesUp(w)
  <2> DEFINE next == [Idle EXCEPT !.pc = pc, !.dom = DomainOf[m], !.box = m,
                                  !.to = to]
  <2>1. next.pc = pc /\ next.result = "none"
    BY DEF Idle
  <2>2. job' = [job EXCEPT ![w] = next]
    BY <1>8 DEF ForwarderJob
  <2> HIDE DEF next
  <2> QED BY <1>6, <1>8, <2>1, <2>2, TakeUp
<1>9. ASSUME NEW m \in Mailboxes,
             \/ ProvisionMailboxBegin(w, m) \/ SuspendMailboxBegin(w, m)
             \/ ReactivateMailboxBegin(w, m) \/ DeleteMailboxBegin(w, m)
      PROVE  TakesUp(w)
  <2>1. /\ \E op : Free(w, op)
        /\ \E pc \in AddressPC : \E target : MailboxJob(w, pc, m, target)
        /\ UNCHANGED control
    BY <1>9
    DEF ProvisionMailboxBegin, SuspendMailboxBegin, ReactivateMailboxBegin,
        DeleteMailboxBegin, AddressPC
  <2> QED BY <1>7, <2>1
<1>10. ASSUME NEW m \in Mailboxes,
              \/ \E to \in Destinations : \/ ProvisionForwarderBegin(w, m, to)
                                          \/ UpdateForwarderBegin(w, m, to)
              \/ DeleteForwarderBegin(w, m)
       PROVE  TakesUp(w)
  <2>1. /\ \E op : Free(w, op)
        /\ \E pc \in AddressPC : \E to : ForwarderJob(w, pc, m, to)
        /\ UNCHANGED control
    BY <1>10
    DEF ProvisionForwarderBegin, UpdateForwarderBegin, DeleteForwarderBegin,
        AddressPC
  <2> QED BY <1>8, <2>1
<1> QED
  BY <1>1, <1>2, <1>3, <1>4, <1>5, <1>9, <1>10
  DEF SetupBegin, ReadinessBegin, SuspensionBegin, MailboxBegin, ForwarderBegin

---------------------------------------------------------------------------
(* Jobs belong to the loops their workers are in. *)

JobsFit == \A w \in Workers : JobFits(w)

\* What a loop calls is of one kind.
Kinds == {SetupPC, CheckPC, SuspendPC, ReactivatePC, AddressPC}

LEMMA KindsFit ==
  ASSUME TypeOK, NEW w \in Workers, JobFits(w),
         NEW pcs \in Kinds, job[w].pc \in pcs
  PROVE  /\ frame[w].pc \in {"suspend_loop", "rollback_loop"} => pcs = SuspendPC
         /\ frame[w].pc = "reactivate_loop" => pcs = ReactivatePC
         /\ frame[w].pc = "recheck_loop" => pcs = CheckPC
         /\ frame[w].pc \in DOMAIN Body \cup {"none"}
         /\ job[w].result = "none" /\ "idle" \notin pcs
  BY DEF JobFits, Body, Kinds, SetupPC, ProvisionPC, CheckPC, SuspendPC,
         ReactivatePC, AddressPC, At

\* A job that goes on, returns or begins outside of a loop fits.
LEMMA GoesOnFits ==
  ASSUME TypeOK, NEW w \in Workers, JobFits(w), NEW pcs \in Kinds,
         GoesOn(w, pcs)
  PROVE  JobFits(w)'
<1>1. frame'[w].pc = frame[w].pc /\ job'[w].result = "none"
  BY KindsFit DEF GoesOn, control
<1>2. ASSUME frame[w].pc \in DOMAIN Body PROVE job'[w].pc \in Body[frame[w].pc]
  BY <1>2, KindsFit DEF GoesOn, Body
<1> QED
  BY <1>1, <1>2, KindsFit DEF GoesOn, JobFits, Body, At

LEMMA EndsFits ==
  ASSUME TypeOK, NEW w \in Workers, JobFits(w), NEW pcs \in Kinds,
         Ends(w, pcs)
  PROVE  JobFits(w)'
<1>1. frame'[w].pc = frame[w].pc /\ frame[w].pc \in DOMAIN Body \cup {"none"}
  BY KindsFit DEF Ends, control
<1>2. job'[w].pc = "idle" /\ ~job'[w].recheck
  BY DEF Ends, Finish, Idle, TypeOK
<1>3. frame[w].pc = "none" => job'[w].result = "none"
  BY DEF Ends, Finish, Idle, TypeOK
<1> QED
  BY <1>1, <1>2, <1>3 DEF JobFits, Body, At

LEMMA TakesUpFits ==
  ASSUME TypeOK, NEW w \in Workers, TakesUp(w)
  PROVE  JobFits(w)'
  BY DEF TakesUp, JobFits, Body, control, At

\* Only a reactivation that was asked for alone ends in a check.
LEMMA RechecksFits ==
  ASSUME TypeOK, NEW w \in Workers, JobFits(w), Rechecks(w)
  PROVE  JobFits(w)' /\ frame[w].pc = "none"
<1>1. ReactivatePC \in Kinds /\ job[w].pc \in ReactivatePC
  BY DEF Rechecks, ReactivateCommit, At, ReactivatePC, Kinds
<1>2. frame[w].pc = "none"
  BY <1>1, KindsFit DEF Rechecks, JobFits, Body, ReactivatePC, SuspendPC, CheckPC
<1> QED
  BY <1>1, <1>2, KindsFit DEF Rechecks, JobFits, Body, control, At

\* Every step of a worker that is none of a loop's own.
Moves(w) ==
  \/ TakesUp(w) \/ Rechecks(w)
  \/ \E pcs \in Kinds : GoesOn(w, pcs) \/ Ends(w, pcs)

LEMMA WorkerMoves ==
  ASSUME TypeOK, NEW w \in Workers,
         \/ SetupBegin(w) \/ SetupStep(w)
         \/ ReadinessBegin(w) \/ ReadinessStep(w)
         \/ SuspensionBegin(w) \/ SuspensionStep(w)
         \/ MailboxBegin(w) \/ MailboxStep(w)
         \/ ForwarderBegin(w) \/ ForwarderStep(w)
  PROVE  Moves(w)
<1>1. \A pcs \in {SetupPC, CheckPC, SuspendPC, ReactivatePC, AddressPC} :
        pcs \in Kinds
  BY DEF Kinds
<1> QED
  BY <1>1, BeginsFresh, SetupGoesOn, ReadinessGoesOn, SuspensionGoesOn,
     ReactivationGoesOn, MailboxGoesOn, ForwarderGoesOn
  DEF Moves

LEMMA MovesFits ==
  ASSUME TypeOK, NEW w \in Workers, JobFits(w), Moves(w)
  PROVE  JobFits(w)' /\ Others(w)
  BY GoesOnFits, EndsFits, TakesUpFits, RechecksFits
  DEF Moves, GoesOn, Ends, TakesUp, Rechecks

\* A loop calls what belongs to it.
LEMMA TenantFits ==
  ASSUME TypeOK, NEW w \in Workers, JobFits(w), TenantBegin(w) \/ TenantStep(w)
  PROVE  JobFits(w)' /\ Others(w)
<1> DEFINE Goal == JobFits(w)' /\ Others(w)
<1>1. ASSUME SuspendTenant(w) \/ ReactivateTenantBegin(w) PROVE Goal
  <2>1. /\ At(w, "idle") /\ job' = job /\ job[w].result = "none"
        /\ frame'[w].pc \in {"suspend_loop", "reactivate_list"}
    BY <1>1
    DEF SuspendTenant, ReactivateTenantBegin, Loop, Free, TypeOK, Frame,
        JobFits, Body
  <2>2. \A v \in Workers \ {w} : frame'[v] = frame[v]
    BY <1>1 DEF SuspendTenant, ReactivateTenantBegin, Loop, TypeOK
  <2> QED BY <2>1, <2>2 DEF JobFits, Body, Others, At
<1>2. ASSUME NEW d \in Domains, LoopCall(w, d) PROVE Goal
  BY <1>2
  DEF LoopCall, EntryPoint, Idle, TypeOK, JobFits, Body, Others, control, At,
      SuspendPC, ReactivatePC, CheckPC
<1>3. CASE LoopReturn(w)
  BY <1>3 DEF LoopReturn, Idle, TypeOK, Frame, JobFits, Body, Others, At
<1>4. CASE LoopReturnToUser(w)
  BY <1>4
  DEF LoopReturnToUser, LoopDone, NoFrame, Idle, TypeOK, JobFits, Body,
      Others, At
<1>5. CASE ReactivateTenantList(w)
  BY <1>5
  DEF ReactivateTenantList, Loop, TypeOK, Frame, JobFits, Body, Others, At
<1>6. CASE ReactivateTenantLoopEnd(w)
  BY <1>6
  DEF ReactivateTenantLoopEnd, LoopDone, Loop, Idle, TypeOK, Frame, JobFits,
      Body, Others, At
<1>7. CASE ReactivateTenantCommit(w)
  BY <1>7
  DEF ReactivateTenantCommit, Loop, TypeOK, Frame, JobFits, Body, Others, At
<1>8. CASE ReactivateTenantRecheck(w)
  BY <1>8
  DEF ReactivateTenantRecheck, Loop, TypeOK, Frame, JobFits, Body, Others, At
<1> QED
  BY <1>1, <1>2, <1>3, <1>4, <1>5, <1>6, <1>7, <1>8
  DEF TenantBegin, TenantStep
---------------------------------------------------------------------------
(* Who answers for a domain that is not stopped. *)

\* A loop that is going to suspend d.
WillStop(w, d) ==
  /\ frame[w].pc \in {"suspend_loop", "rollback_loop"}
  /\ d \in frame[w].todo
  /\ ~(job[w].dom = d /\ job[w].result # "none")

\* A loop that has restored d, and will suspend it again or go on to make the
\* organization active.
HasRestored(w, d) ==
  /\ frame[w].pc = "reactivate_loop"
  /\ d \in frame[w].restored \/ (job[w].dom = d /\ job[w].result = "ok")

AnswersFor(w, d) ==
  WillStop(w, d) \/ HasRestored(w, d) \/ frame[w].pc = "reactivate_commit"

AllAnswered ==
  tenant = "suspended" /\ crashes = 0 =>
    \A d \in Domains : Stopped(d) \/ \E w \in Workers : AnswersFor(w, d)

OrganizationInv == TypeOK /\ JobsFit /\ AllAnswered

\* No setup of a domain is under way in a suspended organization, and no
\* reactivation that was asked for alone is about to end.  None begins in
\* one, so this asks only that none was under way at the suspension.
NothingLifts ==
  tenant = "suspended" =>
    \A w \in Workers :
      /\ job[w].pc \notin SetupPC
      /\ At(w, "reactivate_commit") => frame[w].pc # "none"

\* One worker's step keeps every domain answered for if it keeps those that
\* were stopped or that it answered for itself.
LEMMA AnswersKept ==
  ASSUME AllAnswered, NEW w \in Workers, Others(w), crashes' = crashes,
         tenant' = "suspended" => tenant = "suspended",
         \A d \in Domains :
            tenant = "suspended" /\ (Stopped(d) \/ AnswersFor(w, d))
            => (Stopped(d) \/ AnswersFor(w, d))'
  PROVE  AllAnswered'
<1> SUFFICES ASSUME tenant = "suspended", crashes = 0, NEW d \in Domains
             PROVE  (Stopped(d) \/ \E v \in Workers : AnswersFor(v, d))'
  BY DEF AllAnswered
<1>1. CASE Stopped(d) \/ AnswersFor(w, d)
  BY <1>1
<1>2. CASE ~Stopped(d) /\ ~AnswersFor(w, d)
  <2>1. PICK v \in Workers \ {w} : AnswersFor(v, d)
    BY <1>2 DEF AllAnswered
  <2>2. AnswersFor(v, d)'
    BY <2>1 DEF AnswersFor, WillStop, HasRestored, Others
  <2> QED BY <2>2
<1> QED
  BY <1>1, <1>2

\* A job that goes on leaves what its worker answers for.
LEMMA GoesOnAnswers ==
  ASSUME TypeOK, NEW w \in Workers, JobFits(w), NEW pcs \in Kinds,
         GoesOn(w, pcs), NEW d, AnswersFor(w, d)
  PROVE  AnswersFor(w, d)'
<1>1. frame' = frame /\ job[w].result = "none" /\ job'[w].result = "none"
  BY KindsFit DEF GoesOn, control
<1> QED
  BY <1>1 DEF AnswersFor, WillStop, HasRestored

\* One that returns does so, too, unless it is a suspension by a loop, which
\* has done then what the loop answered for.
LEMMA EndsAnswers ==
  ASSUME TypeOK, NEW w \in Workers, JobFits(w), NEW pcs \in Kinds,
         Ends(w, pcs), pcs = SuspendPC => HasStopped(w),
         NEW d \in Domains, AnswersFor(w, d)
  PROVE  (Stopped(d) \/ AnswersFor(w, d))'
<1>1. frame' = frame /\ job[w].result = "none"
  BY KindsFit DEF Ends, control
<1>2. frame[w].pc # "none"
  BY DEF AnswersFor, WillStop, HasRestored
<1>3. job'[w].dom = job[w].dom
  BY <1>2 DEF Ends, Finish, Idle, TypeOK
<1>4. CASE WillStop(w, d)
  <2>1. pcs = SuspendPC
    BY <1>4, KindsFit DEF WillStop, Ends
  <2>2. CASE job[w].dom = d
    BY <2>1, <2>2 DEF HasStopped, Stopped
  <2>3. CASE job[w].dom # d
    BY <1>1, <1>3, <1>4, <2>3 DEF WillStop, AnswersFor
  <2> QED BY <2>2, <2>3
<1>5. CASE HasRestored(w, d)
  BY <1>1, <1>5 DEF HasRestored, AnswersFor
<1>6. CASE frame[w].pc = "reactivate_commit"
  BY <1>1, <1>6 DEF AnswersFor
<1> QED
  BY <1>4, <1>5, <1>6 DEF AnswersFor

\* What a loop restores it answers for from that moment on.
LEMMA ReactivateAnswers ==
  ASSUME TypeOK, NEW w \in Workers, JobFits(w), ReactivateCommit(w),
         tenant = "suspended" => frame[w].pc # "none",
         NEW d \in Domains, tenant = "suspended",
         Stopped(d) \/ AnswersFor(w, d)
  PROVE  (Stopped(d) \/ AnswersFor(w, d))'
<1>1. ReactivatePC \in Kinds /\ job[w].pc \in ReactivatePC
  BY DEF ReactivateCommit, At, ReactivatePC, Kinds
<1>2. /\ frame[w].pc = "reactivate_loop" /\ frame' = frame
      /\ job[w].result = "none" /\ ~job[w].recheck
  <2>1. frame[w].pc \in DOMAIN Body /\ job[w].result = "none"
    BY <1>1, KindsFit
  <2>2. frame[w].pc = "reactivate_loop"
    BY <1>1, <2>1 DEF JobFits, Body, ReactivatePC, SuspendPC, CheckPC
  <2> QED BY <2>1, <2>2 DEF JobFits, ReactivateCommit, control
<1>3. job'[w].dom = job[w].dom /\ job'[w].result = "ok"
  BY <1>2 DEF ReactivateCommit, Finish, Idle, TypeOK
<1>4. CASE job[w].dom = d
  BY <1>2, <1>3, <1>4 DEF AnswersFor, HasRestored
<1>5. CASE job[w].dom # d
  <2>1. Stopped(d) => Stopped(d)'
    BY <1>5, StopEnds DEF WritesStatus, LiftsSuspension
  <2>2. AnswersFor(w, d) => AnswersFor(w, d)'
    BY <1>2 DEF AnswersFor, WillStop, HasRestored
  <2> QED BY <2>1, <2>2
<1> QED
  BY <1>4, <1>5
\* Whatever a worker does that is none of a loop's own steps.
Ordinary(w) ==
  \/ SetupBegin(w) \/ SetupStep(w)
  \/ ReadinessBegin(w) \/ ReadinessStep(w)
  \/ SuspensionBegin(w) \/ SuspensionStep(w)
  \/ MailboxBegin(w) \/ MailboxStep(w)
  \/ ForwarderBegin(w) \/ ForwarderStep(w)

\* It leaves the organization's row alone.
LEMMA OrdinaryTenant ==
  ASSUME TypeOK, NEW w \in Workers, Ordinary(w)
  PROVE  tenant' = tenant
<1>1. CASE SetupBegin(w) \/ SetupStep(w)
  BY <1>1
  DEF SetupBegin, SetupStep, VerifyBegin, ProvisionBegin, VerifyUnproven,
      VerifyCommit, ProvisionMark, ProvisionCreate, ProvisionCreateFails,
      ProvisionRollback, ProvisionCommit, rows
<1>2. CASE ReadinessBegin(w) \/ ReadinessStep(w)
  BY <1>2, ReadinessLeaves DEF LeavesGate, CheckCommit
<1>3. CASE SuspensionBegin(w) \/ SuspensionStep(w)
  BY <1>3, SuspensionLeaves DEF LeavesGate, SuspendCommit, ReactivateCommit
<1>4. CASE \/ MailboxBegin(w) \/ MailboxStep(w)
           \/ ForwarderBegin(w) \/ ForwarderStep(w)
  BY <1>4, MailboxLeaves, ForwarderLeaves DEF LeavesGate
<1> QED
  BY <1>1, <1>2, <1>3, <1>4 DEF Ordinary

\* A suspension returns when the row is stopped.
LEMMA OrdinaryMoves ==
  ASSUME TypeOK, NEW w \in Workers, Ordinary(w)
  PROVE  \/ TakesUp(w) \/ ReactivateCommit(w)
         \/ \E pcs \in Kinds : GoesOn(w, pcs)
         \/ \E pcs \in Kinds : Ends(w, pcs) /\ (pcs = SuspendPC => HasStopped(w))
<1> DEFINE Goal ==
      \/ TakesUp(w) \/ ReactivateCommit(w)
      \/ \E pcs \in Kinds : GoesOn(w, pcs)
      \/ \E pcs \in Kinds : Ends(w, pcs) /\ (pcs = SuspendPC => HasStopped(w))
<1>1. /\ SetupPC \in Kinds /\ CheckPC \in Kinds /\ SuspendPC \in Kinds
      /\ ReactivatePC \in Kinds /\ AddressPC \in Kinds
  BY DEF Kinds
<1>2. \A pcs \in {SetupPC, CheckPC, ReactivatePC, AddressPC} : pcs # SuspendPC
  <2>1. "suspend_read" \in SuspendPC
    BY DEF SuspendPC
  <2> QED
    BY <2>1 DEF SetupPC, ProvisionPC, CheckPC, ReactivatePC, AddressPC
<1>3. CASE \/ SetupBegin(w) \/ ReadinessBegin(w) \/ SuspensionBegin(w)
           \/ MailboxBegin(w) \/ ForwarderBegin(w)
  BY <1>3, BeginsFresh
<1>4. CASE \/ SetupStep(w) \/ ReadinessStep(w)
           \/ MailboxStep(w) \/ ForwarderStep(w)
  BY <1>1, <1>2, <1>4, SetupGoesOn, ReadinessGoesOn, MailboxGoesOn,
     ForwarderGoesOn
<1>5. CASE SuspensionStep(w)
  BY <1>1, <1>2, <1>5, SuspensionGoesOn, ReactivationGoesOn DEF Rechecks
<1> QED
  BY <1>3, <1>4, <1>5 DEF Ordinary

LEMMA OrdinaryAnswers ==
  ASSUME OrganizationInv, NothingLifts, NEW w \in Workers, Ordinary(w)
  PROVE  AllAnswered'
<1> USE DEF OrganizationInv
<1>1. JobFits(w)
  BY DEF JobsFit
<1>2. tenant' = tenant
  BY OrdinaryTenant
<1>3. Others(w) /\ crashes' = crashes
  BY <1>1, WorkerMoves
  DEF Ordinary, Moves, GoesOn, Ends, TakesUp, Rechecks, control
<1>4. ASSUME NEW d \in Domains, tenant = "suspended",
             Stopped(d) \/ AnswersFor(w, d)
      PROVE  (Stopped(d) \/ AnswersFor(w, d))'
  <2>1. CASE ReactivateCommit(w)
    BY <1>1, <1>4, <2>1, ReactivateAnswers
    DEF NothingLifts, ReactivateCommit, At
  <2>2. CASE ~ReactivateCommit(w)
    <3>1. Stopped(d) => Stopped(d)'
      BY <1>4, <2>2, StopStays
      DEF NothingLifts, LiftsSuspension, Ordinary, Begin, Step
    <3>2. TakesUp(w) => ~AnswersFor(w, d)
      BY DEF TakesUp, AnswersFor, WillStop, HasRestored
    <3> QED
      BY <1>1, <1>4, <2>2, <3>1, <3>2, OrdinaryMoves, GoesOnAnswers, EndsAnswers
  <2> QED BY <2>1, <2>2
<1> QED
  BY <1>2, <1>3, <1>4, AnswersKept

\* A loop keeps what it answers for, and passes it on from its reactivations
\* to their rollback or to the organization's row.
LEMMA LoopAnswers ==
  ASSUME OrganizationInv, NEW w \in Workers, TenantBegin(w) \/ TenantStep(w)
  PROVE  AllAnswered'
<1> USE DEF OrganizationInv
<1>1. JobFits(w) /\ frame[w] \in Frame
  BY DEF JobsFit, TypeOK
<1>2. Others(w)
  BY <1>1, TenantFits
<1>3. ASSUME domain' = domain, crashes' = crashes, tenant' = tenant,
             \A d \in Domains : AnswersFor(w, d) => AnswersFor(w, d)'
      PROVE  AllAnswered'
  BY <1>2, <1>3, AnswersKept DEF Stopped
<1>4. ASSUME domain' = domain, crashes' = crashes, tenant' = tenant,
             frame[w].pc \in {"none", "reactivate_list", "recheck_list"}
      PROVE  AllAnswered'
  BY <1>3, <1>4 DEF AnswersFor, WillStop, HasRestored
<1> USE DEF rows, control
<1>5. CASE SuspendTenant(w)
  <2>1. /\ frame'[w].pc = "suspend_loop"
        /\ frame'[w].todo = {d \in Domains : domain[d].status # "decommissioned"}
        /\ job' = job /\ domain' = domain
    BY <1>5 DEF SuspendTenant, Loop, TypeOK, Frame
  <2>2. job[w].result = "none"
    BY <1>1, <1>5 DEF SuspendTenant, Free, JobFits, Body
  <2> QED
    BY <2>1, <2>2 DEF AllAnswered, Stopped, AnswersFor, WillStop
<1>6. CASE ReactivateTenantBegin(w)
  BY <1>4, <1>6 DEF ReactivateTenantBegin, Free
<1>7. ASSUME NEW e \in Domains, LoopCall(w, e) PROVE AllAnswered'
  <2>1. frame' = frame /\ job[w] = Idle /\ job'[w].result = "none"
    BY <1>7 DEF LoopCall, Idle, TypeOK
  <2>2. \A d \in Domains : AnswersFor(w, d) => AnswersFor(w, d)'
    BY <2>1 DEF AnswersFor, WillStop, HasRestored, Idle
  <2> QED BY <1>3, <1>7, <2>2 DEF LoopCall
<1>8. CASE LoopReturn(w)
  <2> DEFINE e == job[w].dom
  <2>1. /\ frame'[w].pc = frame[w].pc
        /\ frame'[w].todo = frame[w].todo \ {e}
        /\ frame[w].pc = "reactivate_loop" =>
             frame'[w].restored = IF job[w].result = "ok"
                                  THEN frame[w].restored \cup {e}
                                  ELSE frame[w].restored
        /\ job[w].result # "none" /\ job'[w].result = "none"
    BY <1>1, <1>8 DEF LoopReturn, TypeOK, Frame, Idle
  <2>2. \A d \in Domains : AnswersFor(w, d) => AnswersFor(w, d)'
    BY <2>1 DEF AnswersFor, WillStop, HasRestored
  <2> QED BY <1>3, <1>8, <2>2 DEF LoopReturn
<1>9. CASE LoopReturnToUser(w)
  <2>1. \A d \in Domains : ~AnswersFor(w, d)
    BY <1>9 DEF LoopReturnToUser, LoopDone, AnswersFor, WillStop, HasRestored
  <2> QED BY <1>3, <1>9, <2>1 DEF LoopReturnToUser
<1>10. CASE ReactivateTenantList(w)
  BY <1>4, <1>10 DEF ReactivateTenantList
<1>11. CASE ReactivateTenantLoopEnd(w)
  <2>1. /\ frame[w].pc = "reactivate_loop" /\ job[w].result = "none"
        /\ job' = job
        /\ \/ frame'[w].pc = "reactivate_commit"
           \/ /\ frame'[w].pc = "rollback_loop"
              /\ frame'[w].todo = frame[w].restored
    BY <1>1, <1>11
    DEF ReactivateTenantLoopEnd, LoopDone, Loop, TypeOK, Frame, Idle
  <2>2. \A d \in Domains : AnswersFor(w, d) => AnswersFor(w, d)'
    BY <2>1 DEF AnswersFor, WillStop, HasRestored
  <2> QED BY <1>3, <1>11, <2>2 DEF ReactivateTenantLoopEnd
<1>12. CASE ReactivateTenantCommit(w)
  BY <1>12 DEF ReactivateTenantCommit, AllAnswered
<1>13. CASE ReactivateTenantRecheck(w)
  BY <1>4, <1>13 DEF ReactivateTenantRecheck
<1> QED
  BY <1>5, <1>6, <1>7, <1>8, <1>9, <1>10, <1>11, <1>12, <1>13
  DEF TenantBegin, TenantStep
---------------------------------------------------------------------------
(* The theorems about a suspended organization. *)

\* Every step keeps jobs in their loops and domains answered for.
LEMMA OrganizationStep ==
  OrganizationInv /\ NothingLifts /\ [Next]_vars => OrganizationInv'
<1> SUFFICES ASSUME OrganizationInv, NothingLifts, [Next]_vars
             PROVE  OrganizationInv'
  OBVIOUS
<1> USE DEF OrganizationInv
<1>1. TypeOK'
  BY StepTypes
<1>2. ASSUME NEW w \in Workers, JobFits(w)', Others(w)
      PROVE  JobsFit'
  BY <1>2 DEF JobsFit, JobFits, Others, At
<1>3. ASSUME NEW w \in Workers, Begin(w) \/ Step(w)
      PROVE  JobsFit' /\ AllAnswered'
  <2>1. JobFits(w)
    BY DEF JobsFit
  <2>2. CASE Ordinary(w)
    <3>1. JobFits(w)' /\ Others(w)
      BY <2>1, <2>2, WorkerMoves, MovesFits DEF Ordinary
    <3> QED BY <1>2, <2>2, <3>1, OrdinaryAnswers
  <2>3. CASE TenantBegin(w) \/ TenantStep(w)
    BY <1>2, <2>1, <2>3, TenantFits, LoopAnswers
  <2> QED BY <1>3, <2>2, <2>3 DEF Begin, Step, Ordinary
<1>4. ASSUME NEW w \in Workers, Crash(w)
      PROVE  JobsFit' /\ AllAnswered'
  <2>1. JobFits(w)' /\ Others(w)
    BY <1>4
    DEF Crash, TypeOK, Idle, NoFrame, JobFits, Body, Others, At
  <2>2. AllAnswered'
    BY <1>4 DEF Crash, TypeOK, AllAnswered
  <2> QED BY <1>2, <1>4, <2>1, <2>2
<1>5. CASE UNCHANGED vars
  <2>1. UNCHANGED <<tenant, domain, job, frame, crashes>>
    BY <1>5 DEF vars, rows, control
  <2>2. JobsFit'
    BY <2>1 DEF JobsFit, JobFits, At
  <2>3. AllAnswered'
    BY <2>1 DEF AllAnswered, Stopped, AnswersFor, WillStop, HasRestored
  <2> QED BY <1>1, <2>2, <2>3
<1> QED
  BY <1>1, <1>3, <1>4, <1>5 DEF Next

LEMMA FitInit == Init => JobsFit
  BY DEF Init, JobsFit, JobFits, Idle, NoFrame, Body, At

LEMMA OrganizationInit == Init => OrganizationInv
<1>1. Init => AllAnswered
  BY DEF Init, AllAnswered
<1> QED
  BY <1>1, InitTypes, FitInit DEF OrganizationInv

(***************************************************************************)
(* While no setup job and no single reactivation overlaps the suspension   *)
(* of the organization, and until a worker dies, each of its domains is    *)
(* suspended or retired, or some worker is still going to suspend it or to *)
(* make the organization active (lifecycle.suspend_tenant and              *)
(* reactivate_tenant, any number of them at once).                         *)
(***************************************************************************)
THEOREM DomainsAnsweredFor == Spec /\ []NothingLifts => []OrganizationInv
<1> QED
  BY OrganizationInit, OrganizationStep, PTL DEF Spec

(***************************************************************************)
(* So when all is quiet, a suspended organization has all its domains      *)
(* suspended: what a failed reactivation had restored was suspended again. *)
(***************************************************************************)
THEOREM OrganizationSettles ==
  Spec /\ []NothingLifts => []SuspendedOrganizationSettled
<1>1. OrganizationInv => SuspendedOrganizationSettled
  BY DEF OrganizationInv, AllAnswered, SuspendedOrganizationSettled, Quiet,
         NoFrame, AnswersFor, WillStop, HasRestored, Stopped
<1> QED
  BY DomainsAnsweredFor, <1>1, PTL

---------------------------------------------------------------------------
(* Instances in which nobody asks for what could overlap. *)

NothingUnasked ==
  \A w \in Workers :
    /\ NobodySetsUp => job[w].pc \notin SetupPC
    /\ NobodyReactivates /\ job[w].pc \in ReactivatePC => frame[w].pc # "none"

\* Then nobody is in such a job.
LEMMA UnaskedStep ==
  ASSUME TypeOK, JobsFit, NothingUnasked, [Next]_vars
  PROVE  JobsFit' /\ NothingUnasked'
<1>1. ASSUME NEW w \in Workers, JobFits(w)', Others(w),
             NobodySetsUp => job'[w].pc \notin SetupPC,
             NobodyReactivates /\ job'[w].pc \in ReactivatePC =>
               frame'[w].pc # "none"
      PROVE  JobsFit' /\ NothingUnasked'
  BY <1>1 DEF JobsFit, JobFits, NothingUnasked, Others, At
<1> USE DEF JobsFit
<1>2. ASSUME NEW w \in Workers, Ordinary(w)
      PROVE  JobsFit' /\ NothingUnasked'
  <2>1. Moves(w) /\ JobFits(w)' /\ Others(w)
    BY <1>2, WorkerMoves, MovesFits DEF Ordinary
  <2>2. CASE TakesUp(w) \/ Rechecks(w)
    <3>1. "check_read" \notin SetupPC \cup ReactivatePC
      BY DEF SetupPC, ProvisionPC, ReactivatePC
    <3> QED BY <1>1, <2>1, <2>2, <3>1 DEF TakesUp, Rechecks
  <2>3. ASSUME NEW pcs \in Kinds, GoesOn(w, pcs)
        PROVE  JobsFit' /\ NothingUnasked'
    <3>1. /\ job'[w].pc \in SetupPC => job[w].pc \in SetupPC
          /\ job'[w].pc \in ReactivatePC => job[w].pc \in ReactivatePC
      BY <2>3
      DEF GoesOn, Kinds, SetupPC, ProvisionPC, CheckPC, SuspendPC,
          ReactivatePC, AddressPC
    <3> QED
      BY <1>1, <2>1, <2>3, <3>1 DEF GoesOn, NothingUnasked, control
  <2>4. ASSUME NEW pcs \in Kinds, Ends(w, pcs)
        PROVE  JobsFit' /\ NothingUnasked'
    <3>1. job'[w].pc = "idle"
      BY <2>4 DEF Ends, Finish, Idle, TypeOK
    <3>2. "idle" \notin SetupPC \cup ReactivatePC
      BY DEF SetupPC, ProvisionPC, ReactivatePC
    <3> QED BY <1>1, <2>1, <3>1, <3>2
  <2> QED BY <2>1, <2>2, <2>3, <2>4 DEF Moves
<1>3. ASSUME NEW w \in Workers, TenantBegin(w) \/ TenantStep(w)
      PROVE  JobsFit' /\ NothingUnasked'
  <2>1. JobFits(w)' /\ Others(w)
    BY <1>3, TenantFits
  <2>2. frame'[w].pc = "none" => At(w, "idle")'
    <3>1. \A pc, todo : Loop(w, pc, todo) => frame'[w].pc = pc
      BY DEF Loop, TypeOK, Frame
    <3>2. \A d \in Domains : LoopCall(w, d) => frame'[w].pc # "none"
      BY DEF LoopCall, EntryPoint, control
    <3>3. LoopReturn(w) \/ LoopReturnToUser(w) => At(w, "idle")'
      BY DEF LoopReturn, LoopReturnToUser, LoopDone, Idle, At, TypeOK
    <3> QED
      BY <1>3, <3>1, <3>2, <3>3
      DEF TenantBegin, TenantStep, SuspendTenant, ReactivateTenantBegin,
          ReactivateTenantList, ReactivateTenantLoopEnd,
          ReactivateTenantCommit, ReactivateTenantRecheck
  <2>3. job'[w].pc \notin SetupPC
    BY <2>1, <2>2
    DEF JobFits, Body, At, SetupPC, ProvisionPC, SuspendPC, ReactivatePC,
        CheckPC
  <2>4. "idle" \notin ReactivatePC
    BY DEF ReactivatePC
  <2> QED BY <1>1, <2>1, <2>2, <2>3, <2>4 DEF At
<1>4. ASSUME NEW w \in Workers, Crash(w)
      PROVE  JobsFit' /\ NothingUnasked'
  <2>1. JobFits(w)' /\ Others(w) /\ job'[w].pc = "idle"
    BY <1>4 DEF Crash, TypeOK, Idle, NoFrame, JobFits, Body, Others, At
  <2>2. "idle" \notin SetupPC \cup ReactivatePC
    BY DEF SetupPC, ProvisionPC, ReactivatePC
  <2> QED BY <1>1, <2>1, <2>2
<1>5. CASE UNCHANGED vars
  BY <1>5 DEF vars, control, JobFits, NothingUnasked, At
<1> QED
  BY <1>2, <1>3, <1>4, <1>5 DEF Next, Begin, Step, Ordinary

LEMMA Unasked == Spec => []NothingUnasked
<1>1. Init => JobsFit /\ NothingUnasked
  BY FitInit
  DEF Init, NothingUnasked, Idle, SetupPC, ProvisionPC, ReactivatePC
<1>2. TypeOK /\ JobsFit /\ NothingUnasked /\ [Next]_vars
        => JobsFit' /\ NothingUnasked'
  BY UnaskedStep
<1> QED
  BY TypeCorrect, <1>1, <1>2, PTL DEF Spec

(***************************************************************************)
(* Where nobody verifies or provisions, suspensions end by reactivation    *)
(* alone, whatever else is asked for.                                      *)
(***************************************************************************)
THEOREM SuspensionsEndByReactivation ==
  ASSUME NobodySetsUp
  PROVE  Spec => SuspensionEndsByReactivation
<1>1. NothingUnasked => NoSetupOverlaps
  BY DEF NothingUnasked, NoSetupOverlaps
<1> QED
  BY Unasked, ReactivationEndsSuspensions, <1>1, PTL

(***************************************************************************)
(* Where nobody verifies, provisions or reactivates single domains, a      *)
(* suspended organization settles, whatever else is asked for.             *)
(***************************************************************************)
THEOREM SuspendedOrganizationsSettle ==
  ASSUME NobodySetsUp, NobodyReactivates
  PROVE  Spec => []SuspendedOrganizationSettled
<1>1. NothingUnasked => NothingLifts
  <2>1. "reactivate_commit" \in ReactivatePC
    BY DEF ReactivatePC
  <2> QED BY <2>1 DEF NothingUnasked, NothingLifts, At
<1> QED
  BY Unasked, OrganizationSettles, <1>1, PTL
=============================================================================
