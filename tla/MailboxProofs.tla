--------------------------- MODULE MailboxProofs ----------------------------
(***************************************************************************)
(* Mailboxes and forwarders keep their promises for any addresses, limit,  *)
(* number of workers and of crashes, and any set of requests.              *)
(*                                                                         *)
(* The properties speak of rows and of Stalwart; what keeps them is what   *)
(* the jobs under way may still rely on: a row being provisioned has one   *)
(* maker and waits for it, and a deletion that Stalwart confirmed finds    *)
(* the address as it left it.  Mailboxes and forwarders are two such       *)
(* arguments that leave each other alone.                                  *)
(***************************************************************************)
EXTENDS ControlPlaneProofs, FiniteSetTheorems

---------------------------------------------------------------------------
(* What the jobs on addresses rely on. *)

MailboxPC ==
  { "mailbox_reserve", "mailbox_create", "mailbox_discard", "mailbox_save",
    "mailbox_suspend", "mailbox_suspend_save",
    "mailbox_reactivate", "mailbox_reactivate_save",
    "mailbox_delete", "mailbox_delete_save" }

ForwarderPC ==
  { "forwarder_reserve", "forwarder_create", "forwarder_discard",
    "forwarder_save", "forwarder_update", "forwarder_update_save",
    "forwarder_delete", "forwarder_delete_save" }

\* The steps of a job that has reserved a row and not settled it.
MailboxMaker   == {"mailbox_create", "mailbox_discard", "mailbox_save"}
ForwarderMaker == {"forwarder_create", "forwarder_discard", "forwarder_save"}

MakesMailbox(w, m)   == job[w].pc \in MailboxMaker /\ job[w].box = m
MakesForwarder(w, m) == job[w].pc \in ForwarderMaker /\ job[w].box = m

\* A mailbox's row waits for the job that reserved it; the row a deletion is
\* about never goes back to being provisioned; and once Stalwart confirmed
\* the deletion there is no account.
MailboxJobsRely ==
  \A w \in Workers : \A m \in Mailboxes :
    job[w].box = m =>
      /\ job[w].pc \in MailboxMaker => mailbox[m].status = "provisioning"
      /\ job[w].pc \in {"mailbox_delete", "mailbox_delete_save"} =>
            mailbox[m].status \in {"active", "suspended", "deleted"}
      /\ job[w].pc = "mailbox_delete_save" => account[m] = "none"

OneMailboxMaker ==
  \A v, w \in Workers : \A m \in Mailboxes :
    MakesMailbox(v, m) /\ MakesMailbox(w, m) => v = w

\* The same of forwarders.
ForwarderJobsRely ==
  \A w \in Workers : \A m \in Mailboxes :
    job[w].box = m =>
      /\ job[w].pc \in ForwarderMaker => alias[m].status = "pending"
      /\ job[w].pc \in {"forwarder_delete", "forwarder_delete_save"} =>
            alias[m].status \in {"active", "deleted"}
      /\ job[w].pc = "forwarder_delete_save" => mailing_list[m] = Nowhere

OneForwarderMaker ==
  \A v, w \in Workers : \A m \in Mailboxes :
    MakesForwarder(v, m) /\ MakesForwarder(w, m) => v = w

MailboxInv ==
  /\ TypeOK
  /\ MailboxJobsRely
  /\ OneMailboxMaker
  /\ DeletedHasNoAccount
  /\ WithinMailboxLimit

ForwarderInv ==
  /\ TypeOK
  /\ ForwarderJobsRely
  /\ OneForwarderMaker
  /\ DeletedForwarderHasNoList

---------------------------------------------------------------------------
(* Steps that leave mailboxes, or forwarders, and their jobs alone. *)

LeavesMailboxJobs ==
  \A v \in Workers : job'[v].pc \in MailboxPC => job'[v] = job[v]

LeavesForwarderJobs ==
  \A v \in Workers : job'[v].pc \in ForwarderPC => job'[v] = job[v]

\* The kinds of steps on addresses.
LEMMA KindsOfAddressSteps ==
  /\ MailboxPC \subseteq AddressPC /\ ForwarderPC \subseteq AddressPC
  /\ MailboxPC \cap ForwarderPC = {}
  /\ MailboxMaker \subseteq MailboxPC /\ ForwarderMaker \subseteq ForwarderPC
  /\ "idle" \notin AddressPC
  BY DEF MailboxPC, ForwarderPC, AddressPC, MailboxMaker, ForwarderMaker

\* No set of mailboxes that shrinks exceeds the limit.
LEMMA LimitKept ==
  ASSUME WithinMailboxLimit,
         \A d \in Domains : LiveMailboxes(d)' \subseteq LiveMailboxes(d)
  PROVE  WithinMailboxLimit'
<1> SUFFICES ASSUME NEW d \in Domains
             PROVE  Cardinality(LiveMailboxes(d)') <= MaxMailboxes
  BY DEF WithinMailboxLimit
<1>1. PICK before : before = LiveMailboxes(d)
  OBVIOUS
<1>2. PICK after : after = LiveMailboxes(d)'
  OBVIOUS
<1>3. IsFiniteSet(before) /\ after \in SUBSET before
  <2>1. before \in SUBSET Mailboxes
    BY <1>1 DEF LiveMailboxes
  <2> QED BY <1>1, <1>2, <2>1, FiniteMailboxes, FS_Subset
<1>4. /\ Cardinality(after) <= Cardinality(before)
      /\ Cardinality(after) \in Nat /\ Cardinality(before) \in Nat
  BY <1>3, FS_Subset, FS_CardinalityType
<1>5. Cardinality(before) <= MaxMailboxes
  BY <1>1 DEF WithinMailboxLimit
<1> QED
  BY <1>2, <1>4, <1>5, ConstantsAssumption

\* What leaves mailboxes and their jobs alone keeps their invariant.
LEMMA MailboxLeft ==
  ASSUME MailboxInv, LeavesMailboxJobs, UNCHANGED mailbox, TypeOK',
         \A m \in Mailboxes : account[m] = "none" => account'[m] = "none"
  PROVE  MailboxInv'
<1> USE DEF MailboxInv
<1>1. \A v \in Workers :
        job'[v].pc \in MailboxMaker
                        \cup {"mailbox_delete", "mailbox_delete_save"}
        => job'[v] = job[v]
  BY DEF LeavesMailboxJobs, MailboxMaker, MailboxPC
<1>2. MailboxJobsRely'
  BY <1>1 DEF MailboxJobsRely
<1>3. OneMailboxMaker'
  BY <1>1 DEF OneMailboxMaker, MakesMailbox
<1>4. DeletedHasNoAccount'
  BY DEF DeletedHasNoAccount
<1>5. WithinMailboxLimit'
  BY LimitKept DEF LiveMailboxes
<1> QED
  BY <1>2, <1>3, <1>4, <1>5

\* What leaves forwarders and their jobs alone keeps theirs.
LEMMA ForwarderLeft ==
  ASSUME ForwarderInv, LeavesForwarderJobs, UNCHANGED <<alias, mailing_list>>,
         TypeOK'
  PROVE  ForwarderInv'
<1> USE DEF ForwarderInv
<1>1. \A v \in Workers :
        job'[v].pc \in ForwarderMaker
                        \cup {"forwarder_delete", "forwarder_delete_save"}
        => job'[v] = job[v]
  BY DEF LeavesForwarderJobs, ForwarderMaker, ForwarderPC
<1>2. ForwarderJobsRely'
  BY <1>1 DEF ForwarderJobsRely
<1>3. OneForwarderMaker'
  BY <1>1 DEF OneForwarderMaker, MakesForwarder
<1>4. DeletedForwarderHasNoList'
  BY DEF DeletedForwarderHasNoList
<1> QED
  BY <1>2, <1>3, <1>4

\* Verification and provisioning of a domain leave addresses alone.
LEMMA SetupLeaves ==
  ASSUME TypeOK, NEW w \in Workers, SetupBegin(w) \/ SetupStep(w)
  PROVE  LeavesAddressJobs /\ LeavesAddresses
<1> DEFINE Goal == LeavesAddressJobs /\ LeavesAddresses
<1> USE DEF rows, addresses, backend, control, LeavesAddresses
<1>1. ASSUME NEW d \in Domains, VerifyBegin(w, d) PROVE Goal
  BY <1>1 DEF VerifyBegin, Idle, LeavesAddressJobs, AddressPC, TypeOK
<1>2. ASSUME NEW d \in Domains, ProvisionBegin(w, d) PROVE Goal
  BY <1>2 DEF ProvisionBegin, Idle, LeavesAddressJobs, AddressPC, TypeOK
<1>3. CASE VerifyUnproven(w)
  BY <1>3, FinishLeaves DEF VerifyUnproven
<1>4. CASE VerifyCommit(w)
  BY <1>4, FinishLeaves DEF VerifyCommit
<1>5. CASE ProvisionMark(w)
  <2>1. \A pc \in {"provision_create"} : pc \notin AddressPC
    BY DEF AddressPC
  <2>2. LeavesAddressJobs
    BY <1>5, <2>1, GotoLeaves, FinishLeaves DEF ProvisionMark
  <2> QED BY <1>5, <2>2 DEF ProvisionMark
<1>6. CASE ProvisionCreate(w)
  BY <1>6 DEF ProvisionCreate, Goto, LeavesAddressJobs, AddressPC, TypeOK
<1>7. CASE ProvisionCreateFails(w)
  BY <1>7 DEF ProvisionCreateFails, Goto, LeavesAddressJobs, AddressPC, TypeOK
<1>8. CASE ProvisionRollback(w)
  BY <1>8, FinishLeaves DEF ProvisionRollback
<1>9. CASE ProvisionCommit(w)
  BY <1>9, FinishLeaves DEF ProvisionCommit
<1> QED
  BY <1>1, <1>2, <1>3, <1>4, <1>5, <1>6, <1>7, <1>8, <1>9
  DEF SetupBegin, SetupStep

---------------------------------------------------------------------------
(* How a job on an address goes on. *)

\* A function that returns or raises leaves no job.
LEMMA FinishIdles ==
  ASSUME TypeOK, NEW w \in Workers, NEW result, Finish(w, result)
  PROVE  /\ job'[w].pc = "idle"
         /\ \A v \in Workers \ {w} : job'[v] = job[v]
  BY DEF TypeOK, Finish, Idle

\* A job that goes on stays on its address.
LEMMA GotoMoves ==
  ASSUME TypeOK, NEW w \in Workers, NEW pc, Goto(w, pc)
  PROVE  /\ job'[w].pc = pc /\ job'[w].box = job[w].box
         /\ \A v \in Workers \ {w} : job'[v] = job[v]
  BY DEF TypeOK, Job, JobRecord, Goto

\* A new one is on the address it was asked for.
LEMMA MailboxJobMoves ==
  ASSUME TypeOK, NEW w \in Workers, NEW pc, NEW m, NEW target,
         MailboxJob(w, pc, m, target)
  PROVE  /\ job'[w].pc = pc /\ job'[w].box = m
         /\ \A v \in Workers \ {w} : job'[v] = job[v]
  BY DEF TypeOK, MailboxJob, Idle

\* So is one on a forwarder.
LEMMA ForwarderJobMoves ==
  ASSUME TypeOK, NEW w \in Workers, NEW pc, NEW m, NEW to,
         ForwarderJob(w, pc, m, to)
  PROVE  /\ job'[w].pc = pc /\ job'[w].box = m
         /\ \A v \in Workers \ {w} : job'[v] = job[v]
  BY DEF TypeOK, ForwarderJob, Idle

---------------------------------------------------------------------------
(* Steps of operations on a mailbox. *)

Settled == {"active", "suspended", "deleted"}

\* The row and the account at m go on as the jobs other than w's rely on,
\* and a tombstone stays one.
RowGoesOn(w, m) ==
  /\ \A x \in Mailboxes \ {m} :
        mailbox'[x] = mailbox[x] /\ account'[x] = account[x]
  /\ mailbox[m].status \in Settled =>
        /\ mailbox'[m].status \in Settled
        /\ account[m] = "none" => account'[m] = "none"
  /\ mailbox[m].status = "deleted" => mailbox'[m].status = "deleted"
  /\ mailbox'[m].status = "deleted" => account'[m] = "none"
  /\ mailbox'[m].status # "provisioning" =>
        \A v \in Workers \ {w} : ~MakesMailbox(v, m)

\* Whatever w goes on with, it relies on what is so.
JobGoesOn(w, m) ==
  /\ \A v \in Workers \ {w} : job'[v] = job[v]
  /\ job'[w].pc \in MailboxMaker =>
        /\ job'[w].box = m
        /\ mailbox'[m].status = "provisioning"
        /\ \A v \in Workers \ {w} : ~MakesMailbox(v, m)
  /\ job'[w].pc \in {"mailbox_delete", "mailbox_delete_save"} =>
        job'[w].box = m /\ mailbox'[m].status \in Settled
  /\ job'[w].pc = "mailbox_delete_save" => account'[m] = "none"

\* Then the reliance of every job, and with it every tombstone, is kept.
LEMMA MailboxGoesOn ==
  ASSUME MailboxInv, NEW w \in Workers, NEW m \in Mailboxes,
         RowGoesOn(w, m), JobGoesOn(w, m)
  PROVE  MailboxJobsRely' /\ OneMailboxMaker' /\ DeletedHasNoAccount'
<1>1. MailboxJobsRely'
  <2> SUFFICES ASSUME NEW v \in Workers, NEW x \in Mailboxes, job'[v].box = x
      PROVE  /\ job'[v].pc \in MailboxMaker =>
                   mailbox'[x].status = "provisioning"
             /\ job'[v].pc \in {"mailbox_delete", "mailbox_delete_save"} =>
                   mailbox'[x].status \in Settled
             /\ job'[v].pc = "mailbox_delete_save" => account'[x] = "none"
    BY DEF MailboxJobsRely, Settled
  <2>1. CASE v = w
    BY <2>1 DEF JobGoesOn
  <2>2. CASE v # w /\ x # m
    BY <2>2 DEF JobGoesOn, RowGoesOn, MailboxInv, MailboxJobsRely, Settled
  <2>3. CASE v # w /\ x = m
    BY <2>3 DEF JobGoesOn, RowGoesOn, MailboxInv, MailboxJobsRely, Settled,
                MakesMailbox
  <2> QED BY <2>1, <2>2, <2>3
<1>2. OneMailboxMaker'
  BY DEF JobGoesOn, MailboxInv, OneMailboxMaker, MakesMailbox
<1>3. DeletedHasNoAccount'
  BY DEF RowGoesOn, MailboxInv, DeletedHasNoAccount
<1> QED
  BY <1>1, <1>2, <1>3

\* A deleted mailbox stays a tombstone.
MailboxTombstone ==
  \A m \in Mailboxes :
    mailbox[m].status = "deleted" => mailbox'[m].status = "deleted"

\* A step that makes nothing of an absent or deleted row keeps the limit.
LEMMA MailboxStepKept ==
  ASSUME MailboxInv, TypeOK', NEW w \in Workers, NEW m \in Mailboxes,
         RowGoesOn(w, m), JobGoesOn(w, m),
         mailbox[m].status = "absent" => mailbox'[m].status = "absent"
  PROVE  MailboxInv' /\ MailboxTombstone
<1>1. MailboxTombstone
  BY DEF RowGoesOn, MailboxTombstone
<1>2. WithinMailboxLimit'
  BY LimitKept DEF RowGoesOn, MailboxInv, LiveMailboxes
<1> QED
  BY <1>1, <1>2, MailboxGoesOn DEF MailboxInv

\* The one step that adds a mailbox looks at the limit under the lock.
LEMMA ReserveKept ==
  ASSUME MailboxInv, TypeOK', NEW w \in Workers, MailboxReserve(w),
         CanReserve(job[w].box)
  PROVE  MailboxInv' /\ MailboxTombstone
<1> USE DEF MailboxInv
<1>1. PICK m \in Mailboxes : m = job[w].box
  BY AddressJobHasBox DEF MailboxReserve, At, AddressPC
<1>2. /\ mailbox[m].status = "absent"
      /\ mailbox' = [mailbox EXCEPT
           ![m] = [status |-> "provisioning", backend_identifier |-> FALSE]]
      /\ Goto(w, "mailbox_create")
      /\ UNCHANGED account
  BY <1>1 DEF MailboxReserve, CanReserve, backend
<1>3. /\ mailbox'[m].status = "provisioning"
      /\ \A x \in Mailboxes \ {m} : mailbox'[x] = mailbox[x]
  BY <1>2 DEF TypeOK
<1>4. \A v \in Workers : ~MakesMailbox(v, m)
  BY <1>2 DEF MailboxJobsRely, MakesMailbox
<1>5. RowGoesOn(w, m)
  BY <1>2, <1>3 DEF RowGoesOn, Settled
<1>6. JobGoesOn(w, m)
  BY <1>1, <1>2, <1>3, <1>4, GotoMoves DEF JobGoesOn, MailboxMaker
<1>7. WithinMailboxLimit'
  <2> SUFFICES ASSUME NEW d \in Domains
               PROVE  Cardinality(LiveMailboxes(d)') <= MaxMailboxes
    BY DEF WithinMailboxLimit
  <2>1. PICK before : before = LiveMailboxes(d)
    OBVIOUS
  <2>2. PICK after : after = LiveMailboxes(d)'
    OBVIOUS
  <2>3. IsFiniteSet(before)
    <3>1. before \in SUBSET Mailboxes
      BY <2>1 DEF LiveMailboxes
    <3> QED BY <3>1, FiniteMailboxes, FS_Subset
  <2>4. Cardinality(before) \in Nat /\ Cardinality(before) <= MaxMailboxes
    BY <2>1, <2>3, FS_CardinalityType DEF WithinMailboxLimit
  <2>5. CASE d # DomainOf[m]
    <3>1. after = before
      BY <1>3, <2>1, <2>2, <2>5 DEF LiveMailboxes
    <3> QED BY <2>2, <2>4, <3>1
  <2>6. CASE d = DomainOf[m]
    <3>1. Cardinality(before) < MaxMailboxes
      BY <1>1, <2>1, <2>6 DEF CanReserve
    <3>2. after = before \cup {m}
      BY <1>3, <2>1, <2>2, <2>6 DEF LiveMailboxes
    <3>3. m \notin before
      BY <1>2, <2>1 DEF LiveMailboxes
    <3>4. Cardinality(after) = Cardinality(before) + 1
      BY <2>3, <3>2, <3>3, FS_AddElement
    <3> QED BY <2>2, <2>4, <3>1, <3>4, ConstantsAssumption
  <2> QED BY <2>5, <2>6
<1>8. MailboxTombstone
  BY <1>5 DEF RowGoesOn, MailboxTombstone
<1> QED
  BY <1>5, <1>6, <1>7, <1>8, MailboxGoesOn

\* Every step of an operation on a mailbox.
LEMMA MailboxSteps ==
  ASSUME MailboxInv, TypeOK', NEW w \in Workers,
         MailboxBegin(w) \/ MailboxStep(w)
  PROVE  MailboxInv' /\ MailboxTombstone
<1> DEFINE Goal == MailboxInv' /\ MailboxTombstone
<1> USE DEF MailboxInv, rows, addresses, backend
<1>1. ASSUME NEW m \in Mailboxes, ProvisionMailboxBegin(w, m) PROVE Goal
  <2>1. RowGoesOn(w, m)
    BY <1>1 DEF ProvisionMailboxBegin, RowGoesOn, DeletedHasNoAccount,
                MailboxJobsRely, MakesMailbox, MailboxMaker
  <2>2. JobGoesOn(w, m)
    BY <1>1, MailboxJobMoves
    DEF ProvisionMailboxBegin, JobGoesOn, MailboxMaker
  <2> QED BY <1>1, <2>1, <2>2, MailboxStepKept DEF ProvisionMailboxBegin
<1>2. ASSUME NEW m \in Mailboxes, SuspendMailboxBegin(w, m) PROVE Goal
  <2>1. RowGoesOn(w, m)
    BY <1>2 DEF SuspendMailboxBegin, RowGoesOn, DeletedHasNoAccount,
                MailboxJobsRely, MakesMailbox, MailboxMaker
  <2>2. JobGoesOn(w, m)
    BY <1>2, MailboxJobMoves DEF SuspendMailboxBegin, JobGoesOn, MailboxMaker
  <2> QED BY <1>2, <2>1, <2>2, MailboxStepKept DEF SuspendMailboxBegin
<1>3. ASSUME NEW m \in Mailboxes, ReactivateMailboxBegin(w, m) PROVE Goal
  <2>1. RowGoesOn(w, m)
    BY <1>3 DEF ReactivateMailboxBegin, RowGoesOn, DeletedHasNoAccount,
                MailboxJobsRely, MakesMailbox, MailboxMaker
  <2>2. JobGoesOn(w, m)
    BY <1>3, MailboxJobMoves
    DEF ReactivateMailboxBegin, JobGoesOn, MailboxMaker
  <2> QED BY <1>3, <2>1, <2>2, MailboxStepKept DEF ReactivateMailboxBegin
<1>4. ASSUME NEW m \in Mailboxes, DeleteMailboxBegin(w, m) PROVE Goal
  <2>1. RowGoesOn(w, m)
    BY <1>4 DEF DeleteMailboxBegin, RowGoesOn, DeletedHasNoAccount,
                MailboxJobsRely, MakesMailbox, MailboxMaker
  <2>2. JobGoesOn(w, m)
    BY <1>4, MailboxJobMoves
    DEF DeleteMailboxBegin, JobGoesOn, MailboxMaker, Settled
  <2> QED BY <1>4, <2>1, <2>2, MailboxStepKept DEF DeleteMailboxBegin
<1>5. CASE MailboxStep(w)
  <2>1. job[w].pc \in MailboxPC
    BY <1>5
    DEF MailboxStep, MailboxReserve, MailboxCreate, MailboxCreateFails,
        MailboxDiscard, MailboxSave, MailboxWrite, MailboxWriteFails,
        WritesPermissions, MailboxDestroy, MailboxDestroyFails,
        MailboxSuspendSave, MailboxReactivateSave, MailboxDeleteSave, At,
        MailboxPC
  <2>2. PICK m \in Mailboxes : m = job[w].box
    BY <2>1, AddressJobHasBox, KindsOfAddressSteps
  <2>3. /\ job[w].pc \in MailboxMaker =>
              /\ mailbox[m].status = "provisioning"
              /\ \A v \in Workers \ {w} : ~MakesMailbox(v, m)
        /\ job[w].pc \in {"mailbox_delete", "mailbox_delete_save"} =>
              mailbox[m].status \in Settled
        /\ job[w].pc = "mailbox_delete_save" => account[m] = "none"
    BY <2>2 DEF MailboxJobsRely, OneMailboxMaker, MakesMailbox, Settled
  <2>4. /\ mailbox[m].status # "provisioning" =>
              \A v \in Workers : ~MakesMailbox(v, m)
        /\ mailbox[m].status = "deleted" => account[m] = "none"
    BY DEF MailboxJobsRely, MakesMailbox, DeletedHasNoAccount
  <2>5. CASE MailboxReserve(w)
    <3>1. CASE CanReserve(job[w].box)
      BY <2>5, <3>1, ReserveKept
    <3>2. CASE ~CanReserve(job[w].box)
      <4>1. Finish(w, "failed") /\ UNCHANGED <<mailbox, account>>
        BY <2>5, <3>2 DEF MailboxReserve
      <4>2. RowGoesOn(w, m)
        BY <2>4, <4>1 DEF RowGoesOn
      <4>3. JobGoesOn(w, m)
        BY <4>1, FinishIdles DEF JobGoesOn, MailboxMaker
      <4> QED BY <4>1, <4>2, <4>3, MailboxStepKept
    <3> QED BY <3>1, <3>2
  <2>6. CASE MailboxCreate(w)
    <3>1. RowGoesOn(w, m)
      BY <2>2, <2>3, <2>4, <2>6
      DEF MailboxCreate, CreateAccount, AddressFree, RowGoesOn, Settled,
          TypeOK, At, MailboxMaker, MailboxRow
    <3>2. JobGoesOn(w, m)
      BY <2>2, <2>3, <2>4, <2>6, GotoMoves
      DEF MailboxCreate, CreateAccount, AddressFree, JobGoesOn, Settled,
          TypeOK, At, MailboxMaker
    <3> QED
      BY <2>2, <2>3, <2>6, <3>1, <3>2, MailboxStepKept
      DEF MailboxCreate, At, MailboxMaker, Settled, MailboxRow, TypeOK
  <2>7. CASE MailboxCreateFails(w)
    <3>1. RowGoesOn(w, m)
      BY <2>2, <2>3, <2>4, <2>7
      DEF MailboxCreateFails, CreateAccount, AddressFree, RowGoesOn, Settled,
          TypeOK, At, MailboxMaker, MailboxRow
    <3>2. JobGoesOn(w, m)
      BY <2>2, <2>3, <2>4, <2>7, GotoMoves
      DEF MailboxCreateFails, CreateAccount, AddressFree, JobGoesOn, Settled,
          TypeOK, At, MailboxMaker
    <3> QED
      BY <2>2, <2>3, <2>7, <3>1, <3>2, MailboxStepKept
      DEF MailboxCreateFails, At, MailboxMaker, Settled, MailboxRow, TypeOK
  <2>8. CASE MailboxDiscard(w)
    <3>1. RowGoesOn(w, m)
      BY <2>2, <2>3, <2>4, <2>8
      DEF MailboxDiscard, NoMailboxRow, RowGoesOn, Settled, TypeOK, At,
          MailboxMaker, MailboxRow
    <3>2. JobGoesOn(w, m)
      BY <2>2, <2>3, <2>4, <2>8, FinishIdles
      DEF MailboxDiscard, NoMailboxRow, JobGoesOn, Settled, TypeOK, At,
          MailboxMaker
    <3> QED
      BY <2>2, <2>3, <2>8, <3>1, <3>2, MailboxStepKept
      DEF MailboxDiscard, At, MailboxMaker, Settled, MailboxRow, TypeOK
  <2>9. CASE MailboxSave(w)
    <3>1. RowGoesOn(w, m)
      BY <2>2, <2>3, <2>4, <2>9
      DEF MailboxSave, ServedMailbox, RowGoesOn, Settled, TypeOK, At,
          MailboxMaker, MailboxRow
    <3>2. JobGoesOn(w, m)
      BY <2>2, <2>3, <2>4, <2>9, FinishIdles
      DEF MailboxSave, ServedMailbox, JobGoesOn, Settled, TypeOK, At,
          MailboxMaker
    <3> QED
      BY <2>2, <2>3, <2>9, <3>1, <3>2, MailboxStepKept
      DEF MailboxSave, At, MailboxMaker, Settled, MailboxRow, TypeOK
  <2>10. CASE MailboxWrite(w)
    <3>1. RowGoesOn(w, m)
      BY <2>2, <2>3, <2>4, <2>10
      DEF MailboxWrite, WritePermissions, WritesPermissions, SavePC,
          RowGoesOn, Settled, TypeOK, At, MailboxMaker, MailboxRow
    <3>2. JobGoesOn(w, m)
      BY <2>2, <2>3, <2>4, <2>10, GotoMoves
      DEF MailboxWrite, WritePermissions, WritesPermissions, SavePC,
          JobGoesOn, Settled, TypeOK, At, MailboxMaker
    <3> QED
      BY <2>2, <2>3, <2>10, <3>1, <3>2, MailboxStepKept
      DEF MailboxWrite, At, MailboxMaker, Settled, MailboxRow, TypeOK
  <2>11. CASE MailboxWriteFails(w)
    <3>1. RowGoesOn(w, m)
      BY <2>2, <2>3, <2>4, <2>11
      DEF MailboxWriteFails, WritePermissions, WriteFails, WritesPermissions,
          RowGoesOn, Settled, TypeOK, At, MailboxMaker, MailboxRow
    <3>2. JobGoesOn(w, m)
      BY <2>2, <2>3, <2>4, <2>11, FinishIdles
      DEF MailboxWriteFails, WritePermissions, WriteFails, WritesPermissions,
          JobGoesOn, Settled, TypeOK, At, MailboxMaker
    <3> QED
      BY <2>2, <2>3, <2>11, <3>1, <3>2, MailboxStepKept
      DEF MailboxWriteFails, At, MailboxMaker, Settled, MailboxRow, TypeOK
  <2>12. CASE MailboxDestroy(w)
    <3>1. RowGoesOn(w, m)
      BY <2>2, <2>3, <2>4, <2>12
      DEF MailboxDestroy, DestroyAccount, RowGoesOn, Settled, TypeOK, At,
          MailboxMaker, MailboxRow
    <3>2. JobGoesOn(w, m)
      BY <2>2, <2>3, <2>4, <2>12, GotoMoves
      DEF MailboxDestroy, DestroyAccount, JobGoesOn, Settled, TypeOK, At,
          MailboxMaker
    <3> QED
      BY <2>2, <2>3, <2>12, <3>1, <3>2, MailboxStepKept
      DEF MailboxDestroy, At, MailboxMaker, Settled, MailboxRow, TypeOK
  <2>13. CASE MailboxDestroyFails(w)
    <3>1. RowGoesOn(w, m)
      BY <2>2, <2>3, <2>4, <2>13
      DEF MailboxDestroyFails, DestroyAccount, RowGoesOn, Settled, TypeOK, At,
          MailboxMaker, MailboxRow
    <3>2. JobGoesOn(w, m)
      BY <2>2, <2>3, <2>4, <2>13, FinishIdles
      DEF MailboxDestroyFails, DestroyAccount, JobGoesOn, Settled, TypeOK, At,
          MailboxMaker
    <3> QED
      BY <2>2, <2>3, <2>13, <3>1, <3>2, MailboxStepKept
      DEF MailboxDestroyFails, At, MailboxMaker, Settled, MailboxRow, TypeOK
  <2>14. CASE MailboxSuspendSave(w)
    <3>1. RowGoesOn(w, m)
      BY <2>2, <2>3, <2>4, <2>14
      DEF MailboxSuspendSave, RowGoesOn, Settled, TypeOK, At,
          MailboxMaker, MailboxRow
    <3>2. JobGoesOn(w, m)
      BY <2>2, <2>3, <2>4, <2>14, FinishIdles
      DEF MailboxSuspendSave, JobGoesOn, Settled, TypeOK, At,
          MailboxMaker
    <3> QED
      BY <2>2, <2>3, <2>14, <3>1, <3>2, MailboxStepKept
      DEF MailboxSuspendSave, At, MailboxMaker, Settled, MailboxRow, TypeOK
  <2>15. CASE MailboxReactivateSave(w)
    <3>1. RowGoesOn(w, m)
      BY <2>2, <2>3, <2>4, <2>15
      DEF MailboxReactivateSave, RowGoesOn, Settled, TypeOK, At,
          MailboxMaker, MailboxRow
    <3>2. JobGoesOn(w, m)
      BY <2>2, <2>3, <2>4, <2>15, FinishIdles
      DEF MailboxReactivateSave, JobGoesOn, Settled, TypeOK, At,
          MailboxMaker
    <3> QED
      BY <2>2, <2>3, <2>15, <3>1, <3>2, MailboxStepKept
      DEF MailboxReactivateSave, At, MailboxMaker, Settled, MailboxRow, TypeOK
  <2>16. CASE MailboxDeleteSave(w)
    <3>1. RowGoesOn(w, m)
      BY <2>2, <2>3, <2>4, <2>16
      DEF MailboxDeleteSave, RowGoesOn, Settled, TypeOK, At,
          MailboxMaker, MailboxRow
    <3>2. JobGoesOn(w, m)
      BY <2>2, <2>3, <2>4, <2>16, FinishIdles
      DEF MailboxDeleteSave, JobGoesOn, Settled, TypeOK, At,
          MailboxMaker
    <3> QED
      BY <2>2, <2>3, <2>16, <3>1, <3>2, MailboxStepKept
      DEF MailboxDeleteSave, At, MailboxMaker, Settled, MailboxRow, TypeOK
  <2> QED
    BY <1>5, <2>5, <2>6, <2>7, <2>8, <2>9, <2>10, <2>11, <2>12, <2>13, <2>14,
       <2>15, <2>16
    DEF MailboxStep
<1> QED
  BY <1>1, <1>2, <1>3, <1>4, <1>5 DEF MailboxBegin

---------------------------------------------------------------------------
(* Steps of operations on a forwarder. *)

\* The row and the list at m go on as the jobs other than w's rely on, and
\* a tombstone stays one.
AliasGoesOn(w, m) ==
  /\ \A x \in Mailboxes \ {m} :
        alias'[x] = alias[x] /\ mailing_list'[x] = mailing_list[x]
  /\ alias[m].status \in {"active", "deleted"} =>
        /\ alias'[m].status \in {"active", "deleted"}
        /\ mailing_list[m] = Nowhere => mailing_list'[m] = Nowhere
  /\ alias[m].status = "deleted" => alias'[m].status = "deleted"
  /\ alias'[m].status = "deleted" => mailing_list'[m] = Nowhere
  /\ alias'[m].status # "pending" =>
        \A v \in Workers \ {w} : ~MakesForwarder(v, m)

\* Whatever w goes on with, it relies on what is so.
ForwarderJobGoesOn(w, m) ==
  /\ \A v \in Workers \ {w} : job'[v] = job[v]
  /\ job'[w].pc \in ForwarderMaker =>
        /\ job'[w].box = m
        /\ alias'[m].status = "pending"
        /\ \A v \in Workers \ {w} : ~MakesForwarder(v, m)
  /\ job'[w].pc \in {"forwarder_delete", "forwarder_delete_save"} =>
        job'[w].box = m /\ alias'[m].status \in {"active", "deleted"}
  /\ job'[w].pc = "forwarder_delete_save" => mailing_list'[m] = Nowhere

\* A deleted forwarder stays a tombstone.
AliasTombstone ==
  \A m \in Mailboxes :
    alias[m].status = "deleted" => alias'[m].status = "deleted"

\* Then the reliance of every job, and with it every tombstone, is kept.
LEMMA ForwarderGoesOn ==
  ASSUME ForwarderInv, TypeOK', NEW w \in Workers, NEW m \in Mailboxes,
         AliasGoesOn(w, m), ForwarderJobGoesOn(w, m)
  PROVE  ForwarderInv' /\ AliasTombstone
<1>1. ForwarderJobsRely'
  <2> SUFFICES ASSUME NEW v \in Workers, NEW x \in Mailboxes, job'[v].box = x
      PROVE  /\ job'[v].pc \in ForwarderMaker => alias'[x].status = "pending"
             /\ job'[v].pc \in {"forwarder_delete", "forwarder_delete_save"} =>
                   alias'[x].status \in {"active", "deleted"}
             /\ job'[v].pc = "forwarder_delete_save" =>
                   mailing_list'[x] = Nowhere
    BY DEF ForwarderJobsRely
  <2>1. CASE v = w
    BY <2>1 DEF ForwarderJobGoesOn
  <2>2. CASE v # w /\ x # m
    BY <2>2
    DEF ForwarderJobGoesOn, AliasGoesOn, ForwarderInv, ForwarderJobsRely
  <2>3. CASE v # w /\ x = m
    BY <2>3
    DEF ForwarderJobGoesOn, AliasGoesOn, ForwarderInv, ForwarderJobsRely,
        MakesForwarder
  <2> QED BY <2>1, <2>2, <2>3
<1>2. OneForwarderMaker'
  BY DEF ForwarderJobGoesOn, ForwarderInv, OneForwarderMaker, MakesForwarder
<1>3. DeletedForwarderHasNoList'
  BY DEF AliasGoesOn, ForwarderInv, DeletedForwarderHasNoList
<1>4. AliasTombstone
  BY DEF AliasGoesOn, AliasTombstone
<1> QED
  BY <1>1, <1>2, <1>3, <1>4 DEF ForwarderInv

\* Every step of an operation on a forwarder.
LEMMA ForwarderSteps ==
  ASSUME ForwarderInv, TypeOK', NEW w \in Workers,
         ForwarderBegin(w) \/ ForwarderStep(w)
  PROVE  ForwarderInv' /\ AliasTombstone
<1> DEFINE Goal == ForwarderInv' /\ AliasTombstone
<1> USE DEF ForwarderInv, rows, addresses, backend
<1>1. ASSUME NEW m \in Mailboxes, NEW to \in Destinations,
             ProvisionForwarderBegin(w, m, to)
      PROVE  Goal
  <2>1. AliasGoesOn(w, m)
    BY <1>1
    DEF ProvisionForwarderBegin, AliasGoesOn, DeletedForwarderHasNoList,
        ForwarderJobsRely, MakesForwarder, ForwarderMaker
  <2>2. ForwarderJobGoesOn(w, m)
    BY <1>1, ForwarderJobMoves
    DEF ProvisionForwarderBegin, ForwarderJobGoesOn, ForwarderMaker,
        Changeable
  <2> QED BY <2>1, <2>2, ForwarderGoesOn
<1>2. ASSUME NEW m \in Mailboxes, NEW to \in Destinations,
             UpdateForwarderBegin(w, m, to)
      PROVE  Goal
  <2>1. AliasGoesOn(w, m)
    BY <1>2
    DEF UpdateForwarderBegin, AliasGoesOn, DeletedForwarderHasNoList,
        ForwarderJobsRely, MakesForwarder, ForwarderMaker
  <2>2. ForwarderJobGoesOn(w, m)
    BY <1>2, ForwarderJobMoves
    DEF UpdateForwarderBegin, ForwarderJobGoesOn, ForwarderMaker, Changeable
  <2> QED BY <2>1, <2>2, ForwarderGoesOn
<1>3. ASSUME NEW m \in Mailboxes, DeleteForwarderBegin(w, m) PROVE Goal
  <2>1. AliasGoesOn(w, m)
    BY <1>3
    DEF DeleteForwarderBegin, AliasGoesOn, DeletedForwarderHasNoList,
        ForwarderJobsRely, MakesForwarder, ForwarderMaker
  <2>2. ForwarderJobGoesOn(w, m)
    BY <1>3, ForwarderJobMoves
    DEF DeleteForwarderBegin, ForwarderJobGoesOn, ForwarderMaker, Changeable
  <2> QED BY <2>1, <2>2, ForwarderGoesOn
<1>4. CASE ForwarderStep(w)
  <2>1. job[w].pc \in ForwarderPC
    BY <1>4
    DEF ForwarderStep, ForwarderReserve, ForwarderCreate,
        ForwarderCreateFails, ForwarderDiscard, ForwarderSave,
        ForwarderUpdate, ForwarderDestroy, ForwarderChangeFails,
        ForwarderUpdateSave, ForwarderDeleteSave, At, ForwarderPC
  <2>2. PICK m \in Mailboxes : m = job[w].box
    BY <2>1, AddressJobHasBox, KindsOfAddressSteps
  <2>3. /\ job[w].pc \in ForwarderMaker =>
              /\ alias[m].status = "pending"
              /\ \A v \in Workers \ {w} : ~MakesForwarder(v, m)
        /\ job[w].pc \in {"forwarder_delete", "forwarder_delete_save"} =>
              alias[m].status \in {"active", "deleted"}
        /\ job[w].pc = "forwarder_delete_save" => mailing_list[m] = Nowhere
    BY <2>2 DEF ForwarderJobsRely, OneForwarderMaker, MakesForwarder
  <2>4. /\ alias[m].status # "pending" =>
              \A v \in Workers : ~MakesForwarder(v, m)
        /\ alias[m].status = "deleted" => mailing_list[m] = Nowhere
    BY DEF ForwarderJobsRely, MakesForwarder, DeletedForwarderHasNoList
  <2>5. CASE ForwarderReserve(w)
    <3>1. CASE CanForward(m)
      <4>1. /\ alias[m].status = "absent"
            /\ alias'[m].status = "pending"
            /\ \A x \in Mailboxes \ {m} : alias'[x] = alias[x]
            /\ UNCHANGED mailing_list
            /\ Goto(w, "forwarder_create")
        BY <2>2, <2>5, <3>1 DEF ForwarderReserve, CanForward, TypeOK
      <4>2. AliasGoesOn(w, m)
        BY <2>4, <4>1 DEF AliasGoesOn
      <4>3. ForwarderJobGoesOn(w, m)
        BY <2>2, <2>4, <4>1, GotoMoves DEF ForwarderJobGoesOn, ForwarderMaker
      <4> QED BY <4>2, <4>3, ForwarderGoesOn
    <3>2. CASE ~CanForward(m)
      <4>1. Finish(w, "failed") /\ UNCHANGED <<alias, mailing_list>>
        BY <2>2, <2>5, <3>2 DEF ForwarderReserve
      <4>2. AliasGoesOn(w, m)
        BY <2>4, <4>1 DEF AliasGoesOn
      <4>3. ForwarderJobGoesOn(w, m)
        BY <4>1, FinishIdles DEF ForwarderJobGoesOn, ForwarderMaker
      <4> QED BY <4>2, <4>3, ForwarderGoesOn
    <3> QED BY <3>1, <3>2
  <2>6. CASE ForwarderCreate(w)
    <3>1. AliasGoesOn(w, m)
      BY <2>2, <2>3, <2>4, <2>6
      DEF ForwarderCreate, CreateList, AddressFree, AliasGoesOn, TypeOK, At,
          ForwarderMaker, AliasRow
    <3>2. ForwarderJobGoesOn(w, m)
      BY <2>2, <2>3, <2>4, <2>6, GotoMoves
      DEF ForwarderCreate, CreateList, AddressFree, ForwarderJobGoesOn,
          TypeOK, At, ForwarderMaker
    <3> QED BY <3>1, <3>2, ForwarderGoesOn
  <2>7. CASE ForwarderCreateFails(w)
    <3>1. AliasGoesOn(w, m)
      BY <2>2, <2>3, <2>4, <2>7
      DEF ForwarderCreateFails, CreateList, AddressFree, AliasGoesOn, TypeOK,
          At, ForwarderMaker, AliasRow
    <3>2. ForwarderJobGoesOn(w, m)
      BY <2>2, <2>3, <2>4, <2>7, GotoMoves
      DEF ForwarderCreateFails, CreateList, AddressFree, ForwarderJobGoesOn,
          TypeOK, At, ForwarderMaker
    <3> QED BY <3>1, <3>2, ForwarderGoesOn
  <2>8. CASE ForwarderDiscard(w)
    <3>1. AliasGoesOn(w, m)
      BY <2>2, <2>3, <2>4, <2>8
      DEF ForwarderDiscard, NoAliasRow, AliasGoesOn, TypeOK, At,
          ForwarderMaker, AliasRow
    <3>2. ForwarderJobGoesOn(w, m)
      BY <2>2, <2>3, <2>4, <2>8, FinishIdles
      DEF ForwarderDiscard, NoAliasRow, ForwarderJobGoesOn, TypeOK, At,
          ForwarderMaker
    <3> QED BY <3>1, <3>2, ForwarderGoesOn
  <2>9. CASE ForwarderSave(w)
    <3>1. AliasGoesOn(w, m)
      BY <2>2, <2>3, <2>4, <2>9
      DEF ForwarderSave, AliasGoesOn, TypeOK, At,
          ForwarderMaker, AliasRow
    <3>2. ForwarderJobGoesOn(w, m)
      BY <2>2, <2>3, <2>4, <2>9, FinishIdles
      DEF ForwarderSave, ForwarderJobGoesOn, TypeOK, At,
          ForwarderMaker
    <3> QED BY <3>1, <3>2, ForwarderGoesOn
  <2>10. CASE ForwarderUpdate(w)
    <3>1. AliasGoesOn(w, m)
      BY <2>2, <2>3, <2>4, <2>10
      DEF ForwarderUpdate, WriteList, AliasGoesOn, TypeOK, At,
          ForwarderMaker, AliasRow
    <3>2. ForwarderJobGoesOn(w, m)
      BY <2>2, <2>3, <2>4, <2>10, GotoMoves
      DEF ForwarderUpdate, WriteList, ForwarderJobGoesOn, TypeOK, At,
          ForwarderMaker
    <3> QED BY <3>1, <3>2, ForwarderGoesOn
  <2>11. CASE ForwarderDestroy(w)
    <3>1. AliasGoesOn(w, m)
      BY <2>2, <2>3, <2>4, <2>11
      DEF ForwarderDestroy, WriteList, AliasGoesOn, TypeOK, At,
          ForwarderMaker, AliasRow
    <3>2. ForwarderJobGoesOn(w, m)
      BY <2>2, <2>3, <2>4, <2>11, GotoMoves
      DEF ForwarderDestroy, WriteList, ForwarderJobGoesOn, TypeOK, At,
          ForwarderMaker
    <3> QED BY <3>1, <3>2, ForwarderGoesOn
  <2>12. CASE ForwarderChangeFails(w)
    <3>1. AliasGoesOn(w, m)
      BY <2>2, <2>3, <2>4, <2>12
      DEF ForwarderChangeFails, WriteList, AliasGoesOn, TypeOK, At,
          ForwarderMaker, AliasRow
    <3>2. ForwarderJobGoesOn(w, m)
      BY <2>2, <2>3, <2>4, <2>12, FinishIdles
      DEF ForwarderChangeFails, WriteList, ForwarderJobGoesOn, TypeOK, At,
          ForwarderMaker
    <3> QED BY <3>1, <3>2, ForwarderGoesOn
  <2>13. CASE ForwarderUpdateSave(w)
    <3>1. AliasGoesOn(w, m)
      BY <2>2, <2>3, <2>4, <2>13
      DEF ForwarderUpdateSave, AliasGoesOn, TypeOK, At,
          ForwarderMaker, AliasRow
    <3>2. ForwarderJobGoesOn(w, m)
      BY <2>2, <2>3, <2>4, <2>13, FinishIdles
      DEF ForwarderUpdateSave, ForwarderJobGoesOn, TypeOK, At,
          ForwarderMaker
    <3> QED BY <3>1, <3>2, ForwarderGoesOn
  <2>14. CASE ForwarderDeleteSave(w)
    <3>1. AliasGoesOn(w, m)
      BY <2>2, <2>3, <2>4, <2>14
      DEF ForwarderDeleteSave, AliasGoesOn, TypeOK, At,
          ForwarderMaker, AliasRow
    <3>2. ForwarderJobGoesOn(w, m)
      BY <2>2, <2>3, <2>4, <2>14, FinishIdles
      DEF ForwarderDeleteSave, ForwarderJobGoesOn, TypeOK, At,
          ForwarderMaker
    <3> QED BY <3>1, <3>2, ForwarderGoesOn
  <2> QED
    BY <1>4, <2>5, <2>6, <2>7, <2>8, <2>9, <2>10, <2>11, <2>12, <2>13, <2>14
    DEF ForwarderStep
<1> QED
  BY <1>1, <1>2, <1>3, <1>4 DEF ForwarderBegin

---------------------------------------------------------------------------
(* Each kind leaves the other alone. *)

\* An operation on a mailbox does nothing to forwarders, lists or their jobs.
LEMMA MailboxLeavesForwarders ==
  ASSUME TypeOK, NEW w \in Workers, MailboxBegin(w) \/ MailboxStep(w)
  PROVE  LeavesForwarderJobs /\ UNCHANGED <<alias, mailing_list>>
<1> DEFINE Goal == LeavesForwarderJobs /\ UNCHANGED <<alias, mailing_list>>
<1> USE DEF rows, addresses, backend, ForwarderPC, LeavesForwarderJobs
<1>1. ASSUME NEW m \in Mailboxes, ProvisionMailboxBegin(w, m) PROVE Goal
  BY <1>1, MailboxJobMoves DEF ProvisionMailboxBegin
<1>2. ASSUME NEW m \in Mailboxes, SuspendMailboxBegin(w, m) PROVE Goal
  BY <1>2, MailboxJobMoves DEF SuspendMailboxBegin
<1>3. ASSUME NEW m \in Mailboxes, ReactivateMailboxBegin(w, m) PROVE Goal
  BY <1>3, MailboxJobMoves DEF ReactivateMailboxBegin
<1>4. ASSUME NEW m \in Mailboxes, DeleteMailboxBegin(w, m) PROVE Goal
  BY <1>4, MailboxJobMoves DEF DeleteMailboxBegin
<1>5. CASE MailboxReserve(w)
  BY <1>5, FinishIdles, GotoMoves DEF MailboxReserve
<1>6. CASE MailboxCreate(w)
  BY <1>6, GotoMoves DEF MailboxCreate
<1>7. CASE MailboxCreateFails(w)
  BY <1>7, GotoMoves DEF MailboxCreateFails
<1>8. CASE MailboxDiscard(w)
  BY <1>8, FinishIdles DEF MailboxDiscard
<1>9. CASE MailboxSave(w)
  BY <1>9, FinishIdles DEF MailboxSave
<1>10. CASE MailboxWrite(w)
  BY <1>10, GotoMoves DEF MailboxWrite, WritesPermissions, SavePC, At
<1>11. CASE MailboxWriteFails(w)
  BY <1>11, FinishIdles DEF MailboxWriteFails
<1>12. CASE MailboxDestroy(w)
  BY <1>12, GotoMoves DEF MailboxDestroy
<1>13. CASE MailboxDestroyFails(w)
  BY <1>13, FinishIdles DEF MailboxDestroyFails
<1>14. CASE MailboxSuspendSave(w)
  BY <1>14, FinishIdles DEF MailboxSuspendSave
<1>15. CASE MailboxReactivateSave(w)
  BY <1>15, FinishIdles DEF MailboxReactivateSave
<1>16. CASE MailboxDeleteSave(w)
  BY <1>16, FinishIdles DEF MailboxDeleteSave
<1> QED
  BY <1>1, <1>2, <1>3, <1>4, <1>5, <1>6, <1>7, <1>8, <1>9, <1>10, <1>11,
     <1>12, <1>13, <1>14, <1>15, <1>16
  DEF MailboxBegin, MailboxStep

\* An operation on a forwarder does nothing to mailboxes, accounts or their
\* jobs.
LEMMA ForwarderLeavesMailboxes ==
  ASSUME TypeOK, NEW w \in Workers, ForwarderBegin(w) \/ ForwarderStep(w)
  PROVE  LeavesMailboxJobs /\ UNCHANGED <<mailbox, account>>
<1> DEFINE Goal == LeavesMailboxJobs /\ UNCHANGED <<mailbox, account>>
<1> USE DEF rows, addresses, backend, MailboxPC, LeavesMailboxJobs
<1>1. ASSUME NEW m \in Mailboxes, NEW to \in Destinations,
             ProvisionForwarderBegin(w, m, to)
      PROVE  Goal
  BY <1>1, ForwarderJobMoves DEF ProvisionForwarderBegin
<1>2. ASSUME NEW m \in Mailboxes, NEW to \in Destinations,
             UpdateForwarderBegin(w, m, to)
      PROVE  Goal
  BY <1>2, ForwarderJobMoves DEF UpdateForwarderBegin
<1>3. ASSUME NEW m \in Mailboxes, DeleteForwarderBegin(w, m) PROVE Goal
  BY <1>3, ForwarderJobMoves DEF DeleteForwarderBegin
<1>4. CASE ForwarderReserve(w)
  BY <1>4, FinishIdles, GotoMoves DEF ForwarderReserve
<1>5. CASE ForwarderCreate(w)
  BY <1>5, GotoMoves DEF ForwarderCreate
<1>6. CASE ForwarderCreateFails(w)
  BY <1>6, GotoMoves DEF ForwarderCreateFails
<1>7. CASE ForwarderDiscard(w)
  BY <1>7, FinishIdles DEF ForwarderDiscard
<1>8. CASE ForwarderSave(w)
  BY <1>8, FinishIdles DEF ForwarderSave
<1>9. CASE ForwarderUpdate(w)
  BY <1>9, GotoMoves DEF ForwarderUpdate
<1>10. CASE ForwarderDestroy(w)
  BY <1>10, GotoMoves DEF ForwarderDestroy
<1>11. CASE ForwarderChangeFails(w)
  BY <1>11, FinishIdles DEF ForwarderChangeFails
<1>12. CASE ForwarderUpdateSave(w)
  BY <1>12, FinishIdles DEF ForwarderUpdateSave
<1>13. CASE ForwarderDeleteSave(w)
  BY <1>13, FinishIdles DEF ForwarderDeleteSave
<1> QED
  BY <1>1, <1>2, <1>3, <1>4, <1>5, <1>6, <1>7, <1>8, <1>9, <1>10, <1>11,
     <1>12, <1>13
  DEF ForwarderBegin, ForwarderStep

---------------------------------------------------------------------------
(* The theorems about mailboxes and forwarders. *)

\* Whoever takes a step, both invariants are kept and no tombstone is lost.
LEMMA AddressStepSafe ==
  ASSUME MailboxInv, ForwarderInv, [Next]_vars
  PROVE  /\ MailboxInv' /\ ForwarderInv'
         /\ MailboxTombstone /\ AliasTombstone
<1> DEFINE Goal == /\ MailboxInv' /\ ForwarderInv'
                   /\ MailboxTombstone /\ AliasTombstone
<1>1. TypeOK /\ TypeOK'
  BY StepTypes DEF MailboxInv
<1>2. ASSUME LeavesAddressJobs, LeavesAddresses
      PROVE  Goal
  <2>1. LeavesMailboxJobs /\ LeavesForwarderJobs
    BY <1>2, KindsOfAddressSteps
    DEF LeavesAddressJobs, LeavesMailboxJobs, LeavesForwarderJobs
  <2>2. MailboxTombstone /\ AliasTombstone
    BY <1>2 DEF LeavesAddresses, MailboxTombstone, AliasTombstone
  <2> QED
    BY <1>1, <1>2, <2>1, <2>2, MailboxLeft, ForwarderLeft DEF LeavesAddresses
<1>3. ASSUME NEW w \in Workers, Begin(w) \/ Step(w)
      PROVE  Goal
  <2>1. CASE SetupBegin(w) \/ SetupStep(w)
    BY <1>1, <1>2, <2>1, SetupLeaves
  <2>2. CASE ReadinessBegin(w) \/ ReadinessStep(w)
    BY <1>1, <1>2, <2>2, ReadinessLeaves DEF LeavesJobs
  <2>3. CASE SuspensionBegin(w) \/ SuspensionStep(w)
    BY <1>1, <1>2, <2>3, SuspensionLeaves DEF LeavesJobs
  <2>4. CASE TenantBegin(w) \/ TenantStep(w)
    BY <1>1, <1>2, <2>4, TenantLeaves DEF LeavesJobs
  <2>5. CASE MailboxBegin(w) \/ MailboxStep(w)
    <3>1. ForwarderInv' /\ AliasTombstone
      BY <1>1, <2>5, MailboxLeavesForwarders, ForwarderLeft DEF AliasTombstone
    <3> QED BY <1>1, <2>5, <3>1, MailboxSteps
  <2>6. CASE ForwarderBegin(w) \/ ForwarderStep(w)
    <3>1. MailboxInv' /\ MailboxTombstone
      BY <1>1, <2>6, ForwarderLeavesMailboxes, MailboxLeft
      DEF MailboxTombstone
    <3> QED BY <1>1, <2>6, <3>1, ForwarderSteps
  <2> QED BY <1>3, <2>1, <2>2, <2>3, <2>4, <2>5, <2>6 DEF Begin, Step
<1>4. ASSUME NEW w \in Workers, Crash(w)
      PROVE  Goal
  BY <1>1, <1>2, <1>4, CrashLeaves DEF LeavesJobs
<1>5. ASSUME UNCHANGED vars
      PROVE  Goal
  <2>1. LeavesAddressJobs /\ LeavesAddresses
    BY <1>5 DEF vars, rows, addresses, backend, LeavesAddressJobs,
                LeavesAddresses
  <2> QED BY <1>2, <2>1
<1> QED
  BY <1>3, <1>4, <1>5 DEF Next

\* The initial rows satisfy both.
LEMMA AddressInitSafe == Init => MailboxInv /\ ForwarderInv
<1> SUFFICES ASSUME Init PROVE MailboxInv /\ ForwarderInv
  OBVIOUS
<1>1. \A w \in Workers : job[w].pc = "idle"
  BY DEF Init, Idle
<1>2. /\ MailboxJobsRely /\ OneMailboxMaker
      /\ ForwarderJobsRely /\ OneForwarderMaker
  BY <1>1
  DEF MailboxJobsRely, OneMailboxMaker, MakesMailbox, MailboxMaker,
      ForwarderJobsRely, OneForwarderMaker, MakesForwarder, ForwarderMaker
<1>3. \A m \in Mailboxes : mailbox[m] \in {NoMailboxRow, ServedMailbox}
  BY DEF Init
<1>4. DeletedHasNoAccount
  BY <1>3 DEF DeletedHasNoAccount, NoMailboxRow, ServedMailbox
<1>5. DeletedForwarderHasNoList
  BY DEF Init, NoAliasRow, DeletedForwarderHasNoList
<1>6. WithinMailboxLimit
  <2> SUFFICES ASSUME NEW d \in Domains
               PROVE  Cardinality(LiveMailboxes(d)) <= MaxMailboxes
    BY DEF WithinMailboxLimit
  <2>1. LiveMailboxes(d) = {m \in Mailboxes : /\ DomainOf[m] = d
                                              /\ mailbox[m] = ServedMailbox}
    <3>1. \A m \in Mailboxes :
             mailbox[m].status \notin {"absent", "deleted"}
             <=> mailbox[m] = ServedMailbox
      <4>1. NoMailboxRow.status = "absent" /\ ServedMailbox.status = "active"
        BY DEF NoMailboxRow, ServedMailbox
      <4> QED BY <1>3, <4>1
    <3> QED BY <3>1 DEF LiveMailboxes
  <2>2. Cardinality({m \in Mailboxes : /\ DomainOf[m] = d
                                      /\ mailbox[m] = ServedMailbox})
           <= MaxMailboxes
    BY DEF Init
  <2> QED BY <2>1, <2>2
<1> QED
  BY <1>2, <1>4, <1>5, <1>6, InitTypes DEF MailboxInv, ForwarderInv

(***************************************************************************)
(* What the jobs on mailboxes and forwarders rely on holds in every        *)
(* reachable state.                                                        *)
(***************************************************************************)
THEOREM AddressesSafe == Spec => [](MailboxInv /\ ForwarderInv)
<1>1. MailboxInv /\ ForwarderInv /\ [Next]_vars
      => (MailboxInv /\ ForwarderInv)'
  BY AddressStepSafe
<1> QED
  BY AddressInitSafe, <1>1, PTL DEF Spec

(***************************************************************************)
(* Nobody can log into a deleted mailbox: no late answer, stale write or   *)
(* provisioning that overlaps leaves an account at its address             *)
(* (mailboxes.services.delete_mailbox).                                    *)
(***************************************************************************)
THEOREM DeletionIsComplete == Spec => []DeletedHasNoAccount
<1>1. MailboxInv => DeletedHasNoAccount
  BY DEF MailboxInv
<1> QED
  BY AddressesSafe, <1>1, PTL

(***************************************************************************)
(* However many provisioning requests race for the last place, no domain   *)
(* gets more mailboxes than its limit                                      *)
(* (mailboxes.services.provision_mailbox).                                 *)
(***************************************************************************)
THEOREM LimitIsKept == Spec => []WithinMailboxLimit
<1>1. MailboxInv => WithinMailboxLimit
  BY DEF MailboxInv
<1> QED
  BY AddressesSafe, <1>1, PTL

(***************************************************************************)
(* A row that is being provisioned belongs to one job, so that its delete  *)
(* or save by primary key never meets the mailbox of another               *)
(* (mailboxes.services.provision_mailbox).                                 *)
(***************************************************************************)
THEOREM ProvisioningIsExclusive == Spec => []OneProvisionerPerAddress
<1>1. MailboxInv => OneProvisionerPerAddress
  <2> SUFFICES ASSUME MailboxInv, NEW m \in Mailboxes
               PROVE  /\ Cardinality(Provisioners(m)) <= 1
                      /\ Provisioners(m) # {} =>
                            mailbox[m].status = "provisioning"
    BY DEF OneProvisionerPerAddress
  <2>1. \A w \in Provisioners(m) : w \in Workers /\ MakesMailbox(w, m)
    BY DEF Provisioners, MakesMailbox, MailboxMaker
  <2>2. CASE Provisioners(m) = {}
    BY <2>2, FS_EmptySet
  <2>3. CASE Provisioners(m) # {}
    <3>1. PICK w \in Workers : w \in Provisioners(m)
      BY <2>1, <2>3
    <3>2. Provisioners(m) = {w}
      BY <2>1, <3>1 DEF MailboxInv, OneMailboxMaker
    <3>3. Cardinality(Provisioners(m)) = 1
      BY <3>2, FS_Singleton
    <3>4. mailbox[m].status = "provisioning"
      BY <2>1, <3>1 DEF MailboxInv, MailboxJobsRely, MakesMailbox
    <3> QED BY <3>3, <3>4
  <2> QED BY <2>2, <2>3
<1> QED
  BY AddressesSafe, <1>1, PTL

(***************************************************************************)
(* The address of a deleted mailbox is never taken back into use, also not *)
(* by an operation that read the row before the deletion                   *)
(* (mailboxes.services).                                                   *)
(***************************************************************************)
THEOREM MailboxDeletionIsFinal == Spec => DeletedIsForever
<1>1. MailboxInv /\ ForwarderInv /\ [Next]_vars
      => [\A m \in Mailboxes : mailbox[m].status = "deleted" =>
                                 mailbox'[m].status = "deleted"]_vars
  BY AddressStepSafe DEF MailboxTombstone
<1> QED
  BY AddressesSafe, <1>1, PTL DEF Spec, DeletedIsForever

(***************************************************************************)
(* A deleted forwarder forwards nothing, whatever update was under way     *)
(* (mailboxes.forwarders.delete_forwarder against update_forwarder).       *)
(***************************************************************************)
THEOREM ForwardingStops == Spec => []DeletedForwarderHasNoList
<1>1. ForwarderInv => DeletedForwarderHasNoList
  BY DEF ForwarderInv
<1> QED
  BY AddressesSafe, <1>1, PTL

(***************************************************************************)
(* No request that raced with a forwarder's deletion takes its row back    *)
(* into use (mailboxes.forwarders).                                        *)
(***************************************************************************)
THEOREM ForwarderDeletionIsFinal == Spec => ForwarderTombstone
<1>1. MailboxInv /\ ForwarderInv /\ [Next]_vars
      => [\A m \in Mailboxes : alias[m].status = "deleted" =>
                                 alias'[m].status = "deleted"]_vars
  BY AddressStepSafe DEF AliasTombstone
<1> QED
  BY AddressesSafe, <1>1, PTL DEF Spec, ForwarderTombstone

---------------------------------------------------------------------------
(* Mailboxes and forwarders share addresses as AddressUse promises.        *)

\* A claim is completed only after Stalwart confirmed it.
SavesAreConfirmed ==
  \A w \in Workers : \A m \in Mailboxes :
    job[w].box = m =>
      /\ job[w].pc = "mailbox_save" => account[m] # "none"
      /\ job[w].pc = "forwarder_save" => mailing_list[m] # Nowhere

\* Stalwart has one user of an address.
OneHolder ==
  \A m \in Mailboxes : account[m] = "none" \/ mailing_list[m] = Nowhere

WritesLists == {"forwarder_reserve", "forwarder_create", "forwarder_update"}

\* A job that will write a list has destinations for it.
DestinationsGiven ==
  \A w \in Workers : job[w].pc \in WritesLists => job[w].to # Nowhere

HolderInv == SavesAreConfirmed /\ OneHolder /\ DestinationsGiven

AddressInv == MailboxInv /\ ForwarderInv /\ HolderInv

\* A step on the address m by w keeps that.
HolderGoesOn(w, m) ==
  /\ \A v \in Workers \ {w} : job'[v] = job[v]
  /\ \A x \in Mailboxes \ {m} :
        account'[x] = account[x] /\ mailing_list'[x] = mailing_list[x]
  /\ account'[m] = "none" \/ mailing_list'[m] = Nowhere
  /\ account[m] # "none" /\ account'[m] = "none" =>
        \A v \in Workers : ~MakesMailbox(v, m)
  /\ mailing_list[m] # Nowhere /\ mailing_list'[m] = Nowhere =>
        \A v \in Workers : ~MakesForwarder(v, m)
  /\ job'[w].pc = "mailbox_save" => job'[w].box = m /\ account'[m] # "none"
  /\ job'[w].pc = "forwarder_save" =>
        job'[w].box = m /\ mailing_list'[m] # Nowhere
  /\ job'[w].pc \in WritesLists => job'[w].to # Nowhere

LEMMA HolderKept ==
  ASSUME HolderInv, NEW w \in Workers, NEW m \in Mailboxes, HolderGoesOn(w, m)
  PROVE  HolderInv'
<1>1. SavesAreConfirmed'
  <2> SUFFICES ASSUME NEW v \in Workers, NEW x \in Mailboxes, job'[v].box = x
      PROVE  /\ job'[v].pc = "mailbox_save" => account'[x] # "none"
             /\ job'[v].pc = "forwarder_save" => mailing_list'[x] # Nowhere
    BY DEF SavesAreConfirmed
  <2>1. CASE v = w
    BY <2>1 DEF HolderGoesOn
  <2>2. CASE v # w
    BY <2>2
    DEF HolderGoesOn, HolderInv, SavesAreConfirmed, MakesMailbox,
        MakesForwarder, MailboxMaker, ForwarderMaker
  <2> QED BY <2>1, <2>2
<1>2. OneHolder'
  BY DEF HolderGoesOn, HolderInv, OneHolder
<1>3. DestinationsGiven'
  BY DEF HolderGoesOn, HolderInv, DestinationsGiven
<1> QED
  BY <1>1, <1>2, <1>3 DEF HolderInv

\* So does a step that leaves addresses and their jobs alone.
LEMMA HolderLeft ==
  ASSUME HolderInv, LeavesAddressJobs, LeavesAddresses
  PROVE  HolderInv'
<1>1. \A v \in Workers :
        job'[v].pc \in WritesLists \cup {"mailbox_save", "forwarder_save"}
        => job'[v] = job[v]
  BY DEF LeavesAddressJobs, AddressPC, WritesLists
<1> QED
  BY <1>1
  DEF HolderInv, SavesAreConfirmed, OneHolder, DestinationsGiven,
      LeavesAddresses

\* How the rows and Stalwart show the use of an address.
LEMMA UsesShown ==
  ASSUME TypeOK, NEW m \in Mailboxes
  PROVE  /\ UseOf("mailbox", m) = "free" <=> mailbox[m].status = "absent"
         /\ UseOf("mailbox", m) = "claimed" <=>
               mailbox[m].status = "provisioning"
         /\ UseOf("mailbox", m) = "used" <=>
               mailbox[m].status \in {"active", "suspended"}
         /\ UseOf("mailbox", m) = "retired" <=> mailbox[m].status = "deleted"
         /\ UseOf("forwarder", m) = "free" <=> alias[m].status = "absent"
         /\ UseOf("forwarder", m) = "claimed" <=> alias[m].status = "pending"
         /\ UseOf("forwarder", m) = "used" <=> alias[m].status = "active"
         /\ UseOf("forwarder", m) = "retired" <=> alias[m].status = "deleted"
<1>1. mailbox[m].status \in MailboxStatus /\ alias[m].status \in AliasStatus
  BY DEF TypeOK, MailboxRow, AliasRow
<1> QED
  BY <1>1 DEF UseOf, MailboxStatus, AliasStatus

LEMMA HolderShown ==
  ASSUME NEW m \in Mailboxes
  PROVE  /\ HolderOf(m) = "mailbox" <=> account[m] # "none"
         /\ HolderOf(m) = "nobody" <=> AddressFree(m)
         /\ OneHolder =>
               (HolderOf(m) = "forwarder" <=> mailing_list[m] # Nowhere)
  BY DEF HolderOf, AddressFree, OneHolder

\* A step that changes the use of nothing, and what holds nothing.
LEMMA SharedStutters ==
  ASSUME \A m \in Mailboxes : /\ UseOf("mailbox", m)' = UseOf("mailbox", m)
                              /\ UseOf("forwarder", m)' = UseOf("forwarder", m)
                              /\ HolderOf(m)' = HolderOf(m)
  PROVE  UNCHANGED Shared!useVars
<1>1. \A k \in {"mailbox", "forwarder"} : \A m \in Mailboxes :
        UseOf(k, m)' = UseOf(k, m)
  OBVIOUS
<1> QED
  BY <1>1 DEF Shared!useVars

\* A step that changes the use of m by one kind.
LEMMA OneUseBecomes ==
  ASSUME NEW k \in {"mailbox", "forwarder"}, NEW m \in Mailboxes,
         \A i \in {"mailbox", "forwarder"}, x \in Mailboxes :
            i # k \/ x # m => UseOf(i, x)' = UseOf(i, x)
  PROVE  Shared!Becomes(k, m, UseOf(k, m)')
  BY DEF Shared!Becomes

\* A step that changes who holds m.
LEMMA OneHolderBecomes ==
  ASSUME NEW m \in Mailboxes,
         \A x \in Mailboxes \ {m} : HolderOf(x)' = HolderOf(x)
  PROVE  [x \in Mailboxes |-> HolderOf(x)]'
            = [[x \in Mailboxes |-> HolderOf(x)] EXCEPT ![m] = HolderOf(m)']
  OBVIOUS

UseStep == [Shared!UseNext]_(Shared!useVars)

\* A step on the backend's user of m alone.
LEMMA BackendStep ==
  ASSUME UNCHANGED <<mailbox, alias>>, NEW m \in Mailboxes,
         \A x \in Mailboxes \ {m} :
            account'[x] = account[x] /\ mailing_list'[x] = mailing_list[x]
  PROVE  /\ [x \in Mailboxes |-> HolderOf(x)]'
              = [[x \in Mailboxes |-> HolderOf(x)] EXCEPT ![m] = HolderOf(m)']
         /\ [k \in {"mailbox", "forwarder"} |->
               [x \in Mailboxes |-> UseOf(k, x)]]'
              = [k \in {"mailbox", "forwarder"} |->
                   [x \in Mailboxes |-> UseOf(k, x)]]
<1>1. \A x \in Mailboxes \ {m} : HolderOf(x)' = HolderOf(x)
  BY DEF HolderOf
<1>2. \A k \in {"mailbox", "forwarder"} : \A x \in Mailboxes :
         UseOf(k, x)' = UseOf(k, x)
  BY DEF UseOf
<1> QED
  BY <1>1, <1>2, OneHolderBecomes

\* A step on the row of m alone.
LEMMA RowStep ==
  ASSUME UNCHANGED <<account, mailing_list>>,
         NEW k \in {"mailbox", "forwarder"}, NEW m \in Mailboxes,
         \A x \in Mailboxes :
            /\ k # "mailbox" \/ x # m => mailbox'[x] = mailbox[x]
            /\ k # "forwarder" \/ x # m => alias'[x] = alias[x]
  PROVE  /\ Shared!Becomes(k, m, UseOf(k, m)')
         /\ [x \in Mailboxes |-> HolderOf(x)]'
              = [x \in Mailboxes |-> HolderOf(x)]
<1>1. \A i \in {"mailbox", "forwarder"}, x \in Mailboxes :
         i # k \/ x # m => UseOf(i, x)' = UseOf(i, x)
  BY DEF UseOf
<1> QED
  BY <1>1, OneUseBecomes DEF HolderOf

\* A claim, its end or its completion, or the end of a use, each as
\* AddressUse allows it.
LEMMA RowSettles ==
  ASSUME UNCHANGED <<account, mailing_list>>,
         NEW k \in {"mailbox", "forwarder"}, NEW m \in Mailboxes,
         \A x \in Mailboxes :
            /\ k # "mailbox" \/ x # m => mailbox'[x] = mailbox[x]
            /\ k # "forwarder" \/ x # m => alias'[x] = alias[x],
         \/ UseOf(k, m)' = UseOf(k, m)
         \/ /\ UseOf(k, m) = "free" /\ UseOf(k, m)' = "claimed"
            /\ UseOf("mailbox", m) # "used" /\ UseOf("forwarder", m) # "used"
         \/ UseOf(k, m) = "claimed" /\ UseOf(k, m)' = "free"
         \/ /\ UseOf(k, m) = "claimed" /\ UseOf(k, m)' = "used"
            /\ HolderOf(m) = k
         \/ /\ UseOf(k, m) = "used" /\ UseOf(k, m)' = "retired"
            /\ HolderOf(m) # k
  PROVE  UseStep
<1>1. /\ Shared!Becomes(k, m, UseOf(k, m)')
      /\ [x \in Mailboxes |-> HolderOf(x)]' = [x \in Mailboxes |-> HolderOf(x)]
  BY RowStep
<1>2. CASE UseOf(k, m)' = UseOf(k, m)
  <2>1. \A i \in {"mailbox", "forwarder"}, x \in Mailboxes :
           UseOf(i, x)' = UseOf(i, x)
    BY <1>2 DEF UseOf
  <2>2. \A x \in Mailboxes : HolderOf(x)' = HolderOf(x)
    BY DEF HolderOf
  <2> QED BY <2>1, <2>2, SharedStutters DEF UseStep
<1>3. CASE UseOf(k, m) = "claimed" /\ UseOf(k, m)' = "free"
  <2>1. Shared!Abandon(k, m)
    BY <1>1, <1>3 DEF Shared!Abandon
  <2> QED BY <2>1 DEF UseStep, Shared!UseNext, Shared!Kinds
<1>4. CASE /\ UseOf(k, m) = "claimed" /\ UseOf(k, m)' = "used"
           /\ HolderOf(m) = k
  <2>1. Shared!Complete(k, m)
    BY <1>1, <1>4 DEF Shared!Complete
  <2> QED BY <2>1 DEF UseStep, Shared!UseNext, Shared!Kinds
<1>5. CASE /\ UseOf(k, m) = "used" /\ UseOf(k, m)' = "retired"
           /\ HolderOf(m) # k
  <2>1. Shared!Retire(k, m)
    BY <1>1, <1>5 DEF Shared!Retire
  <2> QED BY <2>1 DEF UseStep, Shared!UseNext, Shared!Kinds
<1>6. CASE /\ UseOf(k, m) = "free" /\ UseOf(k, m)' = "claimed"
           /\ UseOf("mailbox", m) # "used" /\ UseOf("forwarder", m) # "used"
  <2>1. Shared!Claim(k, m)
    BY <1>1, <1>6 DEF Shared!Claim, Shared!Kinds
  <2> QED BY <2>1 DEF UseStep, Shared!UseNext, Shared!Kinds
<1> QED
  BY <1>2, <1>3, <1>4, <1>5, <1>6

\* Stalwart gives m to the kind that claimed it, takes it from the kind that
\* uses it, or changes nothing about who holds it.
LEMMA BackendSettles ==
  ASSUME UNCHANGED <<mailbox, alias>>,
         NEW k \in {"mailbox", "forwarder"}, NEW m \in Mailboxes,
         \A x \in Mailboxes \ {m} :
            account'[x] = account[x] /\ mailing_list'[x] = mailing_list[x],
         \/ HolderOf(m)' = HolderOf(m)
         \/ /\ UseOf(k, m) = "claimed"
            /\ HolderOf(m) = "nobody" /\ HolderOf(m)' = k
         \/ /\ UseOf(k, m) = "used"
            /\ HolderOf(m) = k /\ HolderOf(m)' = "nobody"
  PROVE  UseStep
<1>1. CASE HolderOf(m)' = HolderOf(m)
  <2>1. \A x \in Mailboxes : HolderOf(x)' = HolderOf(x)
    BY <1>1 DEF HolderOf
  <2>2. \A x \in Mailboxes : /\ UseOf("mailbox", x)' = UseOf("mailbox", x)
                             /\ UseOf("forwarder", x)' = UseOf("forwarder", x)
    BY DEF UseOf
  <2> QED BY <2>1, <2>2, SharedStutters DEF UseStep
<1>2. CASE /\ UseOf(k, m) = "claimed"
           /\ HolderOf(m) = "nobody" /\ HolderOf(m)' = k
  <2>1. Shared!Hold(k, m)
    BY <1>2, BackendStep DEF Shared!Hold
  <2> QED BY <2>1 DEF UseStep, Shared!UseNext, Shared!Kinds
<1>3. CASE /\ UseOf(k, m) = "used"
           /\ HolderOf(m) = k /\ HolderOf(m)' = "nobody"
  <2>1. Shared!LetGo(k, m)
    BY <1>3, BackendStep DEF Shared!LetGo
  <2> QED BY <2>1 DEF UseStep, Shared!UseNext, Shared!Kinds
<1> QED
  BY <1>1, <1>2, <1>3

\* A step that only moves a job, to where nothing is confirmed yet.
LEMMA JobStepShares ==
  ASSUME AddressInv, NEW w \in Workers, NEW m \in Mailboxes,
         UNCHANGED <<mailbox, alias, account, mailing_list>>,
         \A v \in Workers \ {w} : job'[v] = job[v],
         job'[w].pc \notin {"mailbox_save", "forwarder_save"},
         job'[w].pc \in WritesLists => job'[w].to # Nowhere
  PROVE  HolderInv' /\ UseStep
<1>1. HolderGoesOn(w, m)
  BY DEF HolderGoesOn, AddressInv, HolderInv, OneHolder
<1>2. UseStep
  BY BackendSettles DEF HolderOf
<1> QED
  BY <1>1, <1>2, HolderKept DEF AddressInv

\* Every step of an operation on a mailbox.
LEMMA MailboxShares ==
  ASSUME AddressInv, TypeOK', NEW w \in Workers,
         MailboxBegin(w) \/ MailboxStep(w)
  PROVE  HolderInv' /\ UseStep
<1> DEFINE Goal == HolderInv' /\ UseStep
<1> USE DEF rows, addresses, backend
<1>1. ASSUME NEW m \in Mailboxes, ProvisionMailboxBegin(w, m) PROVE Goal
  BY <1>1, MailboxJobMoves, JobStepShares
  DEF ProvisionMailboxBegin, WritesLists, AddressInv, MailboxInv
<1>2. ASSUME NEW m \in Mailboxes, SuspendMailboxBegin(w, m) PROVE Goal
  BY <1>2, MailboxJobMoves, JobStepShares
  DEF SuspendMailboxBegin, WritesLists, AddressInv, MailboxInv
<1>3. ASSUME NEW m \in Mailboxes, ReactivateMailboxBegin(w, m) PROVE Goal
  BY <1>3, MailboxJobMoves, JobStepShares
  DEF ReactivateMailboxBegin, WritesLists, AddressInv, MailboxInv
<1>4. ASSUME NEW m \in Mailboxes, DeleteMailboxBegin(w, m) PROVE Goal
  BY <1>4, MailboxJobMoves, JobStepShares
  DEF DeleteMailboxBegin, WritesLists, AddressInv, MailboxInv
<1>5. CASE MailboxStep(w)
  <2>1. job[w].pc \in MailboxPC
    BY <1>5
    DEF MailboxStep, MailboxReserve, MailboxCreate, MailboxCreateFails,
        MailboxDiscard, MailboxSave, MailboxWrite, MailboxWriteFails,
        WritesPermissions, MailboxDestroy, MailboxDestroyFails,
        MailboxSuspendSave, MailboxReactivateSave, MailboxDeleteSave, At,
        MailboxPC
  <2>2. TypeOK /\ TypeOK'
    BY DEF AddressInv, MailboxInv
  <2>3. PICK m \in Mailboxes : m = job[w].box
    BY <2>1, <2>2, AddressJobHasBox, KindsOfAddressSteps
  <2>4. /\ job[w].pc \in MailboxMaker => mailbox[m].status = "provisioning"
        /\ job[w].pc \in {"mailbox_delete", "mailbox_delete_save"} =>
              mailbox[m].status \in Settled
        /\ job[w].pc = "mailbox_delete_save" => account[m] = "none"
        /\ job[w].pc = "mailbox_save" => account[m] # "none"
        /\ mailbox[m].status \in Settled =>
              \A v \in Workers : ~MakesMailbox(v, m)
        /\ mailbox[m].status = "deleted" => account[m] = "none"
    BY <2>3
    DEF AddressInv, MailboxInv, HolderInv, MailboxJobsRely,
        SavesAreConfirmed, DeletedHasNoAccount, MakesMailbox, Settled
  <2>5. account[m] = "none" \/ mailing_list[m] = Nowhere
    BY DEF AddressInv, HolderInv, OneHolder
  <2>6. mailbox[m].status \in MailboxStatus /\ mailbox'[m].status \in MailboxStatus
    BY <2>2 DEF TypeOK, MailboxRow
  <2> USE DEF At
  <2>7. CASE MailboxReserve(w)
    <3>1. CASE CanReserve(m)
      <4>1. /\ mailbox[m].status = "absent"
            /\ alias[m].status # "active"
            /\ mailbox'[m].status = "provisioning"
            /\ \A x \in Mailboxes \ {m} : mailbox'[x] = mailbox[x]
            /\ UNCHANGED <<alias, account, mailing_list>>
            /\ Goto(w, "mailbox_create")
        BY <2>2, <2>3, <2>7, <3>1 DEF MailboxReserve, CanReserve, TypeOK
      <4>2. HolderGoesOn(w, m)
        BY <2>2, <2>5, <4>1, GotoMoves DEF HolderGoesOn, WritesLists
      <4>3. UseStep
        <5>1. /\ UseOf("mailbox", m) = "free"
              /\ UseOf("mailbox", m)' = "claimed"
              /\ UseOf("forwarder", m) # "used"
          BY <2>2, <4>1, UsesShown DEF UseOf
        <5> QED BY <4>1, <5>1, RowSettles
      <4> QED BY <4>2, <4>3, HolderKept DEF AddressInv
    <3>2. CASE ~CanReserve(m)
      BY <2>2, <2>3, <2>7, <3>2, FinishIdles, JobStepShares
      DEF MailboxReserve, WritesLists
    <3> QED BY <3>1, <3>2
  <2>8. CASE MailboxCreate(w) \/ MailboxCreateFails(w)
    <3>1. /\ mailbox[m].status = "provisioning"
          /\ UNCHANGED <<mailbox, alias, mailing_list>>
          /\ \A x \in Mailboxes \ {m} : account'[x] = account[x]
          /\ \/ UNCHANGED account
             \/ AddressFree(m) /\ account'[m] # "none"
      BY <2>2, <2>3, <2>4, <2>8, JobTarget
      DEF MailboxCreate, MailboxCreateFails, CreateAccount, MailboxMaker,
          TypeOK, Permissions
    <3>2. /\ job'[w].pc \in {"mailbox_save", "mailbox_discard"}
          /\ job'[w].box = m
          /\ job'[w].pc = "mailbox_save" => account'[m] # "none"
          /\ \A v \in Workers \ {w} : job'[v] = job[v]
      BY <2>2, <2>3, <2>8, GotoMoves, JobTarget
      DEF MailboxCreate, MailboxCreateFails, CreateAccount, TypeOK,
          Permissions
    <3>3. HolderGoesOn(w, m)
      BY <2>5, <3>1, <3>2 DEF HolderGoesOn, WritesLists, AddressFree
    <3>4. UseStep
      BY <2>2, <3>1, UsesShown, BackendSettles DEF AddressFree, HolderOf
    <3> QED BY <3>3, <3>4, HolderKept DEF AddressInv
  <2>9. CASE MailboxDiscard(w) \/ MailboxSave(w)
    <3>1. /\ mailbox[m].status = "provisioning"
          /\ \/ mailbox'[m].status = "absent"
             \/ mailbox'[m].status = "active" /\ account[m] # "none"
          /\ \A x \in Mailboxes \ {m} : mailbox'[x] = mailbox[x]
          /\ UNCHANGED <<alias, account, mailing_list>>
      BY <2>2, <2>3, <2>4, <2>9
      DEF MailboxDiscard, MailboxSave, MailboxMaker, NoMailboxRow,
          ServedMailbox, TypeOK
    <3>2. /\ job'[w].pc = "idle"
          /\ \A v \in Workers \ {w} : job'[v] = job[v]
      BY <2>2, <2>9, FinishIdles DEF MailboxDiscard, MailboxSave
    <3>3. HolderGoesOn(w, m)
      BY <2>5, <3>1, <3>2 DEF HolderGoesOn, WritesLists
    <3>4. UseStep
      BY <2>2, <3>1, UsesShown, HolderShown, RowSettles DEF UseOf
    <3> QED BY <3>3, <3>4, HolderKept DEF AddressInv
  <2>10. CASE MailboxWrite(w) \/ MailboxWriteFails(w)
    <3>1. /\ UNCHANGED <<mailbox, alias, mailing_list>>
          /\ \A x \in Mailboxes : account[x] = "none" <=> account'[x] = "none"
          /\ \A x \in Mailboxes \ {m} : account'[x] = account[x]
      BY <2>2, <2>3, <2>10, WriteKeepsAccounts, JobTarget
      DEF MailboxWrite, MailboxWriteFails, WriteFails, WritePermissions,
          TypeOK
    <3>2. /\ job'[w].pc \in {"idle", "mailbox_suspend_save",
                             "mailbox_reactivate_save"}
          /\ \A v \in Workers \ {w} : job'[v] = job[v]
      BY <2>2, <2>10, GotoMoves, FinishIdles
      DEF MailboxWrite, MailboxWriteFails, WritesPermissions, SavePC
    <3>3. HolderGoesOn(w, m)
      BY <2>5, <3>1, <3>2 DEF HolderGoesOn, WritesLists
    <3>4. UseStep
      BY <3>1, BackendSettles DEF HolderOf
    <3> QED BY <3>3, <3>4, HolderKept DEF AddressInv
  <2>11. CASE MailboxDestroy(w) \/ MailboxDestroyFails(w)
    <3>1. /\ mailbox[m].status \in Settled
          /\ UNCHANGED <<mailbox, alias, mailing_list>>
          /\ \A x \in Mailboxes \ {m} : account'[x] = account[x]
          /\ \/ UNCHANGED account
             \/ account[m] # "none" /\ account'[m] = "none"
      BY <2>2, <2>3, <2>4, <2>11
      DEF MailboxDestroy, MailboxDestroyFails, DestroyAccount, TypeOK
    <3>2. /\ job'[w].pc \in {"idle", "mailbox_delete_save"}
          /\ \A v \in Workers \ {w} : job'[v] = job[v]
      BY <2>2, <2>11, GotoMoves, FinishIdles
      DEF MailboxDestroy, MailboxDestroyFails
    <3>3. HolderGoesOn(w, m)
      BY <2>4, <2>5, <3>1, <3>2 DEF HolderGoesOn, WritesLists
    <3>4. UseStep
      <4>1. CASE UNCHANGED account
        BY <3>1, <4>1, BackendSettles DEF HolderOf
      <4>2. CASE account[m] # "none" /\ account'[m] = "none"
        <5>1. UseOf("mailbox", m) = "used"
          BY <2>2, <2>4, <3>1, <4>2, UsesShown DEF Settled
        <5>2. HolderOf(m) = "mailbox" /\ HolderOf(m)' = "nobody"
          BY <2>5, <3>1, <4>2 DEF HolderOf
        <5> QED BY <3>1, <5>1, <5>2, BackendSettles
      <4> QED BY <3>1, <4>1, <4>2
    <3> QED BY <3>3, <3>4, HolderKept DEF AddressInv
  <2>12. CASE MailboxSuspendSave(w) \/ MailboxReactivateSave(w)
    <3>1. /\ \/ mailbox'[m].status = mailbox[m].status
             \/ /\ mailbox[m].status \in {"active", "suspended"}
                /\ mailbox'[m].status \in {"active", "suspended"}
          /\ \A x \in Mailboxes \ {m} : mailbox'[x] = mailbox[x]
          /\ UNCHANGED <<alias, account, mailing_list>>
      BY <2>2, <2>3, <2>12
      DEF MailboxSuspendSave, MailboxReactivateSave, TypeOK, MailboxRow
    <3>2. /\ job'[w].pc = "idle"
          /\ \A v \in Workers \ {w} : job'[v] = job[v]
      BY <2>2, <2>12, FinishIdles
      DEF MailboxSuspendSave, MailboxReactivateSave
    <3>3. HolderGoesOn(w, m)
      BY <2>5, <3>1, <3>2 DEF HolderGoesOn, WritesLists
    <3>4. UseStep
      BY <3>1, RowSettles DEF UseOf
    <3> QED BY <3>3, <3>4, HolderKept DEF AddressInv
  <2>13. CASE MailboxDeleteSave(w)
    <3>1. /\ mailbox[m].status \in Settled /\ account[m] = "none"
          /\ mailbox'[m].status = "deleted"
          /\ \A x \in Mailboxes \ {m} : mailbox'[x] = mailbox[x]
          /\ UNCHANGED <<alias, account, mailing_list>>
      BY <2>2, <2>3, <2>4, <2>13 DEF MailboxDeleteSave, TypeOK, MailboxRow
    <3>2. /\ job'[w].pc = "idle"
          /\ \A v \in Workers \ {w} : job'[v] = job[v]
      BY <2>2, <2>13, FinishIdles DEF MailboxDeleteSave
    <3>3. HolderGoesOn(w, m)
      BY <2>5, <3>1, <3>2 DEF HolderGoesOn, WritesLists
    <3>4. UseStep
      BY <2>2, <3>1, UsesShown, HolderShown, RowSettles DEF UseOf, Settled
    <3> QED BY <3>3, <3>4, HolderKept DEF AddressInv
  <2> QED
    BY <1>5, <2>7, <2>8, <2>9, <2>10, <2>11, <2>12, <2>13 DEF MailboxStep
<1> QED
  BY <1>1, <1>2, <1>3, <1>4, <1>5 DEF MailboxBegin

\* Every step of an operation on a forwarder.
LEMMA ForwarderShares ==
  ASSUME AddressInv, TypeOK', NEW w \in Workers,
         ForwarderBegin(w) \/ ForwarderStep(w)
  PROVE  HolderInv' /\ UseStep
<1> DEFINE Goal == HolderInv' /\ UseStep
<1> USE DEF rows, addresses, backend
<1>0. TypeOK /\ TypeOK' /\ Nowhere \notin Destinations
  BY ConstantsAssumption DEF AddressInv, MailboxInv
<1>1. ASSUME NEW m \in Mailboxes, NEW to \in Destinations,
             \/ ProvisionForwarderBegin(w, m, to)
             \/ UpdateForwarderBegin(w, m, to)
      PROVE  Goal
  <2>1. job'[w].to = to
    <3>1. PICK pc : ForwarderJob(w, pc, m, to)
      BY <1>1 DEF ProvisionForwarderBegin, UpdateForwarderBegin
    <3> QED BY <1>0, <3>1 DEF ForwarderJob, Idle, TypeOK
  <2> QED
    BY <1>0, <1>1, <2>1, ForwarderJobMoves, JobStepShares
    DEF ProvisionForwarderBegin, UpdateForwarderBegin
<1>2. ASSUME NEW m \in Mailboxes, DeleteForwarderBegin(w, m) PROVE Goal
  BY <1>0, <1>2, ForwarderJobMoves, JobStepShares
  DEF DeleteForwarderBegin, WritesLists
<1>3. CASE ForwarderStep(w)
  <2>1. job[w].pc \in ForwarderPC
    BY <1>3
    DEF ForwarderStep, ForwarderReserve, ForwarderCreate,
        ForwarderCreateFails, ForwarderDiscard, ForwarderSave,
        ForwarderUpdate, ForwarderDestroy, ForwarderChangeFails,
        ForwarderUpdateSave, ForwarderDeleteSave, At, ForwarderPC
  <2>2. PICK m \in Mailboxes : m = job[w].box
    BY <1>0, <2>1, AddressJobHasBox, KindsOfAddressSteps
  <2>3. /\ job[w].pc \in ForwarderMaker => alias[m].status = "pending"
        /\ job[w].pc \in {"forwarder_delete", "forwarder_delete_save"} =>
              alias[m].status \in {"active", "deleted"}
        /\ job[w].pc = "forwarder_delete_save" => mailing_list[m] = Nowhere
        /\ job[w].pc = "forwarder_save" => mailing_list[m] # Nowhere
        /\ job[w].pc \in WritesLists => job[w].to # Nowhere
        /\ alias[m].status \in {"active", "deleted"} =>
              \A v \in Workers : ~MakesForwarder(v, m)
        /\ alias[m].status = "deleted" => mailing_list[m] = Nowhere
    BY <2>2
    DEF AddressInv, ForwarderInv, HolderInv, ForwarderJobsRely,
        SavesAreConfirmed, DestinationsGiven, DeletedForwarderHasNoList,
        MakesForwarder
  <2>4. account[m] = "none" \/ mailing_list[m] = Nowhere
    BY DEF AddressInv, HolderInv, OneHolder
  <2> USE DEF At
  <2>5. CASE ForwarderReserve(w)
    <3>1. CASE CanForward(m)
      <4>1. /\ alias[m].status = "absent"
            /\ mailbox[m].status \in {"absent", "deleted"}
            /\ alias'[m].status = "pending"
            /\ \A x \in Mailboxes \ {m} : alias'[x] = alias[x]
            /\ UNCHANGED <<mailbox, account, mailing_list>>
            /\ Goto(w, "forwarder_create")
        BY <1>0, <2>2, <2>5, <3>1 DEF ForwarderReserve, CanForward, TypeOK
      <4>2. job'[w].to = job[w].to
        BY <1>0, <4>1 DEF Goto, TypeOK, Job, JobRecord
      <4>3. HolderGoesOn(w, m)
        BY <1>0, <2>3, <2>4, <2>5, <4>1, <4>2, GotoMoves
        DEF HolderGoesOn, WritesLists, ForwarderReserve
      <4>4. UseStep
        <5>1. /\ UseOf("forwarder", m) = "free"
              /\ UseOf("forwarder", m)' = "claimed"
              /\ UseOf("mailbox", m) # "used"
          BY <1>0, <4>1, UsesShown DEF UseOf
        <5> QED BY <4>1, <5>1, RowSettles
      <4> QED BY <4>3, <4>4, HolderKept DEF AddressInv
    <3>2. CASE ~CanForward(m)
      BY <1>0, <2>2, <2>5, <3>2, FinishIdles, JobStepShares
      DEF ForwarderReserve, WritesLists
    <3> QED BY <3>1, <3>2
  <2>6. CASE ForwarderCreate(w) \/ ForwarderCreateFails(w)
    <3>1. /\ alias[m].status = "pending"
          /\ UNCHANGED <<mailbox, alias, account>>
          /\ \A x \in Mailboxes \ {m} : mailing_list'[x] = mailing_list[x]
          /\ \/ UNCHANGED mailing_list
             \/ AddressFree(m) /\ mailing_list'[m] # Nowhere
      BY <1>0, <2>2, <2>3, <2>6
      DEF ForwarderCreate, ForwarderCreateFails, CreateList, ForwarderMaker,
          WritesLists, TypeOK
    <3>2. /\ job'[w].pc \in {"forwarder_save", "forwarder_discard"}
          /\ job'[w].box = m
          /\ job'[w].pc = "forwarder_save" => mailing_list'[m] # Nowhere
          /\ \A v \in Workers \ {w} : job'[v] = job[v]
      BY <1>0, <2>2, <2>3, <2>6, GotoMoves
      DEF ForwarderCreate, ForwarderCreateFails, CreateList, WritesLists,
          TypeOK
    <3>3. HolderGoesOn(w, m)
      BY <2>4, <3>1, <3>2 DEF HolderGoesOn, WritesLists, AddressFree
    <3>4. UseStep
      BY <1>0, <3>1, UsesShown, BackendSettles DEF AddressFree, HolderOf
    <3> QED BY <3>3, <3>4, HolderKept DEF AddressInv
  <2>7. CASE ForwarderDiscard(w) \/ ForwarderSave(w)
    <3>1. /\ alias[m].status = "pending"
          /\ \/ alias'[m].status = "absent"
             \/ alias'[m].status = "active" /\ mailing_list[m] # Nowhere
          /\ \A x \in Mailboxes \ {m} : alias'[x] = alias[x]
          /\ UNCHANGED <<mailbox, account, mailing_list>>
      BY <1>0, <2>2, <2>3, <2>7
      DEF ForwarderDiscard, ForwarderSave, ForwarderMaker, NoAliasRow,
          AliasRow, TypeOK
    <3>2. /\ job'[w].pc = "idle"
          /\ \A v \in Workers \ {w} : job'[v] = job[v]
      BY <1>0, <2>7, FinishIdles DEF ForwarderDiscard, ForwarderSave
    <3>3. HolderGoesOn(w, m)
      BY <2>4, <3>1, <3>2 DEF HolderGoesOn, WritesLists
    <3>4. UseStep
      <4>1. /\ UseOf("forwarder", m) = "claimed"
            /\ \/ UseOf("forwarder", m)' = "free"
               \/ /\ UseOf("forwarder", m)' = "used"
                  /\ HolderOf(m) = "forwarder"
        BY <1>0, <2>4, <3>1, UsesShown DEF UseOf, HolderOf
      <4> QED BY <3>1, <4>1, RowSettles
    <3> QED BY <3>3, <3>4, HolderKept DEF AddressInv
  <2>8. CASE \/ ForwarderUpdate(w)
             \/ ForwarderChangeFails(w) /\ job[w].pc = "forwarder_update"
    <3>1. /\ UNCHANGED <<mailbox, alias, account>>
          /\ \A x \in Mailboxes :
                mailing_list[x] = Nowhere <=> mailing_list'[x] = Nowhere
          /\ \A x \in Mailboxes \ {m} : mailing_list'[x] = mailing_list[x]
      BY <1>0, <2>2, <2>3, <2>8
      DEF ForwarderUpdate, ForwarderChangeFails, WriteList, WritesLists,
          TypeOK
    <3>2. /\ job'[w].pc \in {"idle", "forwarder_update_save"}
          /\ \A v \in Workers \ {w} : job'[v] = job[v]
      BY <1>0, <2>8, GotoMoves, FinishIdles
      DEF ForwarderUpdate, ForwarderChangeFails
    <3>3. HolderGoesOn(w, m)
      BY <2>4, <3>1, <3>2 DEF HolderGoesOn, WritesLists
    <3>4. UseStep
      BY <3>1, BackendSettles DEF HolderOf
    <3> QED BY <3>3, <3>4, HolderKept DEF AddressInv
  <2>9. CASE \/ ForwarderDestroy(w)
             \/ ForwarderChangeFails(w) /\ job[w].pc = "forwarder_delete"
    <3>1. /\ alias[m].status \in {"active", "deleted"}
          /\ UNCHANGED <<mailbox, alias, account>>
          /\ \A x \in Mailboxes \ {m} : mailing_list'[x] = mailing_list[x]
          /\ \/ UNCHANGED mailing_list
             \/ mailing_list[m] # Nowhere
      BY <1>0, <2>2, <2>3, <2>9
      DEF ForwarderDestroy, ForwarderChangeFails, WriteList, TypeOK
    <3>2. /\ job'[w].pc \in {"idle", "forwarder_delete_save"}
          /\ \A v \in Workers \ {w} : job'[v] = job[v]
      BY <1>0, <2>9, GotoMoves, FinishIdles
      DEF ForwarderDestroy, ForwarderChangeFails
    <3>3. HolderGoesOn(w, m)
      BY <2>3, <2>4, <3>1, <3>2 DEF HolderGoesOn, WritesLists
    <3>4. UseStep
      <4>1. CASE mailing_list'[m] # Nowhere \/ UNCHANGED mailing_list
        BY <2>4, <3>1, <4>1, BackendSettles DEF HolderOf
      <4>2. CASE mailing_list[m] # Nowhere /\ mailing_list'[m] = Nowhere
        <5>1. UseOf("forwarder", m) = "used"
          BY <1>0, <2>3, <3>1, <4>2, UsesShown
        <5>2. HolderOf(m) = "forwarder" /\ HolderOf(m)' = "nobody"
          BY <2>4, <3>1, <4>2 DEF HolderOf
        <5> QED BY <3>1, <5>1, <5>2, BackendSettles
      <4> QED BY <3>1, <4>1, <4>2
    <3> QED BY <3>3, <3>4, HolderKept DEF AddressInv
  <2>10. CASE ForwarderUpdateSave(w)
    <3>1. /\ alias'[m].status = alias[m].status
          /\ \A x \in Mailboxes \ {m} : alias'[x] = alias[x]
          /\ UNCHANGED <<mailbox, account, mailing_list>>
      BY <1>0, <2>2, <2>10 DEF ForwarderUpdateSave, TypeOK, AliasRow
    <3>2. /\ job'[w].pc = "idle"
          /\ \A v \in Workers \ {w} : job'[v] = job[v]
      BY <1>0, <2>10, FinishIdles DEF ForwarderUpdateSave
    <3>3. HolderGoesOn(w, m)
      BY <2>4, <3>1, <3>2 DEF HolderGoesOn, WritesLists
    <3>4. UseStep
      BY <3>1, RowSettles DEF UseOf
    <3> QED BY <3>3, <3>4, HolderKept DEF AddressInv
  <2>11. CASE ForwarderDeleteSave(w)
    <3>1. /\ mailing_list[m] = Nowhere
          /\ \/ alias'[m].status = alias[m].status
             \/ alias[m].status = "active" /\ alias'[m].status = "deleted"
          /\ \A x \in Mailboxes \ {m} : alias'[x] = alias[x]
          /\ UNCHANGED <<mailbox, account, mailing_list>>
      BY <1>0, <2>2, <2>3, <2>11 DEF ForwarderDeleteSave, TypeOK, AliasRow
    <3>2. /\ job'[w].pc = "idle"
          /\ \A v \in Workers \ {w} : job'[v] = job[v]
      BY <1>0, <2>11, FinishIdles DEF ForwarderDeleteSave
    <3>3. HolderGoesOn(w, m)
      BY <2>4, <3>1, <3>2 DEF HolderGoesOn, WritesLists
    <3>4. UseStep
      <4>1. \/ UseOf("forwarder", m)' = UseOf("forwarder", m)
            \/ /\ UseOf("forwarder", m) = "used"
               /\ UseOf("forwarder", m)' = "retired"
               /\ HolderOf(m) # "forwarder"
        BY <1>0, <3>1, UsesShown DEF UseOf, HolderOf
      <4> QED BY <3>1, <4>1, RowSettles
    <3> QED BY <3>3, <3>4, HolderKept DEF AddressInv
  <2>12. ForwarderChangeFails(w) =>
           job[w].pc \in {"forwarder_update", "forwarder_delete"}
    BY DEF ForwarderChangeFails
  <2> QED
    BY <1>3, <2>5, <2>6, <2>7, <2>8, <2>9, <2>10, <2>11, <2>12
    DEF ForwarderStep
<1> QED
  BY <1>1, <1>2, <1>3 DEF ForwarderBegin

\* Whoever takes a step.
LEMMA EveryStepShares ==
  ASSUME AddressInv, [Next]_vars
  PROVE  HolderInv' /\ UseStep
<1>1. TypeOK /\ TypeOK' /\ HolderInv
  BY StepTypes DEF AddressInv, MailboxInv
<1>2. ASSUME LeavesAddressJobs, LeavesAddresses
      PROVE  HolderInv' /\ UseStep
  <2>1. UseStep
    BY <1>2, SharedStutters DEF LeavesAddresses, UseOf, HolderOf, UseStep
  <2> QED BY <1>1, <1>2, <2>1, HolderLeft
<1>3. ASSUME NEW w \in Workers, Begin(w) \/ Step(w)
      PROVE  HolderInv' /\ UseStep
  <2>1. CASE SetupBegin(w) \/ SetupStep(w)
    BY <1>1, <1>2, <2>1, SetupLeaves
  <2>2. CASE ReadinessBegin(w) \/ ReadinessStep(w)
    BY <1>1, <1>2, <2>2, ReadinessLeaves DEF LeavesJobs
  <2>3. CASE SuspensionBegin(w) \/ SuspensionStep(w)
    BY <1>1, <1>2, <2>3, SuspensionLeaves DEF LeavesJobs
  <2>4. CASE TenantBegin(w) \/ TenantStep(w)
    BY <1>1, <1>2, <2>4, TenantLeaves DEF LeavesJobs
  <2>5. CASE MailboxBegin(w) \/ MailboxStep(w)
    BY <1>1, <2>5, MailboxShares
  <2>6. CASE ForwarderBegin(w) \/ ForwarderStep(w)
    BY <1>1, <2>6, ForwarderShares
  <2> QED BY <1>3, <2>1, <2>2, <2>3, <2>4, <2>5, <2>6 DEF Begin, Step
<1>4. ASSUME NEW w \in Workers, Crash(w)
      PROVE  HolderInv' /\ UseStep
  BY <1>1, <1>2, <1>4, CrashLeaves DEF LeavesJobs
<1>5. ASSUME UNCHANGED vars
      PROVE  HolderInv' /\ UseStep
  <2>1. LeavesAddressJobs /\ LeavesAddresses
    BY <1>5 DEF vars, rows, addresses, backend, LeavesAddressJobs,
                LeavesAddresses
  <2> QED BY <1>2, <2>1
<1> QED
  BY <1>3, <1>4, <1>5 DEF Next

\* No job is under way at first, and forwarders there are none.
LEMMA HolderInit == Init => HolderInv /\ Shared!UseInit
<1> SUFFICES ASSUME Init PROVE HolderInv /\ Shared!UseInit
  OBVIOUS
<1>1. \A w \in Workers : job[w].pc = "idle"
  BY DEF Init, Idle
<1>2. \A m \in Mailboxes :
        /\ mailing_list[m] = Nowhere
        /\ alias[m].status = "absent"
        /\ \/ mailbox[m].status = "absent" /\ account[m] = "none"
           \/ mailbox[m].status = "active" /\ account[m] # "none"
  <2>1. NoMailboxRow # ServedMailbox
    <3>1. NoMailboxRow.status = "absent" /\ ServedMailbox.status = "active"
      BY DEF NoMailboxRow, ServedMailbox
    <3> QED BY <3>1
  <2> QED BY <2>1 DEF Init, NoAliasRow, NoMailboxRow, ServedMailbox
<1>3. HolderInv
  BY <1>1, <1>2
  DEF HolderInv, SavesAreConfirmed, OneHolder, DestinationsGiven, WritesLists
<1>4. \A m \in Mailboxes :
        /\ UseOf("forwarder", m) = "free"
        /\ \/ UseOf("mailbox", m) = "free" /\ HolderOf(m) = "nobody"
           \/ UseOf("mailbox", m) = "used" /\ HolderOf(m) = "mailbox"
  BY <1>2 DEF UseOf, HolderOf
<1>5. Shared!UseInit
  BY <1>4 DEF Shared!UseInit, Shared!Kinds
<1> QED
  BY <1>3, <1>5

(***************************************************************************)
(* Whatever runs at the same time, dies or loses an answer, mailboxes and  *)
(* forwarders share addresses as AddressUse says: of two that are created  *)
(* at one address only the one that Stalwart accepted is completed, none   *)
(* is claimed beside one in use, and an address is retired only when it    *)
(* was let go (mailboxes.services and mailboxes.forwarders).               *)
(***************************************************************************)
THEOREM AddressesAreShared == Spec => AddressUseImplemented
<1>1. Init => AddressInv
  BY AddressInitSafe, HolderInit DEF AddressInv
<1>2. AddressInv /\ [Next]_vars => AddressInv'
  BY AddressStepSafe, EveryStepShares DEF AddressInv
<1>3. AddressInv /\ [Next]_vars => [Shared!UseNext]_(Shared!useVars)
  BY EveryStepShares DEF UseStep
<1> QED
  BY HolderInit, <1>1, <1>2, <1>3, PTL
  DEF Spec, AddressUseImplemented, Shared!UseSpec

\* The use of one address by one kind changes, and no kind retires what it
\* holds.
LEMMA OneUseChanges ==
  ASSUME NEW Use, Use = {"free", "claimed", "used", "retired"},
         NEW u \in [Shared!Kinds -> [Mailboxes -> Use]], NEW h,
         \A i \in Shared!Kinds, x \in Mailboxes :
            u[i][x] = "retired" => h[x] # i,
         NEW k \in Shared!Kinds, NEW a \in Mailboxes,
         NEW v \in Use, v = "retired" => h[a] # k,
         NEW n, n = [u EXCEPT ![k][a] = v]
  PROVE  /\ n \in [Shared!Kinds -> [Mailboxes -> Use]]
         /\ \A i \in Shared!Kinds, x \in Mailboxes :
               n[i][x] = "retired" => h[x] # i
<1>1. /\ n \in [Shared!Kinds -> [Mailboxes -> Use]]
      /\ n[k][a] = v
      /\ \A i \in Shared!Kinds, x \in Mailboxes :
            i # k \/ x # a => n[i][x] = u[i][x]
  OBVIOUS
<1> QED
  BY <1>1

(***************************************************************************)
(* What AddressUse promises by itself: a kind that has retired an address  *)
(* holds nothing there.                                                    *)
(***************************************************************************)
THEOREM RetiredAddressesAreLetGo ==
  Shared!UseSpec => []Shared!RetiredIsLetGo
<1> DEFINE Use == {"free", "claimed", "used", "retired"}
           u == [k \in {"mailbox", "forwarder"} |->
                   [m \in Mailboxes |-> UseOf(k, m)]]
           h == [m \in Mailboxes |-> HolderOf(m)]
           Typed(f, g) == /\ f \in [Shared!Kinds -> [Mailboxes -> Use]]
                          /\ g \in [Mailboxes -> Shared!Kinds \cup {"nobody"}]
           LetGo(f, g) == \A k \in Shared!Kinds, a \in Mailboxes :
                             f[k][a] = "retired" => g[a] # k
           Kept == Typed(u, h) /\ LetGo(u, h)
<1>1. Shared!UseInit => Kept
  BY DEF Shared!UseInit, Shared!Kinds
<1>2. Kept /\ [Shared!UseNext]_(Shared!useVars) => Kept'
  <2> SUFFICES ASSUME Kept, [Shared!UseNext]_(Shared!useVars)
               PROVE  Kept'
    OBVIOUS
  <2>1. CASE UNCHANGED Shared!useVars
    <3>1. u' = u /\ h' = h
      BY <2>1 DEF Shared!useVars
    <3> QED BY <3>1
  <2>2. ASSUME NEW k \in Shared!Kinds, NEW a \in Mailboxes,
               NEW v \in Use, Shared!Becomes(k, a, v), h' = h,
               v = "retired" => h[a] # k
        PROVE  Kept'
    <3>1. u' = [u EXCEPT ![k][a] = v]
      BY <2>2 DEF Shared!Becomes
    <3> HIDE DEF u, h
    <3> QED BY <2>2, <3>1, OneUseChanges
  <2>3. ASSUME NEW k \in Shared!Kinds, NEW a \in Mailboxes,
               NEW v \in {k, "nobody"}, u' = u,
               u[k][a] \in {"claimed", "used"}, h' = [h EXCEPT ![a] = v]
        PROVE  Kept'
    <3> HIDE DEF u, h
    <3> QED BY <2>3 DEF Shared!Kinds
  <2>4. ASSUME NEW k \in Shared!Kinds, NEW a \in Mailboxes,
               \/ Shared!Claim(k, a) \/ Shared!Abandon(k, a)
               \/ Shared!Complete(k, a) \/ Shared!Retire(k, a)
        PROVE  Kept'
    BY <2>2, <2>4
    DEF Shared!Claim, Shared!Abandon, Shared!Complete, Shared!Retire
  <2>5. ASSUME NEW k \in Shared!Kinds, NEW a \in Mailboxes,
               Shared!Hold(k, a) \/ Shared!LetGo(k, a)
        PROVE  Kept'
    BY <2>3, <2>5 DEF Shared!Hold, Shared!LetGo
  <2> QED BY <2>1, <2>4, <2>5 DEF Shared!UseNext
<1>3. Kept => Shared!RetiredIsLetGo
  BY DEF Shared!RetiredIsLetGo
<1> QED
  BY <1>1, <1>2, <1>3, PTL DEF Shared!UseSpec
=============================================================================
