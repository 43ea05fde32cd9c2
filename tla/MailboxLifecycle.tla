-------------------------- MODULE MailboxLifecycle --------------------------
(***************************************************************************)
(* Provisioning, suspension, reactivation and deletion of a mailbox        *)
(* (apps/mailboxes/services.py).  Stalwart is called between the read that *)
(* allows the operation and the statement that records it.  Quotas,        *)
(* display names and passwords are left out.                               *)
(***************************************************************************)
EXTENDS MailForgeState

\* Whether a new or reactivated account may send, from an unlocked read.
AccessFromRead(d) ==
    Sending(domain[d].sending_enabled /\ domain[d].status = "active")

\* Mutant: the job forgets the domain it reads.
MailboxJobOffRow(w, pc, m, target) ==
    job' = [job EXCEPT ![w] = [Idle EXCEPT !.pc = pc,
                                           !.box = m,
                                           !.target = target]]

MailboxJob(w, pc, m, target) ==
    job' = [job EXCEPT ![w] = [Idle EXCEPT !.pc = pc,
                                           !.dom = DomainOf[m],
                                           !.box = m,
                                           !.target = target]]

---------------------------------------------------------------------------
(* provision_mailbox *)

ProvisionMailboxBegin(w, m) ==
    LET d == DomainOf[m] IN
    /\ Free(w, "provision_mailbox")
    /\ tenant = "active"
    /\ domain[d].backend_identifier
    /\ domain[d].status \in {"dns_configuration", "active"}
    /\ MailboxJob(w, "mailbox_reserve", m, AccessFromRead(d))
    /\ UNCHANGED <<rows, backend, control>>

LiveMailboxes(d) ==
    { m \in Mailboxes : /\ DomainOf[m] = d
                        /\ mailbox[m].status \notin {"absent", "deleted"} }

\* Mutant: off by one at the limit.
CanReserveOneMore(m) ==
    /\ Cardinality(LiveMailboxes(DomainOf[m])) <= MaxMailboxes
    /\ alias[m].status # "active"
    /\ mailbox[m].status = "absent"

\* Mutant: a row that is being provisioned is taken over (get_or_create).
CanReserveAgain(m) ==
    /\ Cardinality(LiveMailboxes(DomainOf[m]) \ {m}) < MaxMailboxes
    /\ alias[m].status # "active"
    /\ mailbox[m].status \in {"absent", "provisioning"}

\* Mutant: forwarders are not looked at.
CanReserveBeside(m) ==
    /\ Cardinality(LiveMailboxes(DomainOf[m])) < MaxMailboxes
    /\ mailbox[m].status = "absent"

CanReserve(m) ==
    /\ Cardinality(LiveMailboxes(DomainOf[m])) < MaxMailboxes
    /\ alias[m].status # "active"
    /\ mailbox[m].status = "absent"

\* Under the domain's lock the limit, a forwarder and the unique address
\* decide.
MailboxReserve(w) ==
    LET m == job[w].box IN
    /\ At(w, "mailbox_reserve")
    /\ \/ /\ ~CanReserve(m)
          /\ Finish(w, "failed")
          /\ UNCHANGED mailbox
       \/ /\ CanReserve(m)
          /\ mailbox' = [mailbox EXCEPT
               ![m] = [status |-> "provisioning", backend_identifier |-> FALSE]]
          /\ Goto(w, "mailbox_create")
    /\ UNCHANGED <<tenant, domain, alias, backend, control>>

\* Stalwart has one user of an address: an account or a list.
AddressFree(m) == account[m] = "none" /\ mailing_list[m] = Nowhere

CreateAccount(w) ==
    LET m == job[w].box IN
    /\ backend_domain[DomainOf[m]]
    /\ AddressFree(m)
    /\ account' = [account EXCEPT ![m] = job[w].target]

MailboxCreate(w) ==
    /\ At(w, "mailbox_create")
    /\ CreateAccount(w)
    /\ Goto(w, "mailbox_save")
    /\ UNCHANGED <<rows, backend_domain, mailing_list, control>>

MailboxCreateFails(w) ==
    /\ At(w, "mailbox_create")
    /\ UNCHANGED account \/ CreateAccount(w)
    /\ Goto(w, "mailbox_discard")
    /\ UNCHANGED <<rows, backend_domain, mailing_list, control>>

\* The except branch deletes the row.
MailboxDiscard(w) ==
    /\ At(w, "mailbox_discard")
    /\ mailbox' = [mailbox EXCEPT ![job[w].box] = NoMailboxRow]
    /\ Finish(w, "failed")
    /\ UNCHANGED <<tenant, domain, alias, backend, control>>

MailboxSave(w) ==
    /\ At(w, "mailbox_save")
    /\ mailbox' = [mailbox EXCEPT ![job[w].box] = ServedMailbox]
    /\ Finish(w, "ok")
    /\ UNCHANGED <<tenant, domain, alias, backend, control>>

---------------------------------------------------------------------------
(* suspend_mailbox, reactivate_mailbox, delete_mailbox *)

SuspendMailboxBegin(w, m) ==
    /\ Free(w, "suspend_mailbox")
    /\ mailbox[m].backend_identifier
    /\ mailbox[m].status = "active"
    /\ MailboxJob(w, "mailbox_suspend", m, "replace_empty")
    /\ UNCHANGED <<rows, backend, control>>

\* One query reads the mailbox, its domain and the organization.
ReactivateMailboxBegin(w, m) ==
    LET d == DomainOf[m] IN
    /\ Free(w, "reactivate_mailbox")
    /\ mailbox[m].backend_identifier
    /\ mailbox[m].status = "suspended"
    /\ tenant = "active"
    /\ domain[d].status # "suspended"
    /\ MailboxJob(w, "mailbox_reactivate", m, AccessFromRead(d))
    /\ UNCHANGED <<rows, backend, control>>

DeleteMailboxBegin(w, m) ==
    /\ Free(w, "delete_mailbox")
    /\ mailbox[m].backend_identifier
    /\ mailbox[m].status \in {"active", "suspended"}
    /\ MailboxJob(w, "mailbox_delete", m, "no_send")
    /\ UNCHANGED <<rows, backend, control>>

SavePC(pc) == CASE pc = "mailbox_suspend"    -> "mailbox_suspend_save"
                [] pc = "mailbox_reactivate" -> "mailbox_reactivate_save"
                [] pc = "mailbox_delete"     -> "mailbox_delete_save"

WritesPermissions(w) == At(w, "mailbox_suspend") \/ At(w, "mailbox_reactivate")

MailboxWrite(w) ==
    /\ WritesPermissions(w)
    /\ WritePermissions(job[w].box, job[w].target)
    /\ Goto(w, SavePC(job[w].pc))
    /\ UNCHANGED <<rows, backend_domain, mailing_list, control>>

MailboxWriteFails(w) ==
    /\ WritesPermissions(w)
    /\ WriteFails(job[w].box, job[w].target)
    /\ Finish(w, "failed")
    /\ UNCHANGED <<rows, backend_domain, mailing_list, control>>

\* An account that is gone is reported as not destroyed, which raises.
DestroyAccount(m) ==
    /\ account[m] # "none"
    /\ account' = [account EXCEPT ![m] = "none"]

MailboxDestroy(w) ==
    /\ At(w, "mailbox_delete")
    /\ DestroyAccount(job[w].box)
    /\ Goto(w, "mailbox_delete_save")
    /\ UNCHANGED <<rows, backend_domain, mailing_list, control>>

\* Mutant: the mailbox counts as deleted although the call failed.
MailboxDestroyIgnored(w) ==
    /\ At(w, "mailbox_delete")
    /\ UNCHANGED account \/ DestroyAccount(job[w].box)
    /\ Goto(w, "mailbox_delete_save")
    /\ UNCHANGED <<rows, backend_domain, mailing_list, control>>

MailboxDestroyFails(w) ==
    /\ At(w, "mailbox_delete")
    /\ UNCHANGED account \/ DestroyAccount(job[w].box)
    /\ Finish(w, "failed")
    /\ UNCHANGED <<rows, backend_domain, mailing_list, control>>

\* The two UPDATEs that name the status they replace, and the one that does
\* not.
MailboxSuspendSave(w) ==
    LET m == job[w].box IN
    /\ At(w, "mailbox_suspend_save")
    /\ mailbox' = IF mailbox[m].status = "active"
                  THEN [mailbox EXCEPT ![m].status = "suspended"]
                  ELSE mailbox
    /\ Finish(w, "ok")
    /\ UNCHANGED <<tenant, domain, alias, backend, control>>

\* Mutant: the UPDATE does not name the status it replaces.
MailboxReactivateOverwrite(w) ==
    /\ At(w, "mailbox_reactivate_save")
    /\ mailbox' = [mailbox EXCEPT ![job[w].box].status = "active"]
    /\ Finish(w, "ok")
    /\ UNCHANGED <<tenant, domain, alias, backend, control>>

MailboxReactivateSave(w) ==
    LET m == job[w].box IN
    /\ At(w, "mailbox_reactivate_save")
    /\ mailbox' = IF mailbox[m].status = "suspended"
                  THEN [mailbox EXCEPT ![m].status = "active"]
                  ELSE mailbox
    /\ Finish(w, "ok")
    /\ UNCHANGED <<tenant, domain, alias, backend, control>>

MailboxDeleteSave(w) ==
    /\ At(w, "mailbox_delete_save")
    /\ mailbox' = [mailbox EXCEPT ![job[w].box].status = "deleted"]
    /\ Finish(w, "ok")
    /\ UNCHANGED <<tenant, domain, alias, backend, control>>

MailboxBegin(w) ==
    \E m \in Mailboxes :
        \/ ProvisionMailboxBegin(w, m)
        \/ SuspendMailboxBegin(w, m)
        \/ ReactivateMailboxBegin(w, m)
        \/ DeleteMailboxBegin(w, m)

MailboxStep(w) ==
    \/ MailboxReserve(w)
    \/ MailboxCreate(w)
    \/ MailboxCreateFails(w)
    \/ MailboxDiscard(w)
    \/ MailboxSave(w)
    \/ MailboxWrite(w)
    \/ MailboxWriteFails(w)
    \/ MailboxDestroy(w)
    \/ MailboxDestroyFails(w)
    \/ MailboxSuspendSave(w)
    \/ MailboxReactivateSave(w)
    \/ MailboxDeleteSave(w)
=============================================================================
