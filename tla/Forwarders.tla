----------------------------- MODULE Forwarders -----------------------------
(***************************************************************************)
(* Forwarders (apps/mailboxes/forwarders.py): rows of Alias backed by a    *)
(* mailing list in Stalwart.  They share the addresses of MailboxLifecycle *)
(* and its way of working: a row is reserved, Stalwart is asked, the row   *)
(* is saved.                                                               *)
(*                                                                         *)
(* A list of destinations is taken as a whole; that it is not empty, not   *)
(* too long and does not hold the forwarder itself is decided before       *)
(* anything else happens and is not modelled.                              *)
(***************************************************************************)
EXTENDS MailboxLifecycle

ForwarderJob(w, pc, m, to) ==
    job' = [job EXCEPT ![w] = [Idle EXCEPT !.pc = pc,
                                           !.dom = DomainOf[m],
                                           !.box = m,
                                           !.to = to]]

---------------------------------------------------------------------------
(* provision_forwarder *)

ProvisionForwarderBegin(w, m, to) ==
    LET d == DomainOf[m] IN
    /\ Free(w, "provision_forwarder")
    /\ tenant = "active"
    /\ domain[d].backend_identifier
    /\ domain[d].status \in {"dns_configuration", "active"}
    /\ ForwarderJob(w, "forwarder_reserve", m, to)
    /\ UNCHANGED <<rows, backend, control>>

\* Mutant: only an active forwarder stands in the way.
CanForwardAgain(m) ==
    /\ mailbox[m].status \in {"absent", "deleted"}
    /\ alias[m].status \in {"absent", "deleted"}

\* A deleted mailbox does not count.
CanForward(m) ==
    /\ mailbox[m].status \in {"absent", "deleted"}
    /\ alias[m].status = "absent"

\* Under the domain's lock.
ForwarderReserve(w) ==
    LET m == job[w].box IN
    /\ At(w, "forwarder_reserve")
    /\ \/ /\ ~CanForward(m)
          /\ Finish(w, "failed")
          /\ UNCHANGED alias
       \/ /\ CanForward(m)
          /\ alias' = [alias EXCEPT
               ![m] = [status |-> "pending", destinations |-> job[w].to]]
          /\ Goto(w, "forwarder_create")
    /\ UNCHANGED <<tenant, domain, mailbox, backend, control>>

CreateList(w) ==
    LET m == job[w].box IN
    /\ backend_domain[DomainOf[m]]
    /\ AddressFree(m)
    /\ mailing_list' = [mailing_list EXCEPT ![m] = job[w].to]

ForwarderCreate(w) ==
    /\ At(w, "forwarder_create")
    /\ CreateList(w)
    /\ Goto(w, "forwarder_save")
    /\ UNCHANGED <<rows, backend_domain, account, control>>

ForwarderCreateFails(w) ==
    /\ At(w, "forwarder_create")
    /\ UNCHANGED mailing_list \/ CreateList(w)
    /\ Goto(w, "forwarder_discard")
    /\ UNCHANGED <<rows, backend_domain, account, control>>

ForwarderDiscard(w) ==
    /\ At(w, "forwarder_discard")
    /\ alias' = [alias EXCEPT ![job[w].box] = NoAliasRow]
    /\ Finish(w, "failed")
    /\ UNCHANGED <<tenant, domain, mailbox, backend, control>>

ForwarderSave(w) ==
    /\ At(w, "forwarder_save")
    /\ alias' = [alias EXCEPT ![job[w].box].status = "active"]
    /\ Finish(w, "ok")
    /\ UNCHANGED <<tenant, domain, mailbox, backend, control>>

---------------------------------------------------------------------------
(* update_forwarder, delete_forwarder *)

Changeable(m) ==
    /\ alias[m].status = "active"
    /\ tenant = "active"
    /\ domain[DomainOf[m]].status # "suspended"

UpdateForwarderBegin(w, m, to) ==
    /\ Free(w, "update_forwarder")
    /\ Changeable(m)
    /\ ForwarderJob(w, "forwarder_update", m, to)
    /\ UNCHANGED <<rows, backend, control>>

DeleteForwarderBegin(w, m) ==
    /\ Free(w, "delete_forwarder")
    /\ Changeable(m)
    /\ ForwarderJob(w, "forwarder_delete", m, Nowhere)
    /\ UNCHANGED <<rows, backend, control>>

\* Stalwart changes or removes a list it has.
WriteList(m, to) ==
    /\ mailing_list[m] # Nowhere
    /\ mailing_list' = [mailing_list EXCEPT ![m] = to]

ForwarderUpdate(w) ==
    /\ At(w, "forwarder_update")
    /\ WriteList(job[w].box, job[w].to)
    /\ Goto(w, "forwarder_update_save")
    /\ UNCHANGED <<rows, backend_domain, account, control>>

\* Mutant: the forwarder counts as deleted although the call failed.
ForwarderDestroyIgnored(w) ==
    /\ At(w, "forwarder_delete")
    /\ UNCHANGED mailing_list \/ WriteList(job[w].box, Nowhere)
    /\ Goto(w, "forwarder_delete_save")
    /\ UNCHANGED <<rows, backend_domain, account, control>>

ForwarderDestroy(w) ==
    /\ At(w, "forwarder_delete")
    /\ WriteList(job[w].box, Nowhere)
    /\ Goto(w, "forwarder_delete_save")
    /\ UNCHANGED <<rows, backend_domain, account, control>>

\* Refused, or not confirmed: nothing is saved.
ForwarderChangeFails(w) ==
    /\ At(w, "forwarder_update") \/ At(w, "forwarder_delete")
    /\ UNCHANGED mailing_list \/ WriteList(job[w].box, job[w].to)
    /\ Finish(w, "failed")
    /\ UNCHANGED <<rows, backend_domain, account, control>>

\* Both UPDATEs name the state they replace.
ForwarderUpdateSave(w) ==
    LET m == job[w].box IN
    /\ At(w, "forwarder_update_save")
    /\ alias' = IF alias[m].status = "active"
                THEN [alias EXCEPT ![m].destinations = job[w].to]
                ELSE alias
    /\ Finish(w, "ok")
    /\ UNCHANGED <<tenant, domain, mailbox, backend, control>>

ForwarderDeleteSave(w) ==
    LET m == job[w].box IN
    /\ At(w, "forwarder_delete_save")
    /\ alias' = IF alias[m].status = "active"
                THEN [alias EXCEPT ![m].status = "deleted"]
                ELSE alias
    /\ Finish(w, "ok")
    /\ UNCHANGED <<tenant, domain, mailbox, backend, control>>

ForwarderBegin(w) ==
    \E m \in Mailboxes :
        \/ \E to \in Destinations : \/ ProvisionForwarderBegin(w, m, to)
                                    \/ UpdateForwarderBegin(w, m, to)
        \/ DeleteForwarderBegin(w, m)

ForwarderStep(w) ==
    \/ ForwarderReserve(w)
    \/ ForwarderCreate(w)
    \/ ForwarderCreateFails(w)
    \/ ForwarderDiscard(w)
    \/ ForwarderSave(w)
    \/ ForwarderUpdate(w)
    \/ ForwarderDestroy(w)
    \/ ForwarderChangeFails(w)
    \/ ForwarderUpdateSave(w)
    \/ ForwarderDeleteSave(w)
=============================================================================
