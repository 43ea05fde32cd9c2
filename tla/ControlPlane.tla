---------------------------- MODULE ControlPlane ----------------------------
(***************************************************************************)
(* MailForge's control plane: the requests and tasks of DomainSetup,       *)
(* DomainReadiness, DomainSuspension, TenantSuspension, MailboxLifecycle   *)
(* and Forwarders interleaved over the rows and the backend of             *)
(* MailForgeState, with workers that may die, and what must be true of     *)
(* them together.                                                          *)
(***************************************************************************)
EXTENDS TenantSuspension, Forwarders, DomainSetup

\* A worker takes up a request or a task.
Begin(w) ==
    \/ SetupBegin(w)
    \/ ReadinessBegin(w)
    \/ SuspensionBegin(w)
    \/ TenantBegin(w)
    \/ MailboxBegin(w)
    \/ ForwarderBegin(w)

\* A worker goes on with the one it is in.
Step(w) ==
    \/ SetupStep(w)
    \/ ReadinessStep(w)
    \/ SuspensionStep(w)
    \/ TenantStep(w)
    \/ MailboxStep(w)
    \/ ForwarderStep(w)

Next == \E w \in Workers : Begin(w) \/ Step(w) \/ Crash(w)

Spec == Init /\ [][Next]_vars

---------------------------------------------------------------------------
(* Domains. *)

\* A suspended domain is never enabled for sending, however readiness checks,
\* provisioning and reactivation interleave with the suspension
\* (lifecycle.suspend_domain against dns_readiness.check_domain_dns).
SuspendedNeverSends ==
    \A d \in Domains :
        domain[d].status = "suspended" => ~domain[d].sending_enabled

\* A domain enabled for sending was provisioned, and a domain whose row names
\* a backend domain has one in Stalwart and its ownership was proved first
\* (dns_readiness.check_domain_dns, provisioning.provision_domain).
SendingIsEstablished ==
    \A d \in Domains :
        /\ domain[d].sending_enabled => domain[d].backend_identifier
        /\ domain[d].backend_identifier =>
              domain[d].verified /\ backend_domain[d]

ProvisionPC == { "provision_mark", "provision_create", "provision_rollback",
                 "provision_commit" }

\* However long ago a provisioning job read the row, the domain's ownership
\* is still proved when it writes, and a job that is about to record a
\* backend domain has had Stalwart's answer for it
\* (provisioning.provision_domain).
ProvisioningKnowsBackend ==
    \A w \in Workers :
        /\ job[w].pc \in ProvisionPC => domain[job[w].dom].verified
        /\ At(w, "provision_commit") => backend_domain[job[w].dom]

\* What every step preserves.  A recorded backend domain exists because the
\* job that records it has seen it created, and it is a verified domain's
\* because verification is never taken back.
Inv ==
    /\ TypeOK
    /\ ProvisioningKnowsBackend
    /\ SuspendedNeverSends
    /\ SendingIsEstablished

\* A suspension ends by a reactivation's own transaction and by nothing
\* else: not by a readiness check that read the row before the suspension,
\* nor by an operation on a mailbox (lifecycle.reactivate_domain).
SuspensionEndsByReactivation ==
    [][\A d \in Domains :
          /\ domain[d].status = "suspended"
          /\ domain'[d].status # "suspended"
          => \E w \in Workers : /\ At(w, "reactivate_commit")
                                /\ job[w].dom = d]_vars

\* The rows keep the promise of SendingGate.
Gate == INSTANCE SendingGate WITH
    open         <- {d \in Domains : domain[d].sending_enabled},
    stopped      <- {d \in Domains : domain[d].status = "suspended"},
    established  <- {d \in Domains : /\ domain[d].verified
                                     /\ domain[d].backend_identifier},
    organization <- tenant = "active"

\* Every step of the control plane is a step of the gate or leaves it alone
\* (check_domain_dns, suspend_domain, reactivate_domain, provision_domain,
\* verify_domain_and_record, suspend_tenant and reactivate_tenant).
GateImplemented == Gate!GateSpec

\* When all is quiet and no worker died, a suspended organization has all
\* its domains suspended: a reactivation that failed has rolled back what it
\* restored, also when several ran at once (lifecycle.reactivate_tenant).
SuspendedOrganizationSettled ==
    tenant = "suspended" /\ Quiet /\ crashes = 0
    => \A d \in Domains : domain[d].status \in {"suspended", "decommissioned"}

---------------------------------------------------------------------------
(* Mailboxes. *)

\* A deleted mailbox stays a tombstone: its address is never provisioned,
\* suspended or reactivated again, not even by an operation that read the
\* row before the deletion (mailboxes.services).
DeletedIsForever ==
    [][\A m \in Mailboxes :
          mailbox[m].status = "deleted" => mailbox'[m].status = "deleted"]_vars

\* Nobody can log into a deleted mailbox: Stalwart has no account at its
\* address, and no late answer or stale write brings one back
\* (mailboxes.services.delete_mailbox).
DeletedHasNoAccount ==
    \A m \in Mailboxes : mailbox[m].status = "deleted" => account[m] = "none"

\* A domain never has more mailboxes that are not deleted than its limit,
\* with provisioning requests racing for the last place
\* (mailboxes.services.provision_mailbox).
WithinMailboxLimit ==
    \A d \in Domains : Cardinality(LiveMailboxes(d)) <= MaxMailboxes

\* The jobs that created the row at m and have not saved or discarded it.
Provisioners(m) ==
    { w \in Workers :
        /\ job[w].box = m
        /\ job[w].pc \in {"mailbox_create", "mailbox_discard",
                          "mailbox_save"} }

\* A row is being provisioned by at most one job, and only such a row: no
\* job discards or overwrites a mailbox that another one completed
\* (mailboxes.services.provision_mailbox's delete and save by primary key).
OneProvisionerPerAddress ==
    \A m \in Mailboxes :
        /\ Cardinality(Provisioners(m)) <= 1
        /\ Provisioners(m) # {} => mailbox[m].status = "provisioning"

---------------------------------------------------------------------------
(* Forwarders. *)

\* A deleted forwarder stays a tombstone: no request that raced with its
\* deletion takes the row back into use (mailboxes.forwarders).
ForwarderTombstone ==
    [][\A m \in Mailboxes :
          alias[m].status = "deleted" => alias'[m].status = "deleted"]_vars

\* A deleted forwarder forwards nothing: Stalwart has no list at its address,
\* and no update that was under way leaves one there
\* (mailboxes.forwarders.delete_forwarder against update_forwarder).
DeletedForwarderHasNoList ==
    \A m \in Mailboxes : alias[m].status = "deleted" => mailing_list[m] = Nowhere

---------------------------------------------------------------------------
(* The addresses that both share. *)

\* How far the rows of a kind are with an address.
UseOf(kind, m) ==
    LET status == IF kind = "mailbox" THEN mailbox[m].status
                                      ELSE alias[m].status
    IN  CASE status = "absent"                    -> "free"
          [] status \in {"provisioning", "pending"} -> "claimed"
          [] status \in {"active", "suspended"}     -> "used"
          [] status = "deleted"                   -> "retired"

HolderOf(m) ==
    IF account[m] # "none" THEN "mailbox"
    ELSE IF mailing_list[m] # Nowhere THEN "forwarder" ELSE "nobody"

Shared == INSTANCE AddressUse WITH
    Addresses <- Mailboxes,
    use    <- [k \in {"mailbox", "forwarder"} |->
                 [m \in Mailboxes |-> UseOf(k, m)]],
    holder <- [m \in Mailboxes |-> HolderOf(m)]

\* Every step is a step of AddressUse or leaves addresses alone.  A mailbox
\* and a forwarder that are created at one address at the same time each see
\* only what is finished: Stalwart decides, and the one it refused is not
\* completed (provision_mailbox against provision_forwarder); and what is
\* recorded as deleted was deleted (delete_mailbox, delete_forwarder).
AddressUseImplemented == Shared!UseSpec

---------------------------------------------------------------------------
(* Progress. *)

\* Celery beat queues a check of every provisioned domain again and again.
BeatCheck(d) ==
    /\ domain[d].backend_identifier
    /\ \E w \in Workers : CheckBegin(w, d)

\* A worker that is inside an operation goes on with it; what beat queues
\* finds a worker in the end; a backend that is asked again and again to
\* write an account does it some of the times.  Nobody is obliged to ask for
\* anything else.
Fairness ==
    /\ \A w \in Workers : WF_vars(Step(w))
    /\ \A d \in Domains : SF_vars(BeatCheck(d))
    /\ \A m \in Mailboxes : SF_vars(\E w \in Workers : CheckWrite(w, m))

FairSpec == Spec /\ Fairness

\* While a domain stays suspended, every active mailbox of it is brought to
\* the empty permission set, whatever the suspension itself failed to reach:
\* a call that failed, a mailbox whose provisioning was under way, a worker
\* that died (tasks.reconcile_all_domain_readiness).
SuspensionReachesMailboxes ==
    \A m \in Mailboxes :
        (/\ domain[DomainOf[m]].status = "suspended"
         /\ mailbox[m].status = "active")
        ~> (\/ account[m] \in {"replace_empty", "none"}
            \/ domain[DomainOf[m]].status # "suspended"
            \/ mailbox[m].status # "active")

\* An organization that is suspended and stays so has no domain left that is
\* enabled for sending, even when the worker that was suspending its domains
\* dies half-way (tenants.lifecycle.suspend_tenant, check_domain_dns).
TenantSuspensionStopsSending ==
    \A d \in Domains :
        tenant = "suspended"
        ~> (~domain[d].sending_enabled \/ tenant = "active")

---------------------------------------------------------------------------
(* What the repository says of itself and the interleavings refute: each   *)
(* is checked by a run that expects a violation.                           *)

\* Provisioning is safe to retry: a verified domain of an active organization
\* that is provisioned again and again gets provisioned
\* (provisioning.provision_domain after an answer of Stalwart was lost).
ProvisioningRetrySucceeds ==
    \A d \in Domains :
        domain[d].status = "verified" ~> domain[d].backend_identifier

\* Provisioning is retried for ever, and Stalwart answers.
RetriesProvisioning ==
    /\ Spec
    /\ \A w \in Workers : WF_vars(Step(w))
    /\ \A d \in Domains : SF_vars(\E w \in Workers : ProvisionBegin(w, d))
    /\ \A w \in Workers : SF_vars(ProvisionCreate(w))
=============================================================================
