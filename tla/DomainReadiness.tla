-------------------------- MODULE DomainReadiness --------------------------
(***************************************************************************)
(* check_domain_dns (apps/domains/dns_readiness.py) with the two policy    *)
(* synchronizations it chooses from (apps/domains/sending_policy.py): the  *)
(* one function that opens a domain for sending.  Celery beat starts it    *)
(* for every provisioned domain, the portal and the API on demand, and     *)
(* reactivation as its last step.                                          *)
(*                                                                         *)
(* The verdict of the DNS checks is nondeterministic.  A backend that is   *)
(* not configured is every call failing.                                   *)
(***************************************************************************)
EXTENDS MailForgeState

\* Mutant: an emergency stop is synchronized like a failed readiness check.
PolicyWithoutStop(d) ==
    Sending(/\ domain[d].status \notin {"suspended", "decommissioned"}
            /\ tenant = "active"
            /\ domain[d].verified
            /\ domain[d].backend_identifier)

\* What the domain's accounts must be able to do, from one unlocked read of
\* the row and its organization, before DNS has its say.
PolicyFromRead(d) ==
    IF domain[d].status = "suspended" \/ tenant = "suspended"
    THEN "replace_empty"
    ELSE Sending(/\ domain[d].verified
                 /\ domain[d].backend_identifier
                 /\ domain[d].status # "decommissioned")

CheckRead(w, d) ==
    job' = [job EXCEPT ![w] = [Idle EXCEPT !.pc = "check_inspect",
                                           !.dom = d,
                                           !.target = PolicyFromRead(d)]]

\* Beat queues provisioned domains only; a check asked for by hand has no
\* such condition.
CheckBegin(w, d) ==
    /\ Free(w, "check")
    /\ CheckRead(w, d)
    /\ UNCHANGED <<rows, backend, control>>

\* The check that ends a reactivation reads the row again.
CheckReadAgain(w) ==
    /\ At(w, "check_read")
    /\ CheckRead(w, job[w].dom)
    /\ UNCHANGED <<rows, backend, control>>

\* DNS has answered; the ACTIVE mailboxes are queried now, not at the read.
CheckInspect(w) ==
    /\ At(w, "check_inspect")
    /\ \E ready \in BOOLEAN :
          job' = [job EXCEPT
            ![w].pc = "check_sync",
            ![w].ready = ready,
            ![w].target = IF @ = "inherit" THEN Sending(ready) ELSE @,
            ![w].todo = ActiveMailboxes(job[w].dom)]
    /\ UNCHANGED <<rows, backend, control>>

CheckWrite(w, m) ==
    /\ At(w, "check_sync")
    /\ m \in job[w].todo
    /\ WritePermissions(m, job[w].target)
    /\ job' = [job EXCEPT ![w].todo = @ \ {m}]
    /\ UNCHANGED <<rows, backend_domain, mailing_list, control>>

CheckWriteFails(w, m) ==
    /\ At(w, "check_sync")
    /\ m \in job[w].todo
    /\ WriteFails(m, job[w].target)
    /\ job' = [job EXCEPT ![w].todo = @ \ {m}, ![w].failed = @ \cup {m}]
    /\ UNCHANGED <<rows, backend_domain, mailing_list, control>>

CheckSynced(w) ==
    /\ At(w, "check_sync")
    /\ job[w].todo = {}
    /\ Goto(w, "check_commit")
    /\ UNCHANGED <<rows, backend, control>>

\* The verdict of this check alone, all from before the final transaction.
CheckPassed(w) ==
    job[w].ready /\ job[w].target # "replace_empty" /\ job[w].failed = {}

\* Mutant: a suspension is overlooked under the lock.
NotRetired(d) == domain[d].status # "decommissioned"

Operational(d) == domain[d].status \notin {"suspended", "decommissioned"}

\* Mutant: the domain's own state is trusted from the first read.
CanSendByStatus(w, d) ==
    CheckPassed(w) /\ tenant = "active" /\ Operational(d)

\* Mutant: the status is not asked for again.
CanSendByOwnership(w, d) ==
    /\ CheckPassed(w)
    /\ tenant = "active"
    /\ domain[d].verified /\ domain[d].backend_identifier

\* Under the locks of the row and its organization.
CanSend(w, d) ==
    /\ CheckPassed(w)
    /\ tenant = "active"
    /\ domain[d].verified
    /\ domain[d].backend_identifier
    /\ Operational(d)

StatusAfterCheck(w, d) ==
    IF tenant # "active" \/ ~Operational(d) THEN domain[d].status
    ELSE IF CanSend(w, d) THEN "active"
    ELSE IF domain[d].backend_identifier THEN "dns_configuration"
    ELSE domain[d].status

\* Mutant: a suspended organization's domains are left alone.
CheckCommitIfActive(w) ==
    LET d == job[w].dom IN
    /\ At(w, "check_commit")
    /\ domain' = IF tenant = "active"
                 THEN [domain EXCEPT ![d].sending_enabled = CanSend(w, d),
                                     ![d].status = StatusAfterCheck(w, d)]
                 ELSE domain
    /\ Finish(w, "ok")
    /\ UNCHANGED <<tenant, addresses, backend, control>>

CheckCommit(w) ==
    LET d == job[w].dom IN
    /\ At(w, "check_commit")
    /\ domain' = [domain EXCEPT ![d].sending_enabled = CanSend(w, d),
                                ![d].status = StatusAfterCheck(w, d)]
    /\ Finish(w, "ok")
    /\ UNCHANGED <<tenant, addresses, backend, control>>

ReadinessBegin(w) == \E d \in Domains : CheckBegin(w, d)

ReadinessStep(w) ==
    \/ CheckReadAgain(w)
    \/ CheckInspect(w)
    \/ \E m \in Mailboxes : CheckWrite(w, m) \/ CheckWriteFails(w, m)
    \/ CheckSynced(w)
    \/ CheckCommit(w)
=============================================================================
