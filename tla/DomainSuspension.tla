-------------------------- MODULE DomainSuspension --------------------------
(***************************************************************************)
(* Emergency suspension and reactivation of a domain                       *)
(* (apps/domains/lifecycle.py).  Both write the accounts first and the row *)
(* afterwards; both are also called from the loops over an organization's  *)
(* domains, which enter at "suspend_read" and "reactivate_read".           *)
(***************************************************************************)
EXTENDS DomainReadiness

---------------------------------------------------------------------------
(* suspend_domain *)

SuspendBegin(w, d) ==
    /\ Free(w, "suspend")
    /\ job' = [job EXCEPT ![w] = [Idle EXCEPT !.pc = "suspend_read",
                                              !.dom = d]]
    /\ UNCHANGED <<rows, backend, control>>

\* The row is read for "decommissioned" alone, which no code writes, so its
\* read and the query for the mailboxes are one step.
SuspendRead(w) ==
    LET d == job[w].dom IN
    /\ At(w, "suspend_read")
    /\ \/ /\ domain[d].status = "decommissioned"
          /\ Finish(w, "failed")
       \/ /\ domain[d].status # "decommissioned"
          /\ job' = [job EXCEPT ![w].pc = "suspend_set",
                                ![w].todo = ActiveMailboxes(d)]
    /\ UNCHANGED <<rows, backend, control>>

SuspendWrite(w, m) ==
    /\ At(w, "suspend_set")
    /\ m \in job[w].todo
    /\ WritePermissions(m, "replace_empty")
    /\ job' = [job EXCEPT ![w].todo = @ \ {m}, ![w].done = @ \cup {m}]
    /\ UNCHANGED <<rows, backend_domain, mailing_list, control>>

SuspendWriteFails(w, m) ==
    /\ At(w, "suspend_set")
    /\ m \in job[w].todo
    /\ WriteFails(m, "replace_empty")
    /\ job' = [job EXCEPT ![w].todo = @ \ {m}, ![w].failed = @ \cup {m}]
    /\ UNCHANGED <<rows, backend_domain, mailing_list, control>>

SuspendListed(w) ==
    /\ At(w, "suspend_set")
    /\ job[w].todo = {}
    /\ Goto(w, "suspend_commit")
    /\ UNCHANGED <<rows, backend, control>>

\* Mutant: the permission to send is left to the next readiness check.
SuspendCommitStatus(w) ==
    /\ At(w, "suspend_commit")
    /\ domain' = [domain EXCEPT ![job[w].dom].status = "suspended"]
    /\ Finish(w, IF job[w].failed = {} THEN "ok" ELSE "failed")
    /\ UNCHANGED <<tenant, addresses, backend, control>>

\* The row is suspended whatever the backend said.
SuspendCommit(w) ==
    LET d == job[w].dom IN
    /\ At(w, "suspend_commit")
    /\ domain' = [domain EXCEPT ![d].sending_enabled = FALSE,
                                ![d].status = "suspended"]
    /\ Finish(w, IF job[w].failed = {} THEN "ok" ELSE "failed")
    /\ UNCHANGED <<tenant, addresses, backend, control>>

---------------------------------------------------------------------------
(* reactivate_domain *)

ReactivateBegin(w, d) ==
    /\ Free(w, "reactivate")
    /\ job' = [job EXCEPT ![w] = [Idle EXCEPT !.pc = "reactivate_read",
                                              !.dom = d,
                                              !.recheck = TRUE]]
    /\ UNCHANGED <<rows, backend, control>>

\* allow_suspended_tenant is what an organization's reactivation passes.
ReactivateRead(w) ==
    LET d == job[w].dom IN
    /\ At(w, "reactivate_read")
    /\ \/ /\ \/ domain[d].status = "decommissioned"
             \/ tenant = "suspended" /\ frame[w].pc = "none"
          /\ Finish(w, "failed")
       \/ /\ domain[d].status \notin {"decommissioned", "suspended"}
          /\ tenant = "suspended" => frame[w].pc # "none"
          /\ Finish(w, "ok")
       \/ /\ domain[d].status = "suspended"
          /\ tenant = "suspended" => frame[w].pc # "none"
          /\ job' = [job EXCEPT
               ![w].pc = "reactivate_list",
               ![w].recheck = @ /\ domain[d].backend_identifier]
    /\ UNCHANGED <<rows, backend, control>>

ReactivateList(w) ==
    /\ At(w, "reactivate_list")
    /\ job' = [job EXCEPT ![w].pc = "reactivate_set",
                          ![w].todo = ActiveMailboxes(job[w].dom)]
    /\ UNCHANGED <<rows, backend, control>>

\* Access comes back without emailSend.
ReactivateWrite(w, m) ==
    /\ At(w, "reactivate_set")
    /\ m \in job[w].todo
    /\ WritePermissions(m, "no_send")
    /\ job' = [job EXCEPT ![w].todo = @ \ {m}, ![w].done = @ \cup {m}]
    /\ UNCHANGED <<rows, backend_domain, mailing_list, control>>

ReactivateWriteFails(w, m) ==
    /\ At(w, "reactivate_set")
    /\ m \in job[w].todo
    /\ WriteFails(m, "no_send")
    /\ job' = [job EXCEPT ![w].todo = @ \ {m}, ![w].failed = @ \cup {m}]
    /\ UNCHANGED <<rows, backend_domain, mailing_list, control>>

\* One failure sends the accounts already restored back to suspension.
ReactivateListed(w) ==
    /\ At(w, "reactivate_set")
    /\ job[w].todo = {}
    /\ IF job[w].failed = {}
       THEN Goto(w, "reactivate_commit")
       ELSE job' = [job EXCEPT ![w].pc = "reactivate_rollback",
                               ![w].todo = job[w].done]
    /\ UNCHANGED <<rows, backend, control>>

\* Whether the call succeeds makes no difference to what follows.
ReactivateUndo(w, m) ==
    /\ At(w, "reactivate_rollback")
    /\ m \in job[w].todo
    /\ WriteFails(m, "replace_empty")
    /\ job' = [job EXCEPT ![w].todo = @ \ {m}]
    /\ UNCHANGED <<rows, backend_domain, mailing_list, control>>

ReactivateUndone(w) ==
    /\ At(w, "reactivate_rollback")
    /\ job[w].todo = {}
    /\ Finish(w, "failed")
    /\ UNCHANGED <<rows, backend, control>>

RestoredStatus(d) ==
    CASE domain[d].backend_identifier -> "dns_configuration"
      [] ~domain[d].backend_identifier /\ domain[d].verified -> "verified"
      [] OTHER -> "pending_verification"

\* The locked row is not asked whether it is still suspended.
ReactivateCommit(w) ==
    LET d == job[w].dom IN
    /\ At(w, "reactivate_commit")
    /\ domain' = [domain EXCEPT ![d].sending_enabled = FALSE,
                                ![d].status = RestoredStatus(d)]
    /\ IF job[w].recheck THEN Goto(w, "check_read") ELSE Finish(w, "ok")
    /\ UNCHANGED <<tenant, addresses, backend, control>>

SuspensionBegin(w) ==
    \E d \in Domains : SuspendBegin(w, d) \/ ReactivateBegin(w, d)

SuspensionStep(w) ==
    \/ SuspendRead(w)
    \/ \E m \in Mailboxes : SuspendWrite(w, m) \/ SuspendWriteFails(w, m)
    \/ SuspendListed(w)
    \/ SuspendCommit(w)
    \/ ReactivateRead(w)
    \/ ReactivateList(w)
    \/ \E m \in Mailboxes :
          ReactivateWrite(w, m) \/ ReactivateWriteFails(w, m)
    \/ ReactivateListed(w)
    \/ \E m \in Mailboxes : ReactivateUndo(w, m)
    \/ ReactivateUndone(w)
    \/ ReactivateCommit(w)
=============================================================================
