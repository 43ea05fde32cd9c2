---------------------------- MODULE DomainSetup ----------------------------
(***************************************************************************)
(* Ownership verification (apps/domains/services.py) and provisioning of a *)
(* domain in Stalwart (apps/domains/provisioning.py).                      *)
(*                                                                         *)
(* Both read the row without a lock, talk to another system, and write the *)
(* row in a later transaction.  A refused request changes nothing, so it   *)
(* is no step here; a Celery retry of the verification task is a new       *)
(* VerifyBegin.                                                            *)
(***************************************************************************)
EXTENDS MailForgeState

---------------------------------------------------------------------------
(* verify_domain_and_record *)

\* The unlocked checks: organization active, domain not suspended and not
\* verified yet.  The DNS lookup follows.
VerifyBegin(w, d) ==
    /\ Free(w, "verify")
    /\ tenant = "active"
    /\ domain[d].status # "suspended"
    /\ ~domain[d].verified
    /\ job' = [job EXCEPT ![w] = [Idle EXCEPT !.pc = "verify_commit",
                                              !.dom = d]]
    /\ UNCHANGED <<rows, backend, control>>

\* The TXT record is missing, or the lookup failed for now.
VerifyUnproven(w) ==
    /\ At(w, "verify_commit")
    /\ Finish(w, "failed")
    /\ UNCHANGED <<rows, backend, control>>

\* The record was there.  Under the row lock only verified_at is read again.
VerifyCommit(w) ==
    LET d == job[w].dom IN
    /\ At(w, "verify_commit")
    /\ domain' = IF domain[d].verified
                 THEN domain
                 ELSE [domain EXCEPT ![d].status = "verified",
                                     ![d].verified = TRUE]
    /\ Finish(w, "ok")
    /\ UNCHANGED <<tenant, addresses, backend, control>>

---------------------------------------------------------------------------
(* provision_domain *)

ProvisionBegin(w, d) ==
    /\ Free(w, "provision")
    /\ tenant = "active"
    /\ domain[d].status # "suspended"
    /\ domain[d].verified
    /\ ~domain[d].backend_identifier
    /\ job' = [job EXCEPT ![w] = [Idle EXCEPT !.pc = "provision_mark",
                                              !.dom = d]]
    /\ UNCHANGED <<rows, backend, control>>

\* First transaction: only the backend identifier is read again.
ProvisionMark(w) ==
    LET d == job[w].dom IN
    /\ At(w, "provision_mark")
    /\ \/ /\ domain[d].backend_identifier
          /\ Finish(w, "ok")
          /\ UNCHANGED domain
       \/ /\ ~domain[d].backend_identifier
          /\ domain' = [domain EXCEPT ![d].status = "provisioning"]
          /\ Goto(w, "provision_create")
    /\ UNCHANGED <<tenant, addresses, backend, control>>

\* Stalwart keeps one domain of a name: a second create is refused.
ProvisionCreate(w) ==
    LET d == job[w].dom IN
    /\ At(w, "provision_create")
    /\ ~backend_domain[d]
    /\ backend_domain' = [backend_domain EXCEPT ![d] = TRUE]
    /\ Goto(w, "provision_commit")
    /\ UNCHANGED <<rows, account, mailing_list, control>>

\* Mutant: the error is logged and the domain recorded.
ProvisionCreateIgnored(w) ==
    /\ At(w, "provision_create")
    /\ \/ UNCHANGED backend_domain
       \/ backend_domain' = [backend_domain EXCEPT ![job[w].dom] = TRUE]
    /\ Goto(w, "provision_commit")
    /\ UNCHANGED <<rows, account, mailing_list, control>>

\* The call raises: refused, unreachable, or done with the answer lost.
ProvisionCreateFails(w) ==
    /\ At(w, "provision_create")
    /\ \/ UNCHANGED backend_domain
       \/ backend_domain' = [backend_domain EXCEPT ![job[w].dom] = TRUE]
    /\ Goto(w, "provision_rollback")
    /\ UNCHANGED <<rows, account, mailing_list, control>>

\* The except branch: an unconditional UPDATE of the status.
ProvisionRollback(w) ==
    /\ At(w, "provision_rollback")
    /\ domain' = [domain EXCEPT ![job[w].dom].status = "verified"]
    /\ Finish(w, "failed")
    /\ UNCHANGED <<tenant, addresses, backend, control>>

\* Last transaction, after the zone was read: unconditional as well.
ProvisionCommit(w) ==
    LET d == job[w].dom IN
    /\ At(w, "provision_commit")
    /\ domain' = [domain EXCEPT ![d].backend_identifier = TRUE,
                                ![d].status = "dns_configuration"]
    /\ Finish(w, "ok")
    /\ UNCHANGED <<tenant, addresses, backend, control>>

SetupBegin(w) == \E d \in Domains : VerifyBegin(w, d) \/ ProvisionBegin(w, d)

SetupStep(w) ==
    \/ VerifyUnproven(w)
    \/ VerifyCommit(w)
    \/ ProvisionMark(w)
    \/ ProvisionCreate(w)
    \/ ProvisionCreateFails(w)
    \/ ProvisionRollback(w)
    \/ ProvisionCommit(w)
=============================================================================
