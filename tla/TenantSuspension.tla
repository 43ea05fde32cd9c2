-------------------------- MODULE TenantSuspension --------------------------
(***************************************************************************)
(* Emergency suspension and reactivation of an organization                *)
(* (apps/tenants/lifecycle.py): a loop that calls suspend_domain,          *)
(* reactivate_domain or check_domain_dns for one domain after another,     *)
(* each with its own transactions.  The requesting user is the owner; who  *)
(* that is belongs to membership.                                          *)
(***************************************************************************)
EXTENDS DomainSuspension

Loop(w, pc, todo) ==
    frame' = [frame EXCEPT ![w].pc = pc, ![w].todo = todo]

\* The loop's body is between two calls and has nothing left to call.
LoopDone(w, pc) ==
    /\ frame[w].pc = pc
    /\ frame[w].todo = {}
    /\ job[w] = Idle

EntryPoint ==
    [ suspend_loop |-> "suspend_read", rollback_loop |-> "suspend_read",
      reactivate_loop |-> "reactivate_read", recheck_loop |-> "check_read" ]

LoopCall(w, d) ==
    /\ frame[w].pc \in DOMAIN EntryPoint
    /\ job[w] = Idle
    /\ d \in frame[w].todo
    /\ job' = [job EXCEPT ![w] = [Idle EXCEPT !.pc = EntryPoint[frame[w].pc],
                                              !.dom = d]]
    /\ UNCHANGED <<rows, backend, control>>

\* Only the reactivation loop keeps what it restored.
LoopReturn(w) ==
    LET d == job[w].dom IN
    /\ At(w, "idle")
    /\ job[w].result # "none"
    /\ frame' = [frame EXCEPT
         ![w].todo = @ \ {d},
         ![w].restored = IF /\ frame[w].pc = "reactivate_loop"
                            /\ job[w].result = "ok"
                         THEN @ \cup {d} ELSE @,
         ![w].failed = IF job[w].result = "failed" THEN @ \cup {d} ELSE @]
    /\ job' = [job EXCEPT ![w] = Idle]
    /\ UNCHANGED <<rows, backend, crashes>>

LoopReturnToUser(w) ==
    /\ \E pc \in {"suspend_loop", "rollback_loop", "recheck_loop"} :
          LoopDone(w, pc)
    /\ frame' = [frame EXCEPT ![w] = NoFrame]
    /\ UNCHANGED <<rows, backend, job, crashes>>

---------------------------------------------------------------------------
(* suspend_tenant *)

\* The organization's row first.  Which domains are decommissioned never
\* changes, so their query is part of the step.
SuspendTenant(w) ==
    /\ Free(w, "suspend_tenant")
    /\ tenant' = "suspended"
    /\ Loop(w, "suspend_loop",
            {d \in Domains : domain[d].status # "decommissioned"})
    /\ UNCHANGED <<domain, addresses, backend, job, crashes>>

---------------------------------------------------------------------------
(* reactivate_tenant *)

ReactivateTenantBegin(w) ==
    /\ Free(w, "reactivate_tenant")
    /\ tenant = "suspended"
    /\ Loop(w, "reactivate_list", {})
    /\ UNCHANGED <<rows, backend, job, crashes>>

ReactivateTenantList(w) ==
    /\ frame[w].pc = "reactivate_list"
    /\ Loop(w, "reactivate_loop",
            {d \in Domains : domain[d].status = "suspended"})
    /\ UNCHANGED <<rows, backend, job, crashes>>

\* Mutant: the domains restored before the failure are forgotten.
ReactivateTenantLoopStop(w) ==
    /\ LoopDone(w, "reactivate_loop")
    /\ IF frame[w].failed = {}
       THEN Loop(w, "reactivate_commit", {})
       ELSE Loop(w, "rollback_loop", {})
    /\ UNCHANGED <<rows, backend, job, crashes>>

\* One domain that cannot be restored sends the others back to suspension.
ReactivateTenantLoopEnd(w) ==
    /\ LoopDone(w, "reactivate_loop")
    /\ IF frame[w].failed = {}
       THEN Loop(w, "reactivate_commit", {})
       ELSE Loop(w, "rollback_loop", frame[w].restored)
    /\ UNCHANGED <<rows, backend, job, crashes>>

ReactivateTenantCommit(w) ==
    /\ frame[w].pc = "reactivate_commit"
    /\ tenant' = "active"
    /\ Loop(w, "recheck_list", {})
    /\ UNCHANGED <<domain, addresses, backend, job, crashes>>

ReactivateTenantRecheck(w) ==
    /\ frame[w].pc = "recheck_list"
    /\ Loop(w, "recheck_loop",
            {d \in Domains : /\ domain[d].status # "decommissioned"
                             /\ domain[d].backend_identifier})
    /\ UNCHANGED <<rows, backend, job, crashes>>

TenantBegin(w) == SuspendTenant(w) \/ ReactivateTenantBegin(w)

TenantStep(w) ==
    \/ \E d \in Domains : LoopCall(w, d)
    \/ LoopReturn(w)
    \/ LoopReturnToUser(w)
    \/ ReactivateTenantList(w)
    \/ ReactivateTenantLoopEnd(w)
    \/ ReactivateTenantCommit(w)
    \/ ReactivateTenantRecheck(w)
=============================================================================
