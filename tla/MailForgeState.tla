-------------------------- MODULE MailForgeState --------------------------
(***************************************************************************)
(* The state that every part of MailForge's control plane shares: the      *)
(* PostgreSQL rows of one organization, the accounts and domains that      *)
(* Stalwart keeps, and the threads of control (Django requests and Celery  *)
(* tasks) that work on both without a transaction spanning the two.        *)
(*                                                                         *)
(* Granularity.  One action is one database transaction or autocommitted   *)
(* statement, or one call to Stalwart; between two of them any other       *)
(* worker may run.  What a service function read before such a point lives *)
(* in its job, and may be stale when it is used.                           *)
(*                                                                         *)
(* Abstractions.  One organization: nothing in this module's code reads    *)
(* two.  Addresses are the elements of Mailboxes: a mailbox row and a      *)
(* forwarder row are each unique per domain and local part.  A backend     *)
(* identifier is the fact of having one.  Loops over rows take them in any *)
(* order; the code sorts them by name, which is one of those orders.       *)
(***************************************************************************)
EXTENDS Naturals, FiniteSets

CONSTANTS
    Domains,       \* rows of domains.Domain
    Mailboxes,     \* addresses: (domain, local part) pairs
    DomainOf,      \* the domain of each address
    Destinations,  \* lists of addresses a forwarder may forward to
    Workers,       \* Django request threads and Celery worker processes
    NoDomain,      \* a job that is on no domain
    NoMailbox,     \* a job that is on no mailbox
    Nowhere,       \* no list of destinations
    MaxMailboxes,  \* settings.MAILFORGE_DEFAULT_MAX_MAILBOXES
    Requests,      \* BOUND: the operations that clients of an instance ask for
    MaxCrashes     \* BOUND: how many times a worker dies inside an operation

Operations ==
    { "verify", "provision", "check", "suspend", "reactivate",
      "suspend_tenant", "reactivate_tenant",
      "provision_mailbox", "suspend_mailbox", "reactivate_mailbox",
      "delete_mailbox",
      "provision_forwarder", "update_forwarder", "delete_forwarder" }

ASSUME ConstantsAssumption ==
    /\ DomainOf \in [Mailboxes -> Domains]
    /\ NoDomain \notin Domains
    /\ NoMailbox \notin Mailboxes
    /\ Nowhere \notin Destinations
    /\ MaxMailboxes \in Nat
    /\ MaxCrashes \in Nat
    /\ Requests \subseteq Operations

\* A database has finitely many rows.
ASSUME FiniteMailboxes == IsFiniteSet(Mailboxes)

VARIABLES
    tenant,          \* Tenant.status
    domain,          \* Domain rows
    mailbox,         \* Mailbox rows
    alias,           \* Alias rows: the forwarders
    backend_domain,  \* whether Stalwart has the domain
    account,         \* Stalwart's account at an address: its permissions
    mailing_list,    \* Stalwart's list at an address: where it forwards
    job,             \* per worker: the service function it is in
    frame,           \* per worker: the organization-wide loop it is in
    crashes          \* how many workers have died so far

addresses == <<mailbox, alias>>
rows      == <<tenant, domain, addresses>>
backend   == <<backend_domain, account, mailing_list>>
control   == <<frame, crashes>>
vars      == <<rows, backend, job, control>>

---------------------------------------------------------------------------
(* Rows, accounts and jobs. *)

TenantStatus == {"active", "suspended"}

DomainStatus ==
    { "pending_verification", "verified", "provisioning",
      "dns_configuration", "active", "suspended", "decommissioned" }

DomainRow ==
    [ status : DomainStatus, verified : BOOLEAN,
      backend_identifier : BOOLEAN, sending_enabled : BOOLEAN ]

MailboxStatus == {"absent", "provisioning", "active", "suspended", "deleted"}

MailboxRow == [status : MailboxStatus, backend_identifier : BOOLEAN]

\* A forwarder's row is "pending" (not active, no backend identifier) while
\* Stalwart is asked, and "deleted" (not active any more) as a tombstone.
AliasStatus == {"absent", "pending", "active", "deleted"}

AliasRow ==
    [status : AliasStatus, destinations : Destinations \cup {Nowhere}]

\* The permission sets MailForge writes on an account: the user role's own,
\* the same without emailSend, and none at all.
Permissions == {"inherit", "no_send", "replace_empty"}
Account     == Permissions \cup {"none"}

Sending(enabled) == IF enabled THEN "inherit" ELSE "no_send"

DomainPC ==
    { "idle", "verify_commit",
      "provision_mark", "provision_create", "provision_rollback",
      "provision_commit",
      "check_read", "check_inspect", "check_sync", "check_commit",
      "suspend_read", "suspend_set", "suspend_commit",
      "reactivate_read", "reactivate_list", "reactivate_set",
      "reactivate_rollback", "reactivate_commit" }

AddressPC ==
    { "mailbox_reserve", "mailbox_create", "mailbox_discard", "mailbox_save",
      "mailbox_suspend", "mailbox_suspend_save",
      "mailbox_reactivate", "mailbox_reactivate_save",
      "mailbox_delete", "mailbox_delete_save",
      "forwarder_reserve", "forwarder_create", "forwarder_discard",
      "forwarder_save",
      "forwarder_update", "forwarder_update_save",
      "forwarder_delete", "forwarder_delete_save" }

JobRecord ==
    [ pc      : DomainPC \cup AddressPC,
      dom     : Domains \cup {NoDomain},
      box     : Mailboxes \cup {NoMailbox},
      target  : Permissions,        \* what it will write on accounts
      to      : Destinations \cup {Nowhere},  \* where it will forward
      ready   : BOOLEAN,            \* the DNS verdict of a readiness check
      recheck : BOOLEAN,            \* whether a check follows a reactivation
      todo    : SUBSET Mailboxes,   \* accounts still to be written
      done    : SUBSET Mailboxes,   \* accounts written
      failed  : SUBSET Mailboxes,   \* accounts whose call failed
      result  : {"none", "ok", "failed"} ]

\* A job is on a row: an idle one that still carries the result for a loop,
\* too, and one about an address on the address's domain.
OnRow(j) ==
    /\ j.pc # "idle" \/ j.result # "none" => j.dom \in Domains
    /\ j.pc \in AddressPC => j.box \in Mailboxes /\ j.dom = DomainOf[j.box]

Job == {j \in JobRecord : OnRow(j)}

Idle ==
    [ pc |-> "idle", dom |-> NoDomain, box |-> NoMailbox,
      target |-> "no_send", to |-> Nowhere, ready |-> FALSE, recheck |-> FALSE,
      todo |-> {}, done |-> {}, failed |-> {}, result |-> "none" ]

FramePC ==
    { "none", "suspend_loop", "reactivate_list", "reactivate_loop",
      "rollback_loop", "reactivate_commit", "recheck_list", "recheck_loop" }

Frame ==
    [ pc : FramePC, todo : SUBSET Domains, restored : SUBSET Domains,
      failed : SUBSET Domains ]

NoFrame == [pc |-> "none", todo |-> {}, restored |-> {}, failed |-> {}]

TypeOK ==
    /\ tenant \in TenantStatus
    /\ domain \in [Domains -> DomainRow]
    /\ mailbox \in [Mailboxes -> MailboxRow]
    /\ alias \in [Mailboxes -> AliasRow]
    /\ backend_domain \in [Domains -> BOOLEAN]
    /\ account \in [Mailboxes -> Account]
    /\ mailing_list \in [Mailboxes -> Destinations \cup {Nowhere}]
    /\ job \in [Workers -> Job]
    /\ frame \in [Workers -> Frame]
    /\ crashes \in 0..MaxCrashes

---------------------------------------------------------------------------
(* Initial states: an active organization and nothing in flight.  A domain *)
(* is new, or onboarded in an earlier time, or retired by an operator in   *)
(* the Django admin, the only place that writes "decommissioned".          *)
(* Forwarders there are none yet.                                          *)

NewRow       == [ status |-> "pending_verification", verified |-> FALSE,
                  backend_identifier |-> FALSE, sending_enabled |-> FALSE ]
OnboardedRow == [ status |-> "dns_configuration", verified |-> TRUE,
                  backend_identifier |-> TRUE, sending_enabled |-> FALSE ]
RetiredRow   == [OnboardedRow EXCEPT !.status = "decommissioned"]

NoMailboxRow  == [status |-> "absent", backend_identifier |-> FALSE]
ServedMailbox == [status |-> "active", backend_identifier |-> TRUE]
NoAliasRow    == [status |-> "absent", destinations |-> Nowhere]

Init ==
    /\ tenant = "active"
    /\ domain \in [Domains -> {NewRow, OnboardedRow, RetiredRow}]
    /\ backend_domain = [d \in Domains |-> domain[d].backend_identifier]
    /\ mailbox \in [Mailboxes -> {NoMailboxRow, ServedMailbox}]
    /\ \A m \in Mailboxes :
          mailbox[m] = ServedMailbox => domain[DomainOf[m]] = OnboardedRow
    /\ \A d \in Domains :
          Cardinality({m \in Mailboxes : /\ DomainOf[m] = d
                                         /\ mailbox[m] = ServedMailbox})
              <= MaxMailboxes
    /\ account = [m \in Mailboxes |->
                    IF mailbox[m] = ServedMailbox THEN "no_send" ELSE "none"]
    /\ alias = [m \in Mailboxes |-> NoAliasRow]
    /\ mailing_list = [m \in Mailboxes |-> Nowhere]
    /\ job = [w \in Workers |-> Idle]
    /\ frame = [w \in Workers |-> NoFrame]
    /\ crashes = 0

---------------------------------------------------------------------------
(* Control of a job. *)

At(w, pc) == job[w].pc = pc

\* A worker takes an operation of Requests when it is in none.
Free(w, op) == op \in Requests /\ At(w, "idle") /\ frame[w].pc = "none"

\* Every request was answered and every task is over.
Quiet == \A w \in Workers : job[w] = Idle /\ frame[w] = NoFrame

Goto(w, pc) == job' = [job EXCEPT ![w].pc = pc]

\* A service function returns or raises; a surrounding loop sees which.
Finish(w, result) ==
    job' = [job EXCEPT ![w] =
              IF frame[w].pc = "none"
              THEN Idle
              ELSE [Idle EXCEPT !.dom = job[w].dom, !.result = result]]

---------------------------------------------------------------------------
(* Queries and backend calls. *)

\* The ACTIVE mailboxes of a domain that have a backend identifier.
ActiveMailboxes(d) ==
    { m \in Mailboxes : /\ DomainOf[m] = d
                        /\ mailbox[m].status = "active"
                        /\ mailbox[m].backend_identifier }

\* Stalwart overwrites the permissions of an account it has.
WritePermissions(m, p) ==
    /\ account[m] # "none"
    /\ account' = [account EXCEPT ![m] = p]

\* A call that raises: Stalwart refused it or never saw it, or did it and
\* the answer was lost.
WriteFails(m, p) == UNCHANGED account \/ WritePermissions(m, p)

\* The process dies: deploy, OOM kill, lost Celery worker.  What the
\* operation committed stays; nothing is undone and nothing resumes it.
Crash(w) ==
    /\ crashes < MaxCrashes
    /\ ~At(w, "idle") \/ frame[w].pc # "none"
    /\ job' = [job EXCEPT ![w] = Idle]
    /\ frame' = [frame EXCEPT ![w] = NoFrame]
    /\ crashes' = crashes + 1
    /\ UNCHANGED <<rows, backend>>
=============================================================================
