# MailForge: a TLA+ model of its control plane and webmail

MailForge is a Django application that sells mail hosting. It keeps
organizations, domains, mailboxes and forwarders in PostgreSQL and drives a
Stalwart mail server over its JMAP management API. What makes it hard is that
no transaction spans the two: each service function reads a row, talks to DNS
or Stalwart for seconds, and writes the row in a later transaction, while other
requests and the Celery tasks do the same on the same rows. An emergency
suspension has to win against all of that.

This directory holds a model of that control plane, the TLC runs that explore
its interleavings, and TLAPS proofs of the properties of the domains' rows for
any number of domains, mailboxes, workers and crashes. A second model, of the
members of an organization and their invitations, lives in PostgreSQL alone;
there the row locks are what matters. A third follows one inspection of a
domain's DNS, lookup by lookup. Two more are about the webmail, which keeps no
rows at all: the OAuth session of a browser, of which every request has a copy of
its own, and the messages of a mail account, which several requests and a page
that saves in the background read and write over JMAP.

## Inventory

| Component | State | Operations | Module |
| --- | --- | --- | --- |
| Domain onboarding (`apps/domains/services.py`, `provisioning.py`) | `Domain` row | verify, provision | `DomainSetup` |
| DNS readiness and sending policy (`dns_readiness.py`, `sending_policy.py`, `tasks.py`) | `Domain.sending_enabled`, `status`; permissions of accounts | `check_domain_dns`, by hand or from Celery beat | `DomainReadiness`; how the verdict is found: `DnsInspection` |
| Emergency suspension of a domain (`apps/domains/lifecycle.py`) | as above | suspend, reactivate | `DomainSuspension` |
| Emergency suspension of an organization (`apps/tenants/lifecycle.py`) | `Tenant.status` | suspend, reactivate, looping over domains | `TenantSuspension` |
| Mailboxes (`apps/mailboxes/services.py`) | `Mailbox` row, Stalwart account | provision, suspend, reactivate, delete | `MailboxLifecycle` |
| Forwarders (`apps/mailboxes/forwarders.py`) | `Alias` row, Stalwart mailing list | provision, update, delete | `Forwarders` |
| Stalwart client (`integrations/stalwart/client.py`) | none of its own | one call, which is done, refused, or done with its answer lost | the calls in the modules above |
| Organizations, members, invitations (`apps/tenants/services.py`, `mailforge/membership_views.py`) | `TenantMembership`, `TenantInvitation` rows | invite, mail, accept, revoke, change role, remove | `TenantMembership` |
| Webmail sign-in (`mailforge/webmail_auth.py`, `stalwart/oauth.py`) | Django session, copies of it in requests, tokens at Stalwart | sign in, callback, refresh, disconnect, log out | `WebmailSession` |
| Compose and drafts (`mailforge/drafts.py`, `draft_views.py`, `static/mailforge/drafts.js`) | a draft in Stalwart, the browser's form | compose, save, autosave, send, edit, discard | `DraftEditing`; composing: `WebmailMessages` |
| Message actions (`mailforge/message_actions.py`, `message_action_views.py`) | messages in Stalwart | move, archive, trash, spam, delete | `WebmailMessages` |
| Transport security checks (`apps/domains/transport_security.py`) | none | MTA-STS, TLS-RPT | `DnsInspection` |
| Portal and API views, audit log, HTML sanitizing, settings, deployment | - | - | not modelled |

How they interact. Views and tasks call one service function each. The
organization's suspension calls the domain's once per domain; a domain's
reactivation ends with a readiness check. All of them write `Domain.status`,
each from its own earlier reading of it. Mailbox operations read the domain's
row once, at their start, and readiness checks and suspensions write the
permissions of mailboxes they listed earlier. Mailboxes and forwarders share
addresses; each checks the other's rows when it reserves its own. The webmail reads
one thing of the control plane, whether the sender's domain may send, once per
request; everything else it keeps in Stalwart, in the session and in the page.

What is hard, and where: `PROJECT.json` lists it line by line under "hazards".
In short: values read before a network call and used after it; two jobs on one
row; an answer that is lost after the work was done; a worker that dies between
the backend and the row; loops of which one step fails; the last place under a
mailbox limit; and the promise that reconciliation repairs what a suspension
could not reach.

What makes each part correct:

- *Onboarding*: a row that names a backend domain has one, and its ownership
  was proved; provisioning can be retried; no suspension is ended by it.
- *Readiness*: sending is enabled only for an operational, owned, provisioned
  domain of an active organization, by what holds when the row is written.
- *Inspection*: it finds ready exactly the domains whose records are right, and
  no failure, earlier value or advice makes up for a record that is missing.
- *Suspension*: a suspended domain is not enabled for sending; only a
  reactivation ends a suspension; in the end all its accounts are shut.
- *Organization*: in the end none of its domains sends; a reactivation that
  fails for one domain leaves all of them suspended.
- *Mailboxes*: the limit holds; a deleted mailbox stays deleted and has no
  account; no request destroys what another one built.
- *Forwarders*: a deleted one stays deleted and forwards nothing; of a mailbox and
  a forwarder that are created at one address at once only the one that Stalwart
  accepted is completed; what a retired row named is let go. (That an address has
  one use for good, or that a retired one is not given to the other kind, is not
  true of the code, see below.)
- *Membership*: nobody joins but by a pending invitation of theirs, which is
  used up; what became of an invitation is final; at most one per address is
  pending and none of a member's; no address joins with two of its accounts; the
  owner is never removed, demoted or doubled. However requests interleave, each acts
  as if it were one step.
- *Webmail sign-in*: a disconnected mailbox stays disconnected; a session that is
  used by one request at a time holds the token that Stalwart accepts next; no
  session is stuck with a dead one.
- *Compose and drafts*: neither a lost answer nor a page that is posted again
  delivers a message twice, nor do two sends of which the later one reads the draft
  after the earlier one has submitted it; what a page has to save always has a timer
  or a save under way; what is written while no save is under way is saved without
  another keystroke, while the login lasts.
- *Message actions*: only what was replied to is marked as answered.

## The modules

```
MailForgeState            rows, backend, jobs, crashes
   DomainSetup            verify, provision
   DomainReadiness        check_domain_dns
      DomainSuspension    suspend, reactivate one domain
         TenantSuspension ... and all domains of an organization
   MailboxLifecycle       mailboxes
      Forwarders          forwarders, at the same addresses
         ControlPlane     all of them interleaved; the properties
            MCControlPlane       instances for TLC
            ControlPlaneTypes    TypeOK, proved
               ControlPlaneProofs   the safety of domains, proved
                  OrganizationProofs   who ends suspensions, proved
                  MailboxProofs     that of mailboxes and forwarders, proved
SendingGate               what the control plane promises about sending
AddressUse                how mailboxes and forwarders share addresses
Roster                    what an organization promises about its members
TenantMembership          members and invitations of one organization
   MCTenantMembership     instance for TLC
   MembershipProofs       all its properties, proved
DnsInspection             what an inspection of the DNS concludes
   MCDnsInspection        instance for TLC
   DnsInspectionProofs    its properties, proved
WebmailSession            one browser's sign-in to a mailbox
   MCWebmailSession       instance for TLC
   WebmailSessionProofs   its safety properties, proved
MailAccount               messages, requests under way, JMAP calls
   WebmailMessages        filing, deleting, composing
      DraftEditing        the handlers of drafts and the page drafts.js
         Webmail          all of them interleaved; the properties
            MCWebmail        instances for TLC
            WebmailProofs    its safety properties, proved
```

**State.** `tenant`, `domain`, `mailbox` and `alias` are PostgreSQL rows
(`apps/*/models.py`), with the columns that decide anything. `backend_domain`,
`account` and `mailing_list` are what Stalwart has; an account is its permission
set: `inherit` (the role's own), `no_send` (without `emailSend`) or
`replace_empty` (none), as `client.py:19-34` writes them. `job[w]` is the service
function that Django thread or Celery process `w` is inside, with its local
variables: everything read before a network call lives there, and may be stale.
`frame[w]` is the loop of `apps/tenants/lifecycle.py` around it.

**Steps.** One action is one transaction, one autocommitted statement or one
call of Stalwart. Code under `select_for_update` inside one `atomic()` block is
one step; two statements outside of one are two. The functions' early checks are
the guards of their `Begin` action: a request that is refused at once changes
nothing and is no step. A call of Stalwart has two actions: the one that does it
and goes on, and the `...Fails` one that raises, having done it or not (the
lost answer). `Crash(w)` forgets a worker's job at any point.

**Locks of `TenantMembership`.** `create_tenant_invitation` locks the
organization's row. The other functions lock an invitation or a membership with
`select_for_update().select_related("tenant")`, which in PostgreSQL locks the
joined organization as well. So memberships are read and written by one
transaction at a time, and a function is one step from the moment it has the
organization. A creation is two, because its `UPDATE` may have to wait for an
invitation that is locked (`InviteBegin`, `InviteCommit`); an acceptance is three:
it looks at the invitation without a lock (`AcceptBegin`), locks it (`AcceptLock`)
and waits for the organization (`AcceptCommit`). A creation that waits for an
invitation whose acceptance waits for the organization is a deadlock; PostgreSQL
aborts one of them, as `Abort` does to any transaction at any time. Mailing the
invitation is a step after the commit; if it raises, the mail may have been
delivered all the same, and a further transaction revokes the invitation
(`InviteMailFails`, `InviteUnsent`). A token is known to whom the mail reached;
several accounts may have one address, as `auth.User` allows.

**Abstractions.** One organization. Addresses are the elements of `Mailboxes`;
a backend identifier is the fact of having one. DNS answers are a free verdict
per check here. Quotas, names, passwords and the audit rows are left out: nothing
reads them to decide. Loops over rows take them in any order. In the control
plane, who asks (the role checks of the views) is left out: every operation may
be asked for at any time. In `TenantMembership` the billing role, which decides
as the viewer's does, is left out, and an invitation expires at any time.

**`DnsInspection`.** `inspection` holds the local variables of
`_refresh_dns_zone_file` and `inspect_domain_dns`; `zone` is what resolvers see and
`server_zone` the zone file of Stalwart, reduced to its DKIM records. Each lookup,
call of Stalwart and HTTPS request is one step that returns what is there at that
moment or fails; the customer's edits, new keys and other inspections come in
between. What a record means is an operator (`DkimStatus`, `Matches`, `WellFormed`),
and what it should mean is said a second time without it (`Deliverable`,
`PolicyUsable`), so that the runs compare two definitions. Spelling is left out: a
record is what the code parses it to, a host name is the sequence of its labels.
`history` remembers what was published and what failed since the inspection began;
no action reads it but for the bound on failures. `DomainReadiness` does not use
this module: it lets the verdict be anything, so that its properties do not depend
on what DNS says.

**`WebmailSession`.** `session` is the row of `django_session`: the flow of a
sign-in that was begun and the OAuth token, nothing else of it matters. A request
loads it, works on its copy (`request[r].copy`) while it waits for Stalwart, and the
middleware stores the whole copy when the request ends, if it was changed (`Save`),
over whatever was stored meanwhile; after an unhandled exception nothing is stored
(`Break`), and after a logout there is no row to store into. `grant` is what
Stalwart issued for each flow. Whether Stalwart issues refresh tokens, and whether
it issues new ones at every refresh, is chosen at the beginning (`server`), as
`refresh_token` and `_usable_token` allow for each of them. Encryption, PKCE and the state
parameter come down to this: a flow's code is of use to that flow only, once.
Requests that change neither session nor token are no steps.

**`MailAccount`, `WebmailMessages`, `DraftEditing`.** `email` is what Stalwart has,
reduced to existence, mailboxes, `$draft`, `$answered` and the version of the text;
`outbox` counts submissions. `task[r]` is the handler of a request with its local
variables; each JMAP call is a step, done, refused, or done with its answer lost.
The handlers look at a message in one call and change it in another and send no
`ifInState`, so `history.stale` remembers whose look is out of date because the
mailboxes, the existence or `$draft` of the message changed since. `editor` is the
page with the variables of `drafts.js`, `fetch` its background save, which can
outlive the page. The login to MailForge may have ended whenever a request arrives;
`@login_required` then redirects to the login page. A posted page is lost by that
(`PostRefused`); `fetch` follows the redirect, and the script takes the login page,
a 200 without JSON, for a save that succeeded (`AutosaveRefused`, `TakenForSaved`). A
200 whose body is lost leaves the page without the draft's id in the same way
(`AutosaveWrite`). `$seen` and `$junk` are left out since no code decides by them,
attachments, signatures, subjects and addresses because they are copied along; a
reply is known by its source, which the page of `webmail_send_draft` may name. That
a draft's content is updated in place is what `save_draft` asks for and the clients
of the tests accept; the immutability of content in RFC 8621 is not modelled.

`message_actions.py`, `drafts.py` and `inbox_views.py` call `list_mailboxes`, `get_email`
and others with an account id, as the fake clients of their tests take them; the
methods of `MailJMAPClient` do not, nor has it all of them, so that with the real
client these handlers end in `TypeError` or `AttributeError` before anything was
changed, and no template of the commit loads `drafts.js`. The model is of what the
handlers do with the client they are written for. `webmail_compose` uses the real one.

**Initial states.** Every domain is new, or onboarded earlier and not enabled,
or retired in the Django admin; an onboarded one may have mailboxes. All states
beyond are reached by the actions.

## What the runs check

Bounds. `Requests` names the operations that clients ask for in an instance;
anything may be asked for any number of times, so nothing else bounds the length
of a behaviour but `MaxCrashes`. A job that loses a race does so to one other
job, a repair adds a third; two workers show every pairwise race, and the runs
on rows that can be created, lost and created again have three. For a safety
property a dead worker is one that never goes on, so the largest of them,
`mailboxes`, needs no crashes. Two mailboxes
with room for one show the limit; two domains show a loop that fails in its
middle. Workers are interchangeable, so the safety runs use their symmetry; the
liveness run does not. `CHECK_DEADLOCK FALSE` is set only where the
instance can run out: in `session` of sign-ins, in `messages` and `drafts` of messages
and texts. All other passing runs check deadlock.

In `inspection`, `MaxEdits` = 2 and `MaxFailures` = 1. A domain starts with all its
records right; one edit makes any record wrong in each of the ways the code
distinguishes, two make a record right again, replace a key in the zone and in
Stalwart, or change two records in opposite directions between their lookups,
which is what a mixed verdict needs. One failure shows what a check is worth that
could not be made; each check fails in the same way. The mail host and address
are configured, not configured or invalid (`SomeSettings`).

In `session`, two requests overlap in every way, two sign-ins (`MaxFlows`) show a
callback of an earlier one, two refreshes (`MaxRefreshes`) a token that is dead
beside one that is not, and one broken request (`MaxBreaks`) a rotation that was
not stored. In `messages` and `drafts` one message was received. In `messages` one
more can be written (`MaxMessages`), so a reply, its source and a second request on
either of them meet. In `drafts` two more can, so that a draft which the page lost,
by a discard or a lost id, is followed by another; `MaxText` = 2 is an edit made
while an earlier one is being saved. Nothing is sent there; sends beside autosaves
are in the theorems, which hold whatever an instance asks for. A page that was left
behind ends its background save before the next page's timer fires, a refused
autosave occupies a request that is free, and a page that is posted begins no
further background save while it waits (`drafts.js` would, if one fails then).

| Run | Instance | Question |
| --- | --- | --- |
| `suspension` | 1 domain, 2 mailboxes, 2 workers, 1 crash | Do types hold, does only a reactivation end a suspension, is every step one of `SendingGate`? |
| `mailboxes` | 1 domain, 2 mailboxes, limit 1, 3 workers | Limit, tombstones, no account behind a deleted row, one provisioning job per row. |
| `addresses` | 1 address, 2 destination lists, 3 workers, 1 crash | Does a deleted forwarder stay deleted, without a list, beside mailboxes at the same address? Do the two share it as `AddressUse` says: no claim beside a finished use, none completed but the one Stalwart accepted, none retired that is still held? |
| `organization` | 2 domains, 1 mailbox, 2 workers | Is a suspended domain ever enabled; does a failed reactivation of the organization take everything back? |
| `live` | 1 domain, 1 mailbox, 2 workers, 1 crash | Is a domain that sends always provisioned, and one that names a backend domain owned and present in Stalwart, from its first day on? Does reconciliation reach every mailbox of a suspended domain and every domain of a suspended organization, with mailboxes suspended and reactivated meanwhile? |
| `membership` | an owner, an administrator, 2 accounts of one address, 2 invitations, 2 workers | Who joins, by which invitation; which invitations are pending, and what becomes of them; is the owner kept, does an address join once; are the interleaved requests a `Roster`, where each is one step? |
| `inspection` | 1 domain, 2 keys, 2 SPF policies, 9 MTA-STS policies, 4 settings, 2 edits, 1 failure | Are verdict and advice exact when nothing changes meanwhile; what is a verdict worth when something does? |
| `session` | 2 requests, 2 sign-ins, 2 refreshes of each, 1 broken request | Does a disconnected mailbox stay so, is a session used by one request at a time always good, and does one with a dead token heal? |
| `messages` | 2 requests, 2 messages, 5 folders; edit, send, compose, move, spam, delete, the domain's policy | How often is a message delivered, and what is marked as answered? |
| `drafts` | 2 requests, 3 messages, 2 texts; edit, save, autosave, discard | Is a quiet edit saved in the end; has what is to be saved always a timer or a save under way; is a page saving exactly while it waits? |

The runs that expect a violation each state something the repository says of
itself and show the interleaving that refutes it:

| Run | What is said | What happens |
| --- | --- | --- |
| `suspension_lifted` | a suspension blocks verification (`domains/services.py:20`) | a verification that was looking up DNS when the suspension came writes `verified` over it; `provisioning.py:66` and `:76` do the same |
| `provision_retry` | provisioning is idempotent and retry-safe (`docs/ARCHITECTURE.md:87`) | after a lost answer Stalwart refuses every retry, and nothing looks the domain up |

Eight more were met with earlier instances of the same model and keep no run of
their own: a mailbox's reactivation that read its domain before a suspension and
writes permissions after it, which stay until the next readiness check
(`mailboxes/services.py:154`, against the rule that names a test,
`tests/test_emergency_suspension.py:121`; `SuspensionReachesMailboxes` says that
it ends); two provisioning jobs at once, of which the failing one writes
`verified` over the other's `dns_configuration` (`provisioning.py:66`); an
organization whose domains still send after `Tenant.status` was committed
(`tenants/lifecycle.py:47`; `TenantSuspensionStopsSending` says that it ends); a
domain restored although its organization was suspended during the call
(`domains/lifecycle.py:168`; sending stays off, by `GateImplemented`); and a
deletion or a forwarder's change that was done although its answer was lost, so
that the row says otherwise and retrying the deletion raises for ever
(`mailboxes/services.py:198`, `forwarders.py:149`); and the address of a deleted
mailbox, which `README.md:80` calls reserved, given to a forwarder, or the other way
round, because each kind ignores the tombstones of the other (`forwarders.py:75`); a mailbox
that was suspended ("Mailbox ... suspended.", `portal_views.py:274`) and whose
permissions a readiness check writes back that listed it earlier, which no later
check corrects since they list active mailboxes only (`sending_policy.py:69`); and
an address with a mailbox and a forwarder (`README.md:85`), because a forwarder is
reserved while the mailbox's row is about to change and the checks are made only at
reservation (`forwarders.py:72`).

The webmail has interleavings of its own that the properties leave out on purpose,
because the code does permit them:

- a request that was refreshing while the mailbox was disconnected stores its copy
  later and undoes the disconnection (`webmail_views.py:555`; `SignedOutStaysOut` is
  about disconnections with no other request under way);
- a draft that was sent stays in Drafts beside Sent (`drafts.py:241`), although
  `README.md:133` says that successful submissions are moved from Drafts to Sent, as
  `send_plaintext` does;
- what is written during a background save is not saved by a later one, because its
  answer clears `dirty` (`drafts.js:51`); `QuietEditIsSaved` is about the other edits;
- when the login has ended, the autosave is redirected to the login page
  (`draft_views.py:236`), the script takes that for success and clears `dirty`
  (`drafts.js:45-51`): the page says "Saved" although nothing was, and does not try
  again; `QuietEditIsSaved` names this exception;
- an autosave whose answer arrives as a 200 with an unreadable body leaves the page
  without the id of the draft it made (`drafts.js:45,50`), so that the next one makes
  a second draft;
- two requests that send one draft and both read it before either submits it deliver
  it twice (`drafts.py:222`), and an autosave that looked at a draft before it was
  submitted and writes it afterwards makes it a draft again (`drafts.py:160`), which
  can be sent again; `SentOnce` leaves these out through `history.raced`;
- a message that is moved out of Trash, or a draft that is sent, between the look of
  a deletion and its `Email/set` is destroyed all the same (`message_actions.py:130`,
  `drafts.py:261`), although `templates/webmail/message_actions.html:8` says that
  permanent deletion is available only after the message is in Trash. That nothing
  else is destroyed would only repeat the guard of the look, so no property says it;
- a request that was allowed to send when it began submits although the domain was
  suspended meanwhile (`webmail_views.py:101`). What stops it are the permissions that
  the suspension takes from the account at Stalwart, which this part of the model
  leaves out; a property could only say that the request had asked;
- an autosave of an older text that arrives between the save and the submission of
  a draft is what gets delivered (`drafts.py:215`);
- a new draft whose sending failed comes back without its id, so that sending again
  makes a second message, and a composed message whose answer was lost is delivered
  again if it is sent again: `SentOnce` speaks of one message, not of one text;
- a mark that fails shows the form again although the reply was sent.

`DnsInspection` shows a limit rather than a fault: when Stalwart does not answer,
the zone file of an earlier inspection decides which keys must be published
(`FetchZoneFails`), so a key rotated since is not asked for. `ReadyWasPublished`
therefore speaks of the keys of the file that was used, and only `ReadyIsExact`
of Stalwart's.

**Fairness.** `FairSpec` assumes that a worker that is inside an operation goes
on with it (weak fairness of `Step`; a crash is not excluded); that Celery beat's
`reconcile_all_domain_readiness`, which `settings.py` schedules every
`MAILFORGE_DNS_RECONCILE_MINUTES`, finds a worker for every domain with a backend
identifier again and again (strong fairness of `BeatCheck`, with exactly the
query's condition); and that Stalwart, asked again and again to write one
account, does it some of the times (strong fairness of `CheckWrite`). No client
is obliged to ask for anything. `provision_retry` assumes more, that provisioning
is retried for ever and that Stalwart would carry it out whenever it can, so that
its counterexample is not a matter of giving up.

`SessionFairness` assumes that requests come to an end, and that the user opens the
mailbox again whenever that would be possible again and again: `SessionHeals` is what
a user who comes back is promised. It needs nothing of Stalwart, which may refuse
for ever: a refusal clears the token. `DraftFairness` assumes that the browser's
timer fires and its requests are answered, one way or the other, that requests of
the server end, that a background save finds a free process in the end (strong
fairness of `AutosaveHandled`: other requests of the user may have taken the one
that was free), and that an autosave which is tried again and again is accepted,
with the login alive, and carried out some day; without the last, a server that
always fails would refute any promise to save. It says nothing of the failures
before, and a login page ends the trying, which is why it is an exception.

## What is proved

All theorems about the control plane hold for any constants that satisfy
`ConstantsAssumption`
(`DomainOf` maps addresses to domains, the markers are outside of the sets they
mark, the bounds are numbers) and `FiniteMailboxes` (a database has finitely many
rows, which only the limit of a domain needs). Nothing assumes that the other sets
are finite or that `Requests` is everything.

- `ControlPlaneTypes!TypeCorrect`: `Spec => []TypeOK`. `TypeOK` is inductive
  because `Job` relates a job's fields: a job past its `Begin` is on a domain, and
  one about an address is on that address and its domain (`OnRow`). One lemma per
  group of actions (`SetupTypes` ... `ForwarderTypes`), one step per action.
- `ControlPlaneProofs!Safe`: `Spec => []Inv` for

      Inv == TypeOK /\ ProvisioningKnowsBackend
             /\ SuspendedNeverSends /\ SendingIsEstablished

  `SendingIsEstablished` alone is not inductive: `ProvisionCommit` writes the
  backend identifier unconditionally, on the strength of a call made and a row
  read two steps earlier. `ProvisioningKnowsBackend` is the strengthening: while a
  job is inside provisioning, the domain's verification still stands, and at its
  last step Stalwart has the domain. Each group of actions that never touches
  what a conjunct speaks of is dismissed by a `...Leaves` lemma; the others have a
  `...Safe` lemma each.
- `SuspensionIsSafe`, `SendingIsSafe`, `ProvisioningIsSafe`: the three
  properties, from `Safe`.
- `ImplementsGate`: `Spec => Gate!GateSpec`, the refinement that run `suspension`
  also checks. Every step of the rows maps to `Open`, `Close`, `Stop`, `Resume`,
  `Establish` or `SetOrganization` of `SendingGate`, or to a stutter. The step that
  matters is `CheckCommit`: it opens the gate only by what it reads under the
  locks, so that the stale verdict it carries can close but not open it wrongly.
- `GateIsSafe`: what the abstract gate is worth, from its own steps alone.
- `OrganizationProofs!WhoEndsSuspensions`: whatever is asked for, only a job on the
  domain ends its suspension, and only its reactivation, verification or
  provisioning. `ReactivationEndsSuspensions` leaves the reactivation
  (`SuspensionEndsByReactivation`) where no setup of a domain overlaps its
  suspension (`NoSetupOverlaps`). `suspend_domain` does not wait for a verification
  or a provisioning that is under way, and these write the status without looking
  at it, so the hypothesis cannot be dropped: run `suspension_lifted` is its
  counterexample, and `SendingGate!Establish` therefore allows a stop to end so,
  with the gate closed. `SuspensionsEndByReactivation` replaces the hypothesis by
  what an instance asks for, as run `suspension` does.
- `OrganizationSettles`: `SuspendedOrganizationSettled`, under the hypothesis
  `NothingLifts`: in a suspended organization no setup is under way, and no
  reactivation of a single domain is at its last step. The code refuses to begin
  either there, so this asks that none was under way when the suspension came; both
  would otherwise lift a domain out of the organization's suspension for good
  (`suspend_tenant` has visited it, and nothing visits it again). The property is
  about quiet states, where no loop is left to say anything; the strengthening
  `AllAnswered` (`DomainsAnsweredFor`) is about all of them. Each domain is suspended
  or retired, or some worker answers for it: a suspension or a rollback that has it
  still to do (`WillStop`), a reactivation of the organization that has restored it
  and will take it back (`HasRestored`), or one that is about to make the
  organization active. Any number of such loops run over the same domains, so the
  proof shows that a worker which stops answering for a domain has seen it suspended,
  and that nobody's step takes an answer from another. `JobsFit` ties each loop to
  the job it called. `SuspendedOrganizationsSettle` replaces the hypothesis by what
  run `organization` asks for.
- `MailboxProofs!AddressesSafe`: `Spec => [](MailboxInv /\ ForwarderInv)`, and from
  it `DeletionIsComplete`, `LimitIsKept`, `ProvisioningIsExclusive`,
  `ForwardingStops` and the two action properties `MailboxDeletionIsFinal` and
  `ForwarderDeletionIsFinal`. What the properties say of rows and of Stalwart is not
  inductive, because `MailboxDiscard`, `MailboxSave` and `MailboxDeleteSave` write a
  row by its primary key without looking at it. The strengthening is what the jobs
  rely on: a row that a job reserved is still being provisioned and has no second
  job (`OneMailboxMaker`), a row that a deletion is about never goes back to being
  provisioned, and after Stalwart's confirmation there is no account that a late
  write could overwrite (`MailboxJobsRely`). Then nobody brings an account back,
  since only a job with a row in provisioning creates one. The same argument holds
  of forwarders and their lists; that neither kind of operation touches the other's
  rows is `MailboxLeavesForwarders` and `ForwarderLeavesMailboxes`. The limit adds
  to it only that `MailboxReserve`, the one step that adds a mailbox, counts under
  the lock.
- `MailboxProofs!AddressesAreShared`: `Spec => AddressUseImplemented`. `AddressUse` has
  for every address and each of the two kinds a use (free, claimed, used, retired) and
  one holder; the mapping reads the first from the row's status and the second from
  what Stalwart has. Every step is a claim, an abandoned or completed claim, a hold,
  a letting go or a retirement of one kind at one address, or a stutter
  (`RowSettles`, `BackendSettles`); suspensions, reactivations, updates and all
  operations on domains are stutters, because a write of permissions neither makes
  nor removes an account (`WriteKeepsAccounts`). `AddressInv` adds to the invariant
  above that a job about to save has had Stalwart's confirmation and that nobody has
  taken the address back since (`SavesAreConfirmed`: only a job with a settled row
  destroys anything, and the row waits for its maker), that Stalwart has one user of
  an address (`OneHolder`), and that what a job writes is a list
  (`DestinationsGiven`). `RetiredAddressesAreLetGo` proves of the abstract steps
  alone that nothing retired is held. Two finished rows of different kinds at one
  address are not excluded, see above.

The theorems about members hold for any users, addresses, invitations and workers
that satisfy `MembershipAssumption` (the owner is a user, every user has an
address, the markers are none of what they mark):

- `MembershipProofs!MembershipSafe`: `MembershipSpec => []MembershipInv`. The
  properties need what the locks give: one creation at a time is between its
  check and its insertion (`OneInvites`), while it is there the person invited
  stays no member (`InviteeIsNoMember`), and a request to accept is by somebody of
  the invitation's address (`AcceptsOwnInvitation`). `NoInvitationForMembers` needs
  `OnePendingPerAddress`: who joins uses up one invitation, and it must have been
  the only one. One lemma per conjunct, one step per action.
- `PendingIsUnique`, `MembersAreNotInvited`, `OwnerIsKept`: the invariants, from it.
- `MembershipIsRoster`: `MembershipSpec => RosterImplemented`, the refinement that run
  `membership` also checks. The offers of `Roster` are the pending invitations without
  their identity (`PendingOffers`). `InviteCommit` is an offer that takes an earlier
  one's place, `AcceptCommit` is somebody joining, or nothing, a revocation withdraws,
  an expiry lets lapse, and mails, looks and waits for locks are stutters. It needs
  two things of the lock more: who has the organization locked for an invitation may
  still invite (`InviterManages`), and who is a member has an account
  (`MembersHaveAccounts`).
- `RosterIsSafe` and `AddressesJoinOnce`: the roster's steps let no two accounts of one
  address be members, and so neither does the code (`OneMemberPerAddress`). This does
  not follow from `MembershipInv`, which says nothing of two members; it follows from
  the roster, in which a person joins while nobody of their address is a member.
- `JoiningNeedsInvitation`, `OutcomesAreFinal`: the action properties. Only
  `AcceptCommit` makes members, and under the lock it asks again whether the
  invitation is active; only that and the three revocations write an outcome, and
  each asks first whether there is one.

The theorems about inspections hold for any records, keys, edits and failures that
satisfy `InspectionAssumption` (what is published is a finite set and no failed
lookup; host names and the names of patterns are sequences of labels; the markers of
zone files are no sets of keys):

- `DnsInspectionProofs!InspectionSafe`: `InspectionSpec => []InspectionInv`. What a
  check has passed was published since the inspection began (`PassedWasSeen`); the
  keys that were looked up are those of the file that are no longer to do
  (`KeysWereSeen`), which needs that nothing is checked before the file is known
  (`NothingCheckedYet`) and that `history` has what is published now
  (`HistoryIsKept`).
- `ReadyNeedsPublication`: `ReadyWasPublished`, from it.
- `InspectionExact` and `ReadyExactly`: `ReadyIsExact`. `ExactInv` says of an
  inspection that nothing has disturbed so far that the file it uses is Stalwart's
  (`FileIsFetched`), that each check made has passed exactly if what is published is
  good (`ChecksAreExact`), and the same of the keys looked up so far
  (`KeysAreExact`). It needs `TodoIsRest`, also of disturbed inspections: the keys
  still to do are those of the file exactly as long as none has been looked up,
  which is how the model tells the first lookup. A change or a failure ends the claim
  for good, because `history` never forgets.
- `AdviceExactly`: `AdviceIsExact`, along the three lookups of MTA-STS. The lemma
  `MatchesOneLabel` is the boundary case of wildcards, for names of any length.

The theorems about sign-ins hold for any requests and bounds that satisfy
`SessionAssumption` (the markers are no flow and no token):

- `WebmailSessionProofs!SessionTypeCorrect`: `SessionSpec => []SessionTypeOK`, with
  `RequestOK`, which ties the place a request is at to what it holds.
- `DisconnectedForGood`: `SignedOutStaysOut`. The strengthening `SignedOutInv` says
  that a logged-out session is empty, that a disconnecting request holds an empty,
  changed copy from its beginning, and that the code of every sign-in that was left
  is spent: what nobody holds can come back only through a code, and Stalwart
  takes none twice. The steps fall into those that load, go on, end and store,
  with a lemma each.
- `SerialSessionWorks`: `SerialSessionIsLive`. While requests come one at a time,
  `SerialInv` keeps one of two things in accord with Stalwart (`Fits`): the only
  request's copy, or the row if there is none. A copy that will not be stored is
  the row, and the row is abandoned the moment its copy changes.

Those about the webmail's messages hold for any requests, folders, messages and
texts (`AccountAssumption`), and whatever an instance asks for:

- `WebmailProofs!WebmailTypeCorrect`: `WebmailSpec => []DraftTypeOK`; it needs
  `PageOK`: only a posted page waits for the answer to a post, and it has given up its
  background save.
- `DeliveredOnce`, `AnsweredCorrectly`: from `MailInv`. Its heart is `Looks(r)`: what a
  request that is not stale has read of its message is still so; a request about to
  write or submit works on a draft. `Delivered` needs it in the moment of submission:
  a draft was not delivered, and is none afterwards, which makes everybody else's look
  at it stale (`OthersLook`).
- `NothingIsForgotten`: `EditIsNotForgotten`, with `Tended`, which adds that a save the
  page waits for is under way, and `PageOK`, by which a page that is saving waits for
  one: so the timer that runs out during a save, and starts none, leaves that save,
  whose answer starts the timer anew or counts as saved.

Every invariant and every action property that a passing run checks is stated by a
theorem, the three refinements (`SendingGate`, `AddressUse`, `Roster`) among them.
Liveness is out of the prover's reach: `SuspensionReachesMailboxes`,
`TenantSuspensionStopsSending`, `SessionHeals` and `QuietEditIsSaved` are only
model-checked, and so is what the two runs show that expect a violation.

## Not modelled

Password resets (they change only a secret Stalwart keeps), the syntax of DNS
records and of MTA-STS policies, the parsing of destination lists, the audit log,
role checks and views of the portal and the API (they ask for the operations above
and keep nothing), reading the inbox (it changes `$seen` only; `inbox_views.py` is not
routed at this commit), the sanitizing of HTML (a pure function of its input, about
markup), attachments and signatures, and deployment. The model has one Stalwart and
one database; lost database connections are crashes. The webmail meets the control
plane in one value, the readiness of the sender's domain, which `MailAccount` lets
change at any time; the two are therefore not composed in one run.

## Plan

Attachments in drafts: what a draft refers to while a save replaces it.
