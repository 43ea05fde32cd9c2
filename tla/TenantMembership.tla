-------------------------- MODULE TenantMembership --------------------------
(***************************************************************************)
(* Members of an organization and the invitations that bring them in       *)
(* (apps/tenants/services.py, mailforge/membership_views.py).              *)
(*                                                                         *)
(* Locks.  Each function locks rows with select_for_update().  With        *)
(* select_related("tenant") that locks the organization's row as well, so  *)
(* whoever reads or writes memberships has it to itself, and a function is *)
(* one step from the moment it has the organization.  What stays apart is  *)
(* what happens before: the unlocked look at an invitation, and the wait   *)
(* for the organization with the invitation already locked.  A creation    *)
(* has the organization and waits for invitations.  The two can wait for   *)
(* each other, and PostgreSQL then aborts one of them.                     *)
(*                                                                         *)
(* Abstractions.  One organization.  The billing role decides as the       *)
(* viewer's does.  A token is its invitation: it is known to whom the mail *)
(* reached.  The invited e-mail address is compared after normalization.   *)
(***************************************************************************)
EXTENDS Naturals, FiniteSets

CONSTANTS
    Users,         \* portal accounts, those that do not exist yet included
    Owner,         \* the user who created the organization
    Emails,        \* e-mail addresses
    EmailOf,       \* each user's; it need not be unique
    Invitations,   \* BOUND: rows of TenantInvitation that can be created
    Workers,       \* Django request threads
    Nobody,        \* no user
    NoInvitation,  \* a job that is on no invitation
    NoEmail        \* an invitation that does not exist yet

ASSUME MembershipAssumption ==
    /\ Owner \in Users
    /\ EmailOf \in [Users -> Emails]
    /\ Nobody \notin Users
    /\ NoInvitation \notin Invitations
    /\ NoEmail \notin Emails

VARIABLES
    registered,  \* users that have an account
    member,      \* TenantMembership rows: each user's role
    invitation,  \* TenantInvitation rows
    request      \* per worker: the view or service function it is in

membershipVars == <<registered, member, invitation, request>>

---------------------------------------------------------------------------
(* Rows and requests. *)

InvitableRoles        == {"admin", "viewer"}
MembershipManageRoles == {"owner", "admin"}
Role                  == InvitableRoles \cup {"owner"}

InvitationRow ==
    [ email : Emails \cup {NoEmail}, role : InvitableRoles,
      mailed : BOOLEAN,                      \* its token has reached someone
      accepted_by : Users \cup {Nobody},     \* set together with accepted_at
      revoked : BOOLEAN, expired : BOOLEAN ]

NoRow == [ email |-> NoEmail, role |-> "viewer", mailed |-> FALSE,
           accepted_by |-> Nobody, revoked |-> FALSE, expired |-> FALSE ]

Request ==
    [ pc    : {"idle", "invite_update", "invite_mail", "invite_unsent",
               "accept_lock", "accept_tenant"},
      user  : Users \cup {Nobody},           \* who asks
      inv   : Invitations \cup {NoInvitation},
      email : Emails \cup {NoEmail}, role : InvitableRoles ]

NoRequest == [ pc |-> "idle", user |-> Nobody, inv |-> NoInvitation,
               email |-> NoEmail, role |-> "viewer" ]

MembershipTypeOK ==
    /\ registered \subseteq Users
    /\ member \in [Users -> Role \cup {"none"}]
    /\ invitation \in [Invitations -> InvitationRow]
    /\ request \in [Workers -> Request]

\* create_tenant has just run.
MembershipInit ==
    /\ registered \in {S \in SUBSET Users : Owner \in S}
    /\ member = [u \in Users |-> IF u = Owner THEN "owner" ELSE "none"]
    /\ invitation = [i \in Invitations |-> NoRow]
    /\ request = [w \in Workers |-> NoRequest]

---------------------------------------------------------------------------
(* Queries and locks. *)

In(w, pc) == request[w].pc = pc

Answer(w) == request' = [request EXCEPT ![w] = NoRequest]

Exists(i)   == invitation[i].email # NoEmail
Accepted(i) == invitation[i].accepted_by # Nobody
Pending(i)  == Exists(i) /\ ~Accepted(i) /\ ~invitation[i].revoked
Active(i)   == Pending(i) /\ ~invitation[i].expired

\* Mutant: the organization is read without select_for_update().
TenantUnlocked == FALSE

\* A worker is inside a transaction that has locked the organization.
TenantLocked == \E w \in Workers : In(w, "invite_update")

\* A worker is inside a transaction that has locked the invitation and still
\* waits for the organization.
InvitationLocked(i) ==
    \E w \in Workers : In(w, "accept_tenant") /\ request[w].inv = i

\* Mutant: an accepted invitation can be revoked.
RevocableAlways(i) == Exists(i)

Revocable(i) == Exists(i) /\ ~Accepted(i)

MayManage(u) == member[u] \in MembershipManageRoles

---------------------------------------------------------------------------
(* create_tenant_invitation, and the view that mails the result *)

IsMember(e) == \E u \in registered : EmailOf[u] = e /\ member[u] # "none"

InviteBegin(w, actor, e, r) ==
    /\ In(w, "idle")
    /\ ~TenantLocked
    /\ MayManage(actor)
    /\ ~IsMember(e)
    /\ request' = [request EXCEPT
         ![w] = [NoRequest EXCEPT !.pc = "invite_update", !.user = actor,
                                  !.email = e, !.role = r]]
    /\ UNCHANGED <<registered, member, invitation>>

\* Mutant: an expired invitation is not looked for.
SupersededActive(e) == {k \in Invitations : Active(k) /\ invitation[k].email = e}

Superseded(e) == {k \in Invitations : Pending(k) /\ invitation[k].email = e}

\* The UPDATE of the address's pending invitations waits for those that are
\* locked; then the new one is inserted and all is committed.
InviteCommit(w, i) ==
    LET e   == request[w].email
        old == Superseded(e) IN
    /\ In(w, "invite_update")
    /\ ~Exists(i)
    /\ \A k \in old : ~InvitationLocked(k)
    /\ invitation' = [k \in Invitations |->
         IF k = i THEN [NoRow EXCEPT !.email = e, !.role = request[w].role]
         ELSE IF k \in old THEN [invitation[k] EXCEPT !.revoked = TRUE]
         ELSE invitation[k]]
    /\ request' = [request EXCEPT ![w].pc = "invite_mail", ![w].inv = i]
    /\ UNCHANGED <<registered, member>>

InviteMail(w) ==
    /\ In(w, "invite_mail")
    /\ invitation' = [invitation EXCEPT ![request[w].inv].mailed = TRUE]
    /\ Answer(w)
    /\ UNCHANGED <<registered, member>>

\* send_mail raises, which does not mean that nothing was delivered.
InviteMailFails(w) ==
    /\ In(w, "invite_mail")
    /\ \/ UNCHANGED invitation
       \/ invitation' = [invitation EXCEPT ![request[w].inv].mailed = TRUE]
    /\ request' = [request EXCEPT ![w].pc = "invite_unsent"]
    /\ UNCHANGED <<registered, member>>

\* The view revokes what it could not send.
InviteUnsent(w) ==
    LET i == request[w].inv IN
    /\ In(w, "invite_unsent")
    /\ ~TenantLocked /\ ~InvitationLocked(i)
    /\ invitation' = IF MayManage(request[w].user) /\ Revocable(i)
                     THEN [invitation EXCEPT ![i].revoked = TRUE]
                     ELSE invitation
    /\ Answer(w)
    /\ UNCHANGED <<registered, member>>

---------------------------------------------------------------------------
(* accept_tenant_invitation *)

\* The view and get_active_invitation look without a lock.  A user without
\* an account signs up, in the transaction that accepts, if no account of
\* the address exists.
AcceptBegin(w, i, u) ==
    /\ In(w, "idle")
    /\ Active(i) /\ invitation[i].mailed
    /\ EmailOf[u] = invitation[i].email
    /\ \/ u \in registered
       \/ \A v \in registered : EmailOf[v] # EmailOf[u]
    /\ request' = [request EXCEPT
         ![w] = [NoRequest EXCEPT !.pc = "accept_lock", !.inv = i, !.user = u]]
    /\ UNCHANGED <<registered, member, invitation>>

\* The query locks its rows one after the other, the invitation first.
AcceptLock(w) ==
    /\ In(w, "accept_lock")
    /\ ~InvitationLocked(request[w].inv)
    /\ request' = [request EXCEPT ![w].pc = "accept_tenant"]
    /\ UNCHANGED <<registered, member, invitation>>

\* Mutant: what was seen before the lock is trusted.
AcceptableAsSeen(i, u) == member[u] # "owner"

\* An owner's membership cannot be changed by an invitation.
Acceptable(i, u) == Active(i) /\ member[u] # "owner"

AcceptCommit(w) ==
    LET i == request[w].inv
        u == request[w].user IN
    /\ In(w, "accept_tenant")
    /\ ~TenantLocked
    /\ IF Acceptable(i, u)
       THEN /\ member' = [member EXCEPT ![u] = invitation[i].role]
            /\ registered' = registered \cup {u}
            /\ invitation' = [invitation EXCEPT ![i].accepted_by = u]
       ELSE UNCHANGED <<registered, member, invitation>>
    /\ Answer(w)

---------------------------------------------------------------------------
(* The other functions, each one step under the organization's lock. *)

RevokeInvitation(actor, i) ==
    /\ ~TenantLocked /\ ~InvitationLocked(i)
    /\ MayManage(actor)
    /\ Revocable(i)
    /\ invitation' = [invitation EXCEPT ![i].revoked = TRUE]
    /\ UNCHANGED <<registered, member, request>>

\* Mutant: the owner's membership is no exception.
ChangeableAny(actor, u) ==
    /\ member[actor] = "owner"
    /\ member[u] # "none"

\* Whom the owner may demote, promote or remove.
Changeable(actor, u) ==
    /\ member[actor] = "owner"
    /\ member[u] \notin {"owner", "none"}

ChangeMembershipRole(actor, u, r) ==
    /\ ~TenantLocked
    /\ Changeable(actor, u)
    /\ member' = [member EXCEPT ![u] = r]
    /\ UNCHANGED <<registered, invitation, request>>

RemoveMembership(actor, u) ==
    /\ ~TenantLocked
    /\ Changeable(actor, u)
    /\ member' = [member EXCEPT ![u] = "none"]
    /\ UNCHANGED <<registered, invitation, request>>

---------------------------------------------------------------------------
(* Time, and the end of a transaction that does not commit. *)

Expire(i) ==
    /\ Exists(i) /\ ~invitation[i].expired
    /\ invitation' = [invitation EXCEPT ![i].expired = TRUE]
    /\ UNCHANGED <<registered, member, request>>

\* The worker dies, or PostgreSQL aborts its transaction to end a deadlock.
Abort(w) ==
    /\ ~In(w, "idle")
    /\ Answer(w)
    /\ UNCHANGED <<registered, member, invitation>>

MembershipNext ==
    \/ \E w \in Workers :
          \/ \E actor \in Users, e \in Emails, r \in InvitableRoles :
                InviteBegin(w, actor, e, r)
          \/ \E i \in Invitations : InviteCommit(w, i)
          \/ InviteMail(w)
          \/ InviteMailFails(w)
          \/ InviteUnsent(w)
          \/ \E i \in Invitations, u \in Users : AcceptBegin(w, i, u)
          \/ AcceptLock(w)
          \/ AcceptCommit(w)
          \/ Abort(w)
    \/ \E actor \in Users :
          \/ \E i \in Invitations : RevokeInvitation(actor, i)
          \/ \E u \in Users, r \in InvitableRoles :
                ChangeMembershipRole(actor, u, r)
          \/ \E u \in Users : RemoveMembership(actor, u)
    \/ \E i \in Invitations : Expire(i)

MembershipSpec == MembershipInit /\ [][MembershipNext]_membershipVars

---------------------------------------------------------------------------
(* What the locks are for. *)

\* One request at a time is between its check of the members and its INSERT.
OneInvites ==
    \A v, w \in Workers : In(v, "invite_update") /\ In(w, "invite_update") => v = w

\* While it is, the person stays no member.
InviteeIsNoMember ==
    \A w \in Workers : In(w, "invite_update") => ~IsMember(request[w].email)

\* Who is accepting was invited.
AcceptsOwnInvitation ==
    \A w \in Workers :
        request[w].pc \in {"accept_lock", "accept_tenant"}
        => /\ request[w].inv \in Invitations /\ Exists(request[w].inv)
           /\ request[w].user \in Users
           /\ EmailOf[request[w].user] = invitation[request[w].inv].email

---------------------------------------------------------------------------
(* What must be true. *)

\* Nobody joins, and nobody signs up, but by an invitation for their own
\* address that is pending and not expired at that moment, and that is
\* thereby used up: not by one that was accepted, revoked or superseded
\* while they were looking at it (tenants.services.accept_tenant_invitation).
JoinsByInvitation ==
    [][\A u \in Users :
          \/ member[u] = "none" /\ member'[u] # "none"
          \/ u \notin registered /\ u \in registered'
          => \E i \in Invitations :
                /\ Active(i)
                /\ invitation[i].email = EmailOf[u]
                /\ invitation'[i].accepted_by = u
                /\ member'[u] = invitation[i].role]_membershipVars

\* What became of an invitation is final: it is not revoked after it was
\* accepted, and not accepted, or accepted by another, after it was accepted
\* or revoked (revoke_tenant_invitation and create_tenant_invitation against
\* accept_tenant_invitation).
OutcomeIsFinal ==
    [][\A i \in Invitations :
          Exists(i) /\ ~Pending(i)
          => /\ invitation'[i].accepted_by = invitation[i].accepted_by
             /\ invitation'[i].revoked = invitation[i].revoked]_membershipVars

\* At most one invitation of an address is pending, with requests to invite
\* the same person racing (create_tenant_invitation's UPDATE and INSERT).
OnePendingPerAddress ==
    \A i, k \in Invitations :
        Pending(i) /\ Pending(k) /\ invitation[i].email = invitation[k].email
        => i = k

\* A member has no pending invitation: an address is not invited while its
\* owner is joining, and so a member who is removed cannot come back by
\* something that was left over (create_tenant_invitation).
NoInvitationForMembers ==
    \A i \in Invitations : Pending(i) => ~IsMember(invitation[i].email)

\* The organization has its owner and no other, whatever roles are changed,
\* members removed and invitations accepted (change_membership_role,
\* remove_tenant_membership, accept_tenant_invitation).
OneOwner == {u \in Users : member[u] = "owner"} = {Owner}

\* No two accounts of one address are members: a person who signs in with the
\* one while signing up with the other joins once (accept_tenant_invitation
\* against itself and create_tenant_invitation).
OneMemberPerAddress ==
    \A u, v \in Users :
        member[u] # "none" /\ member[v] # "none" /\ EmailOf[u] = EmailOf[v]
        => u = v

\* Seen as the roster: the pending invitations are its offers.
OfferOf(row) == [email |-> row.email, role |-> row.role, lapsed |-> row.expired]

PendingOffers == {OfferOf(invitation[i]) : i \in {k \in Invitations : Pending(k)}}

OfferRoster == INSTANCE Roster WITH
    accounts <- registered,
    role     <- member,
    offers   <- PendingOffers

\* With requests interleaved, aborted and waiting for each other, members,
\* accounts and pending invitations change as if each request were one step
\* that looks at the roster as it is then: an invitation is made by someone
\* who manages the members when it is inserted, for an address no member has,
\* and is accepted as it stands (create_tenant_invitation,
\* accept_tenant_invitation, revoke_tenant_invitation,
\* change_membership_role, remove_tenant_membership).
RosterImplemented == OfferRoster!RosterSpec

\* Whoever is a member has an account.
MembersHaveAccounts == \A u \in Users : member[u] # "none" => u \in registered

\* Whoever has the organization locked for an invitation may still invite,
\* and for the address and role that the invitation will have.
InviterManages ==
    \A w \in Workers :
        In(w, "invite_update")
        => /\ request[w].user \in Users /\ MayManage(request[w].user)
           /\ request[w].email \in Emails

\* Whoever mails an invitation, or failed to, is a user and has inserted it.
InviterKnown ==
    \A w \in Workers :
        request[w].pc \in {"invite_mail", "invite_unsent"}
        => request[w].user \in Users /\ request[w].inv \in Invitations

\* What every step preserves.
MembershipInv ==
    /\ MembershipTypeOK
    /\ OneInvites
    /\ InviteeIsNoMember
    /\ AcceptsOwnInvitation
    /\ OnePendingPerAddress
    /\ NoInvitationForMembers
    /\ OneOwner
    /\ MembersHaveAccounts
    /\ InviterManages
    /\ InviterKnown
=============================================================================
