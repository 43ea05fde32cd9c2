-------------------------- MODULE MembershipProofs --------------------------
(***************************************************************************)
(* Proofs about TenantMembership, for any users, addresses, invitations    *)
(* and workers.                                                            *)
(***************************************************************************)
EXTENDS TenantMembership, TLAPS

\* What becomes of an invitation's row keeps its type.
LEMMA RowTypes ==
    ASSUME NEW row \in InvitationRow
    PROVE  /\ [row EXCEPT !.mailed = TRUE] \in InvitationRow
           /\ [row EXCEPT !.revoked = TRUE] \in InvitationRow
           /\ [row EXCEPT !.expired = TRUE] \in InvitationRow
           /\ \A u \in Users : [row EXCEPT !.accepted_by = u] \in InvitationRow
<1>1. [row EXCEPT !.mailed = TRUE] \in InvitationRow
    BY DEF InvitationRow
<1>2. [row EXCEPT !.revoked = TRUE] \in InvitationRow
    BY DEF InvitationRow
<1>3. [row EXCEPT !.expired = TRUE] \in InvitationRow
    BY DEF InvitationRow
<1>4. \A u \in Users : [row EXCEPT !.accepted_by = u] \in InvitationRow
    BY DEF InvitationRow
<1> QED BY <1>1, <1>2, <1>3, <1>4

\* A new invitation is a row.
LEMMA NewRowTyped ==
    ASSUME NEW e \in Emails, NEW r \in InvitableRoles
    PROVE  [NoRow EXCEPT !.email = e, !.role = r] \in InvitationRow
    BY DEF InvitationRow, NoRow

\* So do requests that go on to their next step.
LEMMA RequestGoesOn ==
    ASSUME NEW q \in Request, NEW pc \in {"invite_mail", "invite_unsent", "accept_tenant"}, NEW i \in Invitations
    PROVE  /\ [q EXCEPT !.pc = pc] \in Request
           /\ [q EXCEPT !.pc = pc, !.inv = i] \in Request
    BY DEF Request

\* Rows and requests keep their types; that a request to accept is somebody's
\* is what AcceptsOwnInvitation says (tenants.services).
LEMMA MembershipTypes ==
    MembershipInv /\ [MembershipNext]_membershipVars => MembershipTypeOK'
<1> SUFFICES ASSUME MembershipInv, [MembershipNext]_membershipVars
             PROVE  MembershipTypeOK'
    OBVIOUS
<1> USE DEF MembershipInv, MembershipTypeOK
<1>0. NoRequest \in Request
    BY MembershipAssumption DEF NoRequest, Request, InvitableRoles
<1>1. ASSUME NEW w \in Workers, NEW actor \in Users, NEW e \in Emails,
             NEW r \in InvitableRoles, InviteBegin(w, actor, e, r)
      PROVE  MembershipTypeOK'
  <2>1. [NoRequest EXCEPT !.pc = "invite_update", !.user = actor, !.email = e,
                          !.role = r] \in Request
      BY <1>0 DEF Request
  <2> QED BY <1>1, <2>1 DEF InviteBegin
<1>2. ASSUME NEW w \in Workers, NEW i \in Invitations, InviteCommit(w, i)
      PROVE  MembershipTypeOK'
  <2>1. [NoRow EXCEPT !.email = request[w].email, !.role = request[w].role]
            \in InvitationRow
      BY MembershipAssumption DEF InvitationRow, NoRow, Request
  <2>2. invitation' \in [Invitations -> InvitationRow]
      BY <1>2, <2>1, RowTypes DEF InviteCommit
  <2>3. [request[w] EXCEPT !.pc = "invite_mail", !.inv = i] \in Request
      BY RequestGoesOn
  <2>4. request' \in [Workers -> Request]
      BY <1>2, <2>3 DEF InviteCommit
  <2> QED BY <1>2, <2>2, <2>4 DEF InviteCommit
<1>3. ASSUME NEW w \in Workers, InviteMail(w)
      PROVE  MembershipTypeOK'
    BY <1>3, <1>0, RowTypes DEF InviteMail, Answer
<1>4. ASSUME NEW w \in Workers, InviteMailFails(w)
      PROVE  MembershipTypeOK'
  <2>1. invitation' \in [Invitations -> InvitationRow]
    <3>1. CASE UNCHANGED invitation
        BY <3>1
    <3>2. CASE invitation' = [invitation EXCEPT ![request[w].inv].mailed = TRUE]
        BY <3>2, RowTypes
    <3> QED BY <1>4, <3>1, <3>2 DEF InviteMailFails
  <2>2. [request[w] EXCEPT !.pc = "invite_unsent"] \in Request
      BY DEF Request
  <2>3. request' \in [Workers -> Request]
      BY <1>4, <2>2 DEF InviteMailFails
  <2> QED BY <1>4, <2>1, <2>3 DEF InviteMailFails
<1>5. ASSUME NEW w \in Workers, InviteUnsent(w)
      PROVE  MembershipTypeOK'
    BY <1>5, <1>0, RowTypes DEF InviteUnsent, Answer
<1>6. ASSUME NEW w \in Workers, NEW i \in Invitations, NEW u \in Users,
             AcceptBegin(w, i, u)
      PROVE  MembershipTypeOK'
  <2>1. [NoRequest EXCEPT !.pc = "accept_lock", !.inv = i, !.user = u] \in Request
      BY <1>0 DEF Request
  <2> QED BY <1>6, <2>1 DEF AcceptBegin
<1>7. ASSUME NEW w \in Workers, AcceptLock(w)
      PROVE  MembershipTypeOK'
  <2>1. [request[w] EXCEPT !.pc = "accept_tenant"] \in Request
      BY DEF Request
  <2> QED BY <1>7, <2>1 DEF AcceptLock
<1>8. ASSUME NEW w \in Workers, AcceptCommit(w)
      PROVE  MembershipTypeOK'
  <2> DEFINE i == request[w].inv
             u == request[w].user
  <2>1. i \in Invitations /\ u \in Users
      BY <1>8 DEF AcceptCommit, AcceptsOwnInvitation, In
  <2>2. request' \in [Workers -> Request]
      BY <1>8, <1>0 DEF AcceptCommit, Answer
  <2>3. CASE Acceptable(i, u)
    <3>1. [invitation[i] EXCEPT !.accepted_by = u] \in InvitationRow
        BY <2>1, RowTypes
    <3>2. invitation' = [invitation EXCEPT ![i].accepted_by = u]
        BY <1>8, <2>3 DEF AcceptCommit
    <3>3. invitation' \in [Invitations -> InvitationRow]
        BY <2>1, <3>1, <3>2
    <3>4. invitation[i].role \in Role
        BY <2>1 DEF InvitationRow, Role
    <3>5. member' \in [Users -> Role \cup {"none"}]
        BY <1>8, <2>1, <2>3, <3>4 DEF AcceptCommit
    <3>6. registered' \subseteq Users
        BY <1>8, <2>1, <2>3 DEF AcceptCommit
    <3> QED BY <2>2, <3>3, <3>5, <3>6
  <2>4. CASE ~Acceptable(i, u)
      BY <1>8, <2>2, <2>4 DEF AcceptCommit
  <2> QED BY <2>3, <2>4
<1>9. ASSUME NEW w \in Workers, Abort(w)
      PROVE  MembershipTypeOK'
    BY <1>9, <1>0 DEF Abort, Answer
<1>10. ASSUME NEW actor \in Users, NEW i \in Invitations,
             RevokeInvitation(actor, i)
      PROVE  MembershipTypeOK'
    BY <1>10, RowTypes DEF RevokeInvitation
<1>11. ASSUME NEW actor \in Users, NEW u \in Users, NEW r \in InvitableRoles,
             ChangeMembershipRole(actor, u, r)
      PROVE  MembershipTypeOK'
    BY <1>11 DEF ChangeMembershipRole, Role
<1>12. ASSUME NEW actor \in Users, NEW u \in Users,
             RemoveMembership(actor, u)
      PROVE  MembershipTypeOK'
    BY <1>12 DEF RemoveMembership
<1>13. ASSUME NEW i \in Invitations, Expire(i)
      PROVE  MembershipTypeOK'
    BY <1>13, RowTypes DEF Expire
<1>14. CASE UNCHANGED membershipVars
    BY <1>14 DEF membershipVars
<1> QED BY <1>1, <1>2, <1>3, <1>4, <1>5, <1>6, <1>7,
           <1>8, <1>9, <1>10, <1>11, <1>12, <1>13, <1>14
        DEF MembershipNext

\* The organization's lock is held by one, and released by whoever has
\* inserted the invitation (create_tenant_invitation).
LEMMA OneInvitesKept ==
    MembershipInv /\ [MembershipNext]_membershipVars => OneInvites'
<1> SUFFICES ASSUME MembershipInv, [MembershipNext]_membershipVars
             PROVE  OneInvites'
    OBVIOUS
<1> USE DEF MembershipInv, MembershipTypeOK, Request, OneInvites, In, NoRequest
<1>1. ASSUME NEW w \in Workers, NEW actor \in Users, NEW e \in Emails,
             NEW r \in InvitableRoles, InviteBegin(w, actor, e, r)
      PROVE  OneInvites'
    BY <1>1 DEF InviteBegin, TenantLocked
<1>2. ASSUME NEW w \in Workers, NEW i \in Invitations, InviteCommit(w, i)
      PROVE  OneInvites'
    BY <1>2 DEF InviteCommit
<1>3. ASSUME NEW w \in Workers, InviteMail(w)
      PROVE  OneInvites'
    BY <1>3 DEF InviteMail, Answer
<1>4. ASSUME NEW w \in Workers, InviteMailFails(w)
      PROVE  OneInvites'
    BY <1>4 DEF InviteMailFails
<1>5. ASSUME NEW w \in Workers, InviteUnsent(w)
      PROVE  OneInvites'
    BY <1>5 DEF InviteUnsent, Answer
<1>6. ASSUME NEW w \in Workers, NEW i \in Invitations, NEW u \in Users,
             AcceptBegin(w, i, u)
      PROVE  OneInvites'
    BY <1>6 DEF AcceptBegin
<1>7. ASSUME NEW w \in Workers, AcceptLock(w)
      PROVE  OneInvites'
    BY <1>7 DEF AcceptLock
<1>8. ASSUME NEW w \in Workers, AcceptCommit(w)
      PROVE  OneInvites'
    BY <1>8 DEF AcceptCommit, Answer
<1>9. ASSUME NEW w \in Workers, Abort(w)
      PROVE  OneInvites'
    BY <1>9 DEF Abort, Answer
<1>10. ASSUME NEW actor \in Users, NEW i \in Invitations,
             RevokeInvitation(actor, i)
      PROVE  OneInvites'
    BY <1>10 DEF RevokeInvitation
<1>11. ASSUME NEW actor \in Users, NEW u \in Users, NEW r \in InvitableRoles,
             ChangeMembershipRole(actor, u, r)
      PROVE  OneInvites'
    BY <1>11 DEF ChangeMembershipRole
<1>12. ASSUME NEW actor \in Users, NEW u \in Users,
             RemoveMembership(actor, u)
      PROVE  OneInvites'
    BY <1>12 DEF RemoveMembership
<1>13. ASSUME NEW i \in Invitations, Expire(i)
      PROVE  OneInvites'
    BY <1>13 DEF Expire
<1>14. CASE UNCHANGED membershipVars
    BY <1>14 DEF membershipVars
<1> QED BY <1>1, <1>2, <1>3, <1>4, <1>5, <1>6, <1>7,
           <1>8, <1>9, <1>10, <1>11, <1>12, <1>13, <1>14
        DEF MembershipNext

\* Nobody joins while the organization is locked for an invitation
\* (create_tenant_invitation against accept_tenant_invitation).
LEMMA InviteesKept ==
    MembershipInv /\ [MembershipNext]_membershipVars => InviteeIsNoMember'
<1> SUFFICES ASSUME MembershipInv, [MembershipNext]_membershipVars
             PROVE  InviteeIsNoMember'
    OBVIOUS
<1> USE DEF MembershipInv, MembershipTypeOK, Request, InviteeIsNoMember, In,
        NoRequest, IsMember
<1>1. ASSUME NEW w \in Workers, NEW actor \in Users, NEW e \in Emails,
             NEW r \in InvitableRoles, InviteBegin(w, actor, e, r)
      PROVE  InviteeIsNoMember'
    BY <1>1 DEF InviteBegin, TenantLocked
<1>2. ASSUME NEW w \in Workers, NEW i \in Invitations, InviteCommit(w, i)
      PROVE  InviteeIsNoMember'
    BY <1>2 DEF InviteCommit
<1>3. ASSUME NEW w \in Workers, InviteMail(w)
      PROVE  InviteeIsNoMember'
    BY <1>3 DEF InviteMail, Answer
<1>4. ASSUME NEW w \in Workers, InviteMailFails(w)
      PROVE  InviteeIsNoMember'
    BY <1>4 DEF InviteMailFails
<1>5. ASSUME NEW w \in Workers, InviteUnsent(w)
      PROVE  InviteeIsNoMember'
    BY <1>5 DEF InviteUnsent, Answer
<1>6. ASSUME NEW w \in Workers, NEW i \in Invitations, NEW u \in Users,
             AcceptBegin(w, i, u)
      PROVE  InviteeIsNoMember'
    BY <1>6 DEF AcceptBegin
<1>7. ASSUME NEW w \in Workers, AcceptLock(w)
      PROVE  InviteeIsNoMember'
    BY <1>7 DEF AcceptLock
<1>8. ASSUME NEW w \in Workers, AcceptCommit(w)
      PROVE  InviteeIsNoMember'
    BY <1>8 DEF AcceptCommit, Answer, TenantLocked
<1>9. ASSUME NEW w \in Workers, Abort(w)
      PROVE  InviteeIsNoMember'
    BY <1>9 DEF Abort, Answer
<1>10. ASSUME NEW actor \in Users, NEW i \in Invitations,
             RevokeInvitation(actor, i)
      PROVE  InviteeIsNoMember'
    BY <1>10 DEF RevokeInvitation
<1>11. ASSUME NEW actor \in Users, NEW u \in Users, NEW r \in InvitableRoles,
             ChangeMembershipRole(actor, u, r)
      PROVE  InviteeIsNoMember'
    BY <1>11 DEF ChangeMembershipRole, TenantLocked
<1>12. ASSUME NEW actor \in Users, NEW u \in Users,
             RemoveMembership(actor, u)
      PROVE  InviteeIsNoMember'
    BY <1>12 DEF RemoveMembership, TenantLocked
<1>13. ASSUME NEW i \in Invitations, Expire(i)
      PROVE  InviteeIsNoMember'
    BY <1>13 DEF Expire
<1>14. CASE UNCHANGED membershipVars
    BY <1>14 DEF membershipVars
<1> QED BY <1>1, <1>2, <1>3, <1>4, <1>5, <1>6, <1>7,
           <1>8, <1>9, <1>10, <1>11, <1>12, <1>13, <1>14
        DEF MembershipNext

\* An invitation keeps its address for ever
\* (tenants.services.accept_tenant_invitation).
LEMMA AcceptsKept ==
    MembershipInv /\ [MembershipNext]_membershipVars => AcceptsOwnInvitation'
<1> SUFFICES ASSUME MembershipInv, [MembershipNext]_membershipVars
             PROVE  AcceptsOwnInvitation'
    OBVIOUS
<1> USE MembershipAssumption
        DEF MembershipInv, MembershipTypeOK, Request, InvitationRow,
            AcceptsOwnInvitation, In, NoRequest, NoRow, Exists
<1>1. ASSUME NEW w \in Workers, NEW actor \in Users, NEW e \in Emails,
             NEW r \in InvitableRoles, InviteBegin(w, actor, e, r)
      PROVE  AcceptsOwnInvitation'
    BY <1>1 DEF InviteBegin
<1>2. ASSUME NEW w \in Workers, NEW i \in Invitations, InviteCommit(w, i)
      PROVE  AcceptsOwnInvitation'
    BY <1>2 DEF InviteCommit
<1>3. ASSUME NEW w \in Workers, InviteMail(w)
      PROVE  AcceptsOwnInvitation'
    BY <1>3 DEF InviteMail, Answer
<1>4. ASSUME NEW w \in Workers, InviteMailFails(w)
      PROVE  AcceptsOwnInvitation'
  <2>1. \A k \in Invitations : invitation'[k].email = invitation[k].email
      BY <1>4 DEF InviteMailFails
  <2>2. \A v \in Workers :
            request'[v].pc \in {"accept_lock", "accept_tenant"}
            => request'[v] = request[v]
      BY <1>4 DEF InviteMailFails
  <2> QED BY <2>1, <2>2
<1>5. ASSUME NEW w \in Workers, InviteUnsent(w)
      PROVE  AcceptsOwnInvitation'
    BY <1>5 DEF InviteUnsent, Answer
<1>6. ASSUME NEW w \in Workers, NEW i \in Invitations, NEW u \in Users,
             AcceptBegin(w, i, u)
      PROVE  AcceptsOwnInvitation'
    BY <1>6 DEF AcceptBegin, Active, Pending
<1>7. ASSUME NEW w \in Workers, AcceptLock(w)
      PROVE  AcceptsOwnInvitation'
    BY <1>7 DEF AcceptLock
<1>8. ASSUME NEW w \in Workers, AcceptCommit(w)
      PROVE  AcceptsOwnInvitation'
  <2>1. \A k \in Invitations : invitation'[k].email = invitation[k].email
      BY <1>8 DEF AcceptCommit
  <2>2. \A v \in Workers :
            request'[v].pc \in {"accept_lock", "accept_tenant"}
            => request'[v] = request[v]
      BY <1>8 DEF AcceptCommit, Answer
  <2> QED BY <2>1, <2>2
<1>9. ASSUME NEW w \in Workers, Abort(w)
      PROVE  AcceptsOwnInvitation'
    BY <1>9 DEF Abort, Answer
<1>10. ASSUME NEW actor \in Users, NEW i \in Invitations,
             RevokeInvitation(actor, i)
      PROVE  AcceptsOwnInvitation'
    BY <1>10 DEF RevokeInvitation
<1>11. ASSUME NEW actor \in Users, NEW u \in Users, NEW r \in InvitableRoles,
             ChangeMembershipRole(actor, u, r)
      PROVE  AcceptsOwnInvitation'
    BY <1>11 DEF ChangeMembershipRole
<1>12. ASSUME NEW actor \in Users, NEW u \in Users,
             RemoveMembership(actor, u)
      PROVE  AcceptsOwnInvitation'
    BY <1>12 DEF RemoveMembership
<1>13. ASSUME NEW i \in Invitations, Expire(i)
      PROVE  AcceptsOwnInvitation'
    BY <1>13 DEF Expire
<1>14. CASE UNCHANGED membershipVars
    BY <1>14 DEF membershipVars
<1> QED BY <1>1, <1>2, <1>3, <1>4, <1>5, <1>6, <1>7,
           <1>8, <1>9, <1>10, <1>11, <1>12, <1>13, <1>14
        DEF MembershipNext

\* A new invitation supersedes the pending ones of its address
\* (create_tenant_invitation).
LEMMA PendingKept ==
    MembershipInv /\ [MembershipNext]_membershipVars => OnePendingPerAddress'
<1> SUFFICES ASSUME MembershipInv, [MembershipNext]_membershipVars
             PROVE  OnePendingPerAddress'
    OBVIOUS
<1> USE MembershipAssumption
        DEF MembershipInv, MembershipTypeOK, Request, InvitationRow,
            OnePendingPerAddress, In, NoRow, Exists, Accepted, Pending
<1>1. ASSUME NEW w \in Workers, NEW actor \in Users, NEW e \in Emails,
             NEW r \in InvitableRoles, InviteBegin(w, actor, e, r)
      PROVE  OnePendingPerAddress'
    BY <1>1 DEF InviteBegin
<1>2. ASSUME NEW w \in Workers, NEW i \in Invitations, InviteCommit(w, i)
      PROVE  OnePendingPerAddress'
    BY <1>2 DEF InviteCommit, Superseded
<1>3. ASSUME NEW w \in Workers, InviteMail(w)
      PROVE  OnePendingPerAddress'
    BY <1>3 DEF InviteMail
<1>4. ASSUME NEW w \in Workers, InviteMailFails(w)
      PROVE  OnePendingPerAddress'
  <2>1. \A k \in Invitations : /\ Pending(k)' <=> Pending(k)
                                /\ invitation'[k].email = invitation[k].email
    <3>1. CASE UNCHANGED invitation
        BY <3>1
    <3>2. CASE invitation' = [invitation EXCEPT ![request[w].inv].mailed = TRUE]
        BY <3>2
    <3> QED BY <1>4, <3>1, <3>2 DEF InviteMailFails
  <2> QED BY <1>4, <2>1 DEF InviteMailFails
<1>5. ASSUME NEW w \in Workers, InviteUnsent(w)
      PROVE  OnePendingPerAddress'
    BY <1>5 DEF InviteUnsent
<1>6. ASSUME NEW w \in Workers, NEW i \in Invitations, NEW u \in Users,
             AcceptBegin(w, i, u)
      PROVE  OnePendingPerAddress'
    BY <1>6 DEF AcceptBegin
<1>7. ASSUME NEW w \in Workers, AcceptLock(w)
      PROVE  OnePendingPerAddress'
    BY <1>7 DEF AcceptLock
<1>8. ASSUME NEW w \in Workers, AcceptCommit(w)
      PROVE  OnePendingPerAddress'
  <2>1. \A k \in Invitations : invitation'[k].email = invitation[k].email
      BY <1>8 DEF AcceptCommit
  <2>2. \A k \in Invitations : Pending(k)' => Pending(k)
      BY <1>8, <2>1 DEF AcceptCommit, AcceptsOwnInvitation
  <2> QED BY <2>1, <2>2
<1>9. ASSUME NEW w \in Workers, Abort(w)
      PROVE  OnePendingPerAddress'
    BY <1>9 DEF Abort
<1>10. ASSUME NEW actor \in Users, NEW i \in Invitations,
             RevokeInvitation(actor, i)
      PROVE  OnePendingPerAddress'
    BY <1>10 DEF RevokeInvitation
<1>11. ASSUME NEW actor \in Users, NEW u \in Users, NEW r \in InvitableRoles,
             ChangeMembershipRole(actor, u, r)
      PROVE  OnePendingPerAddress'
    BY <1>11 DEF ChangeMembershipRole
<1>12. ASSUME NEW actor \in Users, NEW u \in Users,
             RemoveMembership(actor, u)
      PROVE  OnePendingPerAddress'
    BY <1>12 DEF RemoveMembership
<1>13. ASSUME NEW i \in Invitations, Expire(i)
      PROVE  OnePendingPerAddress'
    BY <1>13 DEF Expire
<1>14. CASE UNCHANGED membershipVars
    BY <1>14 DEF membershipVars
<1> QED BY <1>1, <1>2, <1>3, <1>4, <1>5, <1>6, <1>7,
           <1>8, <1>9, <1>10, <1>11, <1>12, <1>13, <1>14
        DEF MembershipNext

\* Whoever joins uses up the one pending invitation of their address, and
\* none is created for a member (create_tenant_invitation,
\* accept_tenant_invitation).
LEMMA MembersKept ==
    MembershipInv /\ [MembershipNext]_membershipVars => NoInvitationForMembers'
<1> SUFFICES ASSUME MembershipInv, [MembershipNext]_membershipVars
             PROVE  NoInvitationForMembers'
    OBVIOUS
<1> USE MembershipAssumption
        DEF MembershipInv, MembershipTypeOK, Request, InvitationRow,
            NoInvitationForMembers, In, NoRow, Exists, Accepted, Pending, IsMember
<1>1. ASSUME NEW w \in Workers, NEW actor \in Users, NEW e \in Emails,
             NEW r \in InvitableRoles, InviteBegin(w, actor, e, r)
      PROVE  NoInvitationForMembers'
    BY <1>1 DEF InviteBegin
<1>2. ASSUME NEW w \in Workers, NEW i \in Invitations, InviteCommit(w, i)
      PROVE  NoInvitationForMembers'
    BY <1>2 DEF InviteCommit, InviteeIsNoMember
<1>3. ASSUME NEW w \in Workers, InviteMail(w)
      PROVE  NoInvitationForMembers'
    BY <1>3 DEF InviteMail
<1>4. ASSUME NEW w \in Workers, InviteMailFails(w)
      PROVE  NoInvitationForMembers'
  <2>1. \A k \in Invitations : /\ Pending(k)' <=> Pending(k)
                                /\ invitation'[k].email = invitation[k].email
    <3>1. CASE UNCHANGED invitation
        BY <3>1
    <3>2. CASE invitation' = [invitation EXCEPT ![request[w].inv].mailed = TRUE]
        BY <3>2
    <3> QED BY <1>4, <3>1, <3>2 DEF InviteMailFails
  <2> QED BY <1>4, <2>1 DEF InviteMailFails
<1>5. ASSUME NEW w \in Workers, InviteUnsent(w)
      PROVE  NoInvitationForMembers'
    BY <1>5 DEF InviteUnsent
<1>6. ASSUME NEW w \in Workers, NEW i \in Invitations, NEW u \in Users,
             AcceptBegin(w, i, u)
      PROVE  NoInvitationForMembers'
    BY <1>6 DEF AcceptBegin
<1>7. ASSUME NEW w \in Workers, AcceptLock(w)
      PROVE  NoInvitationForMembers'
    BY <1>7 DEF AcceptLock
<1>8. ASSUME NEW w \in Workers, AcceptCommit(w)
      PROVE  NoInvitationForMembers'
    BY <1>8 DEF AcceptCommit, Acceptable, Active, OnePendingPerAddress,
                AcceptsOwnInvitation
<1>9. ASSUME NEW w \in Workers, Abort(w)
      PROVE  NoInvitationForMembers'
    BY <1>9 DEF Abort
<1>10. ASSUME NEW actor \in Users, NEW i \in Invitations,
             RevokeInvitation(actor, i)
      PROVE  NoInvitationForMembers'
    BY <1>10 DEF RevokeInvitation
<1>11. ASSUME NEW actor \in Users, NEW u \in Users, NEW r \in InvitableRoles,
             ChangeMembershipRole(actor, u, r)
      PROVE  NoInvitationForMembers'
    BY <1>11 DEF ChangeMembershipRole, Changeable
<1>12. ASSUME NEW actor \in Users, NEW u \in Users,
             RemoveMembership(actor, u)
      PROVE  NoInvitationForMembers'
    BY <1>12 DEF RemoveMembership
<1>13. ASSUME NEW i \in Invitations, Expire(i)
      PROVE  NoInvitationForMembers'
    BY <1>13 DEF Expire
<1>14. CASE UNCHANGED membershipVars
    BY <1>14 DEF membershipVars
<1> QED BY <1>1, <1>2, <1>3, <1>4, <1>5, <1>6, <1>7,
           <1>8, <1>9, <1>10, <1>11, <1>12, <1>13, <1>14
        DEF MembershipNext

\* The owner's row is left alone, and no one is made an owner
\* (change_membership_role, remove_tenant_membership).
LEMMA OwnerKept ==
    MembershipInv /\ [MembershipNext]_membershipVars => OneOwner'
<1> SUFFICES ASSUME MembershipInv, [MembershipNext]_membershipVars
             PROVE  OneOwner'
    OBVIOUS
<1> USE MembershipAssumption
        DEF MembershipInv, MembershipTypeOK, Request, InvitationRow, OneOwner,
            InvitableRoles
<1>1. ASSUME NEW w \in Workers, NEW actor \in Users, NEW e \in Emails,
             NEW r \in InvitableRoles, InviteBegin(w, actor, e, r)
      PROVE  OneOwner'
    BY <1>1 DEF InviteBegin
<1>2. ASSUME NEW w \in Workers, NEW i \in Invitations, InviteCommit(w, i)
      PROVE  OneOwner'
    BY <1>2 DEF InviteCommit
<1>3. ASSUME NEW w \in Workers, InviteMail(w)
      PROVE  OneOwner'
    BY <1>3 DEF InviteMail
<1>4. ASSUME NEW w \in Workers, InviteMailFails(w)
      PROVE  OneOwner'
    BY <1>4 DEF InviteMailFails
<1>5. ASSUME NEW w \in Workers, InviteUnsent(w)
      PROVE  OneOwner'
    BY <1>5 DEF InviteUnsent
<1>6. ASSUME NEW w \in Workers, NEW i \in Invitations, NEW u \in Users,
             AcceptBegin(w, i, u)
      PROVE  OneOwner'
    BY <1>6 DEF AcceptBegin
<1>7. ASSUME NEW w \in Workers, AcceptLock(w)
      PROVE  OneOwner'
    BY <1>7 DEF AcceptLock
<1>8. ASSUME NEW w \in Workers, AcceptCommit(w)
      PROVE  OneOwner'
    BY <1>8 DEF AcceptCommit, Acceptable, AcceptsOwnInvitation, In
<1>9. ASSUME NEW w \in Workers, Abort(w)
      PROVE  OneOwner'
    BY <1>9 DEF Abort
<1>10. ASSUME NEW actor \in Users, NEW i \in Invitations,
             RevokeInvitation(actor, i)
      PROVE  OneOwner'
    BY <1>10 DEF RevokeInvitation
<1>11. ASSUME NEW actor \in Users, NEW u \in Users, NEW r \in InvitableRoles,
             ChangeMembershipRole(actor, u, r)
      PROVE  OneOwner'
    BY <1>11 DEF ChangeMembershipRole, Changeable
<1>12. ASSUME NEW actor \in Users, NEW u \in Users,
             RemoveMembership(actor, u)
      PROVE  OneOwner'
    BY <1>12 DEF RemoveMembership, Changeable
<1>13. ASSUME NEW i \in Invitations, Expire(i)
      PROVE  OneOwner'
    BY <1>13 DEF Expire
<1>14. CASE UNCHANGED membershipVars
    BY <1>14 DEF membershipVars
<1> QED BY <1>1, <1>2, <1>3, <1>4, <1>5, <1>6, <1>7,
           <1>8, <1>9, <1>10, <1>11, <1>12, <1>13, <1>14
        DEF MembershipNext
\* Accepting makes the account with the membership, and no account is removed
\* (accept_tenant_invitation).
LEMMA AccountsKept ==
    MembershipInv /\ [MembershipNext]_membershipVars => MembersHaveAccounts'
<1> SUFFICES ASSUME MembershipInv, [MembershipNext]_membershipVars
             PROVE  MembersHaveAccounts'
    OBVIOUS
<1> USE DEF MembershipInv, MembershipTypeOK, MembersHaveAccounts
<1>1. ASSUME NEW w \in Workers, NEW actor \in Users, NEW e \in Emails,
             NEW r \in InvitableRoles, InviteBegin(w, actor, e, r)
      PROVE  MembersHaveAccounts'
    BY <1>1 DEF InviteBegin
<1>2. ASSUME NEW w \in Workers, NEW i \in Invitations, InviteCommit(w, i)
      PROVE  MembersHaveAccounts'
    BY <1>2 DEF InviteCommit
<1>3. ASSUME NEW w \in Workers, InviteMail(w)
      PROVE  MembersHaveAccounts'
    BY <1>3 DEF InviteMail
<1>4. ASSUME NEW w \in Workers, InviteMailFails(w)
      PROVE  MembersHaveAccounts'
    BY <1>4 DEF InviteMailFails
<1>5. ASSUME NEW w \in Workers, InviteUnsent(w)
      PROVE  MembersHaveAccounts'
    BY <1>5 DEF InviteUnsent
<1>6. ASSUME NEW w \in Workers, NEW i \in Invitations, NEW u \in Users,
             AcceptBegin(w, i, u)
      PROVE  MembersHaveAccounts'
    BY <1>6 DEF AcceptBegin
<1>7. ASSUME NEW w \in Workers, AcceptLock(w)
      PROVE  MembersHaveAccounts'
    BY <1>7 DEF AcceptLock
<1>8. ASSUME NEW w \in Workers, AcceptCommit(w)
      PROVE  MembersHaveAccounts'
    BY <1>8 DEF AcceptCommit, AcceptsOwnInvitation, In
<1>9. ASSUME NEW w \in Workers, Abort(w)
      PROVE  MembersHaveAccounts'
    BY <1>9 DEF Abort
<1>10. ASSUME NEW actor \in Users, NEW i \in Invitations,
             RevokeInvitation(actor, i)
      PROVE  MembersHaveAccounts'
    BY <1>10 DEF RevokeInvitation
<1>11. ASSUME NEW actor \in Users, NEW u \in Users, NEW r \in InvitableRoles,
             ChangeMembershipRole(actor, u, r)
      PROVE  MembersHaveAccounts'
    BY <1>11 DEF ChangeMembershipRole, Changeable
<1>12. ASSUME NEW actor \in Users, NEW u \in Users, RemoveMembership(actor, u)
      PROVE  MembersHaveAccounts'
    BY <1>12 DEF RemoveMembership
<1>13. ASSUME NEW i \in Invitations, Expire(i)
      PROVE  MembersHaveAccounts'
    BY <1>13 DEF Expire
<1>14. CASE UNCHANGED membershipVars
    BY <1>14 DEF membershipVars
<1> QED BY <1>1, <1>2, <1>3, <1>4, <1>5, <1>6, <1>7,
           <1>8, <1>9, <1>10, <1>11, <1>12, <1>13, <1>14
        DEF MembershipNext

\* Nobody's role changes while the organization is locked for an invitation
\* (create_tenant_invitation against change_membership_role and
\* remove_tenant_membership).
LEMMA InvitersKept ==
    MembershipInv /\ [MembershipNext]_membershipVars => InviterManages'
<1> SUFFICES ASSUME MembershipInv, [MembershipNext]_membershipVars
             PROVE  InviterManages'
    OBVIOUS
<1> USE DEF MembershipInv, MembershipTypeOK, Request, InviterManages, In,
        NoRequest, MayManage
<1>1. ASSUME NEW w \in Workers, NEW actor \in Users, NEW e \in Emails,
             NEW r \in InvitableRoles, InviteBegin(w, actor, e, r)
      PROVE  InviterManages'
    BY <1>1 DEF InviteBegin
<1>2. ASSUME NEW w \in Workers, NEW i \in Invitations, InviteCommit(w, i)
      PROVE  InviterManages'
    BY <1>2 DEF InviteCommit
<1>3. ASSUME NEW w \in Workers, InviteMail(w)
      PROVE  InviterManages'
    BY <1>3 DEF InviteMail, Answer
<1>4. ASSUME NEW w \in Workers, InviteMailFails(w)
      PROVE  InviterManages'
    BY <1>4 DEF InviteMailFails
<1>5. ASSUME NEW w \in Workers, InviteUnsent(w)
      PROVE  InviterManages'
    BY <1>5 DEF InviteUnsent, Answer
<1>6. ASSUME NEW w \in Workers, NEW i \in Invitations, NEW u \in Users,
             AcceptBegin(w, i, u)
      PROVE  InviterManages'
    BY <1>6 DEF AcceptBegin
<1>7. ASSUME NEW w \in Workers, AcceptLock(w)
      PROVE  InviterManages'
    BY <1>7 DEF AcceptLock
<1>8. ASSUME NEW w \in Workers, AcceptCommit(w)
      PROVE  InviterManages'
    BY <1>8 DEF AcceptCommit, TenantLocked, Answer
<1>9. ASSUME NEW w \in Workers, Abort(w)
      PROVE  InviterManages'
    BY <1>9 DEF Abort, Answer
<1>10. ASSUME NEW actor \in Users, NEW i \in Invitations,
             RevokeInvitation(actor, i)
      PROVE  InviterManages'
    BY <1>10 DEF RevokeInvitation
<1>11. ASSUME NEW actor \in Users, NEW u \in Users, NEW r \in InvitableRoles,
             ChangeMembershipRole(actor, u, r)
      PROVE  InviterManages'
    BY <1>11 DEF ChangeMembershipRole, TenantLocked
<1>12. ASSUME NEW actor \in Users, NEW u \in Users, RemoveMembership(actor, u)
      PROVE  InviterManages'
    BY <1>12 DEF RemoveMembership, TenantLocked
<1>13. ASSUME NEW i \in Invitations, Expire(i)
      PROVE  InviterManages'
    BY <1>13 DEF Expire
<1>14. CASE UNCHANGED membershipVars
    BY <1>14 DEF membershipVars
<1> QED BY <1>1, <1>2, <1>3, <1>4, <1>5, <1>6, <1>7,
           <1>8, <1>9, <1>10, <1>11, <1>12, <1>13, <1>14
        DEF MembershipNext

\* A request keeps its user to its end, and its invitation once it is inserted
\* (tenant_invite).
LEMMA InviterStaysKnown ==
    MembershipInv /\ [MembershipNext]_membershipVars => InviterKnown'
<1> SUFFICES ASSUME MembershipInv, [MembershipNext]_membershipVars
             PROVE  InviterKnown'
    OBVIOUS
<1> USE DEF MembershipInv, MembershipTypeOK, Request, InviterKnown, InviterManages,
        In, NoRequest
<1>1. ASSUME NEW w \in Workers, NEW actor \in Users, NEW e \in Emails,
             NEW r \in InvitableRoles, InviteBegin(w, actor, e, r)
      PROVE  InviterKnown'
    BY <1>1 DEF InviteBegin
<1>2. ASSUME NEW w \in Workers, NEW i \in Invitations, InviteCommit(w, i)
      PROVE  InviterKnown'
    BY <1>2 DEF InviteCommit
<1>3. ASSUME NEW w \in Workers, InviteMail(w)
      PROVE  InviterKnown'
    BY <1>3 DEF InviteMail, Answer
<1>4. ASSUME NEW w \in Workers, InviteMailFails(w)
      PROVE  InviterKnown'
    BY <1>4 DEF InviteMailFails
<1>5. ASSUME NEW w \in Workers, InviteUnsent(w)
      PROVE  InviterKnown'
    BY <1>5 DEF InviteUnsent, Answer
<1>6. ASSUME NEW w \in Workers, NEW i \in Invitations, NEW u \in Users,
             AcceptBegin(w, i, u)
      PROVE  InviterKnown'
    BY <1>6 DEF AcceptBegin
<1>7. ASSUME NEW w \in Workers, AcceptLock(w)
      PROVE  InviterKnown'
    BY <1>7 DEF AcceptLock
<1>8. ASSUME NEW w \in Workers, AcceptCommit(w)
      PROVE  InviterKnown'
    BY <1>8 DEF AcceptCommit, Answer
<1>9. ASSUME NEW w \in Workers, Abort(w)
      PROVE  InviterKnown'
    BY <1>9 DEF Abort, Answer
<1>10. ASSUME NEW actor \in Users, NEW i \in Invitations,
             RevokeInvitation(actor, i)
      PROVE  InviterKnown'
    BY <1>10 DEF RevokeInvitation
<1>11. ASSUME NEW actor \in Users, NEW u \in Users, NEW r \in InvitableRoles,
             ChangeMembershipRole(actor, u, r)
      PROVE  InviterKnown'
    BY <1>11 DEF ChangeMembershipRole
<1>12. ASSUME NEW actor \in Users, NEW u \in Users, RemoveMembership(actor, u)
      PROVE  InviterKnown'
    BY <1>12 DEF RemoveMembership
<1>13. ASSUME NEW i \in Invitations, Expire(i)
      PROVE  InviterKnown'
    BY <1>13 DEF Expire
<1>14. CASE UNCHANGED membershipVars
    BY <1>14 DEF membershipVars
<1> QED BY <1>1, <1>2, <1>3, <1>4, <1>5, <1>6, <1>7,
           <1>8, <1>9, <1>10, <1>11, <1>12, <1>13, <1>14
        DEF MembershipNext

---------------------------------------------------------------------------

LEMMA MembershipStarts == MembershipInit => MembershipInv
<1> USE MembershipAssumption
<1> SUFFICES ASSUME MembershipInit PROVE MembershipInv
    OBVIOUS
<1>1. MembershipTypeOK
    BY DEF MembershipInit, MembershipTypeOK, Request, NoRequest, InvitationRow,
           NoRow, Role, InvitableRoles
<1>2. OneInvites /\ InviteeIsNoMember /\ AcceptsOwnInvitation
    BY DEF MembershipInit, OneInvites, InviteeIsNoMember, AcceptsOwnInvitation,
           In, NoRequest
<1>3. OnePendingPerAddress /\ NoInvitationForMembers
    BY DEF MembershipInit, OnePendingPerAddress, NoInvitationForMembers,
           Pending, Exists, NoRow
<1>4. OneOwner
    BY DEF MembershipInit, OneOwner
<1>5. MembersHaveAccounts /\ InviterManages /\ InviterKnown
    BY DEF MembershipInit, MembersHaveAccounts, InviterManages, InviterKnown,
           In, NoRequest
<1> QED BY <1>1, <1>2, <1>3, <1>4, <1>5 DEF MembershipInv

\* Every reachable state of the organization's members, invitations and
\* requests satisfies the inductive invariant (tenants.services).
THEOREM MembershipSafe == MembershipSpec => []MembershipInv
<1>1. MembershipInv /\ [MembershipNext]_membershipVars => MembershipInv'
    BY MembershipTypes, OneInvitesKept, InviteesKept, AcceptsKept, PendingKept,
       MembersKept, OwnerKept, AccountsKept, InvitersKept, InviterStaysKnown
    DEF MembershipInv
<1> QED BY <1>1, MembershipStarts, PTL DEF MembershipSpec

\* At most one invitation of an address is pending (create_tenant_invitation).
THEOREM PendingIsUnique == MembershipSpec => []OnePendingPerAddress
<1>1. MembershipInv => OnePendingPerAddress
    BY DEF MembershipInv
<1> QED BY <1>1, MembershipSafe, PTL

\* A member has no pending invitation (create_tenant_invitation against
\* accept_tenant_invitation).
THEOREM MembersAreNotInvited == MembershipSpec => []NoInvitationForMembers
<1>1. MembershipInv => NoInvitationForMembers
    BY DEF MembershipInv
<1> QED BY <1>1, MembershipSafe, PTL

\* The organization keeps its one owner (change_membership_role,
\* remove_tenant_membership, accept_tenant_invitation).
THEOREM OwnerIsKept == MembershipSpec => []OneOwner
<1>1. MembershipInv => OneOwner
    BY DEF MembershipInv
<1> QED BY <1>1, MembershipSafe, PTL

---------------------------------------------------------------------------
(* What a step may do. *)

\* Only accept_tenant_invitation makes members and accounts, and it looks at
\* the invitation again once it has the lock.
THEOREM JoiningNeedsInvitation == MembershipSpec => JoinsByInvitation
<1> DEFINE Joins(u) ==
              \/ member[u] = "none" /\ member'[u] # "none"
              \/ u \notin registered /\ u \in registered'
           UsesUp(u, i) ==
              /\ Active(i)
              /\ invitation[i].email = EmailOf[u]
              /\ invitation'[i].accepted_by = u
              /\ member'[u] = invitation[i].role
<1>1. ASSUME MembershipInv, [MembershipNext]_membershipVars, NEW u \in Users,
             Joins(u)
      PROVE  \E i \in Invitations : UsesUp(u, i)
  <2> USE DEF MembershipInv, MembershipTypeOK
  <2>1. PICK w \in Workers : AcceptCommit(w)
    <3>1. ~UNCHANGED <<registered, member>>
        BY <1>1
    <3>2. ASSUME NEW actor \in Users, NEW v \in Users, Changeable(actor, v),
                 NEW r, member' = [member EXCEPT ![v] = r], UNCHANGED registered
          PROVE  FALSE
        BY <1>1, <3>2 DEF Changeable
    <3> QED BY <1>1, <3>1, <3>2
            DEF MembershipNext, membershipVars, InviteBegin, InviteCommit,
                InviteMail, InviteMailFails, InviteUnsent, AcceptBegin, AcceptLock,
                Abort, RevokeInvitation, ChangeMembershipRole, RemoveMembership,
                Expire
  <2> DEFINE i == request[w].inv
  <2>2. /\ i \in Invitations
        /\ request[w].user \in Users
        /\ EmailOf[request[w].user] = invitation[i].email
      BY <1>1, <2>1 DEF AcceptCommit, AcceptsOwnInvitation, In
  <2>3. Acceptable(i, request[w].user)
      BY <1>1, <2>1 DEF AcceptCommit
  <2>4. /\ member' = [member EXCEPT ![request[w].user] = invitation[i].role]
        /\ registered' = registered \cup {request[w].user}
        /\ invitation' = [invitation EXCEPT ![i].accepted_by = request[w].user]
      BY <2>1, <2>3 DEF AcceptCommit
  <2>5. u = request[w].user
      BY <1>1, <2>2, <2>4
  <2>6. invitation'[i].accepted_by = u
      BY <1>1, <2>2, <2>4, <2>5 DEF InvitationRow
  <2>7. UsesUp(u, i)
      BY <1>1, <2>2, <2>3, <2>4, <2>5, <2>6 DEF Acceptable
  <2> QED BY <2>2, <2>7
<1>2. MembershipInv /\ [MembershipNext]_membershipVars
      => [\A u \in Users :
            Joins(u) => \E i \in Invitations : UsesUp(u, i)]_membershipVars
    BY <1>1
<1> QED BY <1>2, MembershipSafe, PTL DEF MembershipSpec, JoinsByInvitation

\* Neither a revocation, nor a new invitation, nor an acceptance touches an
\* invitation that is settled (revoke_tenant_invitation,
\* create_tenant_invitation, accept_tenant_invitation).
THEOREM OutcomesAreFinal == MembershipSpec => OutcomeIsFinal
<1> DEFINE Same(i) ==
              /\ invitation'[i].accepted_by = invitation[i].accepted_by
              /\ invitation'[i].revoked = invitation[i].revoked
<1>1. ASSUME MembershipInv, [MembershipNext]_membershipVars,
             NEW i \in Invitations, Exists(i), ~Pending(i)
      PROVE  Same(i)
  <2> USE DEF MembershipInv, MembershipTypeOK
  <2>1. ASSUME NEW w \in Workers, NEW k \in Invitations, InviteCommit(w, k)
        PROVE  Same(i)
      BY <1>1, <2>1 DEF InviteCommit, Superseded
  <2>2. ASSUME NEW w \in Workers, InviteMail(w)
        PROVE  Same(i)
      BY <2>2 DEF InviteMail, InvitationRow
  <2>3. ASSUME NEW w \in Workers, InviteMailFails(w)
        PROVE  Same(i)
    <3>1. CASE UNCHANGED invitation
        BY <3>1
    <3>2. CASE invitation' = [invitation EXCEPT ![request[w].inv].mailed = TRUE]
        BY <3>2 DEF InvitationRow
    <3> QED BY <2>3, <3>1, <3>2 DEF InviteMailFails
  <2>4. ASSUME NEW k \in Invitations, Revocable(k),
               invitation' = [invitation EXCEPT ![k].revoked = TRUE]
        PROVE  Same(i)
      BY <1>1, <2>4 DEF Revocable, Pending, Accepted, Exists, InvitationRow
  <2>5. ASSUME NEW w \in Workers, AcceptCommit(w)
        PROVE  Same(i)
      BY <1>1, <2>5 DEF AcceptCommit, Acceptable, Active, InvitationRow
  <2>6. ASSUME NEW k \in Invitations, Expire(k)
        PROVE  Same(i)
      BY <2>6 DEF Expire, InvitationRow
  <2>7. ASSUME UNCHANGED invitation
        PROVE  Same(i)
      BY <2>7
  <2> QED BY <1>1, <2>1, <2>2, <2>3, <2>4, <2>5, <2>6, <2>7
          DEF MembershipNext, membershipVars, InviteBegin, InviteUnsent,
              AcceptBegin, AcceptLock, Abort, RevokeInvitation,
              ChangeMembershipRole, RemoveMembership
<1>2. MembershipInv /\ [MembershipNext]_membershipVars
      => [\A i \in Invitations :
            Exists(i) /\ ~Pending(i) => Same(i)]_membershipVars
    BY <1>1
<1> QED BY <1>2, MembershipSafe, PTL DEF MembershipSpec, OutcomeIsFinal

---------------------------------------------------------------------------
(* The roster. *)

\* A step of the roster, or one that leaves it alone.
RosterStep == OfferRoster!RosterNext \/ UNCHANGED OfferRoster!rosterVars

LEMMA SetLapsed ==
    ASSUME NEW e, NEW r, NEW before, NEW after
    PROVE  [[email |-> e, role |-> r, lapsed |-> before] EXCEPT !.lapsed = after]
           = [email |-> e, role |-> r, lapsed |-> after]
    OBVIOUS

LEMMA SameOffers ==
    ASSUME \A k \in Invitations :
               /\ Pending(k)' <=> Pending(k)
               /\ Pending(k) => OfferOf(invitation[k])' = OfferOf(invitation[k])
    PROVE  PendingOffers' = PendingOffers
    BY DEF PendingOffers

\* An invitation that is revoked or accepted takes its offer with it: no other
\* pending one has its address.
LEMMA OfferGone ==
    ASSUME OnePendingPerAddress, NEW i \in Invitations, Pending(i), ~Pending(i)',
           \A k \in Invitations \ {i} :
               /\ Pending(k)' <=> Pending(k)
               /\ Pending(k) => OfferOf(invitation[k])' = OfferOf(invitation[k])
    PROVE  /\ OfferOf(invitation[i]) \in PendingOffers
           /\ PendingOffers' = PendingOffers \ {OfferOf(invitation[i])}
<1>1. \A k \in Invitations \ {i} :
          Pending(k) => OfferOf(invitation[k]) # OfferOf(invitation[i])
    BY DEF OnePendingPerAddress, OfferOf
<1> QED BY <1>1 DEF PendingOffers

\* An invitation that expires lets its offer lapse.
LEMMA OfferLapsed ==
    ASSUME OnePendingPerAddress, NEW i \in Invitations, Pending(i), Pending(i)',
           OfferOf(invitation[i])' = [OfferOf(invitation[i]) EXCEPT !.lapsed = TRUE],
           \A k \in Invitations \ {i} :
               /\ Pending(k)' <=> Pending(k)
               /\ Pending(k) => OfferOf(invitation[k])' = OfferOf(invitation[k])
    PROVE  /\ OfferOf(invitation[i]) \in PendingOffers
           /\ PendingOffers' =
                (PendingOffers \ {OfferOf(invitation[i])})
                \cup {[OfferOf(invitation[i]) EXCEPT !.lapsed = TRUE]}
<1>1. \A k \in Invitations \ {i} :
          Pending(k) => OfferOf(invitation[k]) # OfferOf(invitation[i])
    BY DEF OnePendingPerAddress, OfferOf
<1> DEFINE x == OfferOf(invitation[i])
           y == [x EXCEPT !.lapsed = TRUE]
<1>2. x \in PendingOffers
    BY DEF PendingOffers
<1>3. ASSUME NEW z \in PendingOffers' PROVE z \in (PendingOffers \ {x}) \cup {y}
  <2>1. PICK k \in Invitations : Pending(k)' /\ z = OfferOf(invitation[k])'
      BY <1>3 DEF PendingOffers
  <2>2. CASE k = i
      BY <2>1, <2>2
  <2>3. CASE k # i
      BY <1>1, <2>1, <2>3 DEF PendingOffers
  <2> QED BY <2>2, <2>3
<1>4. ASSUME NEW z \in (PendingOffers \ {x}) \cup {y} PROVE z \in PendingOffers'
  <2>1. CASE z = y
      BY <2>1 DEF PendingOffers
  <2>2. CASE z \in PendingOffers \ {x}
    <3>1. PICK k \in Invitations : Pending(k) /\ z = OfferOf(invitation[k])
        BY <2>2 DEF PendingOffers
    <3>2. Pending(k)' /\ z = OfferOf(invitation[k])'
        BY <2>2, <3>1
    <3> QED BY <3>2 DEF PendingOffers
  <2> QED BY <1>4, <2>1, <2>2
<1> QED BY <1>2, <1>3, <1>4

\* The INSERT of an invitation makes the offer, the UPDATE before it withdraws
\* the earlier one (create_tenant_invitation).
LEMMA InvitingIsOffering ==
    ASSUME MembershipInv, NEW w \in Workers, NEW i \in Invitations,
           InviteCommit(w, i)
    PROVE  RosterStep
<1> DEFINE e == request[w].email
           r == request[w].role
           new == [email |-> e, role |-> r, lapsed |-> FALSE]
<1> USE DEF MembershipInv, MembershipTypeOK
<1>1. /\ e \in Emails /\ request[w].user \in Users /\ MayManage(request[w].user)
      /\ r \in InvitableRoles
    BY DEF InviteCommit, InviterManages, Request
<1>2. /\ Pending(i)' /\ ~Pending(i)
      /\ OfferOf(invitation[i])' = new
    BY <1>1, MembershipAssumption
    DEF InviteCommit, Pending, Exists, Accepted, NoRow, OfferOf, InvitationRow
<1>3. \A k \in Invitations \ {i} :
          /\ Pending(k)' <=> Pending(k) /\ invitation[k].email # e
          /\ Pending(k)' => OfferOf(invitation[k])' = OfferOf(invitation[k])
    BY DEF InviteCommit, Superseded, Pending, Exists, Accepted, InvitationRow,
           OfferOf
<1>4. \A k \in Invitations : OfferOf(invitation[k]).email = invitation[k].email
    BY DEF OfferOf
<1>5. PendingOffers' = {x \in PendingOffers : x.email # e} \cup {new}
  <2>1. ASSUME NEW z \in PendingOffers'
        PROVE  z \in {x \in PendingOffers : x.email # e} \cup {new}
    <3>1. PICK k \in Invitations : Pending(k)' /\ z = OfferOf(invitation[k])'
        BY <2>1 DEF PendingOffers
    <3>2. CASE k = i
        BY <1>2, <3>1, <3>2
    <3>3. CASE k # i
        BY <1>3, <1>4, <3>1, <3>3 DEF PendingOffers
    <3> QED BY <3>2, <3>3
  <2>2. ASSUME NEW z \in PendingOffers, z.email # e
        PROVE  z \in PendingOffers'
    <3>1. PICK k \in Invitations : Pending(k) /\ z = OfferOf(invitation[k])
        BY <2>2 DEF PendingOffers
    <3>2. k # i /\ invitation[k].email # e
        BY <1>2, <1>4, <2>2, <3>1
    <3>3. Pending(k)' /\ z = OfferOf(invitation[k])'
        BY <1>3, <3>1, <3>2
    <3> QED BY <3>3 DEF PendingOffers
  <2>3. new \in PendingOffers'
      BY <1>2 DEF PendingOffers
  <2> QED BY <2>1, <2>2, <2>3
<1>6. ~OfferRoster!Represented(e)
    BY DEF InviteCommit, InviteeIsNoMember, IsMember, MembersHaveAccounts,
           OfferRoster!Represented
<1>7. OfferRoster!Offer(request[w].user, e, r)
    BY <1>1, <1>5, <1>6
    DEF OfferRoster!Offer, OfferRoster!Manages, MayManage, InviteCommit,
        MembershipManageRoles
<1> QED BY <1>1, <1>7
        DEF RosterStep, OfferRoster!RosterNext, OfferRoster!Offered, InvitableRoles

\* Revoking a pending invitation withdraws its offer; revoking it again, or
\* one that is superseded, changes nothing (revoke_tenant_invitation).
LEMMA RevokingIsWithdrawing ==
    ASSUME MembershipInv, NEW actor \in Users, MayManage(actor),
           NEW i \in Invitations, Revocable(i),
           invitation' = [invitation EXCEPT ![i].revoked = TRUE],
           UNCHANGED <<registered, member>>
    PROVE  RosterStep
<1> USE DEF MembershipInv, MembershipTypeOK
<1>1. \A k \in Invitations \ {i} :
          /\ Pending(k)' <=> Pending(k)
          /\ Pending(k) => OfferOf(invitation[k])' = OfferOf(invitation[k])
    BY DEF Pending, Exists, Accepted, OfferOf
<1>2. ~Pending(i)'
    BY DEF Pending, InvitationRow
<1>3. CASE Pending(i)
  <2> DEFINE x == OfferOf(invitation[i])
  <2>1. x \in PendingOffers /\ PendingOffers' = PendingOffers \ {x}
      BY <1>1, <1>2, <1>3, OfferGone
  <2>2. OfferRoster!Withdraw(actor, x)
      BY <2>1 DEF OfferRoster!Withdraw, OfferRoster!Manages, MayManage,
                  MembershipManageRoles
  <2> QED BY <2>1, <2>2 DEF RosterStep, OfferRoster!RosterNext
<1>4. CASE ~Pending(i)
  <2>1. UNCHANGED PendingOffers
      BY <1>1, <1>2, <1>4, SameOffers
  <2> QED BY <2>1 DEF RosterStep, OfferRoster!rosterVars
<1> QED BY <1>3, <1>4

\* What is committed under the locks is one person joining by one offer, or
\* nothing (accept_tenant_invitation).
LEMMA AcceptingIsJoining ==
    ASSUME MembershipInv, NEW w \in Workers, AcceptCommit(w)
    PROVE  RosterStep
<1> USE DEF MembershipInv, MembershipTypeOK
<1>1. PICK i \in Invitations, u \in Users :
          /\ request[w].inv = i /\ request[w].user = u
          /\ EmailOf[u] = invitation[i].email
    BY DEF AcceptCommit, AcceptsOwnInvitation, In
<1> DEFINE x == OfferOf(invitation[i])
<1>2. CASE Acceptable(i, u)
  <2>1. /\ member' = [member EXCEPT ![u] = invitation[i].role]
        /\ registered' = registered \cup {u}
        /\ invitation' = [invitation EXCEPT ![i].accepted_by = u]
      BY <1>1, <1>2 DEF AcceptCommit
  <2>2. Pending(i) /\ ~invitation[i].expired
      BY <1>2 DEF Acceptable, Active
  <2>3. ~Pending(i)'
    <3>1. invitation[i] \in InvitationRow
        BY <1>1
    <3>2. invitation'[i].accepted_by = u
        BY <1>1, <2>1, <3>1 DEF InvitationRow
    <3>3. u # Nobody
        BY <1>1, MembershipAssumption
    <3> QED BY <3>2, <3>3 DEF Pending, Accepted
  <2>4. \A k \in Invitations \ {i} :
            /\ Pending(k)' <=> Pending(k)
            /\ Pending(k) => OfferOf(invitation[k])' = OfferOf(invitation[k])
      BY <1>1, <2>1 DEF Pending, Exists, Accepted, OfferOf
  <2>5. x \in PendingOffers /\ PendingOffers' = PendingOffers \ {x}
      BY <1>1, <2>2, <2>3, <2>4, OfferGone
  <2>6. ~OfferRoster!Represented(x.email)
      BY <1>1, <2>2 DEF NoInvitationForMembers, IsMember, MembersHaveAccounts,
                        OfferRoster!Represented, OfferOf
  <2>7. OfferRoster!Join(u, x)
      BY <1>1, <2>1, <2>2, <2>5, <2>6 DEF OfferRoster!Join, OfferOf
  <2> QED BY <1>1, <2>5, <2>7 DEF RosterStep, OfferRoster!RosterNext
<1>3. CASE ~Acceptable(i, u)
  <2>1. UNCHANGED <<registered, member, invitation>>
      BY <1>1, <1>3 DEF AcceptCommit
  <2>2. UNCHANGED PendingOffers
      BY <2>1 DEF PendingOffers, Pending, Exists, Accepted
  <2> QED BY <2>1, <2>2 DEF RosterStep, OfferRoster!rosterVars
<1> QED BY <1>2, <1>3

\* Time lets an offer lapse; what is settled does not notice
\* (TenantInvitation.expires_at).
LEMMA ExpiringIsLapsing ==
    ASSUME MembershipInv, NEW i \in Invitations, Expire(i)
    PROVE  RosterStep
<1> USE DEF MembershipInv, MembershipTypeOK
<1>1. /\ invitation' = [invitation EXCEPT ![i].expired = TRUE]
      /\ UNCHANGED <<registered, member>>
    BY DEF Expire
<1>2. \A k \in Invitations : Pending(k)' <=> Pending(k)
    BY <1>1 DEF Pending, Exists, Accepted, InvitationRow
<1>3. \A k \in Invitations \ {i} :
          OfferOf(invitation[k])' = OfferOf(invitation[k])
    BY <1>1 DEF OfferOf
<1>4. CASE Pending(i)
  <2> DEFINE x == OfferOf(invitation[i])
  <2>1. invitation[i] \in InvitationRow
      BY DEF InvitationRow
  <2>2. /\ invitation'[i].email = invitation[i].email
        /\ invitation'[i].role = invitation[i].role
        /\ invitation'[i].expired = TRUE
      BY <1>1, <2>1 DEF InvitationRow
  <2>3. OfferOf(invitation[i])' = [x EXCEPT !.lapsed = TRUE]
    <3>1. [x EXCEPT !.lapsed = TRUE] =
            [email |-> invitation[i].email, role |-> invitation[i].role, lapsed |-> TRUE]
        BY SetLapsed, Zenon DEF OfferOf
    <3> QED BY <2>2, <3>1 DEF OfferOf
  <2>4. /\ x \in PendingOffers
        /\ PendingOffers' = (PendingOffers \ {x}) \cup {[x EXCEPT !.lapsed = TRUE]}
      BY <1>2, <1>3, <1>4, <2>3, OfferLapsed
  <2>5. OfferRoster!Lapse(x)
      BY <1>1, <2>4 DEF OfferRoster!Lapse
  <2> QED BY <2>4, <2>5 DEF RosterStep, OfferRoster!RosterNext
<1>5. CASE ~Pending(i)
  <2>1. UNCHANGED PendingOffers
      BY <1>2, <1>3, <1>5, SameOffers
  <2> QED BY <1>1, <2>1 DEF RosterStep, OfferRoster!rosterVars
<1> QED BY <1>4, <1>5

\* A mail shows its invitation to somebody, and the roster does not change
\* (send_tenant_invitation_email).
LEMMA MailingIsNoStep ==
    ASSUME MembershipInv, NEW i,
           \/ UNCHANGED invitation
           \/ invitation' = [invitation EXCEPT ![i].mailed = TRUE],
           UNCHANGED <<registered, member>>
    PROVE  RosterStep
<1> USE DEF MembershipInv, MembershipTypeOK
<1>1. \A k \in Invitations :
          /\ Pending(k)' <=> Pending(k)
          /\ OfferOf(invitation[k])' = OfferOf(invitation[k])
  <2>1. CASE UNCHANGED invitation
      BY <2>1 DEF Pending, Exists, Accepted, OfferOf
  <2>2. CASE invitation' = [invitation EXCEPT ![i].mailed = TRUE]
      BY <2>2 DEF Pending, Exists, Accepted, OfferOf, InvitationRow
  <2> QED BY <2>1, <2>2
<1>2. UNCHANGED PendingOffers
    BY <1>1, SameOffers
<1> QED BY <1>2 DEF RosterStep, OfferRoster!rosterVars

\* The owner sets a role, or removes a member (change_membership_role,
\* remove_tenant_membership).
LEMMA ChangingIsSetting ==
    ASSUME MembershipInv, NEW actor \in Users, NEW u \in Users,
           NEW r \in InvitableRoles \cup {"none"}, Changeable(actor, u),
           member' = [member EXCEPT ![u] = r], UNCHANGED <<registered, invitation>>
    PROVE  RosterStep
<1>1. UNCHANGED PendingOffers
    BY DEF PendingOffers, Pending, Exists, Accepted
<1>2. OfferRoster!SetRole(actor, u, r)
    BY <1>1 DEF Changeable, OfferRoster!SetRole
<1> QED BY <1>2 DEF RosterStep, OfferRoster!RosterNext, OfferRoster!Offered,
                    InvitableRoles

LEMMA RosterKept == MembershipInv /\ [MembershipNext]_membershipVars => RosterStep
<1> SUFFICES ASSUME MembershipInv, [MembershipNext]_membershipVars
             PROVE  RosterStep
    OBVIOUS
<1>1. ASSUME UNCHANGED <<registered, member, invitation>>
      PROVE  RosterStep
    BY <1>1, MailingIsNoStep
<1>2. ASSUME NEW w \in Workers, NEW i \in Invitations, InviteCommit(w, i)
      PROVE  RosterStep
    BY <1>2, InvitingIsOffering
<1>3. ASSUME NEW w \in Workers, InviteMail(w) \/ InviteMailFails(w)
      PROVE  RosterStep
    BY <1>3, MailingIsNoStep DEF InviteMail, InviteMailFails
<1>4. ASSUME NEW w \in Workers, InviteUnsent(w)
      PROVE  RosterStep
  <2>1. request[w].user \in Users /\ request[w].inv \in Invitations
      BY <1>4 DEF InviteUnsent, In, MembershipInv, InviterKnown
  <2>2. CASE MayManage(request[w].user) /\ Revocable(request[w].inv)
      BY <1>4, <2>1, <2>2, RevokingIsWithdrawing DEF InviteUnsent
  <2>3. CASE ~(MayManage(request[w].user) /\ Revocable(request[w].inv))
      BY <1>1, <1>4, <2>3 DEF InviteUnsent
  <2> QED BY <2>2, <2>3
<1>5. ASSUME NEW w \in Workers, AcceptCommit(w)
      PROVE  RosterStep
    BY <1>5, AcceptingIsJoining
<1>6. ASSUME NEW actor \in Users, NEW i \in Invitations, RevokeInvitation(actor, i)
      PROVE  RosterStep
    BY <1>6, RevokingIsWithdrawing DEF RevokeInvitation
<1>7. ASSUME NEW actor \in Users, NEW u \in Users, NEW r \in InvitableRoles,
             ChangeMembershipRole(actor, u, r)
      PROVE  RosterStep
    BY <1>7, ChangingIsSetting DEF ChangeMembershipRole
<1>8. ASSUME NEW actor \in Users, NEW u \in Users, RemoveMembership(actor, u)
      PROVE  RosterStep
    BY <1>8, ChangingIsSetting DEF RemoveMembership
<1>9. ASSUME NEW i \in Invitations, Expire(i)
      PROVE  RosterStep
    BY <1>9, ExpiringIsLapsing
<1> QED BY <1>1, <1>2, <1>3, <1>4, <1>5, <1>6, <1>7, <1>8, <1>9
        DEF MembershipNext, membershipVars, InviteBegin, AcceptBegin, AcceptLock,
            Abort

\* The transactions and their locks make the organization's members and
\* pending invitations a roster, in which every request is one step
\* (tenants.services).
THEOREM MembershipIsRoster == MembershipSpec => RosterImplemented
<1>1. MembershipInit => OfferRoster!RosterInit
    BY DEF MembershipInit, OfferRoster!RosterInit, PendingOffers, Pending, Exists,
           NoRow
<1>2. MembershipInv /\ [MembershipNext]_membershipVars
      => [OfferRoster!RosterNext]_OfferRoster!rosterVars
    BY RosterKept DEF RosterStep
<1> QED BY <1>1, <1>2, MembershipSafe, PTL
        DEF MembershipSpec, RosterImplemented, OfferRoster!RosterSpec

\* What the roster's promise is worth, whatever is behind it: no two accounts
\* of one address are members, no member's address has an offer, and no
\* address has two.
THEOREM RosterIsSafe ==
    OfferRoster!RosterSpec => [](OfferRoster!RosterTypeOK /\ OfferRoster!RosterSafe)
<1> DEFINE Inv == OfferRoster!RosterTypeOK /\ OfferRoster!RosterSafe
<1>1. OfferRoster!RosterInit => Inv
    BY MembershipAssumption
    DEF OfferRoster!RosterInit, OfferRoster!RosterTypeOK, OfferRoster!RosterSafe,
        OfferRoster!Represented
<1>2. Inv /\ [OfferRoster!RosterNext]_OfferRoster!rosterVars => Inv'
  <2> SUFFICES ASSUME Inv, [OfferRoster!RosterNext]_OfferRoster!rosterVars
               PROVE  Inv'
      OBVIOUS
  <2> USE MembershipAssumption
          DEF OfferRoster!RosterTypeOK, OfferRoster!RosterSafe,
              OfferRoster!Represented, OfferRoster!Offered
  <2>1. ASSUME NEW actor \in Users, NEW e \in Emails, NEW r \in OfferRoster!Offered,
               OfferRoster!Offer(actor, e, r)
        PROVE  Inv'
    <3> DEFINE y == [email |-> e, role |-> r, lapsed |-> FALSE]
    <3>1. /\ y \in [email : Emails, role : OfferRoster!Offered, lapsed : BOOLEAN]
          /\ y.email = e
        OBVIOUS
    <3>2. /\ PendingOffers' = {x \in PendingOffers : x.email # e} \cup {y}
          /\ UNCHANGED <<registered, member>>
          /\ ~OfferRoster!Represented(e)
        BY <2>1 DEF OfferRoster!Offer
    <3> HIDE DEF y
    <3> QED BY <3>1, <3>2
  <2>2. ASSUME NEW actor \in Users, NEW x \in PendingOffers,
               OfferRoster!Withdraw(actor, x)
        PROVE  Inv'
      BY <2>2 DEF OfferRoster!Withdraw
  <2>3. ASSUME NEW actor \in Users, NEW u \in Users,
               NEW r \in OfferRoster!Offered \cup {"none"},
               OfferRoster!SetRole(actor, u, r)
        PROVE  Inv'
    <3>1. /\ member' \in [Users -> OfferRoster!Offered \cup {"owner", "none"}]
          /\ UNCHANGED <<registered, PendingOffers>>
        BY <2>3 DEF OfferRoster!SetRole
    <3>2. \A v \in Users : member'[v] # "none" => member[v] # "none"
        BY <2>3 DEF OfferRoster!SetRole
    <3> QED BY <3>1, <3>2
  <2>4. ASSUME NEW x \in PendingOffers, OfferRoster!Lapse(x)
        PROVE  Inv'
    <3> DEFINE y == [x EXCEPT !.lapsed = TRUE]
    <3>1. /\ y \in [email : Emails, role : OfferRoster!Offered, lapsed : BOOLEAN]
          /\ y.email = x.email
        OBVIOUS
    <3>2. /\ PendingOffers' = (PendingOffers \ {x}) \cup {y}
          /\ UNCHANGED <<registered, member>>
        BY <2>4 DEF OfferRoster!Lapse
    <3> HIDE DEF y
    <3> QED BY <3>1, <3>2
  <2>5. ASSUME NEW x \in PendingOffers, NEW u \in Users, OfferRoster!Join(u, x)
        PROVE  Inv'
      BY <2>5 DEF OfferRoster!Join
  <2>6. CASE UNCHANGED OfferRoster!rosterVars
      BY <2>6 DEF OfferRoster!rosterVars
  <2> QED BY <2>1, <2>2, <2>3, <2>4, <2>5, <2>6 DEF OfferRoster!RosterNext
<1> QED BY <1>1, <1>2, PTL DEF OfferRoster!RosterSpec

\* So no two accounts of one address are members, whichever is signing up or
\* signing in while the other accepts (accept_tenant_invitation): this one does
\* not follow from the inductive invariant, but from the history of joining
\* that the roster allows.
THEOREM AddressesJoinOnce == MembershipSpec => []OneMemberPerAddress
<1>1. OfferRoster!RosterTypeOK /\ OfferRoster!RosterSafe => OneMemberPerAddress
    BY DEF OfferRoster!RosterSafe, OneMemberPerAddress
<1> QED BY <1>1, MembershipIsRoster, RosterIsSafe, PTL DEF RosterImplemented
=============================================================================
