------------------------------- MODULE Roster -------------------------------
(***************************************************************************)
(* What an organization promises about who belongs to it, as if every      *)
(* request were one step.                                                  *)
(*                                                                         *)
(*   - An address has one offer at most, and none while it is a member's.  *)
(*   - Offers are made and withdrawn by those who manage the members at    *)
(*     that moment.                                                        *)
(*   - A person joins by the offer of their address, in the role that it   *)
(*     names, and uses it up in the same step.                             *)
(*   - Only the owner changes roles and removes members, and nobody's step *)
(*     makes or unmakes an owner.                                          *)
(*                                                                         *)
(* TenantMembership implements this specification.                         *)
(***************************************************************************)
CONSTANTS Users, Owner, Emails, EmailOf

VARIABLES
    accounts,  \* users that have an account
    role,      \* each user's, or "none"
    offers     \* standing offers

rosterVars == <<accounts, role, offers>>

Offered == {"admin", "viewer"}

RosterTypeOK ==
    /\ accounts \subseteq Users
    /\ role \in [Users -> Offered \cup {"owner", "none"}]
    /\ offers \subseteq [email : Emails, role : Offered, lapsed : BOOLEAN]

RosterInit ==
    /\ accounts \in {S \in SUBSET Users : Owner \in S}
    /\ role = [u \in Users |-> IF u = Owner THEN "owner" ELSE "none"]
    /\ offers = {}

Manages(u) == role[u] \in {"owner", "admin"}

Represented(e) == \E u \in Users : EmailOf[u] = e /\ role[u] # "none"

\* A new offer takes the place of an earlier one.
Offer(actor, e, r) ==
    /\ Manages(actor)
    /\ ~Represented(e)
    /\ offers' = {x \in offers : x.email # e}
                 \cup {[email |-> e, role |-> r, lapsed |-> FALSE]}
    /\ UNCHANGED <<accounts, role>>

Withdraw(actor, x) ==
    /\ Manages(actor)
    /\ offers' = offers \ {x}
    /\ UNCHANGED <<accounts, role>>

Lapse(x) ==
    /\ offers' = (offers \ {x}) \cup {[x EXCEPT !.lapsed = TRUE]}
    /\ UNCHANGED <<accounts, role>>

Join(u, x) ==
    /\ ~x.lapsed
    /\ x.email = EmailOf[u]
    /\ ~Represented(x.email)
    /\ accounts' = accounts \cup {u}
    /\ role' = [role EXCEPT ![u] = x.role]
    /\ offers' = offers \ {x}

\* The role "none" removes the member.
SetRole(actor, u, r) ==
    /\ role[actor] = "owner"
    /\ role[u] \notin {"owner", "none"}
    /\ role' = [role EXCEPT ![u] = r]
    /\ UNCHANGED <<accounts, offers>>

RosterNext ==
    \/ \E actor \in Users :
          \/ \E e \in Emails, r \in Offered : Offer(actor, e, r)
          \/ \E x \in offers : Withdraw(actor, x)
          \/ \E u \in Users, r \in Offered \cup {"none"} : SetRole(actor, u, r)
    \/ \E x \in offers : Lapse(x) \/ \E u \in Users : Join(u, x)

RosterSpec == RosterInit /\ [][RosterNext]_rosterVars

\* No two accounts of one address are members, no member's address has an
\* offer, and an address has one offer at most.
RosterSafe ==
    /\ \A u, v \in Users :
          role[u] # "none" /\ role[v] # "none" /\ EmailOf[u] = EmailOf[v] => u = v
    /\ \A x \in offers : ~Represented(x.email)
    /\ \A x, y \in offers : x.email = y.email => x = y
=============================================================================
