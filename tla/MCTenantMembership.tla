------------------------- MODULE MCTenantMembership -------------------------
(***************************************************************************)
(* Instances of TenantMembership for TLC.                                  *)
(***************************************************************************)
EXTENDS TenantMembership, TLC

CONSTANTS o, a, u1, u2, eo, ea, eu, i1, i2, w1, w2

\* Two accounts of one address: one of them may sign up while the other is
\* signing in.
SharedEmail ==
    [u \in Users |-> CASE u = o -> eo [] u = a -> ea [] OTHER -> eu]

\* Workers and rows that do not exist yet are interchangeable.
RowSymmetry == Permutations(Workers) \cup Permutations(Invitations)
=============================================================================
