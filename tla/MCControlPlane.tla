--------------------------- MODULE MCControlPlane ---------------------------
(***************************************************************************)
(* Instances of ControlPlane for TLC.                                      *)
(***************************************************************************)
EXTENDS ControlPlane, TLC

CONSTANTS d1, d2, m1, m2, t1, t2, w1, w2, w3

\* Both mailboxes in one domain; d2, when there is one, has none.
SharedDomain == [m \in Mailboxes |-> d1]

\* Instances in which only the domains' rows matter.
NoMailboxes == <<>>

\* Workers are interchangeable in every safety property.
WorkerSymmetry == Permutations(Workers)
=============================================================================
