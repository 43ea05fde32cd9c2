----------------------------- MODULE AddressUse -----------------------------
(***************************************************************************)
(* What MailForge promises about the addresses that mailboxes and          *)
(* forwarders share, as if rows and backend were written together: each    *)
(* kind may use an address, and the backend lets one of them hold it.      *)
(*                                                                         *)
(*   - No kind claims an address that it has, or had, or that the other    *)
(*     one uses; both may claim a free one at the same time.               *)
(*   - Only the kind that holds an address completes its claim.            *)
(*   - An address in use is let go by its kind, and retired only when      *)
(*     that kind does not hold it.                                         *)
(*   - What is retired is never used again, nor is it held.                *)
(*                                                                         *)
(* An abandoned claim may leave the address held: Stalwart did what was    *)
(* asked and the answer was lost.                                          *)
(*                                                                         *)
(* ControlPlane implements this specification.                             *)
(***************************************************************************)
CONSTANT Addresses

VARIABLES
    use,    \* each kind's use of each address
    holder  \* the kind that the backend has at an address, or "nobody"

useVars == <<use, holder>>

Kinds == {"mailbox", "forwarder"}

AddressUseTypeOK ==
    /\ use \in [Kinds -> [Addresses -> {"free", "claimed", "used", "retired"}]]
    /\ holder \in [Addresses -> Kinds \cup {"nobody"}]

UseInit ==
    /\ use \in [Kinds -> [Addresses -> {"free", "used"}]]
    /\ holder \in [Addresses -> Kinds \cup {"nobody"}]
    /\ \A k \in Kinds, a \in Addresses : use[k][a] = "used" <=> holder[a] = k

\* The claim, completion or end of use of a by k.
Becomes(k, a, v) == use' = [use EXCEPT ![k][a] = v]

Claim(k, a) ==
    /\ use[k][a] = "free"
    /\ \A other \in Kinds : use[other][a] # "used"
    /\ Becomes(k, a, "claimed")
    /\ UNCHANGED holder

Abandon(k, a) ==
    /\ use[k][a] = "claimed"
    /\ Becomes(k, a, "free")
    /\ UNCHANGED holder

Hold(k, a) ==
    /\ use[k][a] = "claimed"
    /\ holder[a] = "nobody"
    /\ holder' = [holder EXCEPT ![a] = k]
    /\ UNCHANGED use

Complete(k, a) ==
    /\ use[k][a] = "claimed"
    /\ holder[a] = k
    /\ Becomes(k, a, "used")
    /\ UNCHANGED holder

LetGo(k, a) ==
    /\ use[k][a] = "used"
    /\ holder[a] = k
    /\ holder' = [holder EXCEPT ![a] = "nobody"]
    /\ UNCHANGED use

Retire(k, a) ==
    /\ use[k][a] = "used"
    /\ holder[a] # k
    /\ Becomes(k, a, "retired")
    /\ UNCHANGED holder

UseNext ==
    \E k \in Kinds, a \in Addresses :
        \/ Claim(k, a)
        \/ Abandon(k, a)
        \/ Hold(k, a)
        \/ Complete(k, a)
        \/ LetGo(k, a)
        \/ Retire(k, a)

UseSpec == UseInit /\ [][UseNext]_useVars

\* What is retired is not held.
RetiredIsLetGo ==
    \A k \in Kinds, a \in Addresses : use[k][a] = "retired" => holder[a] # k
=============================================================================
