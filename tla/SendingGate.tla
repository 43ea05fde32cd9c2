---------------------------- MODULE SendingGate ----------------------------
(***************************************************************************)
(* What the control plane promises about a domain's permission to send,    *)
(* whatever happens behind it: a gate that is open or closed, an emergency *)
(* stop over it, and an organization-wide stop.                            *)
(*                                                                         *)
(*   - The gate opens only for an established domain (owned and known to   *)
(*     Stalwart) of an active organization that is not stopped.            *)
(*   - Stopping a domain closes its gate in the same step.                 *)
(*   - A stop ends with the gate closed; opening is a step of its own.     *)
(*   - A domain once established stays so.                                 *)
(*                                                                         *)
(* ControlPlane implements this specification.                             *)
(***************************************************************************)
CONSTANT Domains

VARIABLES
    open,         \* domains that may send
    stopped,      \* domains under emergency suspension
    established,  \* domains verified and provisioned
    organization  \* whether the organization is active

gateVars == <<open, stopped, established, organization>>

GateInit ==
    /\ open = {}
    /\ stopped = {}
    /\ established \in SUBSET Domains
    /\ organization = TRUE

Open(d) ==
    /\ organization
    /\ d \in established \ stopped
    /\ open' = open \cup {d}
    /\ UNCHANGED <<stopped, established, organization>>

Close(d) ==
    /\ open' = open \ {d}
    /\ UNCHANGED <<stopped, established, organization>>

Stop(d) ==
    /\ stopped' = stopped \cup {d}
    /\ open' = open \ {d}
    /\ UNCHANGED <<established, organization>>

Resume(d) ==
    /\ stopped' = stopped \ {d}
    /\ open' = open \ {d}
    /\ UNCHANGED <<established, organization>>

\* Provisioning completes.  It ends a stop that came in the meantime, with
\* the gate closed.
Establish(d) ==
    /\ established' = established \cup {d}
    /\ stopped' = stopped \ {d}
    /\ d \in stopped => d \notin open
    /\ UNCHANGED <<open, organization>>

SetOrganization ==
    /\ organization' \in BOOLEAN
    /\ UNCHANGED <<open, stopped, established>>

GateNext ==
    \/ \E d \in Domains :
          Open(d) \/ Close(d) \/ Stop(d) \/ Resume(d) \/ Establish(d)
    \/ SetOrganization

GateSpec == GateInit /\ [][GateNext]_gateVars

\* A domain that may send is established and not stopped: the consequence of
\* GateSpec that check_domain_dns and suspend_domain are there for.
GateSafe == open \subseteq established \ stopped
=============================================================================
