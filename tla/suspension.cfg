SPECIFICATION Spec
CONSTANTS
    d1 = d1
    d2 = d2
    m1 = m1
    m2 = m2
    t1 = t1
    t2 = t2
    w1 = w1
    w2 = w2
    w3 = w3
    Domains = {d1}
    Mailboxes = {m1, m2}
    Workers = {w1, w2}
    Destinations = {}
    Nowhere = Nowhere
    NoDomain = NoDomain
    NoMailbox = NoMailbox
    DomainOf <- SharedDomain
    MaxMailboxes = 2
    MaxCrashes = 1
    Requests = {"check", "suspend", "reactivate", "provision_mailbox", "suspend_mailbox"}
SYMMETRY WorkerSymmetry
INVARIANTS TypeOK
PROPERTIES SuspensionEndsByReactivation GateImplemented
