SPECIFICATION Spec
CONSTANTS
    d1 = d1
    d2 = d2
    m1 = m1
    m2 = m2
    t1 = t1
    t2 = t2
    w1 = w1
    w2 = w2
    w3 = w3
    Domains = {d1}
    Mailboxes = {m1}
    Workers = {w1, w2, w3}
    Destinations = {t1, t2}
    Nowhere = Nowhere
    NoDomain = NoDomain
    NoMailbox = NoMailbox
    DomainOf <- SharedDomain
    MaxMailboxes = 1
    MaxCrashes = 1
    Requests = {"check", "provision_mailbox", "delete_mailbox", "provision_forwarder", "update_forwarder", "delete_forwarder"}
SYMMETRY WorkerSymmetry
INVARIANTS DeletedForwarderHasNoList
PROPERTIES ForwarderTombstone AddressUseImplemented
