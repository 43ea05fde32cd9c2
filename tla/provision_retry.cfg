SPECIFICATION RetriesProvisioning
CONSTANTS
    d1 = d1
    d2 = d2
    m1 = m1
    m2 = m2
    t1 = t1
    t2 = t2
    w1 = w1
    w2 = w2
    w3 = w3
    Domains = {d1}
    Mailboxes = {}
    Workers = {w1}
    Destinations = {}
    Nowhere = Nowhere
    NoDomain = NoDomain
    NoMailbox = NoMailbox
    DomainOf <- NoMailboxes
    MaxMailboxes = 1
    MaxCrashes = 0
    Requests = {"verify", "provision"}
PROPERTIES ProvisioningRetrySucceeds
CHECK_DEADLOCK FALSE
