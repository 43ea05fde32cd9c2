SPECIFICATION MembershipSpec
CONSTANTS
    o = o
    a = a
    u1 = u1
    u2 = u2
    eo = eo
    ea = ea
    eu = eu
    i1 = i1
    i2 = i2
    w1 = w1
    w2 = w2
    Users = {o, a, u1, u2}
    Owner = o
    Emails = {eo, ea, eu}
    EmailOf <- SharedEmail
    Invitations = {i1, i2}
    Workers = {w1, w2}
    Nobody = Nobody
    NoInvitation = NoInvitation
    NoEmail = NoEmail
SYMMETRY RowSymmetry
INVARIANTS OnePendingPerAddress NoInvitationForMembers OneOwner OneMemberPerAddress
PROPERTIES JoinsByInvitation OutcomeIsFinal RosterImplemented
