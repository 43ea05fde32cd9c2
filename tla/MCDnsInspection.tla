-------------------------- MODULE MCDnsInspection --------------------------
(***************************************************************************)
(* Instances of DnsInspection for TLC.                                     *)
(***************************************************************************)
EXTENDS DnsInspection, TLC

CONSTANTS k1, k2, s1, s2

\* mail.host.net is MailForge's; a wildcard of host.net covers it and not the
\* host below it.
Mail == <<"mail", "host", "net">>
Deep == <<"deep", "mail", "host", "net">>

Exact    == [wild |-> FALSE, name |-> Mail]
Wild     == [wild |-> TRUE, name |-> <<"host", "net">>]
WildDeep == [wild |-> TRUE, name |-> Mail]

Served(parses, mode, mx) ==
    [answer |-> "served", parses |-> parses, mode |-> mode, mx |-> mx]

\* Each way a policy can be unusable, and usable ones.
SomePolicies ==
    { [answer |-> "rejected"],
      Served(TRUE, "enforce", {Exact}),
      Served(TRUE, "testing", {Wild}),
      Served(TRUE, "enforce", {Exact, WildDeep}),
      Served(TRUE, "none", {}),
      Served(TRUE, "enforce", {}),
      Served(FALSE, "enforce", {Exact}),
      Served(TRUE, "other", {Exact}),
      Served(TRUE, "enforce", {Exact, [wild |-> TRUE, name |-> <<"net">>]}) }

AllRight ==
    [ mx |-> {Mail}, spf |-> {s1}, dkim |-> {k1}, dmarc |-> {"reject"},
      ptr |-> {Mail}, mta_sts |-> {"id1"},
      policy |-> Served(TRUE, "testing", {Wild}), tls_rpt |-> {{"mailto", "https"}} ]

SomeContents ==
    [ mx |-> {{}, {Mail}, {Mail, Deep}},
      spf |-> SUBSET {s1, s2},
      dkim |-> SUBSET {k1, k2},
      dmarc |-> {{}, {"reject"}, {"other"}, {"none", "reject"}},
      ptr |-> {{Mail}, {Deep}},
      mta_sts |-> {{}, {"id1"}, {"bad_id"}, {"id1", "id2"}},
      policy |-> SomePolicies,
      tls_rpt |-> {{}, {{"mailto", "https"}}, {{}}, {{"mailto", "other"}},
                   {{"mailto"}, {"https"}}} ]

SomeZones == {AllRight}
SomeFiles == {{k1}, {k1, k2}, Blank}

SomeSettings ==
    { [host |-> Mail, address |-> "valid"], [host |-> Mail, address |-> "invalid"],
      [host |-> Mail, address |-> "unset"], [host |-> NoHost, address |-> "valid"] }
=============================================================================
