---------------------------- MODULE DnsInspection ----------------------------
(***************************************************************************)
(* What dns_readiness.inspect_domain_dns and transport_security conclude   *)
(* about the DNS of one domain, asking for one record set after the other  *)
(* while the customer edits the zone and Stalwart rotates its keys.        *)
(* DomainReadiness takes the verdict as a free choice; this module is      *)
(* about what the verdict is worth.                                        *)
(*                                                                         *)
(* Abstractions.  A host name is the sequence of its labels, a DKIM record *)
(* is an element of Keys, any other TXT record is what the code parses it  *)
(* to.  zone is what resolvers see: propagation and their caches are part  *)
(* of the edits.  Stalwart's zone file is the set of DKIM records in it.   *)
(***************************************************************************)
EXTENDS Naturals, Sequences, FiniteSets

CONSTANTS
    NoHost,
    Settings,     \* mail host and address that may be configured
    SpfPolicies,  \* TXT records that begin with v=spf1
    Keys,         \* DKIM records, name and value
    Contents,     \* per record set: what may be published
    FirstZones,   \* what may be published at the beginning
    FirstFiles,   \* the zone file that Stalwart may generate at the beginning
    Blank,        \* a zone file without content
    Unreadable,   \* a zone file that does not parse
    NoAnswer,     \* a lookup that failed for now
    MaxEdits,     \* BOUND: changes of the zone and of Stalwart's keys
    MaxFailures   \* BOUND: calls of one inspection that get no answer

VARIABLES
    settings,     \* host: MAILFORGE_MAIL_HOSTNAME, or NoHost;
                  \* address: MAILFORGE_MAIL_IPV4: "unset", "invalid", "valid"
    zone,         \* what is published
    server_zone,  \* the zone file that Stalwart generates
    zone_file,    \* Domain.dns_zone_file
    inspection,   \* local variables of the inspection
    history,      \* what was the case since it began; no action depends on it
    edits

inspectionVars ==
    <<settings, zone, server_zone, zone_file, inspection, history, edits>>

---------------------------------------------------------------------------
(* Records. *)

DmarcPolicies == {"none", "quarantine", "reject", "other"}   \* the tag p

\* An MTA-STS record is its tag id ("bad_id" is none); a TLS-RPT record is the set
\* of schemes of its report addresses; policy is what the server of the MTA-STS
\* policy answers.
RecordSets == {"mx", "spf", "dkim", "dmarc", "ptr", "mta_sts", "policy", "tls_rpt"}

ZoneFile == (SUBSET Keys) \cup {Blank, Unreadable}

MailHost    == settings.host
MailAddress == settings.address

CheckNames == {"mx", "spf", "dkim", "dmarc", "ptr", "mta_sts", "tls_rpt"}

\* Mutant: PTR is required although it was skipped.
RequiredAlways(c) == c \in {"mx", "spf", "dkim", "dmarc", "ptr"}

Required(c) ==
    \/ c \in {"mx", "spf", "dkim", "dmarc"}
    \/ c = "ptr" /\ MailAddress # "unset"

NoChecks == [c \in CheckNames |-> "skip"]

Idle == [ pc |-> "idle", file |-> Blank, fresh |-> Blank, todo |-> {},
          policy |-> [answer |-> "failed"], checks |-> NoChecks ]

NoHistory == [ zones |-> {}, files |-> {}, failed |-> 0 ]

Published(z) ==
    /\ z = [r \in RecordSets |-> z[r]]
    /\ \A r \in RecordSets : z[r] \in Contents[r]

\* What may be published is a finite set and no failed lookup; hosts and
\* patterns are sequences of labels.
ASSUME InspectionAssumption ==
    /\ Blank # Unreadable
    /\ \A keys \in SUBSET Keys : keys # Blank /\ keys # Unreadable
    /\ \A r \in RecordSets : \A content \in Contents[r] : content # NoAnswer
    /\ \A r \in {"spf", "dmarc", "tls_rpt"} :
          \A content \in Contents[r] : IsFiniteSet(content)
    /\ \A content \in Contents["spf"] : content \subseteq SpfPolicies
    /\ \A content \in Contents["dmarc"] : content \subseteq DmarcPolicies
    /\ \A content \in Contents["mx"] : content \subseteq Seq(STRING)
    /\ \A policy \in Contents["policy"] : policy.answer = "served" =>
          policy.mx \subseteq [wild : BOOLEAN, name : Seq(STRING)]
    /\ \A z \in FirstZones : Published(z)
    /\ FirstFiles \subseteq ZoneFile

---------------------------------------------------------------------------
(* What one answer means (transport_security._mx_matches_pattern and the   *)
(* _check functions).                                                      *)

PassIf(condition) == IF condition THEN "pass" ELSE "fail"

MxStatus(answer) ==
    IF answer = NoAnswer THEN "warn" ELSE PassIf(MailHost \in answer)

SpfStatus(answer) ==
    IF answer = NoAnswer THEN "warn" ELSE PassIf(Cardinality(answer) = 1)

DmarcStatus(answer) ==
    IF answer = NoAnswer THEN "warn"
    ELSE PassIf(/\ Cardinality(answer) = 1
                /\ answer \subseteq {"none", "quarantine", "reject"})

\* The records are asked for one by one; what is missing outweighs what
\* could not be asked.
DkimStatus(sofar, key, answer) ==
    CASE answer = NoAnswer -> (IF sofar = "fail" THEN "fail" ELSE "warn")
      [] answer # NoAnswer /\ key \in answer -> sofar
      [] OTHER -> "fail"

TlsStatus(answer) ==
    IF answer = NoAnswer THEN "warn"
    ELSE PassIf(/\ Cardinality(answer) = 1
                /\ \A rua \in answer : rua # {} /\ rua \subseteq {"mailto", "https"})

\* Mutant: a wildcard covers every name below.
MatchesSuffix(host, pattern) ==
    IF pattern.wild
    THEN /\ Len(host) > Len(pattern.name)
         /\ SubSeq(host, Len(host) - Len(pattern.name) + 1, Len(host))
            = pattern.name
    ELSE host = pattern.name

\* A wildcard stands for exactly one label.
Matches(host, pattern) ==
    IF pattern.wild
    THEN Len(host) = Len(pattern.name) + 1 /\ Tail(host) = pattern.name
    ELSE host = pattern.name

WellFormed(policy) ==
    /\ policy.parses                       \* lines, version and max_age
    /\ policy.mode \in {"enforce", "testing", "none"}
    /\ policy.mode # "none" => policy.mx # {}
    /\ \A p \in policy.mx :
          Len(p.name) >= 2 /\ \A n \in 1..Len(p.name) : p.name[n] # "*"

Covers(policy, hosts) ==
    \/ policy.mode = "none"
    \/ \A host \in hosts : \E p \in policy.mx : Matches(host, p)

\* Mutant: what could not be asked does not count against the domain.
PassedUnlessFailed(status) == status # "fail"

Passed(status) == status = "pass"

Ready(checks) == \A c \in CheckNames : Required(c) => Passed(checks[c])

---------------------------------------------------------------------------
(* An inspection *)

InspectionInit ==
    /\ settings \in Settings
    /\ zone \in FirstZones
    /\ server_zone \in FirstFiles
    /\ zone_file = server_zone       \* provision_domain has stored it
    /\ inspection = Idle
    /\ history = NoHistory
    /\ edits = 0

In(pc) == inspection.pc = pc

\* The check of this name has its status, and the next one is made.
Settle(check, status, next) ==
    inspection' = [inspection EXCEPT !.checks[check] = status, !.pc = next]

\* What a lookup may return, and that a failure is counted in the history.
MayFail == history.failed < MaxFailures

Answers(records) == {zone[records]} \cup (IF MayFail THEN {NoAnswer} ELSE {})

Remember(failed) ==
    history' = IF failed THEN [history EXCEPT !.failed = @ + 1] ELSE history

Lookup(check, answer, status, next) ==
    /\ In(check)
    /\ Settle(check, status, next)
    /\ Remember(answer = NoAnswer)
    /\ UNCHANGED <<settings, zone, server_zone, zone_file, edits>>

\* check_domain_dns reads the row.
InspectBegin ==
    /\ In("idle")
    /\ inspection' = [inspection EXCEPT !.pc = "fetch", !.file = zone_file]
    /\ history' = [history EXCEPT !.zones = {zone}, !.files = {server_zone}]
    /\ UNCHANGED <<settings, zone, server_zone, zone_file, edits>>

\* Once the file is known, the records to look for are.
Known(file) ==
    inspection' = [inspection EXCEPT
        !.pc = "mx", !.file = file,
        !.todo = IF file \in {Blank, Unreadable} THEN {} ELSE file]

FetchZone ==
    /\ In("fetch")
    /\ inspection' = [inspection EXCEPT !.pc = "store", !.fresh = server_zone]
    /\ UNCHANGED <<settings, zone, server_zone, zone_file, history, edits>>

\* Stalwart does not answer, or does not know the domain: the file that the
\* row had is used.
FetchZoneFails ==
    /\ In("fetch") /\ MayFail
    /\ Known(inspection.file)
    /\ Remember(TRUE)
    /\ UNCHANGED <<settings, zone, server_zone, zone_file, edits>>

\* The file Stalwart gave differs from what the row had when it was read.
IsNews ==
    inspection.fresh # Blank /\ inspection.fresh # inspection.file

StoreZone ==
    /\ In("store")
    /\ IF IsNews
       THEN zone_file' = inspection.fresh /\ Known(inspection.fresh)
       ELSE UNCHANGED zone_file /\ Known(inspection.file)
    /\ UNCHANGED <<settings, zone, server_zone, history, edits>>

CheckMx ==
    \/ /\ MailHost = NoHost
       /\ Lookup("mx", zone.mx, "fail", "spf")
    \/ /\ MailHost # NoHost
       /\ \E a \in Answers("mx") : Lookup("mx", a, MxStatus(a), "spf")

CheckSpf ==
    \E a \in Answers("spf") : Lookup("spf", a, SpfStatus(a), "dkim")

\* Stalwart's expectation is unknown, or is that nothing be signed.
CheckDkimNone ==
    /\ inspection.todo = {}
    /\ Lookup("dkim", {},
              IF inspection.file = {} THEN "fail" ELSE "warn", "dmarc")

\* One of the expected records is looked up.
CheckDkim ==
    \E key \in inspection.todo, a \in Answers("dkim") :
       LET rest  == inspection.todo \ {key}
           first == inspection.todo = inspection.file
           sofar == IF first THEN "pass" ELSE inspection.checks["dkim"] IN
       /\ In("dkim")
       /\ inspection' = [inspection EXCEPT
            !.todo = rest,
            !.checks["dkim"] = DkimStatus(sofar, key, a),
            !.pc = IF rest = {} THEN "dmarc" ELSE "dkim"]
       /\ Remember(a = NoAnswer)
       /\ UNCHANGED <<settings, zone, server_zone, zone_file, edits>>

CheckDmarc ==
    \E a \in Answers("dmarc") : Lookup("dmarc", a, DmarcStatus(a), "ptr")

CheckPtr ==
    \/ /\ MailAddress = "unset"
       /\ Lookup("ptr", {}, "skip", "mta_sts")
    \/ /\ MailAddress # "unset"
       /\ MailHost = NoHost \/ MailAddress = "invalid"
       /\ Lookup("ptr", {}, "fail", "mta_sts")
    \/ /\ MailAddress = "valid" /\ MailHost # NoHost
       /\ \E a \in Answers("ptr") : Lookup("ptr", a, MxStatus(a), "mta_sts")

\* check_mta_sts: the TXT record, the policy it announces, and the mail hosts
\* that the policy must cover.
StsRecordGood(answer) == answer \in {{"id1"}, {"id2"}}

CheckStsRecord ==
    \E a \in Answers("mta_sts") :
       IF a # NoAnswer /\ StsRecordGood(a)
       THEN Lookup("mta_sts", a, "warn", "policy")
       ELSE Lookup("mta_sts", a, IF a = NoAnswer THEN "warn" ELSE "fail", "tls_rpt")

CheckStsPolicy ==
    /\ In("policy")
    /\ \E p \in {zone.policy} \cup (IF MayFail THEN {[answer |-> "failed"]} ELSE {}) :
          /\ CASE p.answer = "failed" ->
                    Settle("mta_sts", "warn", "tls_rpt")
               [] p.answer = "served" /\ WellFormed(p) ->
                    inspection' = [inspection EXCEPT !.pc = "policy_mx",
                                                     !.policy = p]
               [] OTHER -> Settle("mta_sts", "fail", "tls_rpt")
          /\ Remember(p.answer = "failed")
    /\ UNCHANGED <<settings, zone, server_zone, zone_file, edits>>

CheckStsMx ==
    /\ In("policy_mx")
    /\ \E a \in Answers("mx") :
          /\ Settle("mta_sts",
                    IF a = NoAnswer THEN "warn" ELSE PassIf(Covers(inspection.policy, a)),
                    "tls_rpt")
          /\ Remember(a = NoAnswer)
    /\ UNCHANGED <<settings, zone, server_zone, zone_file, edits>>

CheckTlsReporting ==
    \E a \in Answers("tls_rpt") : Lookup("tls_rpt", a, TlsStatus(a), "done")

\* The verdict is handed to check_domain_dns.
InspectEnd ==
    /\ In("done")
    /\ inspection' = Idle
    /\ history' = NoHistory
    /\ UNCHANGED <<settings, zone, server_zone, zone_file, edits>>

InspectionStep ==
    \/ FetchZone \/ FetchZoneFails \/ StoreZone
    \/ CheckMx \/ CheckSpf \/ CheckDkimNone \/ CheckDkim
    \/ CheckDmarc \/ CheckPtr
    \/ CheckStsRecord \/ CheckStsPolicy \/ CheckStsMx
    \/ CheckTlsReporting \/ InspectEnd

---------------------------------------------------------------------------
(* What goes on meanwhile *)

Running == ~In("idle")

Edit == edits < MaxEdits /\ edits' = edits + 1

\* The customer publishes something else.
Publish(records, content) ==
    /\ Edit
    /\ zone' = [zone EXCEPT ![records] = content]
    /\ history' = IF Running THEN [history EXCEPT !.zones = @ \cup {zone'}]
                             ELSE history
    /\ UNCHANGED <<settings, server_zone, zone_file, inspection>>

\* Stalwart generates another zone file, with new keys or without old ones.
Rotate(file) ==
    /\ Edit
    /\ server_zone' = file
    /\ history' = IF Running THEN [history EXCEPT !.files = @ \cup {file}]
                             ELSE history
    /\ UNCHANGED <<settings, zone, zone_file, inspection>>

\* Another inspection or provisioning stores a file, perhaps an old one that it
\* got earlier, or none (provisioning._domain_dns_zone_file).
StoreElsewhere(file) ==
    /\ Edit
    /\ zone_file' = file
    /\ UNCHANGED <<settings, zone, server_zone, inspection, history>>

InspectionNext ==
    \/ InspectBegin
    \/ InspectionStep
    \/ \E records \in RecordSets : \E content \in Contents[records] :
          Publish(records, content)
    \/ \E file \in ZoneFile : Rotate(file) \/ StoreElsewhere(file)

InspectionSpec == InspectionInit /\ [][InspectionNext]_inspectionVars

---------------------------------------------------------------------------
(* What the verdict should be, said without reference to how it is found.  *)

Single(records, good) == \E r \in good : records = {r}

MxGood(z)    == MailHost # NoHost /\ MailHost \in z.mx
SpfGood(z)   == Single(z.spf, SpfPolicies)
DmarcGood(z) == Single(z.dmarc, DmarcPolicies \ {"other"})
PtrGood(z)   == MailAddress = "valid" /\ MailHost # NoHost /\ MailHost \in z.ptr

Expected(file) == file \notin {Blank, Unreadable, {}}

\* Mail to the domain reaches MailForge, and mail from it can be trusted.
Deliverable(z, file) ==
    /\ MxGood(z) /\ SpfGood(z) /\ DmarcGood(z)
    /\ MailAddress # "unset" => PtrGood(z)
    /\ Expected(file) /\ file \subseteq z.dkim

\* The senders' servers find a policy that lets them use every mail host.
PolicyUsable(z) ==
    /\ Single(z.mta_sts, {"id1", "id2"})
    /\ z.policy.answer = "served"
    /\ WellFormed(z.policy)
    /\ z.policy.mode # "none" =>
         \A host \in z.mx : \E p \in z.policy.mx :
            \/ ~p.wild /\ p.name = host
            \/ p.wild /\ host = <<host[1]>> \o p.name

ReportsUsable(z) ==
    Single(z.tls_rpt, {{"mailto"}, {"https"}, {"mailto", "https"}})

\* Nothing changed and nothing failed since the inspection began.
Undisturbed ==
    /\ history.zones = {zone}
    /\ history.files = {server_zone}
    /\ history.failed = 0

---------------------------------------------------------------------------
(* What must be true. *)

\* An undisturbed inspection finds a domain ready exactly if it is deliverable;
\* in particular MTA-STS and TLS-RPT neither help nor harm
\* (dns_readiness.inspect_domain_dns).
ReadyIsExact ==
        In("done") /\ Undisturbed /\ server_zone # Blank
        => (Ready(inspection.checks) <=> Deliverable(zone, server_zone))

\* An undisturbed inspection passes MTA-STS and TLS-RPT exactly if senders can
\* use them (transport_security.check_mta_sts, check_tls_reporting).
AdviceIsExact ==
        In("done") /\ Undisturbed
        => /\ inspection.checks["mta_sts"] = "pass" <=> PolicyUsable(zone)
           /\ inspection.checks["tls_rpt"] = "pass" <=> ReportsUsable(zone)

\* Whatever changes or fails during an inspection, a domain that is found ready
\* had each record that counts at some moment of it: no lookup that failed, and
\* no value of before, makes up for one (dns_readiness.inspect_domain_dns).
ReadyWasPublished ==
        In("done") /\ Ready(inspection.checks)
        => /\ \E z \in history.zones : MxGood(z)
           /\ \E z \in history.zones : SpfGood(z)
           /\ \E z \in history.zones : DmarcGood(z)
           /\ MailAddress # "unset" => \E z \in history.zones : PtrGood(z)
           /\ Expected(inspection.file)
           /\ \A key \in inspection.file : \E z \in history.zones : key \in z.dkim
=============================================================================
