------------------------ MODULE DnsInspectionProofs ------------------------
(***************************************************************************)
(* ReadyWasPublished, ReadyIsExact and AdviceIsExact for any records,      *)
(* keys, edits and failures: what a check has passed was published at some *)
(* moment of this inspection, and what an undisturbed inspection concludes *)
(* is what is the case.                                                    *)
(***************************************************************************)
EXTENDS DnsInspection, TLAPS, FiniteSetTheorems

PCs == {"idle", "fetch", "store", "policy", "policy_mx", "done"} \cup CheckNames

Statuses == {"pass", "fail", "warn", "skip"}

Policies == Contents["policy"] \cup {[answer |-> "failed"]}

Inspection ==
    [ pc : PCs, file : ZoneFile, fresh : ZoneFile, todo : SUBSET Keys,
      policy : Policies, checks : [CheckNames -> Statuses] ]

InspectionTypeOK ==
    /\ Published(zone)
    /\ server_zone \in ZoneFile /\ zone_file \in ZoneFile
    /\ inspection \in Inspection
    /\ history = [ zones |-> history.zones, files |-> history.files,
                   failed |-> history.failed ]

\* What is published now was published during the inspection.
HistoryIsKept == ~In("idle") => zone \in history.zones

\* No check has a result before the first one is made.
NothingCheckedYet ==
    inspection.pc \in {"idle", "fetch", "store"}
    => inspection.checks = NoChecks /\ inspection.todo = {}

PassedWasSeen ==
    /\ inspection.checks["mx"] = "pass" => \E z \in history.zones : MxGood(z)
    /\ inspection.checks["spf"] = "pass" => \E z \in history.zones : SpfGood(z)
    /\ inspection.checks["dmarc"] = "pass" => \E z \in history.zones : DmarcGood(z)
    /\ inspection.checks["ptr"] = "pass" => \E z \in history.zones : PtrGood(z)

\* While the keys are looked up, those that are done were published.
KeysWereSeen ==
    /\ inspection.todo # {} => Expected(inspection.file)
    /\ inspection.checks["dkim"] = "pass"
       => /\ Expected(inspection.file)
          /\ ~In("dkim") => inspection.todo = {}
          /\ \A key \in inspection.file \ inspection.todo :
                \E z \in history.zones : key \in z.dkim

InspectionInv ==
    /\ InspectionTypeOK
    /\ HistoryIsKept
    /\ NothingCheckedYet
    /\ PassedWasSeen
    /\ KeysWereSeen

---------------------------------------------------------------------------
(* Answers *)

\* An answer that passes MX, PTR, SPF or DMARC is what is published, and good.
LEMMA AnswersPublished ==
    ASSUME InspectionTypeOK, NEW r \in RecordSets, NEW a \in Answers(r), a # NoAnswer
    PROVE  a = zone[r] /\ a \in Contents[r]
  BY DEF InspectionTypeOK, Answers, Published

\* A finite set with one element is a singleton.
LEMMA OneOfFinite ==
    ASSUME NEW S, IsFiniteSet(S), Cardinality(S) = 1
    PROVE  \E r : S = {r}
  BY FS_Singleton

\* An MX answer that passes shows that MX is good.
LEMMA MxPassed ==
    ASSUME InspectionTypeOK, MailHost # NoHost,
           NEW a \in Answers("mx"), MxStatus(a) = "pass"
    PROVE  MxGood(zone)
  <1>1. a # NoAnswer /\ MailHost \in a
    BY DEF MxStatus, PassIf
  <1> QED
    BY <1>1, AnswersPublished DEF MxGood, RecordSets

\* A PTR answer that passes shows that PTR is good.
LEMMA PtrPassed ==
    ASSUME InspectionTypeOK, MailHost # NoHost, MailAddress = "valid",
           NEW a \in Answers("ptr"), MxStatus(a) = "pass"
    PROVE  PtrGood(zone)
  <1>1. a # NoAnswer /\ MailHost \in a
    BY DEF MxStatus, PassIf
  <1> QED
    BY <1>1, AnswersPublished DEF PtrGood, RecordSets

\* An SPF answer that passes is one policy.
LEMMA SpfPassed ==
    ASSUME InspectionTypeOK, NEW a \in Answers("spf"), SpfStatus(a) = "pass"
    PROVE  SpfGood(zone)
  <1>1. a # NoAnswer /\ Cardinality(a) = 1
    BY DEF SpfStatus, PassIf
  <1>2. a = zone.spf /\ a \in Contents["spf"]
    BY <1>1, AnswersPublished DEF RecordSets
  <1>3. IsFiniteSet(a) /\ a \subseteq SpfPolicies
    BY <1>2, InspectionAssumption
  <1>4. \E r : a = {r}
    BY <1>1, <1>3, OneOfFinite
  <1> QED
    BY <1>2, <1>3, <1>4 DEF SpfGood, Single

\* A DMARC answer that passes is one policy with a valid tag p.
LEMMA DmarcPassed ==
    ASSUME InspectionTypeOK, NEW a \in Answers("dmarc"), DmarcStatus(a) = "pass"
    PROVE  DmarcGood(zone)
  <1>1. /\ a # NoAnswer /\ Cardinality(a) = 1
        /\ a \subseteq {"none", "quarantine", "reject"}
    BY DEF DmarcStatus, PassIf
  <1>2. a = zone.dmarc /\ a \in Contents["dmarc"]
    BY <1>1, AnswersPublished DEF RecordSets
  <1>3. IsFiniteSet(a)
    BY <1>2, InspectionAssumption
  <1>4. \E r : a = {r}
    BY <1>1, <1>3, OneOfFinite
  <1> QED
    BY <1>1, <1>2, <1>4 DEF DmarcGood, Single, DmarcPolicies

\* Settling a check keeps the invariant if only what is published passes.
LEMMA SettleSafe ==
    ASSUME InspectionInv,
           NEW c \in CheckNames, NEW status \in Statuses, NEW failed,
           NEW next \in PCs \ {"idle", "fetch", "store"},
           inspection.pc \in {c, "policy", "policy_mx"},
           Settle(c, status, next), Remember(failed),
           UNCHANGED <<settings, zone, server_zone, zone_file>>,
           status = "pass" => /\ c # "dkim"
                              /\ c = "mx" => MxGood(zone)
                              /\ c = "spf" => SpfGood(zone)
                              /\ c = "dmarc" => DmarcGood(zone)
                              /\ c = "ptr" => PtrGood(zone)
    PROVE  InspectionInv'
  <1>1. /\ inspection' = [inspection EXCEPT !.checks[c] = status, !.pc = next]
        /\ inspection.pc \in {c, "policy", "policy_mx"}
        /\ UNCHANGED <<settings, zone, server_zone, zone_file>>
        /\ inspection \in Inspection /\ inspection.pc \notin {"idle", "fetch", "store"}
    BY DEF Settle, InspectionInv, InspectionTypeOK, CheckNames
  <1>2. history'.zones = history.zones
    BY DEF Remember, InspectionInv, InspectionTypeOK
  <1>3. InspectionTypeOK'
    <2>1. inspection' \in Inspection
      <3>1. [inspection.checks EXCEPT ![c] = status] \in [CheckNames -> Statuses]
        BY <1>1 DEF Inspection
      <3>2. inspection' = [inspection EXCEPT
                !.checks = [inspection.checks EXCEPT ![c] = status], !.pc = next]
        BY <1>1
      <3> QED
        BY <1>1, <3>1, <3>2 DEF Inspection
    <2>2. history' = [ zones |-> history'.zones, files |-> history'.files,
                       failed |-> history'.failed ]
      BY DEF Remember, InspectionInv, InspectionTypeOK
    <2>3. Published(zone)' /\ server_zone' \in ZoneFile /\ zone_file' \in ZoneFile
      BY <1>1 DEF InspectionInv, InspectionTypeOK, Published
    <2> QED
      BY <2>1, <2>2, <2>3 DEF InspectionTypeOK
  <1>4. zone \in history.zones
    BY <1>1 DEF InspectionInv, HistoryIsKept, In
  <1>5. HistoryIsKept' /\ NothingCheckedYet'
    BY <1>1, <1>2, <1>4 DEF HistoryIsKept, NothingCheckedYet, Inspection, In
  <1>6. \A d \in CheckNames :
           inspection'.checks[d] = IF d = c THEN status ELSE inspection.checks[d]
    BY <1>1 DEF Inspection
  <1>7. PassedWasSeen'
    BY <1>1, <1>2, <1>4, <1>6 DEF InspectionInv, PassedWasSeen, CheckNames,
       MxGood, SpfGood, DmarcGood, PtrGood, Single, MailHost, MailAddress
  <1>8. KeysWereSeen'
    <2>1. inspection'.file = inspection.file /\ inspection'.todo = inspection.todo
      BY <1>1 DEF Inspection
    <2>2. inspection'.checks["dkim"] = "pass"
          => c # "dkim" /\ inspection.checks["dkim"] = "pass"
      BY <1>6 DEF CheckNames
    <2> QED
      BY <1>1, <1>2, <2>1, <2>2 DEF InspectionInv, KeysWereSeen, Expected, In
  <1> QED
    BY <1>3, <1>5, <1>7, <1>8 DEF InspectionInv

\* One lookup keeps the invariant if it passes only what is published.
LEMMA LookupSafe ==
    ASSUME InspectionInv,
           NEW c \in CheckNames, NEW a, NEW status \in Statuses,
           NEW next \in PCs \ {"idle", "fetch", "store"},
           Lookup(c, a, status, next),
           status = "pass" => /\ c # "dkim"
                              /\ c = "mx" => MxGood(zone)
                              /\ c = "spf" => SpfGood(zone)
                              /\ c = "dmarc" => DmarcGood(zone)
                              /\ c = "ptr" => PtrGood(zone)
    PROVE  InspectionInv'
  <1> DEFINE failed == a = NoAnswer
  <1>1. /\ inspection.pc = c /\ Settle(c, status, next) /\ Remember(failed)
        /\ UNCHANGED <<settings, zone, server_zone, zone_file>>
    BY DEF Lookup, In
  <1> HIDE DEF failed
  <1> QED
    BY <1>1, SettleSafe

---------------------------------------------------------------------------
(* The steps *)

\* A step that leaves checks, file and todo alone, and forgets no zone.
LEMMA LeavesSafe ==
    ASSUME InspectionInv, InspectionTypeOK',
           inspection'.checks = inspection.checks,
           inspection'.file = inspection.file, inspection'.todo = inspection.todo,
           history.zones \subseteq history'.zones, zone' \in history'.zones \/ In("idle")',
           inspection'.pc \in {"idle", "fetch", "store"}
           => inspection.pc \in {"idle", "fetch", "store"},
           In("dkim") => In("dkim")',
           UNCHANGED settings
    PROVE  InspectionInv'
  <1>1. HistoryIsKept' /\ NothingCheckedYet'
    BY DEF InspectionInv, HistoryIsKept, NothingCheckedYet, In
  <1>2. PassedWasSeen'
    BY DEF InspectionInv, PassedWasSeen, MxGood, SpfGood, DmarcGood, PtrGood,
       MailHost, MailAddress
  <1>3. KeysWereSeen'
    BY DEF InspectionInv, KeysWereSeen, Expected, In
  <1> QED
    BY <1>1, <1>2, <1>3 DEF InspectionInv

\* Nothing is checked before the records to look for are known.
LEMMA UncheckedSafe ==
    ASSUME InspectionInv, InspectionTypeOK',
           inspection.pc \in {"idle", "fetch", "store"},
           inspection'.checks = inspection.checks,
           inspection'.todo # {}
           => Expected(inspection'.file) /\ inspection'.pc = "mx",
           zone' \in history'.zones \/ In("idle")'
    PROVE  InspectionInv'
  <1>1. inspection'.checks = NoChecks
    BY DEF InspectionInv, NothingCheckedYet
  <1>2. HistoryIsKept' /\ NothingCheckedYet'
    BY <1>1 DEF HistoryIsKept, NothingCheckedYet
  <1>3. \A c \in CheckNames : inspection'.checks[c] # "pass"
    BY <1>1 DEF NoChecks
  <1>4. PassedWasSeen'
    BY <1>3 DEF PassedWasSeen, CheckNames
  <1>5. KeysWereSeen'
    BY <1>3 DEF KeysWereSeen, CheckNames, Expected
  <1> QED
    BY <1>2, <1>4, <1>5 DEF InspectionInv

\* The keys to look for are those of the file, if it has any.
LEMMA KnownTyped ==
    ASSUME InspectionInv, NEW file \in ZoneFile, Known(file)
    PROVE  /\ inspection' \in Inspection
           /\ inspection'.checks = inspection.checks
           /\ inspection'.todo # {} => Expected(inspection'.file)
           /\ inspection'.pc = "mx"
  <1> DEFINE todo == IF file \in {Blank, Unreadable} THEN {} ELSE file
  <1>1. todo \in SUBSET Keys
    <2>1. file \in SUBSET Keys \/ file \in {Blank, Unreadable}
      BY DEF ZoneFile
    <2> QED
      BY <2>1
  <1>2. inspection' = [inspection EXCEPT !.pc = "mx", !.file = file, !.todo = todo]
    BY DEF Known
  <1>3. todo # {} => Expected(file)
    BY DEF Expected
  <1> HIDE DEF todo
  <1>4. "mx" \in PCs
    BY DEF PCs, CheckNames
  <1>5. inspection \in Inspection
    BY DEF InspectionInv, InspectionTypeOK
  <1>6. inspection'.file = file /\ inspection'.todo = todo /\ inspection'.pc = "mx"
    BY <1>2, <1>5 DEF Inspection
  <1> QED
    BY <1>1, <1>2, <1>3, <1>4, <1>5, <1>6 DEF Inspection

\* Until the keys to look for are known.
LEMMA BeginningSafe ==
    ASSUME InspectionInv, InspectBegin \/ FetchZone \/ FetchZoneFails \/ StoreZone
    PROVE  InspectionInv'
<1> USE DEF In, InspectionInv, InspectionTypeOK
<1>1. CASE InspectBegin
  <2>1. inspection' = [inspection EXCEPT !.pc = "fetch", !.file = zone_file]
    BY <1>1 DEF InspectBegin
  <2>2. inspection' \in Inspection
    BY <2>1 DEF Inspection, PCs
  <2>3. history' = [history EXCEPT !.zones = {zone}, !.files = {server_zone}]
    BY <1>1 DEF InspectBegin
  <2>4. InspectionTypeOK' /\ zone' \in history'.zones
    BY <1>1, <2>2, <2>3 DEF InspectBegin, Published
  <2>5. inspection'.todo = inspection.todo /\ inspection'.checks = inspection.checks
    BY <2>1 DEF Inspection
  <2>6. inspection.todo = {}
    BY <1>1 DEF InspectBegin, NothingCheckedYet
  <2> QED
    BY <1>1, <2>4, <2>5, <2>6, UncheckedSafe DEF InspectBegin
<1>2. CASE FetchZone
  <2>1. inspection' = [inspection EXCEPT !.pc = "store", !.fresh = server_zone]
    BY <1>2 DEF FetchZone
  <2>2. inspection' \in Inspection
    BY <2>1 DEF Inspection, PCs
  <2>3. InspectionTypeOK'
    BY <1>2, <2>2 DEF FetchZone, Published
  <2>4. /\ inspection'.todo = inspection.todo /\ inspection'.checks = inspection.checks
        /\ inspection'.file = inspection.file
    BY <2>1 DEF Inspection
  <2> QED
    BY <1>2, <2>3, <2>4, LeavesSafe DEF FetchZone, HistoryIsKept
<1>3. CASE FetchZoneFails
  <2>1. inspection.file \in ZoneFile /\ Known(inspection.file)
    BY <1>3 DEF FetchZoneFails, Inspection
  <2>2. history'.zones = history.zones /\ InspectionTypeOK'
    BY <1>3, <2>1, KnownTyped DEF FetchZoneFails, Remember, Published
  <2> QED
    BY <1>3, <2>1, <2>2, KnownTyped, UncheckedSafe DEF FetchZoneFails, HistoryIsKept
<1>4. CASE StoreZone
  <2>1. PICK file \in {inspection.file, inspection.fresh} :
           Known(file) /\ zone_file' \in {zone_file, file}
    BY <1>4 DEF StoreZone
  <2>2. file \in ZoneFile
    BY <2>1 DEF Inspection
  <2>3. InspectionTypeOK'
    BY <1>4, <2>1, <2>2, KnownTyped DEF StoreZone, Published
  <2> QED
    BY <1>4, <2>1, <2>2, <2>3, KnownTyped, UncheckedSafe DEF StoreZone, HistoryIsKept
<1> QED
  BY <1>1, <1>2, <1>3, <1>4

\* The checks of one lookup each.
LEMMA ChecksSafe ==
    ASSUME InspectionInv,
           \/ CheckMx \/ CheckSpf \/ CheckDkimNone \/ CheckDmarc \/ CheckPtr
           \/ CheckStsRecord \/ CheckTlsReporting
    PROVE  InspectionInv'
<1> USE DEF Statuses, PCs, CheckNames
<1>0. InspectionTypeOK
  BY DEF InspectionInv
<1>1. CASE CheckMx
  <2>1. CASE MailHost = NoHost
    BY <1>1, <2>1, LookupSafe DEF CheckMx
  <2>2. CASE MailHost # NoHost
    <3>1. PICK a \in Answers("mx") : Lookup("mx", a, MxStatus(a), "spf")
      BY <1>1, <2>2 DEF CheckMx
    <3>2. MxStatus(a) \in Statuses
      BY DEF MxStatus, PassIf
    <3> QED
      BY <1>0, <2>2, <3>1, <3>2, MxPassed, LookupSafe
  <2> QED
    BY <2>1, <2>2
<1>2. CASE CheckSpf
  <2>1. PICK a \in Answers("spf") : Lookup("spf", a, SpfStatus(a), "dkim")
    BY <1>2 DEF CheckSpf
  <2>2. SpfStatus(a) \in Statuses
    BY DEF SpfStatus, PassIf
  <2> QED
    BY <1>0, <2>1, <2>2, SpfPassed, LookupSafe
<1>3. CASE CheckDkimNone
  <2>1. PICK status \in {"fail", "warn"} : Lookup("dkim", {}, status, "dmarc")
    BY <1>3 DEF CheckDkimNone
  <2> QED
    BY <2>1, LookupSafe
<1>4. CASE CheckDmarc
  <2>1. PICK a \in Answers("dmarc") : Lookup("dmarc", a, DmarcStatus(a), "ptr")
    BY <1>4 DEF CheckDmarc
  <2>2. DmarcStatus(a) \in Statuses
    BY DEF DmarcStatus, PassIf
  <2> QED
    BY <1>0, <2>1, <2>2, DmarcPassed, LookupSafe
<1>5. CASE CheckPtr
  <2>1. CASE \E status \in {"skip", "fail"} : Lookup("ptr", {}, status, "mta_sts")
    BY <2>1, LookupSafe
  <2>2. CASE /\ MailAddress = "valid" /\ MailHost # NoHost
             /\ \E a \in Answers("ptr") : Lookup("ptr", a, MxStatus(a), "mta_sts")
    <3>1. PICK a \in Answers("ptr") : Lookup("ptr", a, MxStatus(a), "mta_sts")
      BY <2>2
    <3>2. MxStatus(a) \in Statuses
      BY DEF MxStatus, PassIf
    <3> QED
      BY <1>0, <2>2, <3>1, <3>2, PtrPassed, LookupSafe
  <2> QED
    BY <1>5, <2>1, <2>2 DEF CheckPtr
<1>6. CASE CheckStsRecord
  <2>1. PICK a \in Answers("mta_sts") :
           \/ Lookup("mta_sts", a, "warn", "policy")
           \/ Lookup("mta_sts", a, "warn", "tls_rpt")
           \/ Lookup("mta_sts", a, "fail", "tls_rpt")
    BY <1>6 DEF CheckStsRecord
  <2> QED
    BY <2>1, LookupSafe
<1>7. CASE CheckTlsReporting
  <2>1. PICK a \in Answers("tls_rpt") : Lookup("tls_rpt", a, TlsStatus(a), "done")
    BY <1>7 DEF CheckTlsReporting
  <2>2. TlsStatus(a) \in Statuses
    BY DEF TlsStatus, PassIf
  <2> QED
    BY <2>1, <2>2, LookupSafe
<1> QED
  BY <1>1, <1>2, <1>3, <1>4, <1>5, <1>6, <1>7

\* A key that is looked up joins those that were published.
LEMMA DkimSafe ==
    ASSUME InspectionInv, CheckDkim
    PROVE  InspectionInv'
<1>0. InspectionTypeOK /\ zone \in history.zones /\ inspection.pc = "dkim"
  BY DEF CheckDkim, In, InspectionInv, HistoryIsKept
<1> DEFINE sofar == IF inspection.todo = inspection.file THEN "pass"
                    ELSE inspection.checks["dkim"]
           next(key) == IF inspection.todo \ {key} = {} THEN "dmarc" ELSE "dkim"
<1>a. PICK key \in inspection.todo, a \in Answers("dkim") :
         /\ inspection' = [inspection EXCEPT !.todo = inspection.todo \ {key},
                              !.checks["dkim"] = DkimStatus(sofar, key, a),
                              !.pc = next(key)]
         /\ Remember(a = NoAnswer)
         /\ UNCHANGED <<settings, zone, server_zone, zone_file>>
  BY DEF CheckDkim
<1> DEFINE status == DkimStatus(sofar, key, a)
           pc     == next(key)
<1>1. /\ inspection' = [inspection EXCEPT !.todo = inspection.todo \ {key},
                                          !.checks["dkim"] = status, !.pc = pc]
      /\ status = DkimStatus(sofar, key, a)
      /\ pc = "dkim" \/ inspection.todo \ {key} = {}
      /\ pc \in {"dkim", "dmarc"}
      /\ UNCHANGED <<settings, zone, server_zone, zone_file>>
  BY <1>a
<1> HIDE DEF status, pc, next
<1>2. history'.zones = history.zones
  BY <1>0, <1>a DEF Remember, InspectionTypeOK
<1>3. status \in Statuses
  <2>1. inspection.checks["dkim"] \in Statuses
    BY <1>0 DEF InspectionTypeOK, Inspection, CheckNames
  <2> QED
    BY <1>1, <2>1 DEF DkimStatus, Statuses
<1>4. /\ inspection'.file = inspection.file /\ inspection'.pc = pc
      /\ inspection'.todo = inspection.todo \ {key}
      /\ \A c \in CheckNames : inspection'.checks[c] =
            IF c = "dkim" THEN status ELSE inspection.checks[c]
  BY <1>0, <1>1 DEF InspectionTypeOK, Inspection
<1>5. InspectionTypeOK'
  <2>1. [inspection.checks EXCEPT !["dkim"] = status] \in [CheckNames -> Statuses]
    BY <1>0, <1>3 DEF InspectionTypeOK, Inspection
  <2>2. inspection' = [inspection EXCEPT !.todo = inspection.todo \ {key},
            !.checks = [inspection.checks EXCEPT !["dkim"] = status], !.pc = pc]
    BY <1>1
  <2>3. pc \in PCs /\ inspection.todo \ {key} \in SUBSET Keys
    BY <1>0, <1>1 DEF PCs, CheckNames, InspectionTypeOK, Inspection
  <2>4. inspection' \in Inspection
    BY <1>0, <2>1, <2>2, <2>3 DEF InspectionTypeOK, Inspection
  <2> QED
    BY <1>0, <1>a, <2>4 DEF InspectionTypeOK, Remember, Published
<1>6. HistoryIsKept' /\ NothingCheckedYet'
  BY <1>0, <1>1, <1>2, <1>4 DEF HistoryIsKept, NothingCheckedYet
<1>7. PassedWasSeen'
  BY <1>1, <1>2, <1>4 DEF InspectionInv, PassedWasSeen, CheckNames,
     MxGood, SpfGood, DmarcGood, PtrGood, MailHost, MailAddress
<1>8. KeysWereSeen'
  <2>1. Expected(inspection'.file)
    BY <1>1, <1>4 DEF InspectionInv, KeysWereSeen, Expected
  <2>2. ASSUME status = "pass", NEW k \in inspection.file \ (inspection.todo \ {key})
        PROVE  \E z \in history.zones : k \in z.dkim
    <3>1. a # NoAnswer /\ key \in a
      BY <1>1, <2>2 DEF DkimStatus
    <3>2. key \in zone.dkim
      BY <1>0, <1>1, <3>1, AnswersPublished DEF RecordSets
    <3>3. CASE k = key
      BY <1>0, <3>2, <3>3
    <3>4. CASE k # key
      <4>1. inspection.todo # inspection.file /\ k \in inspection.file \ inspection.todo
        BY <1>1, <2>2, <3>4
      <4>2. inspection.checks["dkim"] = "pass"
        BY <1>1, <2>2, <3>1, <4>1 DEF DkimStatus
      <4> QED
        BY <4>1, <4>2 DEF InspectionInv, KeysWereSeen
    <3> QED
      BY <3>3, <3>4
  <2>3. inspection'.checks["dkim"] = status
    BY <1>4 DEF CheckNames
  <2>4. ~In("dkim")' => inspection'.todo = {}
    BY <1>1, <1>4 DEF In
  <2> QED
    BY <1>2, <1>4, <2>1, <2>2, <2>3, <2>4 DEF KeysWereSeen
<1> QED
  BY <1>5, <1>6, <1>7, <1>8 DEF InspectionInv

\* What is not required disturbs nothing.
LEMMA StsSafe ==
    ASSUME InspectionInv, CheckStsPolicy \/ CheckStsMx
    PROVE  InspectionInv'
<1>0. /\ InspectionTypeOK /\ zone \in history.zones
      /\ inspection.pc \in {"policy", "policy_mx"}
      /\ UNCHANGED <<settings, zone, server_zone, zone_file>>
  BY DEF CheckStsPolicy, CheckStsMx, In, InspectionInv, HistoryIsKept
<1>1. ASSUME NEW status \in Statuses, NEW failed,
             Settle("mta_sts", status, "tls_rpt"), Remember(failed)
      PROVE  InspectionInv'
  BY <1>0, <1>1, SettleSafe DEF PCs, CheckNames
<1>2. ASSUME NEW p \in Policies, NEW failed, Remember(failed),
             inspection' = [inspection EXCEPT !.pc = "policy_mx", !.policy = p]
      PROVE  InspectionInv'
  <2>1. inspection' \in Inspection
    BY <1>0, <1>2 DEF InspectionTypeOK, Inspection, PCs
  <2>2. InspectionTypeOK' /\ history'.zones = history.zones
    BY <1>0, <1>2, <2>1 DEF InspectionTypeOK, Remember, Published
  <2>3. /\ inspection'.file = inspection.file /\ inspection'.todo = inspection.todo
        /\ inspection'.checks = inspection.checks /\ inspection'.pc = "policy_mx"
    BY <1>0, <1>2 DEF InspectionTypeOK, Inspection
  <2> QED
    BY <1>0, <2>2, <2>3, LeavesSafe DEF In
<1>3. CASE CheckStsPolicy
  <2>1. zone.policy \in Policies /\ [answer |-> "failed"] \in Policies
    BY <1>0 DEF InspectionTypeOK, Policies, Published, RecordSets
  <2>2. PICK p \in Policies :
           /\ \/ Settle("mta_sts", "warn", "tls_rpt")
              \/ Settle("mta_sts", "fail", "tls_rpt")
              \/ inspection' = [inspection EXCEPT !.pc = "policy_mx", !.policy = p]
           /\ Remember(p.answer = "failed")
    BY <1>3, <2>1 DEF CheckStsPolicy
  <2> DEFINE failed == p.answer = "failed"
  <2>3. Remember(failed)
    BY <2>2
  <2> HIDE DEF failed
  <2> QED
    BY <1>1, <1>2, <2>2, <2>3 DEF Statuses
<1>4. CASE CheckStsMx
  <2>1. PICK a \in Answers("mx"), status \in {"warn", "pass", "fail"} :
           Settle("mta_sts", status, "tls_rpt") /\ Remember(a = NoAnswer)
    BY <1>4 DEF CheckStsMx, PassIf
  <2> DEFINE failed == a = NoAnswer
  <2>2. Remember(failed)
    BY <2>1
  <2> HIDE DEF failed
  <2> QED
    BY <1>1, <2>1, <2>2 DEF Statuses
<1> QED
  BY <1>3, <1>4

\* The end of an inspection, and what others do.
LEMMA MeanwhileSafe ==
    ASSUME InspectionInv,
           \/ InspectEnd
           \/ \E records \in RecordSets : \E content \in Contents[records] :
                 Publish(records, content)
           \/ \E file \in ZoneFile : Rotate(file) \/ StoreElsewhere(file)
    PROVE  InspectionInv'
<1>0. InspectionTypeOK
  BY DEF InspectionInv
<1>1. CASE InspectEnd
  <2>1. Idle \in Inspection
    BY DEF Idle, NoChecks, Inspection, PCs, ZoneFile, Policies, Statuses
  <2>2. InspectionTypeOK'
    BY <1>0, <1>1, <2>1 DEF InspectEnd, InspectionTypeOK, Published, NoHistory
  <2>3. HistoryIsKept' /\ NothingCheckedYet' /\ PassedWasSeen' /\ KeysWereSeen'
    BY <1>1 DEF InspectEnd, Idle, NoChecks, CheckNames, In,
       HistoryIsKept, NothingCheckedYet, PassedWasSeen, KeysWereSeen
  <2> QED
    BY <2>2, <2>3 DEF InspectionInv
<1>2. ASSUME NEW records \in RecordSets, NEW content \in Contents[records],
             Publish(records, content)
      PROVE  InspectionInv'
  <2>1. Published(zone')
    BY <1>0, <1>2 DEF InspectionTypeOK, Published, Publish
  <2>2. InspectionTypeOK' /\ history.zones \subseteq history'.zones
    BY <1>0, <1>2, <2>1 DEF InspectionTypeOK, Publish, Published
  <2>3. zone' \in history'.zones \/ In("idle")'
    BY <1>0, <1>2 DEF InspectionTypeOK, Publish, Running, In
  <2> QED
    BY <1>2, <2>2, <2>3, LeavesSafe DEF Publish, In
<1>3. ASSUME NEW file \in ZoneFile, Rotate(file) \/ StoreElsewhere(file)
      PROVE  InspectionInv'
  <2>1. InspectionTypeOK' /\ history'.zones = history.zones
    BY <1>0, <1>3 DEF InspectionTypeOK, Rotate, StoreElsewhere, Published
  <2>2. zone' \in history'.zones \/ In("idle")'
    BY <1>3, <2>1 DEF InspectionInv, HistoryIsKept, Rotate, StoreElsewhere, In
  <2> QED
    BY <1>3, <2>1, <2>2, LeavesSafe DEF Rotate, StoreElsewhere, In
<1> QED
  BY <1>1, <1>2, <1>3

\* No step of an inspection, and nothing that goes on meanwhile, breaks the
\* invariant.
LEMMA NextSafe == InspectionInv /\ [InspectionNext]_inspectionVars => InspectionInv'
<1> SUFFICES ASSUME InspectionInv, [InspectionNext]_inspectionVars
             PROVE  InspectionInv'
  OBVIOUS
<1>1. CASE InspectionNext
  BY <1>1, BeginningSafe, ChecksSafe, DkimSafe, StsSafe, MeanwhileSafe
     DEF InspectionNext, InspectionStep
<1>2. CASE UNCHANGED inspectionVars
  BY <1>2 DEF inspectionVars, InspectionInv, InspectionTypeOK, Published,
     HistoryIsKept, NothingCheckedYet, PassedWasSeen, KeysWereSeen, Expected, In,
     MxGood, SpfGood, DmarcGood, PtrGood, MailHost, MailAddress
<1> QED
  BY <1>1, <1>2

\* Every reachable state has the invariant: what has passed was published
\* (dns_readiness.inspect_domain_dns).
THEOREM InspectionSafe == InspectionSpec => []InspectionInv
<1>1. InspectionInit => InspectionInv
  <2> SUFFICES ASSUME InspectionInit PROVE InspectionInv
    OBVIOUS
  <2>1. Idle \in Inspection
    BY DEF Idle, NoChecks, Inspection, PCs, ZoneFile, Policies, Statuses
  <2>2. InspectionTypeOK
    BY <2>1, InspectionAssumption DEF InspectionInit, InspectionTypeOK, NoHistory
  <2>3. HistoryIsKept /\ NothingCheckedYet /\ PassedWasSeen /\ KeysWereSeen
    BY DEF InspectionInit, Idle, NoChecks, CheckNames, In,
       HistoryIsKept, NothingCheckedYet, PassedWasSeen, KeysWereSeen
  <2> QED
    BY <2>2, <2>3 DEF InspectionInv
<1> QED
  BY <1>1, NextSafe, PTL DEF InspectionSpec

\* For any records and any number of edits and failures: a domain found ready had
\* each record that counts, and each expected key, published at some moment of
\* that inspection (dns_readiness.inspect_domain_dns).
THEOREM ReadyNeedsPublication == InspectionSpec => []ReadyWasPublished
<1>1. InspectionInv => ReadyWasPublished
  <2> SUFFICES ASSUME InspectionInv, In("done"), Ready(inspection.checks)
               PROVE  ReadyWasPublished
    BY DEF ReadyWasPublished
  <2>1. \A c \in CheckNames : Required(c) => inspection.checks[c] = "pass"
    BY DEF Ready, Passed
  <2>2. /\ inspection.checks["mx"] = "pass" /\ inspection.checks["spf"] = "pass"
        /\ inspection.checks["dkim"] = "pass" /\ inspection.checks["dmarc"] = "pass"
        /\ MailAddress # "unset" => inspection.checks["ptr"] = "pass"
    BY <2>1 DEF Required, CheckNames
  <2>3. ~In("dkim")
    BY DEF In
  <2> QED
    BY <2>2, <2>3 DEF InspectionInv, PassedWasSeen, KeysWereSeen, ReadyWasPublished
<1> QED
  BY <1>1, InspectionSafe, PTL
---------------------------------------------------------------------------
(* Exactness: the other direction, of inspections that nothing disturbs.   *)

Rest == {"mta_sts", "policy", "policy_mx", "tls_rpt", "done"}

\* The required check c has been made when the inspection is at pc.
MadeAt(c, pc) ==
    \/ c = "mx"    /\ pc \in {"spf", "dkim", "dmarc", "ptr"} \cup Rest
    \/ c = "spf"   /\ pc \in {"dkim", "dmarc", "ptr"} \cup Rest
    \/ c = "dkim"  /\ pc \in {"dmarc", "ptr"} \cup Rest
    \/ c = "dmarc" /\ pc \in {"ptr"} \cup Rest
    \/ c = "ptr"   /\ pc \in Rest

\* What a check should find.
Good(c) ==
    \/ c = "mx"    /\ MxGood(zone)
    \/ c = "spf"   /\ SpfGood(zone)
    \/ c = "dkim"  /\ Expected(inspection.file) /\ inspection.file \subseteq zone.dkim
    \/ c = "dmarc" /\ DmarcGood(zone)
    \/ c = "ptr"   /\ PtrGood(zone)

KeysOf(file) == IF file \in {Blank, Unreadable} THEN {} ELSE file

\* The keys still to be looked up are those of the file, or what is left of them.
TodoIsRest ==
    /\ inspection.pc \in {"mx", "spf"} => inspection.todo = KeysOf(inspection.file)
    /\ In("dkim") =>
          \/ inspection.todo = KeysOf(inspection.file)
          \/ /\ inspection.todo # {} /\ inspection.todo \subseteq inspection.file
             /\ Expected(inspection.file)

\* The file is the one that Stalwart has.
FileIsFetched ==
    server_zone # Blank =>
        /\ In("store") => inspection.fresh = server_zone
        /\ inspection.pc \notin {"idle", "fetch", "store"} =>
              inspection.file = server_zone

\* Some keys are done and some are not: those done tell the status.
KeysAreExact ==
    In("dkim") /\ inspection.todo # KeysOf(inspection.file) =>
        (inspection.checks["dkim"] = "pass"
         <=> inspection.file \ inspection.todo \subseteq zone.dkim)

ChecksAreExact ==
    \A c \in CheckNames : MadeAt(c, inspection.pc) =>
        (inspection.checks[c] = "pass" <=> Good(c))

ExactSoFar == FileIsFetched /\ KeysAreExact /\ ChecksAreExact

ExactInv ==
    /\ history.failed \in Nat
    /\ Running => server_zone \in history.files
    /\ TodoIsRest
    /\ Undisturbed /\ Running => ExactSoFar

\* An MX or PTR lookup that is answered passes exactly what is good.
LEMMA HostAnswerExact ==
    ASSUME InspectionTypeOK, MailHost # NoHost, NEW r \in {"mx", "ptr"},
           NEW a \in Answers(r), a # NoAnswer
    PROVE  MxStatus(a) = "pass" <=> MailHost \in zone[r]
  <1>1. a = zone[r]
    BY AnswersPublished DEF RecordSets
  <1> QED
    BY <1>1 DEF MxStatus, PassIf

\* An SPF lookup that is answered passes exactly one policy.
LEMMA SpfExact ==
    ASSUME InspectionTypeOK, NEW a \in Answers("spf"), a # NoAnswer
    PROVE  SpfStatus(a) = "pass" <=> SpfGood(zone)
  <1>1. a = zone.spf
    BY AnswersPublished DEF RecordSets
  <1>2. ASSUME SpfGood(zone) PROVE Cardinality(a) = 1
    <2>1. PICK r \in SpfPolicies : a = {r}
      BY <1>1, <1>2 DEF SpfGood, Single
    <2> QED
      BY <2>1, FS_Singleton
  <1>3. SpfGood(zone) => SpfStatus(a) = "pass"
    BY <1>2 DEF SpfStatus, PassIf
  <1> QED
    BY <1>3, SpfPassed

\* A DMARC lookup that is answered passes exactly one policy with a valid tag p.
LEMMA DmarcExact ==
    ASSUME InspectionTypeOK, NEW a \in Answers("dmarc"), a # NoAnswer
    PROVE  DmarcStatus(a) = "pass" <=> DmarcGood(zone)
  <1>1. a = zone.dmarc
    BY AnswersPublished DEF RecordSets
  <1>2. ASSUME DmarcGood(zone)
        PROVE  Cardinality(a) = 1 /\ a \subseteq {"none", "quarantine", "reject"}
    <2>1. PICK r \in DmarcPolicies \ {"other"} : a = {r}
      BY <1>1, <1>2 DEF DmarcGood, Single
    <2>2. Cardinality(a) = 1
      BY <2>1, FS_Singleton
    <2> QED
      BY <2>1, <2>2 DEF DmarcPolicies
  <1>3. DmarcGood(zone) => DmarcStatus(a) = "pass"
    BY <1>2 DEF DmarcStatus, PassIf
  <1> QED
    BY <1>3, DmarcPassed

\* A lookup that fails disturbs, and one that is answered leaves the history.
LEMMA Remembers ==
    ASSUME InspectionTypeOK, history.failed \in Nat, NEW failed, Remember(failed)
    PROVE  /\ history'.failed \in Nat /\ history'.files = history.files
           /\ history'.zones = history.zones
           /\ history'.failed = 0 => ~failed /\ history.failed = 0
  <1>1. CASE failed
    <2>1. history' = [history EXCEPT !.failed = @ + 1]
      BY <1>1 DEF Remember
    <2>2. /\ history'.failed = history.failed + 1
          /\ history'.files = history.files /\ history'.zones = history.zones
      BY <2>1 DEF InspectionTypeOK
    <2> QED
      BY <2>2
  <1>2. CASE ~failed
    BY <1>2 DEF Remember
  <1> QED
    BY <1>1, <1>2

\* Settling a check keeps exactness if, unless the lookup failed, what passes is
\* what is good.
LEMMA SettleExact ==
    ASSUME InspectionInv, ExactInv,
           NEW c \in CheckNames, NEW status \in Statuses, NEW failed,
           NEW next \in PCs \ {"idle", "fetch", "store", "mx"},
           inspection.pc \in PCs \ {"idle", "fetch", "store"},
           Settle(c, status, next), Remember(failed),
           UNCHANGED <<settings, zone, server_zone>>,
           \A d \in CheckNames : MadeAt(d, next) => d = c \/ MadeAt(d, inspection.pc),
           next = "spf" => inspection.pc = "mx",
           next = "dkim" => inspection.pc = "spf",
           ~failed /\ MadeAt(c, next) => (status = "pass" <=> Good(c))
    PROVE  ExactInv'
  <1>1. /\ inspection \in Inspection
        /\ inspection' = [inspection EXCEPT !.checks[c] = status, !.pc = next]
    BY DEF Settle, InspectionInv, InspectionTypeOK
  <1>2. /\ inspection'.pc = next
        /\ inspection'.file = inspection.file /\ inspection'.todo = inspection.todo
        /\ \A d \in CheckNames : inspection'.checks[d] =
              IF d = c THEN status ELSE inspection.checks[d]
    BY <1>1 DEF Inspection
  <1>3. /\ history'.failed \in Nat /\ history'.files = history.files
        /\ history'.zones = history.zones
        /\ history'.failed = 0 => ~failed /\ history.failed = 0
    BY Remembers DEF InspectionInv, ExactInv
  <1>4. Running /\ (Undisturbed' => Undisturbed /\ ~failed)
    BY <1>3 DEF Running, In, Undisturbed
  <1>5. TodoIsRest'
    BY <1>2 DEF ExactInv, TodoIsRest, KeysOf, Expected, In
  <1>6. ASSUME Undisturbed' PROVE ExactSoFar'
    <2>1. ExactSoFar /\ ~failed
      BY <1>4, <1>6 DEF ExactInv
    <2>2. FileIsFetched'
      BY <1>2, <2>1 DEF ExactSoFar, FileIsFetched, In
    <2>3. KeysAreExact'
      BY <1>2 DEF ExactInv, TodoIsRest, KeysAreExact, KeysOf, In
    <2>4. ASSUME NEW d \in CheckNames PROVE Good(d)' <=> Good(d)
      BY <1>2 DEF Good, MxGood, SpfGood, DmarcGood, PtrGood, Single, Expected,
         MailHost, MailAddress
    <2>5. ChecksAreExact'
      BY <1>2, <2>1, <2>4 DEF ExactSoFar, ChecksAreExact
    <2> QED
      BY <2>2, <2>3, <2>5 DEF ExactSoFar
  <1> QED
    BY <1>3, <1>4, <1>5, <1>6 DEF ExactInv

\* One lookup keeps exactness if, unless it failed, what passes is what is good.
LEMMA LookupExact ==
    ASSUME InspectionInv, ExactInv,
           NEW c \in CheckNames, NEW a, NEW status \in Statuses,
           NEW next \in PCs \ {"idle", "fetch", "store", "mx"},
           Lookup(c, a, status, next),
           \A d \in CheckNames : MadeAt(d, next) => d = c \/ MadeAt(d, c),
           next = "spf" => c = "mx", next = "dkim" => c = "spf",
           a # NoAnswer /\ MadeAt(c, next) => (status = "pass" <=> Good(c))
    PROVE  ExactInv'
  <1> DEFINE failed == a = NoAnswer
  <1>1. /\ inspection.pc = c /\ Settle(c, status, next) /\ Remember(failed)
        /\ UNCHANGED <<settings, zone, server_zone>>
        /\ c \in PCs \ {"idle", "fetch", "store"}
    BY DEF Lookup, In, PCs, CheckNames
  <1>2. ~failed /\ MadeAt(c, next) => (status = "pass" <=> Good(c))
    OBVIOUS
  <1> HIDE DEF failed
  <1> QED
    BY <1>1, <1>2, SettleExact

\* The checks of one lookup each.
LEMMA ChecksExact ==
    ASSUME InspectionInv, ExactInv,
           \/ CheckMx \/ CheckSpf \/ CheckDkimNone \/ CheckDmarc \/ CheckPtr
           \/ CheckStsRecord \/ CheckTlsReporting
    PROVE  ExactInv'
<1> USE DEF Statuses, PCs, CheckNames
<1>0. InspectionTypeOK
  BY DEF InspectionInv
<1>1. CASE CheckMx
  <2>0. \A d \in CheckNames : MadeAt(d, "spf") => d = "mx"
    BY DEF MadeAt, Rest
  <2>1. CASE MailHost = NoHost
    <3>1. Lookup("mx", zone.mx, "fail", "spf") /\ ~Good("mx")
      BY <1>1, <2>1 DEF CheckMx, Good, MxGood
    <3> QED
      BY <2>0, <3>1, LookupExact
  <2>2. CASE MailHost # NoHost
    <3>1. PICK a \in Answers("mx") : Lookup("mx", a, MxStatus(a), "spf")
      BY <1>1, <2>2 DEF CheckMx
    <3>2. MxStatus(a) \in Statuses
      BY DEF MxStatus, PassIf
    <3>3. a # NoAnswer => (MxStatus(a) = "pass" <=> Good("mx"))
      BY <1>0, <2>2, HostAnswerExact DEF Good, MxGood
    <3> QED
      BY <2>0, <3>1, <3>2, <3>3, LookupExact
  <2> QED
    BY <2>1, <2>2
<1>2. CASE CheckSpf
  <2>0. \A d \in CheckNames : MadeAt(d, "dkim") => d = "spf" \/ MadeAt(d, "spf")
    BY DEF MadeAt, Rest
  <2>1. PICK a \in Answers("spf") : Lookup("spf", a, SpfStatus(a), "dkim")
    BY <1>2 DEF CheckSpf
  <2>2. SpfStatus(a) \in Statuses
    BY DEF SpfStatus, PassIf
  <2>3. a # NoAnswer => (SpfStatus(a) = "pass" <=> Good("spf"))
    BY <1>0, SpfExact DEF Good
  <2> QED
    BY <2>0, <2>1, <2>2, <2>3, LookupExact
<1>3. CASE CheckDkimNone
  <2>0. \A d \in CheckNames : MadeAt(d, "dmarc") => d = "dkim" \/ MadeAt(d, "dkim")
    BY DEF MadeAt, Rest
  <2>1. PICK status \in {"fail", "warn"} : Lookup("dkim", {}, status, "dmarc")
    BY <1>3 DEF CheckDkimNone
  <2>2. KeysOf(inspection.file) = {}
    BY <1>3, <2>1 DEF CheckDkimNone, Lookup, ExactInv, TodoIsRest
  <2>3. ~Good("dkim")
    BY <2>2 DEF Good, Expected, KeysOf
  <2> QED
    BY <2>0, <2>1, <2>3, LookupExact
<1>4. CASE CheckDmarc
  <2>0. \A d \in CheckNames : MadeAt(d, "ptr") => d = "dmarc" \/ MadeAt(d, "dmarc")
    BY DEF MadeAt, Rest
  <2>1. PICK a \in Answers("dmarc") : Lookup("dmarc", a, DmarcStatus(a), "ptr")
    BY <1>4 DEF CheckDmarc
  <2>2. DmarcStatus(a) \in Statuses
    BY DEF DmarcStatus, PassIf
  <2>3. a # NoAnswer => (DmarcStatus(a) = "pass" <=> Good("dmarc"))
    BY <1>0, DmarcExact DEF Good
  <2> QED
    BY <2>0, <2>1, <2>2, <2>3, LookupExact
<1>5. CASE CheckPtr
  <2>0. \A d \in CheckNames : MadeAt(d, "mta_sts") => d = "ptr" \/ MadeAt(d, "ptr")
    BY DEF MadeAt, Rest
  <2>1. CASE /\ MailHost = NoHost \/ MailAddress # "valid"
             /\ \E status \in {"skip", "fail"} : Lookup("ptr", {}, status, "mta_sts")
    <3>1. ~Good("ptr")
      BY <2>1 DEF Good, PtrGood
    <3> QED
      BY <2>0, <2>1, <3>1, LookupExact
  <2>2. CASE /\ MailAddress = "valid" /\ MailHost # NoHost
             /\ \E a \in Answers("ptr") : Lookup("ptr", a, MxStatus(a), "mta_sts")
    <3>1. PICK a \in Answers("ptr") : Lookup("ptr", a, MxStatus(a), "mta_sts")
      BY <2>2
    <3>2. MxStatus(a) \in Statuses
      BY DEF MxStatus, PassIf
    <3>3. a # NoAnswer => (MxStatus(a) = "pass" <=> Good("ptr"))
      BY <1>0, <2>2, HostAnswerExact DEF Good, PtrGood
    <3> QED
      BY <2>0, <3>1, <3>2, <3>3, LookupExact
  <2> QED
    BY <1>5, <2>1, <2>2 DEF CheckPtr
<1>6. CASE CheckStsRecord
  <2>0. \A d \in CheckNames, next \in {"policy", "tls_rpt"} :
           MadeAt(d, next) => d # "mta_sts" /\ MadeAt(d, "mta_sts")
    BY DEF MadeAt, Rest
  <2>1. PICK a \in Answers("mta_sts") :
           \/ Lookup("mta_sts", a, "warn", "policy")
           \/ Lookup("mta_sts", a, "warn", "tls_rpt")
           \/ Lookup("mta_sts", a, "fail", "tls_rpt")
    BY <1>6 DEF CheckStsRecord
  <2> QED
    BY <2>0, <2>1, LookupExact
<1>7. CASE CheckTlsReporting
  <2>0. \A d \in CheckNames : MadeAt(d, "done") => d # "tls_rpt" /\ MadeAt(d, "tls_rpt")
    BY DEF MadeAt, Rest
  <2>1. PICK a \in Answers("tls_rpt") : Lookup("tls_rpt", a, TlsStatus(a), "done")
    BY <1>7 DEF CheckTlsReporting
  <2>2. TlsStatus(a) \in Statuses
    BY DEF TlsStatus, PassIf
  <2> QED
    BY <2>0, <2>1, <2>2, LookupExact
<1> QED
  BY <1>1, <1>2, <1>3, <1>4, <1>5, <1>6, <1>7

\* What is not required is no part of it.
LEMMA StsExact ==
    ASSUME InspectionInv, ExactInv, CheckStsPolicy \/ CheckStsMx
    PROVE  ExactInv'
<1>0. /\ InspectionTypeOK
      /\ inspection.pc \in {"policy", "policy_mx"}
      /\ UNCHANGED <<settings, zone, server_zone>>
  BY DEF CheckStsPolicy, CheckStsMx, In, InspectionInv
<1>1. \A d \in CheckNames, next \in {"policy_mx", "tls_rpt"} :
         MadeAt(d, next) => d # "mta_sts" /\ MadeAt(d, inspection.pc)
  BY <1>0 DEF MadeAt, Rest
<1>2. ASSUME NEW status \in Statuses, NEW failed,
             Settle("mta_sts", status, "tls_rpt"), Remember(failed)
      PROVE  ExactInv'
  BY <1>0, <1>1, <1>2, SettleExact DEF PCs, CheckNames
<1>3. ASSUME NEW p \in Policies, NEW failed, Remember(failed),
             inspection' = [inspection EXCEPT !.pc = "policy_mx", !.policy = p]
      PROVE  ExactInv'
  <2>1. /\ inspection'.pc = "policy_mx"
        /\ inspection'.file = inspection.file /\ inspection'.todo = inspection.todo
        /\ inspection'.checks = inspection.checks
    BY <1>0, <1>3 DEF InspectionTypeOK, Inspection
  <2>2. /\ history'.failed \in Nat /\ history'.files = history.files
        /\ history'.zones = history.zones
        /\ history'.failed = 0 => history.failed = 0
    BY <1>3, Remembers DEF InspectionInv, ExactInv
  <2>3. Running /\ (Undisturbed' => Undisturbed)
    BY <1>0, <2>2 DEF Running, In, Undisturbed
  <2>4. TodoIsRest'
    BY <2>1 DEF TodoIsRest, In
  <2>5. ExactSoFar => ExactSoFar'
    <3>1. FileIsFetched => FileIsFetched'
      BY <1>0, <2>1 DEF FileIsFetched, In
    <3>2. KeysAreExact'
      BY <2>1 DEF KeysAreExact, In
    <3>3. ASSUME NEW d \in CheckNames PROVE Good(d)' <=> Good(d)
      BY <1>0, <2>1 DEF Good, MxGood, SpfGood, DmarcGood, PtrGood, Single, Expected,
         MailHost, MailAddress
    <3>4. ChecksAreExact => ChecksAreExact'
      BY <1>1, <2>1, <3>3 DEF ChecksAreExact
    <3> QED
      BY <3>1, <3>2, <3>4 DEF ExactSoFar
  <2> QED
    BY <1>0, <2>2, <2>3, <2>4, <2>5 DEF ExactInv
<1>4. CASE CheckStsPolicy
  <2>1. zone.policy \in Policies /\ [answer |-> "failed"] \in Policies
    BY <1>0 DEF InspectionTypeOK, Policies, Published, RecordSets
  <2>2. PICK p \in Policies :
           /\ \/ Settle("mta_sts", "warn", "tls_rpt")
              \/ Settle("mta_sts", "fail", "tls_rpt")
              \/ inspection' = [inspection EXCEPT !.pc = "policy_mx", !.policy = p]
           /\ Remember(p.answer = "failed")
    BY <1>4, <2>1 DEF CheckStsPolicy
  <2> DEFINE failed == p.answer = "failed"
  <2>3. Remember(failed)
    BY <2>2
  <2> HIDE DEF failed
  <2> QED
    BY <1>2, <1>3, <2>2, <2>3 DEF Statuses
<1>5. CASE CheckStsMx
  <2>1. PICK a \in Answers("mx"), status \in {"warn", "pass", "fail"} :
           Settle("mta_sts", status, "tls_rpt") /\ Remember(a = NoAnswer)
    BY <1>5 DEF CheckStsMx, PassIf
  <2> DEFINE failed == a = NoAnswer
  <2>2. Remember(failed)
    BY <2>1
  <2> HIDE DEF failed
  <2> QED
    BY <1>2, <2>1, <2>2 DEF Statuses
<1> QED
  BY <1>4, <1>5

\* A key that is looked up counts exactly if it is published.
LEMMA DkimExact ==
    ASSUME InspectionInv, ExactInv, CheckDkim
    PROVE  ExactInv'
<1>0. InspectionTypeOK /\ inspection.pc = "dkim" /\ Running
  BY DEF CheckDkim, In, Running, InspectionInv
<1> DEFINE sofar == IF inspection.todo = inspection.file THEN "pass"
                    ELSE inspection.checks["dkim"]
           next(key) == IF inspection.todo \ {key} = {} THEN "dmarc" ELSE "dkim"
<1>a. PICK key \in inspection.todo, a \in Answers("dkim") :
         /\ inspection' = [inspection EXCEPT !.todo = inspection.todo \ {key},
                              !.checks["dkim"] = DkimStatus(sofar, key, a),
                              !.pc = next(key)]
         /\ Remember(a = NoAnswer)
         /\ UNCHANGED <<settings, zone, server_zone>>
  BY DEF CheckDkim
<1> DEFINE status == DkimStatus(sofar, key, a)
           pc     == next(key)
           failed == a = NoAnswer
<1>1. /\ inspection' = [inspection EXCEPT !.todo = inspection.todo \ {key},
                                          !.checks["dkim"] = status, !.pc = pc]
      /\ status = DkimStatus(sofar, key, a)
      /\ pc = IF inspection.todo \ {key} = {} THEN "dmarc" ELSE "dkim"
      /\ failed <=> a = NoAnswer
      /\ Remember(failed)
  BY <1>a
<1> HIDE DEF status, pc, next, failed
<1>2. /\ inspection'.file = inspection.file /\ inspection'.pc = pc
      /\ inspection'.todo = inspection.todo \ {key}
      /\ \A c \in CheckNames : inspection'.checks[c] =
            IF c = "dkim" THEN status ELSE inspection.checks[c]
  BY <1>0, <1>1 DEF InspectionTypeOK, Inspection
<1>3. /\ history'.failed \in Nat /\ history'.files = history.files
      /\ history'.zones = history.zones
      /\ history'.failed = 0 => ~failed /\ history.failed = 0
  BY <1>0, <1>1, Remembers DEF ExactInv
<1>4. Undisturbed' => Undisturbed /\ ~failed
  BY <1>a, <1>3 DEF Undisturbed
\* What is still to be looked up is a part of the file.
<1>5. /\ Expected(inspection.file) /\ KeysOf(inspection.file) = inspection.file
      /\ inspection.todo \subseteq inspection.file
  <2>1. CASE inspection.todo = KeysOf(inspection.file)
    BY <2>1 DEF KeysOf, Expected
  <2>2. CASE inspection.todo # KeysOf(inspection.file)
    BY <1>0, <2>2 DEF ExactInv, TodoIsRest, In, KeysOf, Expected
  <2> QED
    BY <2>1, <2>2
<1>6. TodoIsRest'
  <2>1. Expected(inspection.file)'
    BY <1>2, <1>5 DEF Expected
  <2>2. pc \in {"dkim", "dmarc"} /\ (pc = "dkim" => inspection.todo \ {key} # {})
    BY <1>1
  <2> QED
    BY <1>2, <1>5, <2>1, <2>2 DEF TodoIsRest, In
<1>7. ASSUME Undisturbed' PROVE ExactSoFar'
  <2>1. ExactSoFar /\ a # NoAnswer
    BY <1>0, <1>1, <1>4, <1>7 DEF ExactInv
  <2>2. a = zone.dkim
    BY <1>0, <2>1, AnswersPublished DEF RecordSets
  <2>3. status = "pass" <=> key \in zone.dkim /\ sofar = "pass"
    BY <1>1, <2>1, <2>2 DEF DkimStatus
  <2>4. sofar = "pass" <=> inspection.file \ inspection.todo \subseteq zone.dkim
    <3>1. CASE inspection.todo = inspection.file
      BY <3>1
    <3>2. CASE inspection.todo # inspection.file
      BY <1>0, <1>5, <2>1, <3>2 DEF ExactSoFar, KeysAreExact, In
    <3> QED
      BY <3>1, <3>2
  <2>5. status = "pass"
        <=> inspection.file \ (inspection.todo \ {key}) \subseteq zone.dkim
    BY <1>5, <2>3, <2>4
  <2>6. FileIsFetched'
    BY <1>a, <1>0, <1>1, <1>2, <2>1 DEF ExactSoFar, FileIsFetched, In
  <2>7. KeysAreExact'
    BY <1>a, <1>2, <2>5 DEF KeysAreExact, CheckNames
  <2>8. ASSUME NEW d \in CheckNames, MadeAt(d, pc)
        PROVE  inspection'.checks[d] = "pass" <=> Good(d)'
    <3>1. Good(d)' <=> Good(d)
      BY <1>a, <1>2 DEF Good, MxGood, SpfGood, DmarcGood, PtrGood, Single, Expected,
         MailHost, MailAddress
    <3>2. CASE d = "dkim"
      <4>1. inspection.todo \ {key} = {}
        BY <1>1, <2>8, <3>2 DEF MadeAt, Rest
      <4> QED
        BY <1>2, <1>5, <2>5, <3>1, <3>2, <4>1 DEF Good
    <3>3. CASE d # "dkim"
      <4>1. MadeAt(d, "dkim")
        BY <1>1, <2>8, <3>3 DEF MadeAt, Rest
      <4> QED
        BY <1>0, <1>2, <2>1, <3>1, <3>3, <4>1 DEF ExactSoFar, ChecksAreExact
    <3> QED
      BY <3>2, <3>3
  <2>9. ChecksAreExact'
    BY <1>2, <2>8 DEF ChecksAreExact
  <2> QED
    BY <2>6, <2>7, <2>9 DEF ExactSoFar
<1>8. server_zone' \in history'.files
  BY <1>a, <1>0, <1>3 DEF ExactInv
<1> QED
  BY <1>3, <1>6, <1>7, <1>8 DEF ExactInv

\* Before the first check there is nothing to be exact about but the file.
LEMMA UncheckedExact ==
    ASSUME inspection'.pc \in {"fetch", "store", "mx"},
           inspection'.pc = "mx" => inspection'.todo = KeysOf(inspection'.file),
           history'.failed \in Nat, server_zone' \in history'.files,
           Undisturbed' => FileIsFetched'
    PROVE  ExactInv'
  <1>1. TodoIsRest' /\ KeysAreExact'
    BY DEF TodoIsRest, KeysAreExact, KeysOf, In
  <1>2. ChecksAreExact'
    BY DEF ChecksAreExact, MadeAt, Rest
  <1> QED
    BY <1>1, <1>2 DEF ExactInv, ExactSoFar, Running, In

\* Once the file is known, it is this one.
LEMMA KnownFile ==
    ASSUME InspectionTypeOK, NEW file, Known(file)
    PROVE  /\ inspection'.pc = "mx" /\ inspection'.file = file
           /\ inspection'.todo = KeysOf(inspection'.file)
  BY DEF InspectionTypeOK, Inspection, Known, KeysOf

\* Until the keys to look for are known: an inspection that nothing disturbs
\* uses the file that Stalwart has.
LEMMA BeginningExact ==
    ASSUME InspectionInv, ExactInv,
           InspectBegin \/ FetchZone \/ FetchZoneFails \/ StoreZone
    PROVE  ExactInv'
<1>0. InspectionTypeOK
  BY DEF InspectionInv
<1>1. CASE InspectBegin
  <2>1. /\ inspection' = [inspection EXCEPT !.pc = "fetch", !.file = zone_file]
        /\ history' = [history EXCEPT !.zones = {zone}, !.files = {server_zone}]
        /\ server_zone' = server_zone
    BY <1>1 DEF InspectBegin
  <2>2. inspection'.pc = "fetch"
    BY <1>0, <2>1 DEF InspectionTypeOK, Inspection
  <2>3. history'.failed = history.failed /\ history'.files = {server_zone}
    BY <1>0, <2>1 DEF InspectionTypeOK
  <2>4. FileIsFetched'
    BY <2>2 DEF FileIsFetched, In
  <2> QED
    BY <2>1, <2>2, <2>3, <2>4, UncheckedExact DEF ExactInv
<1>2. CASE FetchZone
  <2>1. /\ inspection' = [inspection EXCEPT !.pc = "store", !.fresh = server_zone]
        /\ inspection.pc = "fetch"
        /\ UNCHANGED <<server_zone, history>>
    BY <1>2 DEF FetchZone, In
  <2>2. inspection'.pc = "store" /\ inspection'.fresh = server_zone
    BY <1>0, <2>1 DEF InspectionTypeOK, Inspection
  <2>3. FileIsFetched'
    BY <2>1, <2>2 DEF FileIsFetched, In
  <2> QED
    BY <2>1, <2>2, <2>3, UncheckedExact DEF ExactInv, Running, In
<1>3. CASE FetchZoneFails
  <2>1. /\ Known(inspection.file) /\ Remember(TRUE) /\ inspection.pc = "fetch"
        /\ UNCHANGED server_zone
    BY <1>3 DEF FetchZoneFails, In
  <2>2. /\ history'.failed \in Nat /\ history'.files = history.files
        /\ ~Undisturbed'
    BY <1>0, <2>1, Remembers DEF ExactInv, Undisturbed
  <2> QED
    BY <1>0, <2>1, <2>2, KnownFile, UncheckedExact DEF ExactInv, Running, In
<1>4. CASE StoreZone
  <2>1. PICK file : /\ Known(file)
                    /\ file = IF IsNews THEN inspection.fresh ELSE inspection.file
    BY <1>4 DEF StoreZone
  <2>2. inspection.pc = "store" /\ UNCHANGED <<zone, server_zone, history>>
    BY <1>4 DEF StoreZone, In
  <2>3. ASSUME Undisturbed' PROVE FileIsFetched'
    <3>1. Undisturbed
      BY <2>2, <2>3 DEF Undisturbed
    <3>2. server_zone # Blank => inspection.fresh = server_zone
      BY <2>2, <3>1 DEF ExactInv, ExactSoFar, FileIsFetched, Running, In
    <3>3. server_zone # Blank => file = server_zone
      BY <2>1, <3>2 DEF IsNews
    <3> QED
      BY <1>0, <2>1, <2>2, <3>3, KnownFile DEF FileIsFetched, In
  <2> QED
    BY <1>0, <2>1, <2>2, <2>3, KnownFile, UncheckedExact DEF ExactInv, Running, In
<1> QED
  BY <1>1, <1>2, <1>3, <1>4

\* The end of an inspection, and what others do: what they change, disturbs.
LEMMA MeanwhileExact ==
    ASSUME InspectionInv, ExactInv,
           \/ InspectEnd
           \/ \E records \in RecordSets : \E content \in Contents[records] :
                 Publish(records, content)
           \/ \E file \in ZoneFile : Rotate(file) \/ StoreElsewhere(file)
    PROVE  ExactInv'
<1>0. InspectionTypeOK
  BY DEF InspectionInv
<1>1. CASE InspectEnd
  <2>1. inspection'.pc = "idle" /\ history'.failed = 0
    BY <1>1 DEF InspectEnd, Idle, NoHistory
  <2> QED
    BY <2>1 DEF ExactInv, TodoIsRest, Running, In
<1>2. ASSUME UNCHANGED <<settings, inspection>>, history'.failed = history.failed,
             Running => server_zone' \in history'.files,
             Running /\ Undisturbed' =>
                Undisturbed /\ zone' = zone /\ server_zone' = server_zone
      PROVE  ExactInv'
  <2>1. TodoIsRest' /\ (Running' <=> Running)
    BY <1>2 DEF ExactInv, TodoIsRest, Running, In
  <2>2. ASSUME Running, Undisturbed' PROVE ExactSoFar'
    <3>1. ExactSoFar /\ UNCHANGED <<settings, zone, server_zone, inspection>>
      BY <1>2, <2>2 DEF ExactInv
    <3>2. FileIsFetched' /\ KeysAreExact'
      BY <3>1 DEF ExactSoFar, FileIsFetched, KeysAreExact, In
    <3>3. ASSUME NEW d \in CheckNames PROVE Good(d)' <=> Good(d)
      BY <3>1 DEF Good, MxGood, SpfGood, DmarcGood, PtrGood, Single, Expected,
         MailHost, MailAddress
    <3>4. ChecksAreExact'
      BY <3>1, <3>3 DEF ExactSoFar, ChecksAreExact
    <3> QED
      BY <3>2, <3>4 DEF ExactSoFar
  <2> QED
    BY <1>2, <2>1, <2>2 DEF ExactInv
<1>3. ASSUME NEW records \in RecordSets, NEW content \in Contents[records],
             Publish(records, content)
      PROVE  ExactInv'
  <2>1. history'.failed = history.failed /\ history'.files = history.files
    BY <1>0, <1>3 DEF Publish, InspectionTypeOK
  <2>2. Running => history'.zones = history.zones \cup {zone'} /\ zone \in history.zones
    BY <1>0, <1>3 DEF Publish, InspectionTypeOK, InspectionInv, HistoryIsKept, Running, In
  <2>3. UNCHANGED <<settings, inspection, server_zone>>
    BY <1>3 DEF Publish
  <2>4. Running /\ Undisturbed' => Undisturbed /\ zone' = zone
    BY <2>1, <2>2, <2>3 DEF Undisturbed
  <2> QED
    BY <1>2, <2>1, <2>3, <2>4 DEF ExactInv, Running, In
<1>4. ASSUME NEW file \in ZoneFile, Rotate(file)
      PROVE  ExactInv'
  <2>1. history'.failed = history.failed /\ history'.zones = history.zones
    BY <1>0, <1>4 DEF Rotate, InspectionTypeOK
  <2>2. Running => /\ history'.files = history.files \cup {server_zone'}
                   /\ server_zone \in history.files
    BY <1>0, <1>4 DEF Rotate, InspectionTypeOK, ExactInv
  <2>3. UNCHANGED <<settings, inspection, zone>>
    BY <1>4 DEF Rotate
  <2>4. Running /\ Undisturbed' => Undisturbed /\ server_zone' = server_zone
    BY <2>1, <2>2, <2>3 DEF Undisturbed
  <2> QED
    BY <1>2, <2>1, <2>2, <2>3, <2>4
<1>5. ASSUME NEW file \in ZoneFile, StoreElsewhere(file)
      PROVE  ExactInv'
  <2>1. UNCHANGED <<settings, inspection, zone, server_zone, history>>
    BY <1>5 DEF StoreElsewhere
  <2>2. Undisturbed' <=> Undisturbed
    BY <2>1 DEF Undisturbed
  <2> QED
    BY <1>2, <2>1, <2>2 DEF ExactInv
<1> QED
  BY <1>1, <1>3, <1>4, <1>5

\* Every reachable state is exact as far as its checks have been made
\* (dns_readiness.inspect_domain_dns).
THEOREM InspectionExact == InspectionSpec => []ExactInv
<1>1. InspectionInit => ExactInv
  BY DEF InspectionInit, Idle, NoHistory, ExactInv, TodoIsRest, Running, In
<1>2. InspectionInv /\ ExactInv /\ [InspectionNext]_inspectionVars => ExactInv'
  <2> SUFFICES ASSUME InspectionInv, ExactInv, [InspectionNext]_inspectionVars
               PROVE  ExactInv'
    OBVIOUS
  <2>1. CASE InspectionNext
    BY <2>1, BeginningExact, ChecksExact, DkimExact, StsExact, MeanwhileExact
       DEF InspectionNext, InspectionStep
  <2>2. CASE UNCHANGED inspectionVars
    BY <2>2 DEF inspectionVars, ExactInv, TodoIsRest, Undisturbed, Running, In,
       ExactSoFar, FileIsFetched, KeysAreExact, ChecksAreExact, Good, KeysOf,
       MxGood, SpfGood, DmarcGood, PtrGood, Single, Expected, MailHost, MailAddress
  <2> QED
    BY <2>1, <2>2
<1> QED
  BY <1>1, <1>2, InspectionSafe, PTL DEF InspectionSpec

\* For any records, keys, edits and failures: an inspection that nothing disturbed
\* finds a domain ready exactly if mail to it and from it is deliverable
\* (dns_readiness.inspect_domain_dns).
THEOREM ReadyExactly == InspectionSpec => []ReadyIsExact
<1>1. ExactInv => ReadyIsExact
  <2> SUFFICES ASSUME ExactInv, In("done"), Undisturbed, server_zone # Blank
               PROVE  Ready(inspection.checks) <=> Deliverable(zone, server_zone)
    BY DEF ReadyIsExact
  <2>1. ExactSoFar /\ inspection.file = server_zone
    BY DEF ExactInv, ExactSoFar, FileIsFetched, Running, In
  <2>2. \A c \in {"mx", "spf", "dkim", "dmarc", "ptr"} :
           inspection.checks[c] = "pass" <=> Good(c)
    BY <2>1 DEF ExactSoFar, ChecksAreExact, MadeAt, Rest, In, CheckNames
  <2>3. Ready(inspection.checks)
        <=> /\ Good("mx") /\ Good("spf") /\ Good("dkim") /\ Good("dmarc")
            /\ MailAddress # "unset" => Good("ptr")
    BY <2>2 DEF Ready, Required, Passed, CheckNames
  <2> QED
    BY <2>1, <2>3 DEF Good, Deliverable
<1> QED
  BY <1>1, InspectionExact, PTL

---------------------------------------------------------------------------
(* The advice, which is not required: MTA-STS and TLS-RPT.                 *)

StsRecordUsable == Single(zone.mta_sts, {"id1", "id2"})

AdviceSoFar ==
    /\ In("policy") => StsRecordUsable
    /\ In("policy_mx") => /\ StsRecordUsable /\ inspection.policy = zone.policy
                          /\ zone.policy.answer = "served" /\ WellFormed(zone.policy)
    /\ inspection.pc \in {"tls_rpt", "done"} =>
          (inspection.checks["mta_sts"] = "pass" <=> PolicyUsable(zone))
    /\ In("done") => (inspection.checks["tls_rpt"] = "pass" <=> ReportsUsable(zone))

AdviceInv == Undisturbed => AdviceSoFar

\* An answered lookup of the MTA-STS record is one usable record or none.
LEMMA StsRecordExact ==
    ASSUME InspectionTypeOK, NEW a \in Answers("mta_sts"), a # NoAnswer
    PROVE  StsRecordGood(a) <=> StsRecordUsable
  BY AnswersPublished DEF RecordSets, StsRecordGood, StsRecordUsable, Single

\* A TLS-RPT lookup that is answered passes exactly what can be used.
LEMMA TlsExact ==
    ASSUME InspectionTypeOK, NEW a \in Answers("tls_rpt"), a # NoAnswer
    PROVE  TlsStatus(a) = "pass" <=> ReportsUsable(zone)
  <1>1. a = zone.tls_rpt /\ IsFiniteSet(a)
    BY AnswersPublished, InspectionAssumption DEF RecordSets
  <1>2. ASSUME NEW rua
        PROVE  rua # {} /\ rua \subseteq {"mailto", "https"}
               <=> rua \in {{"mailto"}, {"https"}, {"mailto", "https"}}
    OBVIOUS
  <1>3. TlsStatus(a) = "pass"
        <=> /\ Cardinality(a) = 1
            /\ \A rua \in a : rua # {} /\ rua \subseteq {"mailto", "https"}
    BY DEF TlsStatus, PassIf
  <1>4. ASSUME TlsStatus(a) = "pass" PROVE ReportsUsable(zone)
    <2>1. PICK r : a = {r}
      BY <1>1, <1>3, <1>4, OneOfFinite
    <2>2. r \in {{"mailto"}, {"https"}, {"mailto", "https"}}
      BY <1>2, <1>3, <1>4, <2>1
    <2> QED
      BY <1>1, <2>1, <2>2 DEF ReportsUsable, Single
  <1>5. ASSUME ReportsUsable(zone) PROVE TlsStatus(a) = "pass"
    <2>1. PICK r \in {{"mailto"}, {"https"}, {"mailto", "https"}} : a = {r}
      BY <1>1, <1>5 DEF ReportsUsable, Single
    <2>2. Cardinality(a) = 1
      BY <2>1, FS_Singleton
    <2>3. r # {} /\ r \subseteq {"mailto", "https"}
      BY <2>1
    <2> QED
      BY <1>3, <2>1, <2>2, <2>3
  <1> QED
    BY <1>4, <1>5

\* A wildcard matches what has one label more.
LEMMA MatchesOneLabel ==
    ASSUME NEW host \in Seq(STRING), NEW p \in [wild : BOOLEAN, name : Seq(STRING)]
    PROVE  Matches(host, p)
           <=> \/ ~p.wild /\ p.name = host
               \/ p.wild /\ host = <<host[1]>> \o p.name
  <1> DEFINE name == p.name
  <1>0. name \in Seq(STRING) /\ p.wild \in BOOLEAN
    OBVIOUS
  <1> HIDE DEF name
  <1>1. ASSUME Len(host) = Len(name) + 1, Tail(host) = name
        PROVE  host = <<host[1]>> \o name
    <2>1. Len(<<host[1]>> \o name) = Len(host)
      BY <1>0, <1>1
    <2>2. ASSUME NEW i \in 1..Len(host) PROVE host[i] = (<<host[1]>> \o name)[i]
      <3>1. CASE i = 1
        BY <1>0, <3>1
      <3>2. CASE i # 1
        <4>1. (<<host[1]>> \o name)[i] = name[i - 1]
          BY <1>0, <1>1, <3>2
        <4>2. Tail(host)[i - 1] = host[i]
          BY <1>0, <1>1, <3>2
        <4> QED
          BY <1>1, <4>1, <4>2
      <3> QED
        BY <3>1, <3>2
    <2>3. host[1] \in STRING
      BY <1>0, <1>1
    <2>4. <<host[1]>> \o name \in Seq(STRING)
      BY <1>0, <2>3
    <2> QED
      BY <2>1, <2>2, <2>4
  <1>2. ASSUME host = <<host[1]>> \o name
        PROVE  Len(host) = Len(name) + 1 /\ Tail(host) = name
    <2>1. Len(host) = Len(name) + 1
      BY <1>0, <1>2
    <2>2. Tail(host) \in Seq(STRING) /\ Len(Tail(host)) = Len(name)
      BY <1>0, <2>1
    <2>3. ASSUME NEW i \in 1..Len(name) PROVE Tail(host)[i] = name[i]
      <3>1. Tail(host)[i] = host[i + 1]
        BY <1>0, <2>1
      <3>2. (<<host[1]>> \o name)[i + 1] = name[i]
        BY <1>0
      <3> QED
        BY <1>2, <3>1, <3>2
    <2> QED
      BY <1>0, <2>1, <2>2, <2>3
  <1> QED
    BY <1>0, <1>1, <1>2 DEF Matches, name

\* The policy that was fetched covers what MX names exactly if it is usable.
LEMMA CoversExact ==
    ASSUME InspectionTypeOK, zone.policy.answer = "served",
           WellFormed(zone.policy), StsRecordUsable
    PROVE  Covers(zone.policy, zone.mx) <=> PolicyUsable(zone)
  <1>1. zone.mx \in Contents["mx"] /\ zone.policy \in Contents["policy"]
    BY DEF InspectionTypeOK, Published, RecordSets
  <1>2. /\ zone.mx \subseteq Seq(STRING)
        /\ zone.policy.mx \subseteq [wild : BOOLEAN, name : Seq(STRING)]
    BY <1>1, InspectionAssumption
  <1>3. ASSUME NEW host \in zone.mx, NEW p \in zone.policy.mx
        PROVE  Matches(host, p) <=> \/ ~p.wild /\ p.name = host
                                    \/ p.wild /\ host = <<host[1]>> \o p.name
    BY <1>2, MatchesOneLabel
  <1> QED
    BY <1>3 DEF Covers, PolicyUsable, StsRecordUsable

\* What is disturbed once stays disturbed, and a lookup that fails disturbs.
LEMMA StillUndisturbed ==
    ASSUME InspectionInv, ExactInv, NEW failed, Remember(failed),
           UNCHANGED <<zone, server_zone>>, Undisturbed'
    PROVE  Undisturbed /\ ~failed
  BY Remembers DEF InspectionInv, ExactInv, Undisturbed

\* Before MTA-STS nothing is advised.
LEMMA NoAdviceYet ==
    ASSUME inspection'.pc \notin {"policy", "policy_mx", "tls_rpt", "done"}
    PROVE  AdviceInv'
  BY DEF AdviceInv, AdviceSoFar, In

\* A settled check changes nothing else.
LEMMA Settled ==
    ASSUME InspectionTypeOK, NEW c \in CheckNames, NEW status, NEW next,
           Settle(c, status, next)
    PROVE  /\ inspection'.pc = next /\ inspection'.checks[c] = status
           /\ \A d \in CheckNames \ {c} : inspection'.checks[d] = inspection.checks[d]
  BY DEF InspectionTypeOK, Inspection, Settle

\* Once settled, MTA-STS passes exactly the usable policy.
LEMMA StsSettled ==
    ASSUME InspectionInv, ExactInv, NEW status, NEW failed,
           Settle("mta_sts", status, "tls_rpt"), Remember(failed),
           UNCHANGED <<settings, zone, server_zone>>,
           Undisturbed /\ ~failed => (status = "pass" <=> PolicyUsable(zone))
    PROVE  AdviceInv'
  <1>1. inspection'.pc = "tls_rpt" /\ inspection'.checks["mta_sts"] = status
    BY Settled DEF InspectionInv, CheckNames
  <1>2. PolicyUsable(zone') = PolicyUsable(zone)
    OBVIOUS
  <1>3. Undisturbed' => (status = "pass" <=> PolicyUsable(zone'))
    BY <1>2, StillUndisturbed
  <1> QED
    BY <1>1, <1>3 DEF AdviceInv, AdviceSoFar, In

\* The steps before MTA-STS.
LEMMA EarlierAdvice ==
    ASSUME InspectionInv,
           \/ InspectBegin \/ FetchZone \/ FetchZoneFails \/ StoreZone
           \/ CheckMx \/ CheckSpf \/ CheckDkimNone \/ CheckDkim \/ CheckDmarc
           \/ CheckPtr \/ InspectEnd
    PROVE  AdviceInv'
<1>0. InspectionTypeOK
  BY DEF InspectionInv
<1>1. CASE InspectBegin \/ FetchZone
  <2>1. inspection'.pc \in {"fetch", "store"}
    BY <1>0, <1>1 DEF InspectBegin, FetchZone, InspectionTypeOK, Inspection
  <2> QED
    BY <2>1, NoAdviceYet
<1>2. CASE FetchZoneFails \/ StoreZone
  <2>1. \E file : Known(file)
    BY <1>2 DEF FetchZoneFails, StoreZone
  <2> QED
    BY <1>0, <2>1, KnownFile, NoAdviceYet
<1>3. CASE CheckMx \/ CheckSpf \/ CheckDkimNone \/ CheckDmarc \/ CheckPtr
  <2>1. PICK c \in {"mx", "spf", "dkim", "dmarc", "ptr"},
             next \in {"spf", "dkim", "dmarc", "ptr", "mta_sts"} :
           \E a, status : Lookup(c, a, status, next)
    BY <1>3 DEF CheckMx, CheckSpf, CheckDkimNone, CheckDmarc, CheckPtr
  <2>2. inspection'.pc = next
    BY <1>0, <2>1, Settled DEF Lookup, CheckNames
  <2> QED
    BY <2>1, <2>2, NoAdviceYet
<1>4. CASE CheckDkim
  <2>1. inspection'.pc \in {"dkim", "dmarc"}
    BY <1>0, <1>4 DEF CheckDkim, InspectionTypeOK, Inspection
  <2> QED
    BY <2>1, NoAdviceYet
<1>5. CASE InspectEnd
  BY <1>5, NoAdviceYet DEF InspectEnd, Idle
<1> QED
  BY <1>1, <1>2, <1>3, <1>4, <1>5

\* MTA-STS: its record, its policy, and the hosts the policy must cover.
LEMMA StsAdvice ==
    ASSUME InspectionInv, ExactInv, AdviceInv,
           CheckStsRecord \/ CheckStsPolicy \/ CheckStsMx
    PROVE  AdviceInv'
<1>0. InspectionTypeOK /\ UNCHANGED <<settings, zone, server_zone>>
  BY DEF InspectionInv, CheckStsRecord, CheckStsPolicy, CheckStsMx, Lookup
<1>1. CASE CheckStsRecord
  <2>1. PICK a \in Answers("mta_sts") :
           IF a # NoAnswer /\ StsRecordGood(a)
           THEN Lookup("mta_sts", a, "warn", "policy")
           ELSE Lookup("mta_sts", a, IF a = NoAnswer THEN "warn" ELSE "fail",
                       "tls_rpt")
    BY <1>1 DEF CheckStsRecord
  <2> DEFINE failed == a = NoAnswer
  <2>2. Remember(failed)
    BY <2>1 DEF Lookup
  <2>3. CASE a # NoAnswer /\ StsRecordGood(a)
    <3>1. StsRecordUsable'
      BY <1>0, <2>3, StsRecordExact DEF StsRecordUsable
    <3>2. inspection'.pc = "policy"
      BY <1>0, <2>1, <2>3, Settled DEF Lookup, CheckNames
    <3> QED
      BY <3>1, <3>2 DEF AdviceInv, AdviceSoFar, In
  <2>4. CASE ~(a # NoAnswer /\ StsRecordGood(a))
    <3>1. PICK status \in {"warn", "fail"} : Settle("mta_sts", status, "tls_rpt")
      BY <2>1, <2>4 DEF Lookup
    <3>2. ~failed => ~PolicyUsable(zone)
      BY <1>0, <2>4, StsRecordExact DEF PolicyUsable, StsRecordUsable
    <3> HIDE DEF failed
    <3> QED
      BY <1>0, <2>2, <3>1, <3>2, StsSettled
  <2> QED
    BY <2>3, <2>4
<1>2. CASE CheckStsPolicy
  <2>1. PICK p \in {zone.policy, [answer |-> "failed"]} :
           /\ CASE p.answer = "failed" -> Settle("mta_sts", "warn", "tls_rpt")
                [] p.answer = "served" /\ WellFormed(p) ->
                     inspection' = [inspection EXCEPT !.pc = "policy_mx",
                                                      !.policy = p]
                [] OTHER -> Settle("mta_sts", "fail", "tls_rpt")
           /\ Remember(p.answer = "failed")
    BY <1>2 DEF CheckStsPolicy
  <2> DEFINE failed == p.answer = "failed"
  <2>2. Remember(failed) /\ inspection.pc = "policy"
    BY <1>2, <2>1 DEF CheckStsPolicy, In
  <2>3. CASE failed
    <3>1. Settle("mta_sts", "warn", "tls_rpt")
      BY <2>1, <2>3
    <3> HIDE DEF failed
    <3> QED
      BY <1>0, <2>2, <2>3, <3>1, StsSettled
  <2>4. CASE ~failed /\ p.answer = "served" /\ WellFormed(p)
    <3>1. p = zone.policy
      BY <2>1, <2>4
    <3>2. inspection'.pc = "policy_mx" /\ inspection'.policy = zone.policy
      BY <1>0, <2>1, <2>4, <3>1 DEF InspectionTypeOK, Inspection
    <3> HIDE DEF failed
    <3>3. Undisturbed' => StsRecordUsable'
      BY <1>0, <2>2, StillUndisturbed DEF AdviceInv, AdviceSoFar, In, StsRecordUsable
    <3>4. zone'.policy = p /\ WellFormed(zone'.policy) /\ zone'.policy.answer = "served"
      BY <1>0, <2>4, <3>1
    <3> QED
      BY <3>1, <3>2, <3>3, <3>4 DEF AdviceInv, AdviceSoFar, In
  <2>5. CASE ~failed /\ ~(p.answer = "served" /\ WellFormed(p))
    <3>1. Settle("mta_sts", "fail", "tls_rpt") /\ p = zone.policy
      BY <2>1, <2>5
    <3>2. ~PolicyUsable(zone)
      BY <2>5, <3>1 DEF PolicyUsable
    <3> HIDE DEF failed
    <3> QED
      BY <1>0, <2>2, <3>1, <3>2, StsSettled
  <2> QED
    BY <2>3, <2>4, <2>5
<1>3. CASE CheckStsMx
  <2>1. PICK a \in Answers("mx") :
           /\ Settle("mta_sts",
                     IF a = NoAnswer THEN "warn"
                     ELSE PassIf(Covers(inspection.policy, a)), "tls_rpt")
           /\ Remember(a = NoAnswer)
    BY <1>3 DEF CheckStsMx
  <2> DEFINE failed == a = NoAnswer
             status == IF a = NoAnswer THEN "warn"
                       ELSE PassIf(Covers(inspection.policy, a))
  <2>2. Remember(failed) /\ Settle("mta_sts", status, "tls_rpt")
        /\ inspection.pc = "policy_mx"
    BY <1>3, <2>1 DEF CheckStsMx, In
  <2>3. ASSUME Undisturbed, ~failed PROVE status = "pass" <=> PolicyUsable(zone)
    <3>1. a = zone.mx
      BY <1>0, <2>3, AnswersPublished DEF RecordSets
    <3>2. /\ StsRecordUsable /\ inspection.policy = zone.policy
          /\ zone.policy.answer = "served" /\ WellFormed(zone.policy)
      BY <2>2, <2>3 DEF AdviceInv, AdviceSoFar, In
    <3>3. status = "pass" <=> Covers(zone.policy, zone.mx)
      BY <2>3, <3>1, <3>2 DEF PassIf
    <3> QED
      BY <1>0, <3>2, <3>3, CoversExact
  <2> HIDE DEF failed, status
  <2> QED
    BY <1>0, <2>2, <2>3, StsSettled
<1> QED
  BY <1>1, <1>2, <1>3

\* TLS-RPT leaves what MTA-STS concluded.
LEMMA TlsAdvice ==
    ASSUME InspectionInv, ExactInv, AdviceInv, CheckTlsReporting
    PROVE  AdviceInv'
<1>0. InspectionTypeOK
  BY DEF InspectionInv
<1>1. PICK a \in Answers("tls_rpt") : Lookup("tls_rpt", a, TlsStatus(a), "done")
  BY DEF CheckTlsReporting
<1> DEFINE failed == a = NoAnswer
<1>2. /\ inspection.pc = "tls_rpt" /\ Remember(failed)
      /\ Settle("tls_rpt", TlsStatus(a), "done")
      /\ UNCHANGED <<zone, server_zone>>
  BY <1>1 DEF Lookup, In
<1>3. /\ inspection'.pc = "done" /\ inspection'.checks["tls_rpt"] = TlsStatus(a)
      /\ inspection'.checks["mta_sts"] = inspection.checks["mta_sts"]
  BY <1>0, <1>2, Settled DEF CheckNames
<1>4. ~failed => (TlsStatus(a) = "pass" <=> ReportsUsable(zone))
  BY <1>0, TlsExact
<1> HIDE DEF failed
<1>5. ASSUME Undisturbed' PROVE AdviceSoFar'
  <2>1. AdviceSoFar /\ ~failed
    BY <1>2, <1>5, StillUndisturbed DEF AdviceInv
  <2>2. PolicyUsable(zone)' <=> PolicyUsable(zone)
    BY <1>2
  <2>3. ReportsUsable(zone)' <=> ReportsUsable(zone)
    BY <1>2
  <2> QED
    BY <1>2, <1>3, <1>4, <2>1, <2>2, <2>3 DEF AdviceSoFar, In
<1> QED
  BY <1>5 DEF AdviceInv

\* What others do meanwhile.
LEMMA MeanwhileAdvice ==
    ASSUME InspectionInv, ExactInv, AdviceInv,
           \/ \E records \in RecordSets : \E content \in Contents[records] :
                 Publish(records, content)
           \/ \E file \in ZoneFile : Rotate(file) \/ StoreElsewhere(file)
           \/ UNCHANGED inspectionVars
    PROVE  AdviceInv'
<1>1. UNCHANGED <<settings, inspection>>
  BY DEF Publish, Rotate, StoreElsewhere, inspectionVars
<1>2. CASE inspection.pc = "idle"
  BY <1>1, <1>2, NoAdviceYet
<1>3. CASE inspection.pc # "idle"
  <2>1. Undisturbed' => Undisturbed /\ zone' = zone
    <3>1. Running /\ zone \in history.zones /\ server_zone \in history.files
          /\ InspectionTypeOK
      BY <1>3 DEF Running, In, InspectionInv, HistoryIsKept, ExactInv
    <3>2. ASSUME NEW r \in RecordSets, NEW content \in Contents[r], Publish(r, content)
          PROVE  Undisturbed' => Undisturbed /\ zone' = zone
      <4>1. /\ history'.zones = history.zones \cup {zone'}
            /\ history'.files = history.files /\ history'.failed = history.failed
            /\ server_zone' = server_zone
        BY <3>1, <3>2 DEF Publish, InspectionTypeOK
      <4> QED
        BY <3>1, <4>1 DEF Undisturbed
    <3>3. ASSUME NEW file \in ZoneFile, Rotate(file)
          PROVE  Undisturbed' => Undisturbed /\ zone' = zone
      <4>1. /\ history'.files = history.files \cup {server_zone'}
            /\ history'.zones = history.zones /\ history'.failed = history.failed
            /\ zone' = zone
        BY <3>1, <3>3 DEF Rotate, InspectionTypeOK
      <4> QED
        BY <3>1, <4>1 DEF Undisturbed
    <3>4. CASE UNCHANGED <<zone, server_zone, history>>
      BY <3>4 DEF Undisturbed
    <3> QED
      BY <3>2, <3>3, <3>4 DEF StoreElsewhere, inspectionVars
  <2>2. ASSUME zone' = zone, AdviceSoFar PROVE AdviceSoFar'
    BY <1>1, <2>2 DEF AdviceSoFar, StsRecordUsable, In
  <2> QED
    BY <2>1, <2>2 DEF AdviceInv
<1> QED
  BY <1>2, <1>3

\* For any hosts, records, edits and failures: an inspection that nothing
\* disturbed passes MTA-STS and TLS-RPT exactly if senders can use them
\* (transport_security.check_mta_sts, check_tls_reporting).
THEOREM AdviceExactly == InspectionSpec => []AdviceIsExact
<1>1. InspectionInit => AdviceInv
  BY DEF InspectionInit, Idle, AdviceInv, AdviceSoFar, In
<1>2. InspectionInv /\ ExactInv /\ AdviceInv /\ [InspectionNext]_inspectionVars
      => AdviceInv'
  BY EarlierAdvice, StsAdvice, TlsAdvice, MeanwhileAdvice
     DEF InspectionNext, InspectionStep
<1>3. AdviceInv => AdviceIsExact
  BY DEF AdviceInv, AdviceSoFar, AdviceIsExact, In
<1> QED
  BY <1>1, <1>2, <1>3, InspectionSafe, InspectionExact, PTL DEF InspectionSpec

=============================================================================
