---------------------------- MODULE Benchmark_proofs -----------------------------
(***************************************************************************)
(* The report of the AWS Foundation benchmark tells the truth about an     *)
(* account, whatever its provider tables hold and whatever other providers *)
(* and commands do to them.                                                *)
(***************************************************************************)
EXTENDS BenchmarkProps, TLAPS

\* Every row is one of its table and of some provider.
TablesFit ==
  /\ DOMAIN db = Table
  /\ \A t \in Table : \A row \in db[t] : \E p \in Provider : Fits(p, t, row)

\* What the command printed in undisturbed tables is what they say.
Judged ==
  settled => \A c \in Checks : report[c] # NULL => report[c] = Verdict(c) /\ ~Raises(c)

\* The inductive invariant.
BenchmarkInv == TypeOK /\ TablesFit /\ Judged /\ DOMAIN report = Checks
---------------------------------------------------------------------------------
(***************************************************************************)
(* The invariant.                                                          *)
(***************************************************************************)
\* There are 49 checks, and none is run twice.
LEMMA RunIs ==
  /\ Len(run) = 49 /\ DOMAIN run = 1 .. 49
  /\ \A i \in 1 .. 49 : run[i] \in Checks
<1>1. Len(run) = 49 /\ DOMAIN run = 1 .. 49 BY DEF run
<1> QED BY <1>1 DEF Checks

LEMMA RunOnce ==
  \A i, j \in 1 .. 49 : run[i] = run[j] => i = j
BY DEF run

\* A verdict is one of three statuses, and none of them is NULL.
LEMMA VerdictIs ==
  ASSUME NEW c
  PROVE  Verdict(c) \in {"PASS", "FAIL", "INFO"} /\ Verdict(c) # NULL
BY BenchmarkAssumption DEF Verdict

LEMMA InitKeeps ==
  ASSUME Init
  PROVE  BenchmarkInv
<1>1. TablesFit BY TablesAssumption DEF Init, TablesFit
<1>2. TypeOK
  <2>1. \A t \in Table : \A row \in db[t] : row.provider_account_id \in Provider
    BY <1>1 DEF TablesFit, Fits
  <2> QED BY <1>1, <2>1, RunIs, BenchmarkAssumption DEF TypeOK, TablesFit, Init
<1>3. Judged /\ DOMAIN report = Checks BY DEF Init, Judged
<1> QED BY <1>1, <1>2, <1>3 DEF BenchmarkInv

LEMMA SameTables ==
  ASSUME UNCHANGED <<db, scope>>, NEW t
  PROVE  Visible(t)' = Visible(t) /\ Mine(t)' = Mine(t)
BY DEF Visible, Mine

LEMMA SamePolicies ==
  ASSUME UNCHANGED <<db, scope>>, NEW column, NEW minimum
  PROVE  Lacking(column)' = Lacking(column) /\ Below(column, minimum)' = Below(column, minimum)
<1>1. ASSUME NEW a PROVE Policies(a)' = Policies(a)
  <2> DEFINE found == {p \in Visible("passwordpolicy") : p.account = a.id}
  <2>1. found' = found BY SameTables
  <2>2. Policies(a) = IF found = {} THEN {NULL} ELSE found BY DEF Policies
  <2>3. Policies(a)' = IF found' = {} THEN {NULL} ELSE found' BY DEF Policies
  <2> HIDE DEF found
  <2> QED BY <2>1, <2>2, <2>3
<1> QED BY <1>1, SameTables DEF Lacking, Below

LEMMA SameAlerting ==
  ASSUME UNCHANGED <<db, scope>>, NEW pattern
  PROVE  Alerting(pattern)' = Alerting(pattern)
BY SameTables DEF Alerting

\* What a check says depends on the tables and the scope alone.
LEMMA SameRows ==
  ASSUME UNCHANGED <<db, scope>>, NEW c
  PROVE  Rows(c)' = Rows(c)
<1>1. /\ RootAccountUsage' = RootAccountUsage
      /\ MFAForConsoleUser' = MFAForConsoleUser
      /\ RotatePasswordsAfter90Days' = RotatePasswordsAfter90Days
  BY SameTables
     DEF RootAccountUsage, MFAForConsoleUser, RotatePasswordsAfter90Days
<1>2. /\ RotateAccessKeysAfter90Days' = RotateAccessKeysAfter90Days
      /\ RequireUpperCaseInPassword' = RequireUpperCaseInPassword
      /\ RequireLowerCaseInPassword' = RequireLowerCaseInPassword
      /\ RequireSymbolInPassword' = RequireSymbolInPassword
      /\ RequireNumberInPassword' = RequireNumberInPassword
      /\ RequireMinimumLengthPasssword' = RequireMinimumLengthPasssword
      /\ RequireNewPassswords' = RequireNewPassswords
      /\ RequireMaximumAgePassswords' = RequireMaximumAgePassswords
  BY SameTables, SamePolicies
     DEF RotateAccessKeysAfter90Days, RequireUpperCaseInPassword, RequireLowerCaseInPassword,
         RequireSymbolInPassword, RequireNumberInPassword, RequireMinimumLengthPasssword,
         RequireNewPassswords, RequireMaximumAgePassswords
<1>3. /\ NoRootAccessKeys' = NoRootAccessKeys
      /\ RootAccountHasMFA' = RootAccountHasMFA
      /\ RootAccountHasHardwareMFA' = RootAccountHasHardwareMFA
      /\ NoPoliciesAttachedToUsers' = NoPoliciesAttachedToUsers
  BY SameTables
     DEF NoRootAccessKeys, RootAccountHasMFA, RootAccountHasHardwareMFA,
         NoPoliciesAttachedToUsers, Managed
<1>4. /\ SupportPolicyExists' = SupportPolicyExists
      /\ NoAutoCreatedAccessKeys' = NoAutoCreatedAccessKeys
      /\ NoAdminAccess' = NoAdminAccess
  BY SameTables
     DEF SupportPolicyExists, NoAutoCreatedAccessKeys, NoAdminAccess, Managed, WhenNone
<1>5. /\ CloudtrailEnabledEverywhere' = CloudtrailEnabledEverywhere
      /\ CloudtrailLogFileValidationEnabled' = CloudtrailLogFileValidationEnabled
      /\ CloudtrailBucketIsPrivate' = CloudtrailBucketIsPrivate
      /\ CloudwatchLogsUpToDate' = CloudwatchLogsUpToDate
  BY SameTables
     DEF CloudtrailEnabledEverywhere, CloudtrailLogFileValidationEnabled,
         CloudtrailBucketIsPrivate, CloudwatchLogsUpToDate, PolicyPublic, AclPublic, WhenNone
<1>6. /\ ConfigEnabledInAllRegions' = ConfigEnabledInAllRegions
      /\ CloudtrailBucketLoggingIsEnable' = CloudtrailBucketLoggingIsEnable
      /\ CloudtrailEncryptedAtRestWithCMK' = CloudtrailEncryptedAtRestWithCMK
      /\ CustomerKeysHaveRotationEnabled' = CustomerKeysHaveRotationEnabled
  BY SameTables
     DEF ConfigEnabledInAllRegions, CloudtrailBucketLoggingIsEnable,
         CloudtrailEncryptedAtRestWithCMK, CustomerKeysHaveRotationEnabled, WhenNone
<1>7. /\ VPCsHaveFlowLogs' = VPCsHaveFlowLogs
  BY SameTables
     DEF VPCsHaveFlowLogs
<1>8. /\ NoSSHFromEverywhere' = NoSSHFromEverywhere
      /\ NoRDPFromEverywhere' = NoRDPFromEverywhere
      /\ DefaultSecurityGroupAllowsNothing' = DefaultSecurityGroupAllowsNothing
  BY SameTables
     DEF NoSSHFromEverywhere, NoRDPFromEverywhere, DefaultSecurityGroupAllowsNothing, OpenTo,
         WhenNone
<1>9. /\ AlertOnUnauthorizedAPICalls' = AlertOnUnauthorizedAPICalls
      /\ AlertOnNoMFAConsoleSignin' = AlertOnNoMFAConsoleSignin
      /\ AlertOnRootAccountUsage' = AlertOnRootAccountUsage
      /\ AlertOnIAMPolicyChanges' = AlertOnIAMPolicyChanges
      /\ AlertOnCloudTrailConfigurationChanges' = AlertOnCloudTrailConfigurationChanges
      /\ AlertOnFailedConsoleAuthentication' = AlertOnFailedConsoleAuthentication
      /\ AlertOnCMKDisablingOrScheduledDeletion' = AlertOnCMKDisablingOrScheduledDeletion
      /\ AlertOnS3BucketPolicyChanges' = AlertOnS3BucketPolicyChanges
      /\ AlertOnConfigConfigurationChanges' = AlertOnConfigConfigurationChanges
      /\ AlertOnSecurityGroupChanges' = AlertOnSecurityGroupChanges
      /\ AlertOnNetworkACLChanges' = AlertOnNetworkACLChanges
      /\ AlertOnNetworkGatewayChanges' = AlertOnNetworkGatewayChanges
      /\ AlertOnRouteTableChanges' = AlertOnRouteTableChanges
      /\ AlertOnVPCChanges' = AlertOnVPCChanges
  BY SameAlerting
     DEF AlertOnUnauthorizedAPICalls, AlertOnNoMFAConsoleSignin, AlertOnRootAccountUsage,
         AlertOnIAMPolicyChanges, AlertOnCloudTrailConfigurationChanges,
         AlertOnFailedConsoleAuthentication, AlertOnCMKDisablingOrScheduledDeletion,
         AlertOnS3BucketPolicyChanges, AlertOnConfigConfigurationChanges,
         AlertOnSecurityGroupChanges, AlertOnNetworkACLChanges, AlertOnNetworkGatewayChanges,
         AlertOnRouteTableChanges, AlertOnVPCChanges, WhenNone
<1> QED BY <1>1, <1>2, <1>3, <1>4, <1>5, <1>6, <1>7, <1>8, <1>9
       DEF Rows, SecurityQuestionsRegistered, ContactInfoUpToDate,
           SecurityContactInfoUpToDate, InstancesUseInstanceProfiles

LEMMA SameVerdict ==
  ASSUME UNCHANGED <<db, scope>>, NEW c
  PROVE  Verdict(c)' = Verdict(c) /\ (Raises(c)' <=> Raises(c))
BY SameRows, SameTables DEF Verdict, Raises, CannotExtract

\* A command begins with nothing printed.
LEMMA StartKeeps ==
  ASSUME BenchmarkInv, NEW spec, Start(spec)
  PROVE  BenchmarkInv'
<1> USE DEF BenchmarkInv, Start
<1>1. scope' \in Provider /\ scope' # NULL BY BenchmarkAssumption
<1>2. TypeOK' BY <1>1, RunIs DEF TypeOK
<1>3. TablesFit' BY DEF TablesFit
<1>4. Judged' /\ DOMAIN report' = Checks BY DEF Judged
<1> QED BY <1>2, <1>3, <1>4

\* A check is judged by the tables as they are; what was judged before stands
\* as long as they have not changed.
LEMMA RunCheckKeeps ==
  ASSUME BenchmarkInv, RunCheck
  PROVE  BenchmarkInv'
<1> USE DEF BenchmarkInv
<1> DEFINE c == run[step]
<1>1. step \in 1 .. 49 /\ c \in Checks /\ UNCHANGED <<db, scope, settled, changes>>
  BY RunIs DEF RunCheck, TypeOK
<1>2. /\ report' = [report EXCEPT ![c] = Verdict(c)]
      /\ step' = (IF step < 49 THEN step + 1 ELSE 0) /\ ~Raises(c)
  BY RunIs DEF RunCheck
<1> HIDE DEF c
<1>3. TypeOK'
  <2>1. ASSUME NEW i \in 1 .. 49, step' > 0 PROVE report'[run[i]] = NULL <=> i >= step'
    <3>1. step' = step + 1 BY <1>1, <1>2, <2>1
    <3>2. report[run[i]] = NULL <=> i >= step BY <1>1, RunIs DEF TypeOK
    <3>3. CASE i = step BY <1>1, <1>2, <3>1, <3>3, RunIs, VerdictIs DEF c
    <3>4. CASE i # step
      <4>1. run[i] # c BY <1>1, <3>4, RunOnce DEF c
      <4> QED BY <1>1, <1>2, <3>1, <3>2, <3>4, <4>1, RunIs
    <3> QED BY <3>3, <3>4
  <2>2. \A d \in Checks : report'[d] \in {"PASS", "FAIL", "INFO", NULL}
    BY <1>1, <1>2, VerdictIs DEF TypeOK
  <2>3. step' \in 0 .. 49 /\ (step' > 0 => scope' # NULL) BY <1>1, <1>2 DEF TypeOK
  <2> QED BY <1>1, <2>1, <2>2, <2>3, RunIs DEF TypeOK
<1>4. TablesFit' BY <1>1 DEF TablesFit
<1>5. Judged'
  <2>1. ASSUME NEW d \in Checks, settled', report'[d] # NULL
        PROVE  report'[d] = Verdict(d)' /\ ~Raises(d)'
    <3>1. CASE d = c BY <1>1, <1>2, <3>1, SameVerdict
    <3>2. CASE d # c BY <1>1, <1>2, <2>1, <3>2, SameVerdict DEF Judged
    <3> QED BY <3>1, <3>2
  <2> QED BY <2>1 DEF Judged
<1> QED BY <1>2, <1>3, <1>4, <1>5

LEMMA RaiseErrorKeeps ==
  ASSUME BenchmarkInv, RaiseError
  PROVE  BenchmarkInv'
<1> USE DEF BenchmarkInv, RaiseError
<1>1. TypeOK' BY RunIs DEF TypeOK
<1>2. TablesFit' BY DEF TablesFit
<1>3. Judged' BY SameVerdict DEF Judged
<1> QED BY <1>1, <1>2, <1>3

\* A refresh leaves what other providers have, and what a report said of the
\* tables before it is no longer claimed.
LEMMA RefreshKeeps ==
  ASSUME BenchmarkInv, NEW p \in Provider, NEW t \in Table, Refresh(p, t)
  PROVE  BenchmarkInv'
<1> USE DEF BenchmarkInv
<1>1. PICK rows \in Variants[p][t] :
        db' = [db EXCEPT ![t] = rows \cup {row \in db[t] : row.provider_account_id # p}]
  BY DEF Refresh
<1>2. TablesFit'
  <2>1. \A row \in rows : Fits(p, t, row) BY TablesAssumption
  <2>2. DOMAIN db' = Table BY <1>1 DEF TablesFit
  <2>3. ASSUME NEW u \in Table, NEW row \in db'[u] PROVE \E q \in Provider : Fits(q, u, row)
    <3>1. row \in db[u] \/ (u = t /\ row \in rows) BY <1>1, <2>2
    <3> QED BY <2>1, <3>1 DEF TablesFit
  <2> QED BY <2>2, <2>3 DEF TablesFit
<1>3. TypeOK'
  <2>1. \A u \in Table : \A row \in db'[u] : row.provider_account_id \in Provider
    BY <1>2 DEF TablesFit, Fits
  <2>2. changes' \in 0 .. MaxChanges BY BenchmarkAssumption DEF Refresh, TypeOK
  <2>3. UNCHANGED <<scope, step, report>> /\ settled' = FALSE BY DEF Refresh
  <2> QED BY <1>2, <2>1, <2>2, <2>3 DEF TypeOK, TablesFit
<1>4. Judged' /\ report' = report BY DEF Refresh, Judged
<1> QED BY <1>2, <1>3, <1>4

THEOREM InvHolds == Spec => []BenchmarkInv
<1>1. ASSUME BenchmarkInv, [Next]_vars PROVE BenchmarkInv'
  <2>1. CASE UNCHANGED vars
    <3>1. TypeOK' /\ TablesFit' BY <1>1, <2>1 DEF vars, BenchmarkInv, TypeOK, TablesFit
    <3>2. Judged' BY <1>1, <2>1, SameVerdict DEF vars, BenchmarkInv, Judged
    <3> QED BY <1>1, <2>1, <3>1, <3>2 DEF vars, BenchmarkInv
  <2>2. CASE \E spec \in Specs : Start(spec) BY <1>1, <2>2, StartKeeps
  <2>3. CASE RunCheck BY <1>1, <2>3, RunCheckKeeps
  <2>4. CASE RaiseError BY <1>1, <2>4, RaiseErrorKeeps
  <2>5. CASE \E p \in Provider, t \in Table : Refresh(p, t) BY <1>1, <2>5, RefreshKeeps
  <2> QED BY <1>1, <2>1, <2>2, <2>3, <2>4, <2>5 DEF Next
<1> QED BY <1>1, InitKeeps, PTL DEF Spec

\* The tables hold rows of their columns, and a running command has printed the
\* checks before its step and no other, for any tables and variants.
THEOREM TypeCorrect == Spec => []TypeOK
<1>1. BenchmarkInv => TypeOK BY DEF BenchmarkInv
<1> QED BY <1>1, InvHolds, PTL
---------------------------------------------------------------------------------
(***************************************************************************)
(* The verdicts.                                                           *)
(***************************************************************************)
\* A scoped session sees the rows of its provider and no other.
LEMMA Scoped ==
  ASSUME NEW t
  PROVE  Visible(t) = Own(t) /\ Mine(t) = Own(t)
BY DEF Visible, Mine, Own

LEMMA OwnFits ==
  ASSUME TablesFit, NEW t \in Table, NEW row \in Own(t)
  PROVE  row # NULL /\ \A c \in DOMAIN Columns[t] : row[c] \in Columns[t][c]
BY DEF TablesFit, Own, Fits

LEMMA RootFits ==
  ASSUME TablesFit, NEW r \in Own("rootaccount")
  PROVE  /\ r.access_key_1_active \in Flag /\ r.access_key_2_active \in Flag
         /\ r.mfa_active \in Flag /\ r.has_virtual_mfa \in Flag
<1>1. \A c \in DOMAIN Columns["rootaccount"] : r[c] \in Columns["rootaccount"][c]
  BY OwnFits DEF Table, Columns
<1> QED BY <1>1 DEF Columns

LEMMA UserFits ==
  ASSUME TablesFit, NEW u \in Own("user")
  PROVE  /\ u.mfadevices \in Count
         /\ u.passwordlastused \in Number /\ u.password_last_changed \in Number
         /\ \A k \in u.access_key : k.last_used \in Number /\ k.last_rotated \in Number
         /\ \A k \in u.accesskeys : k.delta \in Int
<1>1. \A c \in DOMAIN Columns["user"] : u[c] \in Columns["user"][c] BY OwnFits DEF Table, Columns
<1>2. u.mfadevices \in Count /\ u.passwordlastused \in Number /\ u.password_last_changed \in Number
  BY <1>1 DEF Columns
<1>3. u.access_key \in SUBSET [active : Flag, last_used : Number, last_rotated : Number]
  BY <1>1 DEF Columns
<1>4. u.accesskeys \in SUBSET [delta : Int, status : STRING] BY <1>1 DEF Columns
<1> QED BY <1>2, <1>3, <1>4

LEMMA PolicyFits ==
  ASSUME TablesFit, NEW p \in Own("passwordpolicy")
  PROVE  /\ p # NULL
         /\ \A c \in {"requireuppercase", "requirelowercase", "requiresymbols", "requirenumbers"} :
              p[c] \in Flag
         /\ p.minimumpasswordlength \in Count /\ p.passwordreuseprevention \in Count
<1>1. p # NULL /\ \A c \in DOMAIN Columns["passwordpolicy"] : p[c] \in Columns["passwordpolicy"][c]
  BY OwnFits DEF Table, Columns
<1> QED BY <1>1 DEF Columns

LEMMA TrailFits ==
  ASSUME TablesFit, NEW t \in Own("trail")
  PROVE  /\ t.logfilevalidationenabled \in Flag /\ t.latestdelivery \in Number
         /\ \A s \in t.eventselectors : s = [management |-> s.management, readwrite |-> s.readwrite]
<1>1. \A c \in DOMAIN Columns["trail"] : t[c] \in Columns["trail"][c] BY OwnFits DEF Table, Columns
<1>2. t.logfilevalidationenabled \in Flag /\ t.latestdelivery \in Number BY <1>1 DEF Columns
<1>3. t.eventselectors \in SUBSET [management : Flag, readwrite : STRING] BY <1>1 DEF Columns
<1> QED BY <1>2, <1>3

LEMMA OtherFits ==
  ASSUME TablesFit
  PROVE  /\ \A k \in Own("key") : k.keyrotationenabled \in Flag
         /\ \A f \in Own("flowlog") : f.traffictype \in {"ALL", "ACCEPT", "REJECT"}
         /\ \A g \in Own("securitygroup") : \A p \in g.ippermissions :
              p.fromport \in Number /\ p.toport \in Number
         /\ \A b \in Own("bucket") :
              b.policy \in {NULL, Object} \cup SUBSET [effect : STRING, principal : STRING]
<1>1. {"key", "flowlog", "securitygroup", "bucket"} \subseteq Table BY DEF Table, Columns
<1>2. \A k \in Own("key") : k.keyrotationenabled \in Flag BY <1>1, OwnFits DEF Columns
<1>3. \A f \in Own("flowlog") : f.traffictype \in {"ALL", "ACCEPT", "REJECT"}
  BY <1>1, OwnFits DEF Columns
<1>4. \A g \in Own("securitygroup") : g.ippermissions \in SUBSET [fromport : Number, toport : Number,
                                                                  ipranges : SUBSET STRING]
  BY <1>1, OwnFits DEF Columns
<1>5. \A b \in Own("bucket") :
        b.policy \in {NULL, Object} \cup SUBSET [effect : STRING, principal : STRING]
  BY <1>1, OwnFits DEF Columns
<1> QED BY <1>2, <1>3, <1>4, <1>5

\* With the evidence there, the query finds rows if and only if the account
\* does not follow the recommendation.
Tells(c) == Evidence(c) => (Rows(c) = {} <=> Met(c))

LEMMA RootTells ==
  ASSUME TablesFit
  PROVE  Tells("NoRootAccessKeys") /\ Tells("RootAccountHasMFA") /\ Tells("RootAccountHasHardwareMFA")
<1>1. Tells("NoRootAccessKeys")
  BY Scoped, RootFits DEF Tells, Evidence, Rows, Met, NoRootAccessKeys, Flag
<1>2. Tells("RootAccountHasMFA")
  BY Scoped, RootFits DEF Tells, Evidence, Rows, Met, RootAccountHasMFA, Flag
<1>3. Tells("RootAccountHasHardwareMFA")
  BY Scoped, RootFits DEF Tells, Evidence, Rows, Met, RootAccountHasHardwareMFA, Flag
<1> QED BY <1>1, <1>2, <1>3

LEMMA UserTells ==
  ASSUME TablesFit
  PROVE  /\ Tells("MFAForConsoleUser") /\ Tells("RotatePasswordsAfter90Days")
         /\ Tells("RotateAccessKeysAfter90Days") /\ Tells("NoAutoCreatedAccessKeys")
<1>1. Tells("MFAForConsoleUser")
  BY Scoped, UserFits, BenchmarkAssumption DEF Tells, Evidence, Rows, Met, MFAForConsoleUser, Count
<1>2. Tells("RotatePasswordsAfter90Days")
  BY Scoped, UserFits, BenchmarkAssumption
     DEF Tells, Evidence, Rows, Met, RotatePasswordsAfter90Days, Number, Older, Within
<1>3. Tells("RotateAccessKeysAfter90Days")
  BY Scoped, UserFits, BenchmarkAssumption
     DEF Tells, Evidence, Rows, Met, RotateAccessKeysAfter90Days, Number, Older, Within
<1>4. Tells("NoAutoCreatedAccessKeys")
  BY Scoped, UserFits DEF Tells, Evidence, Rows, Met, NoAutoCreatedAccessKeys
<1> QED BY <1>1, <1>2, <1>3, <1>4

\* An account without a policy of its own fails every check of one.
LEMMA OwnPolicies ==
  ASSUME NEW a
  PROVE  /\ Policies(a) = IF PolicyOf(a) = {} THEN {NULL} ELSE PolicyOf(a)
         /\ PolicyOf(a) \subseteq Own("passwordpolicy")
BY Scoped DEF Policies, PolicyOf

LEMMA FlagsTell ==
  ASSUME TablesFit,
         NEW column \in {"requireuppercase", "requirelowercase", "requiresymbols", "requirenumbers"}
  PROVE  Lacking(column) = {} <=> EveryPolicy(column, {TRUE})
<1>1. \A p \in Own("passwordpolicy") : p # NULL /\ (COALESCE(p[column], FALSE) <=> p[column] = TRUE)
  BY PolicyFits, BenchmarkAssumption DEF COALESCE, Flag
<1> QED BY <1>1, OwnPolicies, Scoped DEF Lacking, EveryPolicy

LEMMA NumbersTell ==
  ASSUME TablesFit, NEW minimum \in Nat \ {0},
         NEW column \in {"minimumpasswordlength", "passwordreuseprevention"}
  PROVE  Below(column, minimum) = {} <=> EveryPolicy(column, Nat \ (0 .. minimum - 1))
<1>1. \A p \in Own("passwordpolicy") :
        p # NULL /\ (COALESCE(p[column], 0) < minimum <=> p[column] \notin Nat \ (0 .. minimum - 1))
  BY PolicyFits, BenchmarkAssumption DEF COALESCE, Count
<1> QED BY <1>1, OwnPolicies, Scoped DEF Below, EveryPolicy

LEMMA PasswordTells ==
  ASSUME TablesFit
  PROVE  /\ Tells("RequireUpperCaseInPassword") /\ Tells("RequireLowerCaseInPassword")
         /\ Tells("RequireSymbolInPassword") /\ Tells("RequireNumberInPassword")
         /\ Tells("RequireMinimumLengthPasssword") /\ Tells("RequireNewPassswords")
<1>1. Tells("RequireUpperCaseInPassword")
  BY FlagsTell DEF Tells, Rows, Met, RequireUpperCaseInPassword
<1>2. Tells("RequireLowerCaseInPassword")
  BY FlagsTell DEF Tells, Rows, Met, RequireLowerCaseInPassword
<1>3. Tells("RequireSymbolInPassword")
  BY FlagsTell DEF Tells, Rows, Met, RequireSymbolInPassword
<1>4. Tells("RequireNumberInPassword")
  BY FlagsTell DEF Tells, Rows, Met, RequireNumberInPassword
<1>5. Tells("RequireMinimumLengthPasssword")
  <2>1. Below("minimumpasswordlength", 14) = {}
          <=> EveryPolicy("minimumpasswordlength", Nat \ (0 .. 14 - 1))
    BY NumbersTell, 14 \in Nat \ {0}
  <2>2. 14 - 1 = 13 OBVIOUS
  <2> QED BY <2>1, <2>2 DEF Tells, Rows, Met, RequireMinimumLengthPasssword
<1>6. Tells("RequireNewPassswords")
  <2>1. Below("passwordreuseprevention", 24) = {}
          <=> EveryPolicy("passwordreuseprevention", Nat \ (0 .. 24 - 1))
    BY NumbersTell, 24 \in Nat \ {0}
  <2>2. 24 - 1 = 23 OBVIOUS
  <2> QED BY <2>1, <2>2 DEF Tells, Rows, Met, RequireNewPassswords
<1> QED BY <1>1, <1>2, <1>3, <1>4, <1>5, <1>6

LEMMA ManagedTells ==
  ASSUME TablesFit
  PROVE  Tells("NoPoliciesAttachedToUsers") /\ Tells("SupportPolicyExists") /\ Tells("NoAdminAccess")
<1>1. \A p, t, e : e \in Managed(p, t) <=> e \in Own(t) /\ Manages(p, e)
  BY Scoped DEF Managed, Manages
<1>2. Tells("NoPoliciesAttachedToUsers")
  BY <1>1, Scoped DEF Tells, Rows, Met, NoPoliciesAttachedToUsers
<1>3. Tells("SupportPolicyExists")
  BY <1>1, Scoped DEF Tells, Rows, Met, SupportPolicyExists, WhenNone, Principals
<1>4. Tells("NoAdminAccess") BY Scoped DEF Tells, Rows, Met, NoAdminAccess
<1> QED BY <1>2, <1>3, <1>4

LEMMA LoggingTells ==
  ASSUME TablesFit
  PROVE  /\ Tells("CloudtrailEnabledEverywhere") /\ Tells("CloudtrailLogFileValidationEnabled")
         /\ Tells("CloudwatchLogsUpToDate") /\ Tells("ConfigEnabledInAllRegions")
         /\ Tells("CloudtrailBucketLoggingIsEnable") /\ Tells("CloudtrailEncryptedAtRestWithCMK")
         /\ Tells("CustomerKeysHaveRotationEnabled") /\ Tells("VPCsHaveFlowLogs")
<1>1. Tells("CloudtrailEnabledEverywhere")
  BY Scoped DEF Tells, Rows, Met, CloudtrailEnabledEverywhere, WhenNone
<1>2. Tells("CloudtrailLogFileValidationEnabled")
  BY Scoped, TrailFits DEF Tells, Evidence, Rows, Met, CloudtrailLogFileValidationEnabled, Flag
<1>3. Tells("CloudwatchLogsUpToDate")
  BY Scoped, TrailFits, BenchmarkAssumption
     DEF Tells, Rows, Met, CloudwatchLogsUpToDate, COALESCE, Within, Number
<1>4. Tells("ConfigEnabledInAllRegions")
  BY Scoped DEF Tells, Rows, Met, ConfigEnabledInAllRegions, WhenNone
<1>5. Tells("CloudtrailBucketLoggingIsEnable")
  BY Scoped DEF Tells, Rows, Met, CloudtrailBucketLoggingIsEnable, BucketOf
<1>6. Tells("CloudtrailEncryptedAtRestWithCMK")
  BY Scoped DEF Tells, Rows, Met, CloudtrailEncryptedAtRestWithCMK
<1>7. Tells("CustomerKeysHaveRotationEnabled")
  BY Scoped, OtherFits DEF Tells, Evidence, Rows, Met, CustomerKeysHaveRotationEnabled, Flag
<1>8. Tells("VPCsHaveFlowLogs")
  BY Scoped, OtherFits DEF Tells, Evidence, Rows, Met, VPCsHaveFlowLogs, EveryVpcLogged, LoggedBy
<1> QED BY <1>1, <1>2, <1>3, <1>4, <1>5, <1>6, <1>7, <1>8

LEMMA NetworkTells ==
  ASSUME TablesFit
  PROVE  /\ Tells("NoSSHFromEverywhere") /\ Tells("NoRDPFromEverywhere")
         /\ Tells("DefaultSecurityGroupAllowsNothing")
<1>1. ASSUME NEW port \in Nat PROVE OpenTo(port) = {} <=> \A g \in Own("securitygroup") : ~Reachable(g, port)
  BY Scoped, OtherFits, BenchmarkAssumption DEF OpenTo, Reachable, COALESCE, Number
<1>2. Tells("NoSSHFromEverywhere") BY <1>1 DEF Tells, Rows, Met, NoSSHFromEverywhere
<1>3. Tells("NoRDPFromEverywhere") BY <1>1 DEF Tells, Rows, Met, NoRDPFromEverywhere
<1>4. Tells("DefaultSecurityGroupAllowsNothing")
  BY Scoped DEF Tells, Rows, Met, DefaultSecurityGroupAllowsNothing
<1> QED BY <1>2, <1>3, <1>4

\* What the joins of the provider's own tables rest on.
OneBucketPerUri == \A b, c \in Own("bucket") : b.uri = c.uri => b = c
FiltersRefer ==
  /\ \A f \in Own("metricfilter") : \E g \in Own("loggroup") : g._id = f._loggroup_id
  /\ \A j \in Own("filter2metric") : \E m \in Own("metric") : m._id = j.metric_id

\* A public bucket is found by its own row; that no other row is found for it is
\* the uri's.
LEMMA BucketTells ==
  ASSUME TablesFit
  PROVE  /\ CloudtrailBucketIsPrivate = {} => Met("CloudtrailBucketIsPrivate")
         /\ OneBucketPerUri /\ ~CannotExtract /\ Met("CloudtrailBucketIsPrivate") =>
              CloudtrailBucketIsPrivate = {}
<1>1. Met("CloudtrailBucketIsPrivate") <=> \A t \in Own("trail") : \A b \in BucketOf(t) : ~Public(b)
  BY DEF Met
<1>2. \A b : AclPublic(b) <=> b.grants \cap {"AuthenticatedUsers", "AllUsers"} # {}
  BY DEF AclPublic, PublicGroups
<1>3. ASSUME CloudtrailBucketIsPrivate = {}, NEW t \in Own("trail"), NEW b \in BucketOf(t), Public(b)
      PROVE  FALSE
  <2>1. b \in Own("bucket") /\ b._id = t._s3_bucket_id BY <1>3 DEF BucketOf
  <2>2. PolicyPublic(b) \/ AclPublic(b) BY <1>2, <1>3 DEF Public, PolicyPublic
  <2> QED BY <1>3, <2>1, <2>2, Scoped DEF CloudtrailBucketIsPrivate
<1>4. ASSUME OneBucketPerUri, ~CannotExtract, Met("CloudtrailBucketIsPrivate"),
             NEW t \in CloudtrailBucketIsPrivate
      PROVE  FALSE
  <2>1. PICK b \in Own("bucket"), c \in Own("bucket") :
          /\ t._s3_bucket_id = b._id /\ c.uri = b.uri /\ (PolicyPublic(c) \/ AclPublic(c))
    BY <1>4, Scoped DEF CloudtrailBucketIsPrivate
  <2>2. c = b /\ t \in Own("trail") /\ b \in BucketOf(t)
    BY <1>4, <2>1, Scoped DEF OneBucketPerUri, CloudtrailBucketIsPrivate, BucketOf
  <2>3. ~Public(b) BY <1>1, <1>4, <2>2
  <2>4. ~AclPublic(b) /\ PolicyPublic(b) BY <1>2, <2>1, <2>2, <2>3 DEF Public
  <2>5. b.policy \in SUBSET [effect : STRING, principal : STRING]
    BY <1>4, <2>4, Scoped, OtherFits DEF CannotExtract, PolicyPublic
  <2>6. PICK s \in b.policy : s.effect = "Allow" /\ s.principal = "*" BY <2>4 DEF PolicyPublic
  <2>7. s = [effect |-> "Allow", principal |-> "*"] BY <2>5, <2>6
  <2> QED BY <2>3, <2>4, <2>6, <2>7 DEF Public, PolicyPublic
<1> QED BY <1>1, <1>3, <1>4

\* An alert that is found watches; one that watches is found where log groups
\* and metrics are.
LEMMA AlertingTells ==
  ASSUME TablesFit, NEW pattern
  PROVE  /\ WhenNone(Alerting(pattern)) = {} => Watched(pattern)
         /\ FiltersRefer /\ Watched(pattern) => WhenNone(Alerting(pattern)) = {}
<1>1. WhenNone(Alerting(pattern)) = {} <=> Alerting(pattern) # {} BY DEF WhenNone
<1>2. ASSUME NEW t \in Own("trail")
      PROVE  (\E s \in t.eventselectors : s.management = TRUE /\ s.readwrite = "All")
               <=> [management |-> TRUE, readwrite |-> "All"] \in t.eventselectors
  BY TrailFits
<1>3. ASSUME NEW t \in Alerting(pattern) PROVE Watched(pattern)
  <2>1. t \in Own("trail") /\ RecordsAll(t) BY <1>2, Scoped DEF Alerting, RecordsAll
  <2>2. PICK g \in Own("loggroup"), f \in Own("metricfilter"), j \in Own("filter2metric"),
             m \in Own("metric"), a \in Own("metricalarm") :
          /\ g._id = t._logs_loggroup_id /\ f._loggroup_id = g._id /\ pattern = f.filterpattern
          /\ j.metricfilter_id = f._id /\ m._id = j.metric_id
          /\ a._metric_id = m._id /\ a.actionsenabled = TRUE
    BY Scoped DEF Alerting, aws_logs_metricfilter_pattern_matches
  <2> QED BY <2>1, <2>2 DEF Watched
<1>4. ASSUME FiltersRefer, Watched(pattern) PROVE Alerting(pattern) # {}
  <2>1. PICK t \in Own("trail"), f \in Own("metricfilter"), a \in Own("metricalarm"),
             j \in Own("filter2metric") :
          /\ RecordsAll(t) /\ f._loggroup_id = t._logs_loggroup_id /\ f.filterpattern = pattern
          /\ a.actionsenabled = TRUE /\ j.metricfilter_id = f._id /\ j.metric_id = a._metric_id
    BY <1>4 DEF Watched
  <2>2. PICK g \in Own("loggroup"), m \in Own("metric") :
          g._id = f._loggroup_id /\ m._id = j.metric_id
    BY <1>4, <2>1 DEF FiltersRefer
  <2>3. \E s \in t.eventselectors : s.management = TRUE /\ s.readwrite = "All"
    BY <1>2, <2>1 DEF RecordsAll
  <2>4. t \in Alerting(pattern)
    BY <2>1, <2>2, <2>3, Scoped DEF Alerting, RecordsAll, aws_logs_metricfilter_pattern_matches
  <2> QED BY <2>4
<1> QED BY <1>1, <1>3, <1>4

\* The checks by how they are judged.
AlertChecks ==
  {"AlertOnUnauthorizedAPICalls", "AlertOnNoMFAConsoleSignin", "AlertOnRootAccountUsage",
   "AlertOnIAMPolicyChanges", "AlertOnCloudTrailConfigurationChanges",
   "AlertOnFailedConsoleAuthentication", "AlertOnCMKDisablingOrScheduledDeletion",
   "AlertOnS3BucketPolicyChanges", "AlertOnConfigConfigurationChanges",
   "AlertOnSecurityGroupChanges", "AlertOnNetworkACLChanges",
   "AlertOnNetworkGatewayChanges", "AlertOnRouteTableChanges", "AlertOnVPCChanges"}
TellingChecks ==
  {"MFAForConsoleUser", "RotatePasswordsAfter90Days", "RotateAccessKeysAfter90Days",
   "RequireUpperCaseInPassword", "RequireLowerCaseInPassword", "RequireSymbolInPassword",
   "RequireNumberInPassword", "RequireMinimumLengthPasssword", "RequireNewPassswords",
   "NoRootAccessKeys", "RootAccountHasMFA", "RootAccountHasHardwareMFA",
   "NoPoliciesAttachedToUsers", "SupportPolicyExists", "NoAutoCreatedAccessKeys",
   "NoAdminAccess", "CloudtrailEnabledEverywhere", "CloudtrailLogFileValidationEnabled",
   "CloudwatchLogsUpToDate", "ConfigEnabledInAllRegions", "CloudtrailBucketLoggingIsEnable",
   "CloudtrailEncryptedAtRestWithCMK", "CustomerKeysHaveRotationEnabled",
   "VPCsHaveFlowLogs", "NoSSHFromEverywhere", "NoRDPFromEverywhere",
   "DefaultSecurityGroupAllowsNothing"}

LEMMA ChecksAre ==
  ASSUME NEW c \in Checks \ Infos, c # "RequireMaximumAgePassswords"
  PROVE  c \in AlertChecks \cup TellingChecks \cup {"CloudtrailBucketIsPrivate"}
<1>1. PICK i \in 1 .. 49 : c = run[i] BY RunIs DEF Checks
<1> QED BY <1>1 DEF run, Infos, AlertChecks, TellingChecks

\* Each alert is one pattern.
LEMMA AlertsAre ==
  ASSUME NEW c \in AlertChecks
  PROVE  \E pattern : /\ Rows(c) = WhenNone(Alerting(pattern))
                      /\ Met(c) <=> Watched(pattern)
<1>1. CASE c = "AlertOnUnauthorizedAPICalls"
  BY <1>1 DEF Rows, Met, AlertOnUnauthorizedAPICalls
<1>2. CASE c = "AlertOnNoMFAConsoleSignin"
  BY <1>2 DEF Rows, Met, AlertOnNoMFAConsoleSignin
<1>3. CASE c = "AlertOnRootAccountUsage"
  BY <1>3 DEF Rows, Met, AlertOnRootAccountUsage
<1>4. CASE c = "AlertOnIAMPolicyChanges"
  BY <1>4 DEF Rows, Met, AlertOnIAMPolicyChanges
<1>5. CASE c = "AlertOnCloudTrailConfigurationChanges"
  BY <1>5 DEF Rows, Met, AlertOnCloudTrailConfigurationChanges
<1>6. CASE c = "AlertOnFailedConsoleAuthentication"
  BY <1>6 DEF Rows, Met, AlertOnFailedConsoleAuthentication
<1>7. CASE c = "AlertOnCMKDisablingOrScheduledDeletion"
  BY <1>7 DEF Rows, Met, AlertOnCMKDisablingOrScheduledDeletion
<1>8. CASE c = "AlertOnS3BucketPolicyChanges"
  BY <1>8 DEF Rows, Met, AlertOnS3BucketPolicyChanges
<1>9. CASE c = "AlertOnConfigConfigurationChanges"
  BY <1>9 DEF Rows, Met, AlertOnConfigConfigurationChanges
<1>10. CASE c = "AlertOnSecurityGroupChanges"
  BY <1>10 DEF Rows, Met, AlertOnSecurityGroupChanges
<1>11. CASE c = "AlertOnNetworkACLChanges"
  BY <1>11 DEF Rows, Met, AlertOnNetworkACLChanges
<1>12. CASE c = "AlertOnNetworkGatewayChanges"
  BY <1>12 DEF Rows, Met, AlertOnNetworkGatewayChanges
<1>13. CASE c = "AlertOnRouteTableChanges"
  BY <1>13 DEF Rows, Met, AlertOnRouteTableChanges
<1>14. CASE c = "AlertOnVPCChanges"
  BY <1>14 DEF Rows, Met, AlertOnVPCChanges
<1> QED BY <1>1, <1>2, <1>3, <1>4, <1>5, <1>6, <1>7, <1>8, <1>9, 
       <1>10, <1>11, <1>12, <1>13, <1>14 DEF AlertChecks

LEMMA TellingTell ==
  ASSUME TablesFit, NEW c \in TellingChecks
  PROVE  Tells(c)
BY RootTells, UserTells, PasswordTells, ManagedTells, LoggingTells, NetworkTells DEF TellingChecks

\* A check that prints PASS on evidence is right, whatever the tables of the
\* account and of other providers hold: no join of the queries hides a row that
\* falls short.
THEOREM PassIsEarnedHolds == Spec => []PassIsEarned
<1>1. ASSUME BenchmarkInv PROVE PassIsEarned
  <2>1. SUFFICES ASSUME NEW c \in Checks, Reported(c), report[c] = "PASS", Reliable(c)
                 PROVE  Met(c)
    BY DEF PassIsEarned
  <2>2. TablesFit /\ Verdict(c) = "PASS" BY <1>1, <2>1 DEF BenchmarkInv, Judged, Reported
  <2>3. c \notin Infos /\ Rows(c) = {} BY <2>2 DEF Verdict
  <2>4. CASE c \in TellingChecks BY <2>1, <2>2, <2>3, <2>4, TellingTell DEF Tells, Reliable
  <2>5. CASE c \in AlertChecks BY <2>2, <2>3, <2>5, AlertsAre, AlertingTells
  <2>6. CASE c = "CloudtrailBucketIsPrivate"
    <3>1. Rows(c) = CloudtrailBucketIsPrivate BY <2>6 DEF Rows
    <3> QED BY <2>2, <2>3, <2>6, <3>1, BucketTells
  <2> QED BY <2>1, <2>3, <2>4, <2>5, <2>6, ChecksAre DEF Reliable
<1> QED BY <1>1, InvHolds, PTL
---------------------------------------------------------------------------------
(***************************************************************************)
(* A FAIL needs more: that the rows that a query joins are there and are   *)
(* one each.                                                               *)
(***************************************************************************)
\* A provider's rows are those of one import, in each table.
RowsOfOne == \A p \in Provider, t \in Table : OwnRows(p, t) \in Contents(p, t)

LEMMA RowsOfOneStep ==
  ASSUME BenchmarkInv, RowsOfOne, [Next]_vars
  PROVE  RowsOfOne'
<1>1. CASE UNCHANGED db BY <1>1 DEF RowsOfOne, OwnRows
<1>2. ASSUME NEW p \in Provider, NEW t \in Table, Refresh(p, t) PROVE RowsOfOne'
  <2>1. PICK rows \in Variants[p][t] :
          db' = [db EXCEPT ![t] = rows \cup {row \in db[t] : row.provider_account_id # p}]
    BY <1>2 DEF Refresh
  <2>2. \A row \in rows : row.provider_account_id = p BY TablesAssumption DEF Fits
  <2>3. DOMAIN db = Table BY DEF BenchmarkInv, TablesFit
  <2>4. ASSUME NEW q \in Provider, NEW u \in Table PROVE OwnRows(q, u)' \in Contents(q, u)
    <3>1. CASE u # t
      <4>1. db'[u] = db[u] BY <2>1, <2>3, <3>1
      <4> QED BY <4>1 DEF OwnRows, RowsOfOne
    <3>2. db'[t] = rows \cup {row \in db[t] : row.provider_account_id # p} BY <2>1, <2>3
    <3>3. CASE u = t /\ q = p
      <4>1. OwnRows(q, u)' = rows BY <2>2, <3>2, <3>3 DEF OwnRows
      <4> QED BY <3>3, <4>1 DEF Contents
    <3>4. CASE u = t /\ q # p
      <4>1. OwnRows(q, u)' = OwnRows(q, u) BY <2>2, <3>2, <3>4 DEF OwnRows
      <4> QED BY <4>1 DEF RowsOfOne
    <3> QED BY <3>1, <3>3, <3>4
  <2> QED BY <2>4 DEF RowsOfOne
<1>3. CASE \E spec \in Specs : Start(spec) BY <1>1, <1>3 DEF Start
<1>4. CASE RunCheck BY <1>1, <1>4 DEF RunCheck
<1>5. CASE RaiseError BY <1>1, <1>5 DEF RaiseError
<1> QED BY <1>1, <1>2, <1>3, <1>4, <1>5 DEF Next, vars

\* The rows that the queries join are there for every provider, and for no
\* provider at all.
LEMMA JoinsHold ==
  ASSUME KeysHold, RowsOfOne, TablesFit
  PROVE  OneBucketPerUri /\ FiltersRefer
<1>1. {"bucket", "metricfilter", "loggroup", "filter2metric", "metric"} \subseteq Table
  BY DEF Table, Columns
<1>2. CASE scope \in Provider
  <2>1. \A t : Own(t) = OwnRows(scope, t) BY DEF Own, OwnRows
  <2>2. OneBucketPerUri BY <1>1, <1>2, <2>1 DEF KeysHold, RowsOfOne, OneBucketPerUri
  <2>3. FiltersRefer BY <1>1, <1>2, <2>1 DEF KeysHold, RowsOfOne, FiltersRefer
  <2> QED BY <2>2, <2>3
<1>3. CASE scope \notin Provider
  <2>1. \A t \in Table : Own(t) = {} BY <1>3 DEF TablesFit, Fits, Own
  <2> QED BY <1>1, <2>1 DEF OneBucketPerUri, FiltersRefer
<1> QED BY <1>2, <1>3

\* A check that prints FAIL on evidence has found something, unless a row that its
\* query joins is missing or is not the only one of its uri.
THEOREM FailIsRealHolds ==
  ASSUME KeysHold
  PROVE  Spec => []FailIsReal
<1>1. Init => RowsOfOne BY DEF Init, RowsOfOne, OwnRows, Contents
<1>2. ASSUME BenchmarkInv, RowsOfOne PROVE FailIsReal
  <2>1. SUFFICES ASSUME NEW c \in Checks, Reported(c), report[c] = "FAIL", Reliable(c), Met(c)
                 PROVE  FALSE
    BY DEF FailIsReal
  <2>2. TablesFit /\ Verdict(c) = "FAIL" /\ ~Raises(c)
    BY <1>2, <2>1 DEF BenchmarkInv, Judged, Reported
  <2>3. c \notin Infos /\ Rows(c) # {} BY <2>2 DEF Verdict
  <2>4. OneBucketPerUri /\ FiltersRefer BY <1>2, <2>2, JoinsHold
  <2>5. CASE c \in TellingChecks BY <2>1, <2>2, <2>3, <2>5, TellingTell DEF Tells, Reliable
  <2>6. CASE c \in AlertChecks BY <2>1, <2>2, <2>3, <2>4, <2>6, AlertsAre, AlertingTells
  <2>7. CASE c = "CloudtrailBucketIsPrivate"
    <3>1. Rows(c) = CloudtrailBucketIsPrivate BY <2>7 DEF Rows
    <3>2. ~CannotExtract BY <2>2, <2>7 DEF Raises
    <3> QED BY <2>1, <2>2, <2>3, <2>4, <2>7, <3>1, <3>2, BucketTells
  <2> QED BY <2>1, <2>3, <2>5, <2>6, <2>7, ChecksAre DEF Reliable
<1>3. BenchmarkInv /\ RowsOfOne /\ [Next]_vars => RowsOfOne' BY RowsOfOneStep
<1> QED BY <1>1, <1>2, <1>3, InvHolds, PTL DEF Spec
=================================================================================
