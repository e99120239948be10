-------------------------------- MODULE Benchmark --------------------------------
(***************************************************************************)
(* `introspector cis foundation`: the AWS Foundation checks of             *)
(* tools/cis/aws_foundation.py, one SQL query each, run one after another  *)
(* on the provider tables of one account while other commands refresh      *)
(* those tables.  A definition named after a check class is the rows that  *)
(* its query returns, each by the row of the table it selects from first.  *)
(*                                                                         *)
(* Timestamps are ages in days, a json array is a set, a filter pattern is *)
(* the name of what it watches for, a gateway is the kind that its id      *)
(* begins with, and NULL is SQL's NULL.                                    *)
(***************************************************************************)
EXTENDS Integers, Sequences, FiniteSets

CONSTANTS
  Provider,     \* ids in provider_account
  NameOf,       \* [Provider -> names]
  Specs,        \* what the operator gives for --provider: a name, or NULL
  Initially,    \* [Table -> SUBSET rows], when the model starts
  Variants,     \* [Provider -> [Table -> SUBSET SUBSET rows]]: what an import
                \* of the provider may leave of its own in a table
  Object,       \* a json object where the query expects an array
  NULL,
  MaxChanges    \* bound: refreshes of other commands in a behaviour

ASSUME BenchmarkAssumption ==
  /\ NULL \notin Provider \cup Int \cup BOOLEAN \cup {"PASS", "FAIL", "INFO"}
  /\ MaxChanges \in Nat

(***************************************************************************)
(* The provider tables, and resource_relation, with the types of those     *)
(* columns and json fields that a query compares with a constant.          *)
(***************************************************************************)
Flag == BOOLEAN \cup {NULL}
Number == Int \cup {NULL}
Count == Nat \cup {NULL}
Columns ==
  [rootaccount |-> [access_key_1_active |-> Flag, access_key_2_active |-> Flag,
                    mfa_active |-> Flag, has_virtual_mfa |-> Flag],
   user |-> [mfadevices |-> Count, password_enabled |-> Flag,
             passwordlastused |-> Number, password_last_changed |-> Number,
             access_key |-> SUBSET [active : Flag, last_used : Number, last_rotated : Number],
             accesskeys |-> SUBSET [delta : Int, status : STRING]],
   account |-> <<>>,
   passwordpolicy |-> [requireuppercase |-> Flag, requirelowercase |-> Flag,
                       requiresymbols |-> Flag, requirenumbers |-> Flag,
                       minimumpasswordlength |-> Count, passwordreuseprevention |-> Count,
                       maxpasswordage |-> Count],
   policy |-> <<>>, userpolicy |-> <<>>, group |-> <<>>, role |-> <<>>, policyversion |-> <<>>,
   resource_relation |-> <<>>,
   trail |-> [logfilevalidationenabled |-> Flag, latestdelivery |-> Number,
              eventselectors |-> SUBSET [management : Flag, readwrite : STRING]],
   bucket |-> [policy |-> {NULL, Object} \cup SUBSET [effect : STRING, principal : STRING]],
   recorder |-> <<>>, key |-> [keyrotationenabled |-> Flag], vpc |-> <<>>,
   flowlog |-> [traffictype |-> {"ALL", "ACCEPT", "REJECT"}],
   loggroup |-> <<>>, metricfilter |-> <<>>, filter2metric |-> <<>>, metric |-> <<>>,
   metricalarm |-> <<>>,
   securitygroup |-> [ippermissions |-> SUBSET [fromport : Number, toport : Number,
                                                ipranges : SUBSET STRING]],
   routetable |-> [routes |-> SUBSET [state : STRING, gateway : STRING \cup {NULL}]]]

Table == DOMAIN Columns

\* A row of the table that belongs to the provider.
Fits(p, t, row) ==
  /\ row # NULL /\ row.provider_account_id = p
  /\ \A c \in DOMAIN Columns[t] : row[c] \in Columns[t][c]

ASSUME TablesAssumption ==
  /\ DOMAIN Initially = Table
  /\ \A t \in Table : \A row \in Initially[t] : \E p \in Provider : Fits(p, t, row)
  /\ \A p \in Provider, t \in Table : \A rows \in Variants[p][t] :
       \A row \in rows : Fits(p, t, row)

VARIABLES
  db,           \* the provider tables
  scope,        \* the provider_account_id that the session of the running
                \* command, or of the last one, is scoped to; NULL before any
  step,         \* the check that runs next; 0 when no command runs
  report,       \* what the command printed for each check so far
  settled,      \* no refresh committed since that command started
  changes

vars == <<db, scope, step, report, settled, changes>>
---------------------------------------------------------------------------------
(***************************************************************************)
(* SQL.                                                                    *)
(***************************************************************************)
\* A mutant of Visible: the session keeps the introspector_ro role.
Unscoped(t) == db[t]

\* The rows that row level security shows introspector_ro_scoped.
Visible(t) == {row \in db[t] : row.provider_account_id = scope}

\* WHERE provider_account_id = :provider_account_id
Mine(t) == {row \in Visible(t) : row.provider_account_id = scope}

COALESCE(x, default) == IF x = NULL THEN default ELSE x
Older(age, days) == age # NULL /\ age > days

\* SELECT 1 ... WHERE count = 0
WhenNone(rows) == IF rows = {} THEN {1} ELSE {}
---------------------------------------------------------------------------------
(***************************************************************************)
(* 1: identity and access.                                                 *)
(***************************************************************************)
RootAccountUsage == Mine("rootaccount")

MFAForConsoleUser ==
  {u \in Mine("user") : u.loginprofile # NULL /\ u.mfadevices = 0}

\* A mutant: LAST_USED without the COALESCE.
UnusedKeysPass ==
  {u \in Mine("user") :
     \/ /\ u.password_enabled = TRUE
        /\ \/ u.passwordlastused = NULL /\ Older(u.password_last_changed, 90)
           \/ Older(u.passwordlastused, 90)
     \/ \E k \in u.access_key : k.active = TRUE /\ Older(k.last_used, 90)}

\* An active key that was never used counts as unused for 90 days, a password
\* that was never used counts from its last change.
RotatePasswordsAfter90Days ==
  {u \in Mine("user") :
     \/ /\ u.password_enabled = TRUE
        /\ \/ u.passwordlastused = NULL /\ Older(u.password_last_changed, 90)
           \/ Older(u.passwordlastused, 90)
     \/ \E k \in u.access_key : k.active = TRUE /\ (k.last_used = NULL \/ k.last_used > 90)}

RotateAccessKeysAfter90Days ==
  {u \in Mine("user") : \E k \in u.access_key : k.active = TRUE /\ Older(k.last_rotated, 90)}

\* The accounts LEFT JOIN their password policies, NULL where there is none.
Policies(a) ==
  LET found == {p \in Visible("passwordpolicy") : p.account = a.id}
  IN IF found = {} THEN {NULL} ELSE found
Lacking(column) ==
  {a \in Mine("account") :
     \E p \in Policies(a) : p = NULL \/ ~COALESCE(p[column], FALSE)}
Below(column, minimum) ==
  {a \in Mine("account") :
     \E p \in Policies(a) : p = NULL \/ COALESCE(p[column], 0) < minimum}

RequireUpperCaseInPassword == Lacking("requireuppercase")
RequireLowerCaseInPassword == Lacking("requirelowercase")
RequireSymbolInPassword == Lacking("requiresymbols")
RequireNumberInPassword == Lacking("requirenumbers")
RequireMinimumLengthPasssword == Below("minimumpasswordlength", 14)
RequireNewPassswords == Below("passwordreuseprevention", 24)
RequireMaximumAgePassswords == Below("maxpasswordage", 90)

NoRootAccessKeys ==
  {r \in Mine("rootaccount") : r.access_key_1_active = TRUE \/ r.access_key_2_active = TRUE}
RootAccountHasMFA == {r \in Mine("rootaccount") : r.mfa_active = FALSE}
RootAccountHasHardwareMFA ==
  {r \in Mine("rootaccount") : r.mfa_active = TRUE /\ r.has_virtual_mfa = TRUE}

SecurityQuestionsRegistered == {1}
ContactInfoUpToDate == {1}
SecurityContactInfoUpToDate == {1}
InstancesUseInstanceProfiles == {1}

\* The rows of a table that a policy manages.
Managed(p, t) ==
  {e \in Visible(t) : \E r \in Visible("resource_relation") :
                        r.relation = "manages" /\ r.resource_id = p._id /\ r.target_id = e._id}

NoPoliciesAttachedToUsers ==
  {u \in Visible("user") : /\ u \in Mine("user")
                           /\ \E p \in Visible("policy") \cup Visible("userpolicy") :
                                u \in Managed(p, "user")}

SupportPolicyExists ==
  WhenNone({e \in Mine("user") \cup Mine("group") \cup Mine("role") :
              \E p \in Visible("policy") :
                /\ p.uri = "AWSSupportAccess"
                /\ \E t \in {"user", "group", "role"} : e \in Managed(p, t)})

\* A key that is as old as its user is one that the console created; delta is
\* in minutes.
NoAutoCreatedAccessKeys ==
  {u \in Mine("user") : /\ u.loginprofile # NULL
                        /\ \E k \in u.accesskeys : k.delta < 2 /\ k.status = "Active"}

NoAdminAccess ==
  {p \in Mine("policy") :
     \E v \in Visible("policyversion") :
       /\ v.uri = <<p.uri, p.defaultversionid>>
       /\ \E s \in v.statements : s.effect = "Allow" /\ "*" \in s.resource /\ "*" \in s.action}
---------------------------------------------------------------------------------
(***************************************************************************)
(* 2: logging.                                                             *)
(***************************************************************************)
CloudtrailEnabledEverywhere ==
  WhenNone({t \in Mine("trail") : t.ismultiregiontrail = TRUE})
CloudtrailLogFileValidationEnabled ==
  {t \in Mine("trail") : t.logfilevalidationenabled = FALSE}

PublicGroups == {"AuthenticatedUsers", "AllUsers"}
AclPublic(b) == \E g \in b.grants : g \in PublicGroups
PolicyPublic(b) ==
  b.policy # NULL /\ \E s \in b.policy : s.effect = "Allow" /\ s.principal = "*"
CloudtrailBucketIsPrivate ==
  {t \in Mine("trail") : \E b \in Visible("bucket") :
     /\ t._s3_bucket_id = b._id
     /\ \E c \in Visible("bucket") : c.uri = b.uri /\ (PolicyPublic(c) \/ AclPublic(c))}

\* jsonb_array_elements, over every visible bucket, of a policy whose
\* Statement is one object is an error of the query.
CannotExtract == \E b \in Visible("bucket") : b.policy = Object

CloudwatchLogsUpToDate ==
  {t \in Mine("trail") : \/ t.cloudwatchlogsloggrouparn = NULL
                         \/ COALESCE(t.latestdelivery, 2) > 1}
ConfigEnabledInAllRegions ==
  WhenNone({r \in Mine("recorder") : r.allsupported = TRUE /\ r.includeglobal = TRUE})
CloudtrailBucketLoggingIsEnable ==
  {t \in Mine("trail") :
     \E b \in Visible("bucket") : t._s3_bucket_id = b._id /\ b.logging = NULL}
CloudtrailEncryptedAtRestWithCMK == {t \in Mine("trail") : t.kmskeyid = NULL}
CustomerKeysHaveRotationEnabled == {k \in Mine("key") : k.keyrotationenabled = FALSE}

\* x NOT IN (...) is never true when the list holds a NULL.
VPCsHaveFlowLogs ==
  LET logged == {f._vpc_id : f \in {g \in Mine("flowlog") :
                                      /\ g.flowlogstatus = "ACTIVE"
                                      /\ g.traffictype \in {"ALL", "REJECT"}}}
  IN {v \in Mine("vpc") : NULL \notin logged /\ v._id \notin logged}
---------------------------------------------------------------------------------
(***************************************************************************)
(* 3: monitoring.  The trails whose log group has a metric filter for the  *)
(* pattern, on a metric with an enabled alarm; whether the alarm has a     *)
(* topic, and the topic a subscriber, does not matter to the count.        *)
(***************************************************************************)
aws_logs_metricfilter_pattern_matches(target, example) == example = target

Alerting(pattern) ==
  {t \in Mine("trail") :
     /\ t.ismultiregiontrail = TRUE /\ t.islogging = TRUE
     /\ \E s \in t.eventselectors : s.management = TRUE /\ s.readwrite = "All"
     /\ \E g \in Visible("loggroup") : g._id = t._logs_loggroup_id /\
          \E f \in Visible("metricfilter") :
            /\ f._loggroup_id = g._id
            /\ aws_logs_metricfilter_pattern_matches(pattern, f.filterpattern)
            /\ \E j \in Visible("filter2metric") : j.metricfilter_id = f._id /\
                 \E m \in Visible("metric") : m._id = j.metric_id /\
                   \E a \in Visible("metricalarm") :
                     a._metric_id = m._id /\ a.actionsenabled = TRUE}

AlertOnUnauthorizedAPICalls == WhenNone(Alerting("UnauthorizedAPICalls"))
AlertOnNoMFAConsoleSignin == WhenNone(Alerting("NoMFAConsoleSignin"))
AlertOnRootAccountUsage == WhenNone(Alerting("RootAccountUsage"))
AlertOnIAMPolicyChanges == WhenNone(Alerting("IAMPolicyChanges"))
AlertOnCloudTrailConfigurationChanges == WhenNone(Alerting("CloudTrailConfigurationChanges"))
AlertOnFailedConsoleAuthentication == WhenNone(Alerting("FailedConsoleAuthentication"))
AlertOnCMKDisablingOrScheduledDeletion == WhenNone(Alerting("CMKDisablingOrScheduledDeletion"))
AlertOnS3BucketPolicyChanges == WhenNone(Alerting("S3BucketPolicyChanges"))
AlertOnConfigConfigurationChanges == WhenNone(Alerting("ConfigConfigurationChanges"))
AlertOnSecurityGroupChanges == WhenNone(Alerting("SecurityGroupChanges"))
AlertOnNetworkACLChanges == WhenNone(Alerting("NetworkACLChanges"))
AlertOnNetworkGatewayChanges == WhenNone(Alerting("NetworkGatewayChanges"))
AlertOnRouteTableChanges == WhenNone(Alerting("RouteTableChanges"))
AlertOnVPCChanges == WhenNone(Alerting("VPCChanges"))
---------------------------------------------------------------------------------
(***************************************************************************)
(* 4: networking.                                                          *)
(***************************************************************************)
OpenTo(port) ==
  {g \in Mine("securitygroup") :
     \E p \in g.ippermissions : /\ port \in COALESCE(p.fromport, port) .. COALESCE(p.toport, port)
                                /\ "0.0.0.0/0" \in p.ipranges}
NoSSHFromEverywhere == OpenTo(22)
NoRDPFromEverywhere == OpenTo(3389)

DefaultSecurityGroupAllowsNothing ==
  {v \in Mine("vpc") : \E g \in Visible("securitygroup") :
     /\ g._vpc_id = v._id /\ g.groupname = "default"
     /\ \E p \in g.ippermissions : p.ipranges # {}}

ReviewPeeringConnections ==
  {t \in Mine("routetable") : \E x \in t.routes : x.state = "active" /\ x.gateway = "pcx"}
---------------------------------------------------------------------------------
(***************************************************************************)
(* The command.                                                            *)
(***************************************************************************)
Infos == {"RootAccountUsage", "SecurityQuestionsRegistered", "ContactInfoUpToDate",
          "SecurityContactInfoUpToDate", "InstancesUseInstanceProfiles",
          "ReviewPeeringConnections"}

Rows(check) ==
  CASE check = "RootAccountUsage" -> RootAccountUsage
    [] check = "MFAForConsoleUser" -> MFAForConsoleUser
    [] check = "RotatePasswordsAfter90Days" -> RotatePasswordsAfter90Days
    [] check = "RotateAccessKeysAfter90Days" -> RotateAccessKeysAfter90Days
    [] check = "RequireUpperCaseInPassword" -> RequireUpperCaseInPassword
    [] check = "RequireLowerCaseInPassword" -> RequireLowerCaseInPassword
    [] check = "RequireSymbolInPassword" -> RequireSymbolInPassword
    [] check = "RequireNumberInPassword" -> RequireNumberInPassword
    [] check = "RequireMinimumLengthPasssword" -> RequireMinimumLengthPasssword
    [] check = "RequireNewPassswords" -> RequireNewPassswords
    [] check = "RequireMaximumAgePassswords" -> RequireMaximumAgePassswords
    [] check = "NoRootAccessKeys" -> NoRootAccessKeys
    [] check = "RootAccountHasMFA" -> RootAccountHasMFA
    [] check = "RootAccountHasHardwareMFA" -> RootAccountHasHardwareMFA
    [] check = "SecurityQuestionsRegistered" -> SecurityQuestionsRegistered
    [] check = "NoPoliciesAttachedToUsers" -> NoPoliciesAttachedToUsers
    [] check = "ContactInfoUpToDate" -> ContactInfoUpToDate
    [] check = "SecurityContactInfoUpToDate" -> SecurityContactInfoUpToDate
    [] check = "InstancesUseInstanceProfiles" -> InstancesUseInstanceProfiles
    [] check = "SupportPolicyExists" -> SupportPolicyExists
    [] check = "NoAutoCreatedAccessKeys" -> NoAutoCreatedAccessKeys
    [] check = "NoAdminAccess" -> NoAdminAccess
    [] check = "CloudtrailEnabledEverywhere" -> CloudtrailEnabledEverywhere
    [] check = "CloudtrailLogFileValidationEnabled" -> CloudtrailLogFileValidationEnabled
    [] check = "CloudtrailBucketIsPrivate" -> CloudtrailBucketIsPrivate
    [] check = "CloudwatchLogsUpToDate" -> CloudwatchLogsUpToDate
    [] check = "ConfigEnabledInAllRegions" -> ConfigEnabledInAllRegions
    [] check = "CloudtrailBucketLoggingIsEnable" -> CloudtrailBucketLoggingIsEnable
    [] check = "CloudtrailEncryptedAtRestWithCMK" -> CloudtrailEncryptedAtRestWithCMK
    [] check = "CustomerKeysHaveRotationEnabled" -> CustomerKeysHaveRotationEnabled
    [] check = "VPCsHaveFlowLogs" -> VPCsHaveFlowLogs
    [] check = "AlertOnUnauthorizedAPICalls" -> AlertOnUnauthorizedAPICalls
    [] check = "AlertOnNoMFAConsoleSignin" -> AlertOnNoMFAConsoleSignin
    [] check = "AlertOnRootAccountUsage" -> AlertOnRootAccountUsage
    [] check = "AlertOnIAMPolicyChanges" -> AlertOnIAMPolicyChanges
    [] check = "AlertOnCloudTrailConfigurationChanges" -> AlertOnCloudTrailConfigurationChanges
    [] check = "AlertOnFailedConsoleAuthentication" -> AlertOnFailedConsoleAuthentication
    [] check = "AlertOnCMKDisablingOrScheduledDeletion" -> AlertOnCMKDisablingOrScheduledDeletion
    [] check = "AlertOnS3BucketPolicyChanges" -> AlertOnS3BucketPolicyChanges
    [] check = "AlertOnConfigConfigurationChanges" -> AlertOnConfigConfigurationChanges
    [] check = "AlertOnSecurityGroupChanges" -> AlertOnSecurityGroupChanges
    [] check = "AlertOnNetworkACLChanges" -> AlertOnNetworkACLChanges
    [] check = "AlertOnNetworkGatewayChanges" -> AlertOnNetworkGatewayChanges
    [] check = "AlertOnRouteTableChanges" -> AlertOnRouteTableChanges
    [] check = "AlertOnVPCChanges" -> AlertOnVPCChanges
    [] check = "NoSSHFromEverywhere" -> NoSSHFromEverywhere
    [] check = "NoRDPFromEverywhere" -> NoRDPFromEverywhere
    [] check = "DefaultSecurityGroupAllowsNothing" -> DefaultSecurityGroupAllowsNothing
    [] check = "ReviewPeeringConnections" -> ReviewPeeringConnections

\* The order of run().
run ==
  <<"RootAccountUsage", "MFAForConsoleUser", "RotatePasswordsAfter90Days",
    "RotateAccessKeysAfter90Days", "RequireUpperCaseInPassword", "RequireLowerCaseInPassword",
    "RequireSymbolInPassword", "RequireNumberInPassword", "RequireMinimumLengthPasssword",
    "RequireNewPassswords", "RequireMaximumAgePassswords", "NoRootAccessKeys",
    "RootAccountHasMFA", "RootAccountHasHardwareMFA", "SecurityQuestionsRegistered",
    "NoPoliciesAttachedToUsers", "ContactInfoUpToDate", "SecurityContactInfoUpToDate",
    "InstancesUseInstanceProfiles", "SupportPolicyExists", "NoAutoCreatedAccessKeys",
    "NoAdminAccess", "CloudtrailEnabledEverywhere", "CloudtrailLogFileValidationEnabled",
    "CloudtrailBucketIsPrivate", "CloudwatchLogsUpToDate", "ConfigEnabledInAllRegions",
    "CloudtrailBucketLoggingIsEnable", "CloudtrailEncryptedAtRestWithCMK",
    "CustomerKeysHaveRotationEnabled", "VPCsHaveFlowLogs", "AlertOnUnauthorizedAPICalls",
    "AlertOnNoMFAConsoleSignin", "AlertOnRootAccountUsage", "AlertOnIAMPolicyChanges",
    "AlertOnCloudTrailConfigurationChanges", "AlertOnFailedConsoleAuthentication",
    "AlertOnCMKDisablingOrScheduledDeletion", "AlertOnS3BucketPolicyChanges",
    "AlertOnConfigConfigurationChanges", "AlertOnSecurityGroupChanges",
    "AlertOnNetworkACLChanges", "AlertOnNetworkGatewayChanges", "AlertOnRouteTableChanges",
    "AlertOnVPCChanges", "NoSSHFromEverywhere", "NoRDPFromEverywhere",
    "DefaultSecurityGroupAllowsNothing", "ReviewPeeringConnections">>

Checks == {run[i] : i \in DOMAIN run}
Raises(check) == check = "CloudtrailBucketIsPrivate" /\ CannotExtract

\* Check.run passes when its query returns no row; Info.run only informs.
Verdict(check) == CASE check \in Infos -> "INFO"
                    [] check \notin Infos /\ Rows(check) = {} -> "PASS"
                    [] OTHER -> "FAIL"

Init ==
  /\ db = Initially
  /\ scope = NULL /\ step = 0 /\ report = [c \in Checks |-> NULL]
  /\ settled = TRUE /\ changes = 0

\* No --provider: the only account; a name: the only account with that name.
\* None, or more than one, is an error.
provider_for_spec(spec) == {p \in Provider : spec = NULL \/ NameOf[p] = spec}

\* A mutant of Start: the command prints after the output of the last one.
Reprint(spec) ==
  /\ step = 0
  /\ \E p \in Provider : /\ provider_for_spec(spec) = {p}
                         /\ scope' = p
  /\ step' = 1 /\ settled' = TRUE
  /\ UNCHANGED <<db, report, changes>>

Start(spec) ==
  /\ step = 0
  /\ \E p \in Provider : /\ provider_for_spec(spec) = {p}
                         /\ scope' = p
  /\ step' = 1 /\ settled' = TRUE /\ report' = [c \in Checks |-> NULL]
  /\ UNCHANGED <<db, changes>>

\* Each check is a statement of its own at READ COMMITTED: it sees what other
\* commands have committed by then.  After the last one the command ends.
RunCheck ==
  /\ step > 0 /\ ~Raises(run[step])
  /\ report' = [report EXCEPT ![run[step]] = Verdict(run[step])]
  /\ step' = IF step < Len(run) THEN step + 1 ELSE 0
  /\ UNCHANGED <<db, scope, settled, changes>>

\* The error of a query ends the command; the checks after it print nothing.
RaiseError ==
  /\ step > 0 /\ Raises(run[step])
  /\ step' = 0
  /\ UNCHANGED <<db, scope, report, settled, changes>>

\* refresh_views of an import commits the provider's rows of one table.
Refresh(p, t) ==
  /\ changes < MaxChanges
  /\ scope = NULL \/ (step > 0 /\ changes = 0)     \* bound: before the command, or one during it
  /\ \E rows \in Variants[p][t] :
       db' = [db EXCEPT ![t] = rows \cup {row \in db[t] : row.provider_account_id # p}]
  /\ settled' = FALSE /\ changes' = changes + 1
  /\ UNCHANGED <<scope, step, report>>

Next == \/ \E spec \in Specs : Start(spec)
        \/ RunCheck
        \/ RaiseError
        \/ \E p \in Provider, t \in Table : Refresh(p, t)

Spec == Init /\ [][Next]_vars
=================================================================================
