----------------------------- MODULE BenchmarkProps ------------------------------
(***************************************************************************)
(* What the AWS Foundation benchmark promises about an account: each check *)
(* against the recommendation that its failure message states.             *)
(***************************************************************************)
EXTENDS Benchmark

Own(t) == {row \in db[t] : row.provider_account_id = scope}

\* The variables keep to the provider tables and the statuses of Status.
TypeOK ==
  /\ DOMAIN db = Table
  /\ \A t \in Table : \A row \in db[t] : row.provider_account_id \in Provider
  /\ scope \in Provider \cup {NULL}
  /\ step \in 0 .. Len(run) /\ (step > 0 => scope # NULL)
  /\ \A i \in DOMAIN run : step > 0 => (report[run[i]] = NULL <=> i >= step)
  /\ \A c \in Checks : report[c] \in {"PASS", "FAIL", "INFO", NULL}
  /\ settled \in BOOLEAN /\ changes \in 0 .. MaxChanges
---------------------------------------------------------------------------------
(***************************************************************************)
(* The recommendations.                                                    *)
(***************************************************************************)
Within(age, days) == age # NULL /\ age <= days
Manages(p, e) == \E r \in Own("resource_relation") :
                   r.relation = "manages" /\ r.resource_id = p._id /\ r.target_id = e._id
Principals == Own("user") \cup Own("group") \cup Own("role")

\* The account's own password policy, where it has one.
PolicyOf(a) == {p \in Own("passwordpolicy") : p.account = a.id}
EveryPolicy(column, good) ==
  \A a \in Own("account") : PolicyOf(a) # {} /\ \A p \in PolicyOf(a) : p[column] \in good

BucketOf(t) == {b \in Own("bucket") : b._id = t._s3_bucket_id}
Public(b) == \/ b.grants \cap {"AuthenticatedUsers", "AllUsers"} # {}
             \/ b.policy # NULL /\ [effect |-> "Allow", principal |-> "*"] \in b.policy

\* Anyone may reach the port through the security group.
Reachable(g, port) ==
  \E p \in g.ippermissions :
    /\ "0.0.0.0/0" \in p.ipranges
    /\ p.fromport = NULL \/ p.fromport <= port
    /\ p.toport = NULL \/ port <= p.toport

\* Every management event of every region reaches, through one log group and
\* one metric, an alarm that is switched on.
RecordsAll(t) ==
  /\ t.ismultiregiontrail = TRUE /\ t.islogging = TRUE
  /\ [management |-> TRUE, readwrite |-> "All"] \in t.eventselectors
Watched(pattern) ==
  \E t \in Own("trail") : RecordsAll(t) /\
    \E f \in Own("metricfilter") :
      /\ f._loggroup_id = t._logs_loggroup_id /\ f.filterpattern = pattern
      /\ \E a \in Own("metricalarm") :
           /\ a.actionsenabled = TRUE
           /\ \E j \in Own("filter2metric") : /\ j.metricfilter_id = f._id
                                             /\ j.metric_id = a._metric_id

LoggedBy(v) == {f \in Own("flowlog") : f._vpc_id = v._id /\ f.flowlogstatus = "ACTIVE"
                                       /\ f.traffictype # "ACCEPT"}
EveryVpcLogged == \A v \in Own("vpc") : LoggedBy(v) # {}

\* What is asked of the account; the informational checks ask for nothing.
Met(check) ==
  CASE check = "MFAForConsoleUser" ->
         \A u \in Own("user") : u.loginprofile # NULL => u.mfadevices > 0
    [] check = "RotatePasswordsAfter90Days" ->
         \A u \in Own("user") :
           /\ u.password_enabled = TRUE =>
                \/ Within(u.passwordlastused, 90)
                \/ u.passwordlastused = NULL /\ Within(u.password_last_changed, 90)
           /\ \A k \in u.access_key : k.active = TRUE => Within(k.last_used, 90)
    [] check = "RotateAccessKeysAfter90Days" ->
         \A u \in Own("user") : \A k \in u.access_key : k.active = TRUE => Within(k.last_rotated, 90)
    [] check = "RequireUpperCaseInPassword" -> EveryPolicy("requireuppercase", {TRUE})
    [] check = "RequireLowerCaseInPassword" -> EveryPolicy("requirelowercase", {TRUE})
    [] check = "RequireSymbolInPassword" -> EveryPolicy("requiresymbols", {TRUE})
    [] check = "RequireNumberInPassword" -> EveryPolicy("requirenumbers", {TRUE})
    [] check = "RequireMinimumLengthPasssword" ->
         EveryPolicy("minimumpasswordlength", Nat \ (0 .. 13))
    [] check = "RequireNewPassswords" ->
         EveryPolicy("passwordreuseprevention", Nat \ (0 .. 23))
    [] check = "RequireMaximumAgePassswords" -> EveryPolicy("maxpasswordage", 0 .. 90)
    [] check = "NoRootAccessKeys" ->
         \A r \in Own("rootaccount") : r.access_key_1_active = FALSE /\ r.access_key_2_active = FALSE
    [] check = "RootAccountHasMFA" -> \A r \in Own("rootaccount") : r.mfa_active = TRUE
    [] check = "RootAccountHasHardwareMFA" ->
         \A r \in Own("rootaccount") : r.mfa_active = TRUE => r.has_virtual_mfa = FALSE
    [] check = "NoPoliciesAttachedToUsers" ->
         \A u \in Own("user"), p \in Own("policy") \cup Own("userpolicy") : ~Manages(p, u)
    [] check = "SupportPolicyExists" ->
         \E p \in Own("policy"), e \in Principals : p.uri = "AWSSupportAccess" /\ Manages(p, e)
    [] check = "NoAutoCreatedAccessKeys" ->
         \A u \in Own("user") : \A k \in u.accesskeys :
           u.loginprofile # NULL /\ k.status = "Active" => k.delta >= 2
    [] check = "NoAdminAccess" ->
         \A p \in Own("policy"), v \in Own("policyversion") :
           v.uri = <<p.uri, p.defaultversionid>> =>
             \A s \in v.statements : "*" \in s.action \cap s.resource => s.effect # "Allow"
    [] check = "CloudtrailEnabledEverywhere" -> \E t \in Own("trail") : t.ismultiregiontrail = TRUE
    [] check = "CloudtrailLogFileValidationEnabled" ->
         \A t \in Own("trail") : t.logfilevalidationenabled = TRUE
    [] check = "CloudtrailBucketIsPrivate" ->
         \A t \in Own("trail") : \A b \in BucketOf(t) : ~Public(b)
    [] check = "CloudwatchLogsUpToDate" ->
         \A t \in Own("trail") : t.cloudwatchlogsloggrouparn # NULL /\ Within(t.latestdelivery, 1)
    [] check = "ConfigEnabledInAllRegions" ->
         \E r \in Own("recorder") : r.allsupported = TRUE /\ r.includeglobal = TRUE
    [] check = "CloudtrailBucketLoggingIsEnable" ->
         \A t \in Own("trail") : \A b \in BucketOf(t) : b.logging # NULL
    [] check = "CloudtrailEncryptedAtRestWithCMK" -> \A t \in Own("trail") : t.kmskeyid # NULL
    [] check = "CustomerKeysHaveRotationEnabled" ->
         \A k \in Own("key") : k.keyrotationenabled = TRUE
    [] check = "VPCsHaveFlowLogs" -> EveryVpcLogged
    [] check = "AlertOnUnauthorizedAPICalls" -> Watched("UnauthorizedAPICalls")
    [] check = "AlertOnNoMFAConsoleSignin" -> Watched("NoMFAConsoleSignin")
    [] check = "AlertOnRootAccountUsage" -> Watched("RootAccountUsage")
    [] check = "AlertOnIAMPolicyChanges" -> Watched("IAMPolicyChanges")
    [] check = "AlertOnCloudTrailConfigurationChanges" -> Watched("CloudTrailConfigurationChanges")
    [] check = "AlertOnFailedConsoleAuthentication" -> Watched("FailedConsoleAuthentication")
    [] check = "AlertOnCMKDisablingOrScheduledDeletion" -> Watched("CMKDisablingOrScheduledDeletion")
    [] check = "AlertOnS3BucketPolicyChanges" -> Watched("S3BucketPolicyChanges")
    [] check = "AlertOnConfigConfigurationChanges" -> Watched("ConfigConfigurationChanges")
    [] check = "AlertOnSecurityGroupChanges" -> Watched("SecurityGroupChanges")
    [] check = "AlertOnNetworkACLChanges" -> Watched("NetworkACLChanges")
    [] check = "AlertOnNetworkGatewayChanges" -> Watched("NetworkGatewayChanges")
    [] check = "AlertOnRouteTableChanges" -> Watched("RouteTableChanges")
    [] check = "AlertOnVPCChanges" -> Watched("VPCChanges")
    [] check = "NoSSHFromEverywhere" -> \A g \in Own("securitygroup") : ~Reachable(g, 22)
    [] check = "NoRDPFromEverywhere" -> \A g \in Own("securitygroup") : ~Reachable(g, 3389)
    [] check = "DefaultSecurityGroupAllowsNothing" ->
         \A v \in Own("vpc"), g \in Own("securitygroup") :
           g._vpc_id = v._id /\ g.groupname = "default" => \A p \in g.ippermissions : p.ipranges = {}
    [] OTHER -> TRUE
---------------------------------------------------------------------------------
\* The report of a command that no refresh disturbed.
Reported(check) == settled /\ report[check] # NULL

\* Where a column is NULL, because the import was refused the call behind it
\* or the resource has no such thing, these checks print PASS on no evidence.
\* A flow log of a subnet is one without a VPC.
Evidence(check) ==
  CASE check = "MFAForConsoleUser" -> \A u \in Own("user") : u.mfadevices # NULL
    [] check = "RotatePasswordsAfter90Days" ->
         \A u \in Own("user") : {u.passwordlastused, u.password_last_changed} # {NULL}
    [] check = "RotateAccessKeysAfter90Days" ->
         \A u \in Own("user") : \A k \in u.access_key : k.last_rotated # NULL
    [] check = "NoRootAccessKeys" ->
         \A r \in Own("rootaccount") : NULL \notin {r.access_key_1_active, r.access_key_2_active}
    [] check = "RootAccountHasMFA" -> \A r \in Own("rootaccount") : r.mfa_active # NULL
    [] check = "RootAccountHasHardwareMFA" ->
         \A r \in Own("rootaccount") : r.mfa_active = TRUE => r.has_virtual_mfa # NULL
    [] check = "CloudtrailLogFileValidationEnabled" ->
         \A t \in Own("trail") : t.logfilevalidationenabled # NULL
    [] check = "CustomerKeysHaveRotationEnabled" ->
         \A k \in Own("key") : k.keyrotationenabled # NULL
    [] check = "VPCsHaveFlowLogs" -> \A f \in Own("flowlog") : f._vpc_id # NULL
    [] OTHER -> TRUE

\* RequireMaximumAgePassswords fails the policies that change passwords more
\* often than every 90 days and passes those that change them less often, so
\* it is left out.
Reliable(check) == check # "RequireMaximumAgePassswords" /\ Evidence(check)

\* Check.run prints PASS only for an account that follows the recommendation.
\* The account is judged by its own rows, although many queries join tables
\* without a condition on the provider.
PassIsEarned ==
  step = 0 => \A c \in Checks : Reported(c) /\ report[c] = "PASS" /\ Reliable(c) => Met(c)

\* Check.run prints FAIL only for an account that does not follow it.
FailIsReal ==
  step = 0 => \A c \in Checks : Reported(c) /\ report[c] = "FAIL" /\ Reliable(c) => ~Met(c)

\* tools/cis/aws_foundation.py:1089, "VPC ... has no flow log": a report that
\* says nothing of the kind is about an account whose VPCs all have one.
EveryVpcHasAFlowLog ==
  step = 0 /\ Reported("VPCsHaveFlowLogs") /\ report["VPCsHaveFlowLogs"] = "PASS" => EveryVpcLogged

\* What a provider may have of its own in a table.
OwnRows(p, t) == {row \in db[t] : row.provider_account_id = p}
Contents(p, t) == Variants[p][t] \cup {{row \in Initially[t] : row.provider_account_id = p}}

\* Bucket names are unique, and wherever the log group of a metric filter and the
\* metric that it counts in are listed, they are listed by every import.
KeysHold ==
  \A p \in Provider :
    /\ \A rows \in Contents(p, "bucket") : \A b, c \in rows : b.uri = c.uri => b = c
    /\ \A fs \in Contents(p, "metricfilter"), gs \in Contents(p, "loggroup") :
         \A f \in fs : \E g \in gs : g._id = f._loggroup_id
    /\ \A js \in Contents(p, "filter2metric"), ms \in Contents(p, "metric") :
         \A j \in js : \E m \in ms : m._id = j.metric_id
=================================================================================
