------------------------------- MODULE MCBenchmark -------------------------------
(***************************************************************************)
(* An account that follows every recommendation, next to another provider  *)
(* that follows none, and for each table what an import may find instead:  *)
(* each way the account can fall short, what only looks like a safeguard,  *)
(* and rows of the other provider that share uris with the account's.      *)
(***************************************************************************)
EXTENDS BenchmarkProps, TLC

CONSTANTS p1, p2

Alerts == {"UnauthorizedAPICalls", "NoMFAConsoleSignin", "RootAccountUsage", "IAMPolicyChanges", "CloudTrailConfigurationChanges", "FailedConsoleAuthentication", "CMKDisablingOrScheduledDeletion", "S3BucketPolicyChanges", "ConfigConfigurationChanges", "SecurityGroupChanges", "NetworkACLChanges", "NetworkGatewayChanges", "RouteTableChanges", "VPCChanges"}

MCNameOf == (p1 :> "o-1") @@ (p2 :> "o-2")

\* The rows of one table, with the provider they belong to.
At(p, rows) == {r @@ [provider_account_id |-> p] : r \in rows}
Good(rows) == At(p1, rows)

Root == [access_key_1_active |-> FALSE, access_key_2_active |-> FALSE,
         mfa_active |-> TRUE, has_virtual_mfa |-> FALSE]
Key(active, used, rotated) == [active |-> active, last_used |-> used, last_rotated |-> rotated]
User(id) == [_id |-> id, loginprofile |-> "set", mfadevices |-> 1, password_enabled |-> TRUE,
             passwordlastused |-> 90, password_last_changed |-> 200,
             access_key |-> {Key(TRUE, 90, 90)}, accesskeys |-> {[delta |-> 2, status |-> "Active"]}]
Password == [account |-> "acct", requireuppercase |-> TRUE, requirelowercase |-> TRUE,
             requiresymbols |-> TRUE, requirenumbers |-> TRUE, minimumpasswordlength |-> 14,
             passwordreuseprevention |-> 24, maxpasswordage |-> 90]
Policy(id, uri) == [_id |-> id, uri |-> uri, defaultversionid |-> "v2"]
Statement(effect, action, resource) == [effect |-> effect, action |-> action, resource |-> resource]
Version(uri, v, statements) == [uri |-> <<uri, v>>, statements |-> statements]
Admin == Statement("Allow", {"*"}, {"*"})
Mng(p, e) == [relation |-> "manages", resource_id |-> p, target_id |-> e]
Trail(g) == [_id |-> <<"trail", g>>, ismultiregiontrail |-> TRUE, islogging |-> TRUE,
             logfilevalidationenabled |-> TRUE, _s3_bucket_id |-> "b1",
             cloudwatchlogsloggrouparn |-> g, latestdelivery |-> 1, kmskeyid |-> "k1",
             _logs_loggroup_id |-> g, eventselectors |-> {[management |-> TRUE, readwrite |-> "All"]}]
Bucket(id) == [_id |-> id, uri |-> id, grants |-> {"LogDelivery"},
               policy |-> {[effect |-> "Allow", principal |-> "service"],
                           [effect |-> "Deny", principal |-> "*"]},
               logging |-> "on"]
FlowLog(v) == [_vpc_id |-> v, flowlogstatus |-> "ACTIVE", traffictype |-> "ALL"]
Filter(p, g) == [_id |-> p, _loggroup_id |-> g, filterpattern |-> p]
Joined(f, m) == [metricfilter_id |-> f, metric_id |-> m]
Alarm(m) == [_metric_id |-> m, actionsenabled |-> TRUE]
Perm(from, to, ranges) == [fromport |-> from, toport |-> to, ipranges |-> ranges]
Anywhere == {"0.0.0.0/0"}
Route(gateway, state) == [gateway |-> gateway, state |-> state]
Group(name, perms) == [_id |-> name, groupname |-> name, _vpc_id |-> "v1", ippermissions |-> perms]

\* The account: one alarm per pattern, all on metrics of the trail's group.
Content ==
  [rootaccount |-> {Root}, user |-> {User("u1")}, account |-> {[id |-> "acct"]},
   passwordpolicy |-> {Password},
   policy |-> {Policy("s1", "AWSSupportAccess"), Policy("q1", "own")},
   userpolicy |-> {}, group |-> {[_id |-> "g1"]}, role |-> {[_id |-> "r1"]},
   policyversion |-> {Version("own", "v1", {Admin}), Version("own", "v2", {Statement("Allow", {"*"}, {"b1"})}),
                      Version("AWSSupportAccess", "v2", {Statement("Allow", {"read"}, {"*"})})},
   resource_relation |-> {Mng("s1", "r1"), Mng("q1", "g1")},
   trail |-> {Trail("lg1")}, bucket |-> {Bucket("b1")},
   recorder |-> {[allsupported |-> TRUE, includeglobal |-> TRUE]},
   key |-> {[keyrotationenabled |-> TRUE]},
   vpc |-> {[_id |-> "v1"]}, flowlog |-> {FlowLog("v1")},
   loggroup |-> {[_id |-> "lg1"], [_id |-> "lg2"]},
   metricfilter |-> {Filter(p, "lg1") : p \in Alerts},
   filter2metric |-> {Joined(p, p) : p \in Alerts},
   metric |-> {[_id |-> p] : p \in Alerts} \cup {[_id |-> "other"]},
   metricalarm |-> {Alarm(p) : p \in Alerts},
   securitygroup |-> {Group("default", {Perm(NULL, NULL, {})}),
                      Group("web", {Perm(443, 443, Anywhere), Perm(22, 22, {"10.0.0.0/8"}),
                                    Perm(23, 3388, Anywhere)})},
   routetable |-> {[routes |-> {Route("local", "active"), Route(NULL, "active"),
                                Route("pcx", "blackhole")}]}]

MCInitially == [t \in Table |-> Good(Content[t])]

\* Rows of the other provider, next to the account's own.
Foreign(t) ==
  CASE t = "passwordpolicy" -> {[Password EXCEPT !.requireuppercase = FALSE]}
    [] t = "policy" -> {Policy("x1", "AWSSupportAccess")}
    [] t = "policyversion" -> {Version("own", "v2", {Admin})}
    [] t = "resource_relation" -> {Mng("q1", "u1")}
    [] t = "bucket" -> {[Bucket("b2") EXCEPT !.uri = "b1", !.grants = {"AllUsers"}]}
    [] t = "vpc" -> {[_id |-> "v9"]}
    [] t = "flowlog" -> {FlowLog(NULL)}
    [] t = "metricalarm" -> {Alarm("other")}
    [] OTHER -> {}

\* What an import of the account may leave in a table instead.
OwnVariants ==
  [rootaccount |-> {{[Root EXCEPT !.access_key_2_active = TRUE]}, {[Root EXCEPT !.mfa_active = FALSE]},
                    {[Root EXCEPT !.has_virtual_mfa = TRUE]},
                    {[x \in DOMAIN Root |-> IF x = "has_virtual_mfa" THEN FALSE ELSE NULL]}},
   user |-> {{u} : u \in
     {[User("u1") EXCEPT !.mfadevices = n] : n \in {0, NULL}} \cup
     {[User("u1") EXCEPT !.loginprofile = NULL, !.mfadevices = 0],
      [User("u1") EXCEPT !.passwordlastused = 91],
      [User("u1") EXCEPT !.passwordlastused = NULL], [User("u1") EXCEPT !.passwordlastused = NULL,
                                                                       !.password_last_changed = 90],
      [User("u1") EXCEPT !.access_key = {Key(TRUE, NULL, 90), Key(FALSE, NULL, NULL)}],
      [User("u1") EXCEPT !.access_key = {Key(TRUE, 91, 91), Key(FALSE, NULL, 300)}],
      [User("u1") EXCEPT !.access_key = {Key(FALSE, 300, 300)}],
      [User("u1") EXCEPT !.accesskeys = {[delta |-> 1, status |-> "Active"]}],
      [User("u1") EXCEPT !.accesskeys = {[delta |-> 1, status |-> "Inactive"]}]}},
   account |-> {},
   passwordpolicy |-> {{}} \cup {{p} : p \in
     {[Password EXCEPT ![c] = x] : c \in {"requireuppercase", "requirelowercase", "requiresymbols",
                                          "requirenumbers"}, x \in {FALSE, NULL}} \cup
     {[Password EXCEPT !.minimumpasswordlength = n] : n \in {13, NULL}} \cup
     {[Password EXCEPT !.passwordreuseprevention = n] : n \in {23, NULL}}},
   policy |-> {{Policy("q1", "own")}},
   userpolicy |-> {{[_id |-> "i1"]}}, group |-> {{}}, role |-> {{}},
   policyversion |-> {{Version("own", "v2", {Admin})}},
   resource_relation |-> {{Mng("s1", "g1")}, {Mng("s1", "u1")}, {Mng("s1", "r1"), Mng("q1", "u1")},
                          {Mng("s1", "r1"), Mng("i1", "u1")}, {}},
   trail |-> {{}, {Trail("lg1"), Trail("lg2")}} \cup {{t} : t \in
     {[Trail("lg1") EXCEPT !.ismultiregiontrail = FALSE], [Trail("lg1") EXCEPT !.islogging = FALSE],
      [Trail("lg1") EXCEPT !.logfilevalidationenabled = FALSE],
      [Trail("lg1") EXCEPT !.cloudwatchlogsloggrouparn = NULL, !._logs_loggroup_id = NULL],
      [Trail("lg1") EXCEPT !.latestdelivery = NULL], [Trail("lg1") EXCEPT !.latestdelivery = 2],
      [Trail("lg1") EXCEPT !.kmskeyid = NULL], [Trail("lg1") EXCEPT !._s3_bucket_id = NULL],
      [Trail("lg1") EXCEPT !.eventselectors = {[management |-> TRUE, readwrite |-> "ReadOnly"],
                                               [management |-> FALSE, readwrite |-> "All"]}]}},
   bucket |-> {{}} \cup {{b} : b \in
     {[Bucket("b1") EXCEPT !.grants = {"AllUsers"}], [Bucket("b1") EXCEPT !.logging = NULL],
      [Bucket("b1") EXCEPT !.policy = {[effect |-> "Allow", principal |-> "*"]}],
      [Bucket("b1") EXCEPT !.policy = NULL], [Bucket("b1") EXCEPT !.policy = Object]}},
   recorder |-> {{[allsupported |-> TRUE, includeglobal |-> FALSE], [allsupported |-> FALSE, includeglobal |-> TRUE]}},
   key |-> {{[keyrotationenabled |-> FALSE]}},
   vpc |-> {{[_id |-> "v1"], [_id |-> "v2"]}},
   flowlog |-> {{}, {FlowLog("v2")}, {FlowLog(NULL)}, {[FlowLog("v1") EXCEPT !.flowlogstatus = "FAILED"]},
                {[FlowLog("v1") EXCEPT !.traffictype = "ACCEPT"]}, {[FlowLog("v1") EXCEPT !.traffictype = "REJECT"]}},
   loggroup |-> {},
   metricfilter |-> {{Filter(p, "lg2") : p \in Alerts}},
   filter2metric |-> {{Joined(p, "other") : p \in Alerts}},
   metric |-> {},
   metricalarm |-> {{[Alarm(p) EXCEPT !.actionsenabled = FALSE] : p \in Alerts}} \cup
                   {{Alarm(p) : p \in Alerts \ {q}} : q \in Alerts},
   securitygroup |-> {{Group("default", {Perm(443, 443, Anywhere)})}} \cup
                     {{Group("web", {p})} : p \in
                        {Perm(NULL, NULL, Anywhere), Perm(22, 22, Anywhere), Perm(3389, 3389, Anywhere),
                         Perm(3390, 4000, Anywhere), Perm(0, 65535, Anywhere)}},
   routetable |-> {{}, {[routes |-> {Route("pcx", "active")}]}}]

MCVariants ==
  [p \in Provider |-> [t \in Table |->
     IF p = p1 THEN {Good(rows) : rows \in OwnVariants[t]} ELSE {At(p2, Foreign(t))}]]

\* What the theorem about FAIL asks for.
ASSUME KeysHold
===================================================================================
