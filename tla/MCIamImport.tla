------------------------------ MODULE MCIamImport --------------------------------
(***************************************************************************)
(* Instances of IamImport: one resource of each kind; two names, one of    *)
(* them with two documents.                                                *)
(***************************************************************************)
EXTENDS IamImportProps

CONSTANTS a1, a2, b

MCNameOf == [x \in Item |-> IF x = b THEN "b" ELSE "a"]
MCInitially == {a1, b}

MCEntity == {"ann", "staff", "readers", "deploy", "host", "password"}
MCKindOf == [e \in MCEntity |->
  CASE e = "ann" -> "user" [] e = "staff" -> "group" [] e = "readers" -> "policy"
    [] e = "deploy" -> "role" [] e = "host" -> "instance_profile" [] e = "password" -> "PasswordPolicy"]

MCUserAttrs == <<"AccessKeys">>

MCSelections == {{"user"}, {"group", "instance_profile"}, {"policy"}, {"role"},
                 {"CredentialReport", "instance_profile", "PasswordPolicy"}}

\* None of the calls; then one of each way in which a function takes a refusal.
MCRefusals == {{}} \cup
  {{o} : o \in {Op("CredentialReport", "report", "generate"), Op("CredentialReport", "report", "get"),
                Op("user", "", "list"), Op("user", "AccessKeys", "list"), Op("user", "PolicyList", "list"),
                Op("user", "LoginProfile", "get"), Op("group", "AttachedPolicies", "list"),
                Op("policy", "Versions", "get"), Op("role", "Role", "get"),
                Op("role", "AttachedPolicies", "list"), Op("PasswordPolicy", "", "get")}}

\* For MCMixedPolicies: the users alone, and nothing refused.
MCUsersOnly == {{"user"}}
MCNoRefusals == {{}}
=================================================================================
