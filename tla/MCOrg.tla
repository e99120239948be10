---------------------------------- MODULE MCOrg -----------------------------------
(***************************************************************************)
(* Two accounts of one provider_account row, imported by jobs of their     *)
(* own.  Both list the policy that AWS manages, when some user has it      *)
(* attached; the document of a user yields "policy manages user".          *)
(***************************************************************************)
EXTENDS MapImportProps

CONSTANTS a1, a2

MCUri == {"root1", "root2", "pol", "usr1", "usr2"}
MCName == {"RootAccount", "Policy", "User"}
MCPayload == {"plain", "attached"}
MCRootOf == [a \in {a1, a2} |-> IF a = a1 THEN "root1" ELSE "root2"]
MCServiceOf == [u \in MCUri |-> "iam"]
MCTypeOf == [u \in MCUri |-> CASE u = "pol" -> "Policy"
                               [] u \in {"usr1", "usr2"} -> "User"
                               [] OTHER -> "RootAccount"]
MCGatesOf == [u \in MCUri |-> CASE u = "pol" -> {"policy"}
                                [] u \in {"usr1", "usr2"} -> {"user"}
                                [] OTHER -> {}]
MCNames == MCName \cup {"policy", "user", "CredentialReport"}
MCAttrs == [p \in MCPayload |-> [n \in {"Name"} |-> IF p = "plain" THEN 1 ELSE 2]]
MCRel == {"manages1", "manages2"}
MCYields == [u \in MCUri |-> [p \in MCPayload |->
               CASE p = "attached" /\ u = "usr1" -> {[rel |-> "manages1", val |-> "none"]}
                 [] p = "attached" /\ u = "usr2" -> {[rel |-> "manages2", val |-> "none"]}
                 [] OTHER -> {}]]
MCParentOf == [r \in MCRel |-> "pol"]
MCTargetOf == [r \in MCRel |-> IF r = "manages1" THEN "usr1" ELSE "usr2"]
MCImageOf == [p \in MCPayload |-> None]

Listed(attached) == IF attached THEN "plain" ELSE None
Snapshot(on1, on2) ==
  [base  |-> [a \in {a1, a2} |-> [u \in MCUri |->
                CASE u = "pol" -> Listed(IF a = a1 THEN on1 ELSE on2)
                  [] u = "usr1" /\ a = a1 -> IF on1 THEN "attached" ELSE "plain"
                  [] u = "usr2" /\ a = a2 -> IF on2 THEN "attached" ELSE "plain"
                  [] u = MCRootOf[a] -> "plain"
                  [] OTHER -> None]],
   extra |-> [a \in {a1, a2} |-> [s \in {"credentialreport", "logspolicies"} |->
                IF s = "logspolicies" THEN {}
                ELSE {[uri |-> IF a = a1 THEN "usr1" ELSE "usr2", data |-> "plain"]}]]]

MCClouds == {Snapshot(on1, on2) : on1 \in BOOLEAN, on2 \in BOOLEAN}
\* Both accounts keep the policy attached, nothing changes in AWS.
MCSteadyClouds == {Snapshot(TRUE, TRUE)}
MCSpecs == {NoSpec}

\* What the theorem about churn asks for.
ASSUME OneDocumentEach /\ LinksAgree
===================================================================================
