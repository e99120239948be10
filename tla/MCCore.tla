---------------------------------- MODULE MCCore ----------------------------------
(***************************************************************************)
(* One account: its root, a policy and a user in iam (the user's document  *)
(* yields the relation "policy manages user"), a log group in logs, the    *)
(* credential report on the user and a resource policy on the log group.   *)
(* Four snapshots add, change and remove each of them, with partial rows   *)
(* whose target is missing.                                                *)
(***************************************************************************)
EXTENDS MapImportProps

MCUri == {"root", "pol", "usr", "grp"}
MCPayload == {"d1", "d2", "p1", "p2"}
MCName == {"RootAccount", "Policy", "User", "LogGroup"}
MCSpecs == {NoSpec}
MCRootOf == [a \in Account |-> "root"]
MCServiceOf == [u \in MCUri |-> IF u = "grp" THEN "logs" ELSE "iam"]
MCTypeOf == [root |-> "RootAccount", pol |-> "Policy", usr |-> "User", grp |-> "LogGroup"]
MCGatesOf == [root |-> {}, pol |-> {"Policy"}, usr |-> {"User"}, grp |-> {"LogGroup"}]

\* "Name" is always there, "Extra" comes and goes with the document.
MCAttrs == [p \in MCPayload |->
              [n \in {"Name", "Extra"} |->
                 CASE p \in {"d1", "p1"} -> IF n = "Name" THEN 1 ELSE None
                   [] OTHER -> IF n = "Name" THEN 2 ELSE 1]]
MCYields == [u \in MCUri |-> [p \in MCPayload |->
               CASE u = "usr" /\ p = "d1" -> {[rel |-> "manages", val |-> "v1"]}
                 [] u = "usr" /\ p = "d2" -> {[rel |-> "manages", val |-> "v2"]}
                 [] OTHER -> {}]]
MCParentOf == [manages |-> "pol"]
MCTargetOf == [manages |-> "usr"]
MCImageOf == [p \in MCPayload |-> None]

At(u, p) == {[uri |-> u, data |-> p]}
Snapshot(base, report, policies) ==
  [base  |-> [a \in Account |-> base],
   extra |-> [a \in Account |->
                [s \in {"credentialreport", "logspolicies"} |->
                   IF s = "credentialreport" THEN report ELSE policies]]]

MCClouds == {
  Snapshot([root |-> "d1", pol |-> "d1", usr |-> "d1", grp |-> "d1"],
           At("usr", "p1"), At("grp", "p1")),
  Snapshot([root |-> "d1", pol |-> "d1", usr |-> "d2", grp |-> None],
           At("usr", "p2"), At("grp", "p1")),
  Snapshot([root |-> "d2", pol |-> None, usr |-> "d2", grp |-> "d2"], {}, {}),
  Snapshot([root |-> "d1", pol |-> "d2", usr |-> None, grp |-> "d1"],
           At("usr", "p1"), At("grp", "p2"))}

\* Nothing changes in AWS, and two regions hold a resource policy that names
\* the same log group.
MCRegionalPolicies == {
  Snapshot([root |-> "d1", pol |-> "d1", usr |-> "d1", grp |-> "d1"],
           At("usr", "p1"), At("grp", "p1") \cup At("grp", "p2"))}

\* Nothing changes in AWS.
MCSteady == {
  Snapshot([root |-> "d1", pol |-> "d1", usr |-> "d1", grp |-> "d1"],
           At("usr", "p1"), At("grp", "p1"))}

\* What the theorems about convergence and churn ask for.
ASSUME AccountsApart /\ LinksNearParent /\ ImagesSteady /\ ScopesAgree /\ PoliciesOfGroups /\ LinksAgree
ASSUME Clouds = MCClouds => NothingMissed /\ OneDocumentEach
===================================================================================
