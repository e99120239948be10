--------------------------------- MODULE MCScope ----------------------------------
(***************************************************************************)
(* Scoped imports (-s): ecs clusters with services inside them (aws/ecs.py *)
(* passes the gate Cluster before the gate Service), an efs file system    *)
(* encrypted by a kms key, the account root of iam, and machine images: an *)
(* instance that runs a private image of the account, or a public one that *)
(* only the adjunct pass fetches, and images that are deregistered while   *)
(* an instance still runs them.                                            *)
(***************************************************************************)
EXTENDS MapImportProps

MCUri == {"root", "clu", "srv", "fs", "key", "vm", "own", "pub"}
MCName == {"RootAccount", "Cluster", "Service", "FileSystem", "Key",
           "Instance", "Instances", "Image", "Images"}
MCPublic == {"public1", "public2"}
MCPayload == {"d1", "d2", "runs-own", "runs-pub", "private"} \cup MCPublic
MCRootOf == [a \in Account |-> "root"]
MCServiceOf == [root |-> "iam", clu |-> "ecs", srv |-> "ecs", fs |-> "efs", key |-> "kms",
                vm |-> "ec2", own |-> "ec2", pub |-> "ec2"]
MCTypeOf == [root |-> "RootAccount", clu |-> "Cluster", srv |-> "Service",
             fs |-> "FileSystem", key |-> "Key", vm |-> "Instance", own |-> "Image", pub |-> "Image"]
MCGatesOf == [root |-> {}, clu |-> {"Cluster"}, srv |-> {"Cluster", "Service"},
              fs |-> {"FileSystem"}, key |-> {"Key"},
              vm |-> {"Instances"}, own |-> {"Images"}, pub |-> {"Images"}]
MCAttrs == [p \in MCPayload |-> [n \in {"Name"} |-> IF p \in {"d1"} \cup MCPublic THEN 1 ELSE 2]]
MCRel == {"belongs-to", "encrypted-by"}
MCYields == [u \in MCUri |-> [p \in MCPayload |->
               CASE u = "srv" /\ p \notin MCPublic -> {[rel |-> "belongs-to", val |-> "none"]}
                 [] u = "fs" /\ p \notin MCPublic -> {[rel |-> "encrypted-by", val |-> "none"]}
                 [] OTHER -> {}]]
MCParentOf == [r \in MCRel |-> IF r = "belongs-to" THEN "srv" ELSE "fs"]
MCTargetOf == [r \in MCRel |-> IF r = "belongs-to" THEN "clu" ELSE "key"]
MCImageOf == [p \in MCPayload |-> CASE p = "runs-own" -> "own"
                                    [] p = "runs-pub" -> "pub"
                                    [] OTHER -> None]

Snapshot(base) ==
  [base  |-> [a \in Account |-> base],
   extra |-> [a \in Account |-> [s \in {"credentialreport", "logspolicies"} |-> {}]]]
Full == [root |-> "d1", clu |-> "d1", srv |-> "d1", fs |-> "d1", key |-> "d1",
         vm |-> "runs-own", own |-> "private", pub |-> "public1"]
Images(vm, own, pub) == Snapshot([Full EXCEPT !.vm = vm, !.own = own, !.pub = pub])
MCClouds == {
  Snapshot(Full),
  Snapshot([Full EXCEPT !.root = "d2", !.srv = None, !.fs = "d2", !.key = None,
                        !.vm = "runs-pub", !.own = None, !.pub = "public2"]),
  Snapshot([Full EXCEPT !.clu = None, !.srv = None, !.fs = None, !.vm = None]),
  Images("runs-pub", "private", "public1"),
  Images("runs-pub", "private", None),
  Images("runs-own", None, "public2")}

\* -s <service>, and -s <service>=<types> where the types are gates too and
\* every gate on the way to a named type is named.
Only(s, names) == [x \in {s} |-> names]
MCSpecs == {NoSpec, Only("iam", {}), Only("ecs", {"Cluster"}),
            Only("ecs", {"Cluster", "Service"}), Only("efs", {"FileSystem"}),
            [s \in {"kms", "efs"} |-> IF s = "kms" THEN {"Key"} ELSE {}],
            Only("ec2", {"Images"}), Only("ec2", {"Instances"})}

\* -s ecs=Service, the form the help of -s gives for individual resources.
MCNestedSpecs == {NoSpec, Only("ecs", {"Service"})}

\* What the theorems about deletes, convergence and churn ask for.
ASSUME Specs = MCSpecs =>
         /\ NothingMissed /\ AccountsApart /\ LinksNearParent /\ ImagesSteady
         /\ ScopesAgree /\ PoliciesOfGroups /\ OneDocumentEach /\ LinksAgree
===================================================================================
