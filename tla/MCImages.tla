--------------------------------- MODULE MCImages ---------------------------------
(***************************************************************************)
(* Machine images: an instance that runs a private image of the account,   *)
(* or a public one that only the adjunct pass fetches, and images that are *)
(* deregistered while an instance still runs them.                         *)
(***************************************************************************)
EXTENDS MapImportProps

MCUri == {"root", "vm", "own", "pub"}
MCName == {"RootAccount", "Instance", "Instances", "Image", "Images"}
MCPayload == {"root1", "runs-own", "runs-pub", "private", "public1", "public2"}
MCPublic == {"public1", "public2"}
MCRootOf == [a \in Account |-> "root"]
MCServiceOf == [u \in MCUri |-> IF u = "root" THEN "iam" ELSE "ec2"]
MCTypeOf == [root |-> "RootAccount", vm |-> "Instance", own |-> "Image", pub |-> "Image"]
MCGatesOf == [root |-> {}, vm |-> {"Instances"}, own |-> {"Images"}, pub |-> {"Images"}]
MCAttrs == [p \in MCPayload |-> [n \in {"Public"} |-> IF p \in MCPublic THEN 1 ELSE 2]]
MCYields == [u \in MCUri |-> [p \in MCPayload |-> {}]]
MCParentOf == [r \in {} |-> "vm"]
MCTargetOf == MCParentOf
MCImageOf == [p \in MCPayload |-> CASE p = "runs-own" -> "own"
                                    [] p = "runs-pub" -> "pub"
                                    [] OTHER -> None]

Snapshot(vm, own, pub) ==
  [base  |-> [a \in Account |-> [root |-> "root1", vm |-> vm, own |-> own, pub |-> pub]],
   extra |-> [a \in Account |-> [s \in {"credentialreport", "logspolicies"} |-> {}]]]

MCClouds == {Snapshot("runs-own", "private", "public1"),
             Snapshot("runs-pub", "private", "public1"),
             Snapshot("runs-pub", None, "public2"),
             Snapshot("runs-pub", "private", None),
             Snapshot("runs-own", None, "public2"),
             Snapshot(None, "private", "public1")}

MCSpecs == {NoSpec, [s \in {"ec2"} |-> {"Images"}], [s \in {"ec2"} |-> {"Instances"}],
            [s \in {"ec2"} |-> {}]}

MCFull == {NoSpec}

\* -s ec2=Images, as in the example that the help of -s gives.
MCHelpSpecs == {NoSpec, [s \in {"ec2"} |-> {"Images"}]}

\* The owner makes the image its instance runs public.
MCPublishedImage == {Snapshot("runs-own", "private", "public1"),
                     Snapshot("runs-own", "public1", "public1")}

\* The instance and the public image it ran are gone together.
MCRetiredImage == {Snapshot("runs-pub", "private", "public1"),
                   Snapshot(None, "private", None)}
===================================================================================
