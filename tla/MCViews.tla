--------------------------------- MODULE MCViews ---------------------------------
(***************************************************************************)
(* An instance, its security group and the public image that it runs, and  *)
(* a log group with resource policies.  Every mapping asks AWS for the     *)
(* image and the policies.                                                 *)
(***************************************************************************)
EXTENDS ViewsProps, TLC

CONSTANTS c1, c2
Symmetry == Permutations(Command)

MCResource == {"group", "image", "firewall", "instance"}
MCTypeOf == [r \in MCResource |-> IF r = "firewall" THEN "securitygroup" ELSE r]
MCType == {MCTypeOf[r] : r \in MCResource}
MCNumber == [t \in MCType |-> CASE t = "group" -> 18 [] t = "image" -> 26
                                [] t = "securitygroup" -> 28 [] t = "instance" -> 30]
MCColumn == {[of |-> "instance", to |-> "image", rel |-> "imaged", counted |-> FALSE]}
MCJoinTable == {[of |-> "instance", to |-> "securitygroup", rel |-> "in"]}

Docs(present, d) == [r \in MCResource |-> IF r \in present THEN d ELSE NULL]
I(r, target) == [rel |-> r, from |-> "instance", to |-> target]

\* An instance behind its firewall; in front of it, with a log group.
MCWorld ==
  {[doc |-> Docs({"firewall", "instance"}, "d1"), part |-> NoDocuments,
    rel |-> {I("imaged", "image"), I("in", "firewall")}],
   [doc |-> Docs({"firewall", "instance", "group"}, "d1"), part |-> NoDocuments,
    rel |-> {I("imaged", "image")}]}

\* The image and a policy, or refused both.
MCAnswer == {[doc |-> NoDocuments, part |-> NoDocuments],
             [doc |-> Docs({"image"}, "d1"), part |-> Docs({"group"}, "d1")]}

\* What the theorem about failing refreshes asks for.
ASSUME OneTargetFetched
=================================================================================
