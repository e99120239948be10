--------------------------------- MODULE MCRemap ---------------------------------
(***************************************************************************)
(* What a mapping asks AWS for beside what was fetched: the public image   *)
(* that an instance runs, and the policies of a log group.  The user has   *)
(* rows of the credential report; the instance is in the accounts of the   *)
(* organization.                                                           *)
(***************************************************************************)
EXTENDS ViewsProps, TLC

CONSTANT c1

MCResource == {"acc1", "acc2", "group", "image", "instance", "user"}
MCTypeOf == [r \in MCResource |-> IF r \in {"acc1", "acc2"} THEN "account" ELSE r]
MCType == {MCTypeOf[r] : r \in MCResource}
MCNumber == [t \in MCType |-> CASE t = "account" -> 3 [] t = "group" -> 18 [] t = "image" -> 26
                                [] t = "instance" -> 30 [] t = "user" -> 55]
MCColumn == {[of |-> "instance", to |-> "image", rel |-> "imaged", counted |-> FALSE],
             [of |-> "instance", to |-> "account", rel |-> "in", counted |-> TRUE]}

Docs(present, d) == [r \in MCResource |-> IF r \in present THEN d ELSE NULL]
I(r, target) == [rel |-> r, from |-> "instance", to |-> target]

\* An instance of an account; of two, another way; none.
MCWorld ==
  {[doc |-> Docs({"acc1", "group", "instance", "user"}, "d1"), part |-> Docs({"user"}, "d1"),
    rel |-> {I("imaged", "image"), I("in", "acc1")}],
   [doc |-> Docs({"acc1", "acc2", "group", "instance", "user"}, "d2"), part |-> Docs({"user"}, "d2"),
    rel |-> {I("imaged", "image"), I("in", "acc1"), I("in", "acc2")}],
   [doc |-> Docs({"acc1", "acc2"}, "d1"), part |-> NoDocuments, rel |-> {}]}

\* The image and the policy in two ways, or refused both.
MCAnswer == {[doc |-> [NoDocuments EXCEPT !["image"] = d], part |-> [NoDocuments EXCEPT !["group"] = d]] :
               d \in Doc \cup {NULL}}
=================================================================================
