------------------------------- MODULE IamImport --------------------------------
(***************************************************************************)
(* The fetch of one service, iam, whose import functions all run at once,  *)
(* each in a process of the pool, while AWS changes, throttles, refuses    *)
(* and fails.  MapImport takes what a service fetched as one step; here    *)
(* each call of a client proxy is one.                                     *)
(*                                                                         *)
(* A function lists its resources, makes the calls of each, and writes a   *)
(* row for it; its rows are committed together when it has written the     *)
(* last.  The two listings of policies (the account's, and those of AWS    *)
(* that are attached) are one, the pages of a listing are one answer, and  *)
(* its order is any.                                                       *)
(***************************************************************************)
EXTENDS Integers, Sequences, FiniteSets

CONSTANTS
  Entity, KindOf, \* what is listed, and by which function
  Item, NameOf,   \* inline policies, attachments, keys, versions, tags, ...:
                  \* what is under a name, another item when it is rewritten
  Initially,      \* the items of every facet when the fetch begins
  UserAttrs,      \* the names of _USER_ATTRS
  Selections,     \* what the gates may let through: sets of functions
  Refusals,       \* what the credentials may lack: sets of calls
  Slots,          \* processes of the pool
  NULL,
  MaxDrifts       \* bound: changes of AWS while the fetch runs

(***************************************************************************)
(* The calls for one resource, in the order of the code.  Which: list or   *)
(* get; how the function takes a missing answer (None) or a refused one:   *)
(* "index" looks the key up in the record, "default" asks for it, "each"   *)
(* asks for names and gets them one by one, "optional" stores a missing    *)
(* answer and "whole" looks into it.                                       *)
(***************************************************************************)
Call(facet, which, how) == [facet |-> facet, which |-> which, how |-> how]
Index(facet) == Call(facet, "list", "index")
PolicyList == Call("PolicyList", "list", "each")

Calls == [
  user             |-> [i \in DOMAIN UserAttrs |-> Index(UserAttrs[i])]
                         \o <<PolicyList, Call("LoginProfile", "get", "optional")>>,
  group            |-> <<Index("AttachedPolicies"), PolicyList>>,
  policy           |-> <<Call("Versions", "list", "each"), Index("Entities")>>,
  role             |-> <<Call("Role", "get", "whole"), Call("AttachedPolicies", "list", "default"),
                         Call("Tags", "list", "default"), PolicyList>>,
  instance_profile |-> <<>>,
  PasswordPolicy   |-> <<>>]

Kind == DOMAIN Calls

\* The functions of iam.SVC, in the order in which they are submitted.
SVC == <<"CredentialReport", "user", "group", "policy", "role", "instance_profile", "PasswordPolicy">>
Function == {SVC[i] : i \in DOMAIN SVC}

CallsOf(e) == {Calls[KindOf[e]][i] : i \in DOMAIN Calls[KindOf[e]]}
FacetsOf(e) == {c.facet : c \in CallsOf(e)}

\* What a facet may hold: one item under a name.
Listing == {v \in SUBSET Item : \A x, y \in v : NameOf[x] = NameOf[y] => x = y}
Names(v) == {NameOf[x] : x \in v}
Facets == [e \in Entity |-> [FacetsOf(e) -> Listing]]

\* The name of a call: the list or get of a facet, or of the function itself.
Op(k, facet, which) == <<k, facet, which>>

ASSUME IamAssumption ==
  /\ KindOf \in [Entity -> Kind] /\ (\A v \in SUBSET Item : v # NULL) /\ NULL \notin Entity
  /\ \A e \in Entity : \A v \in Facets[e] : v # NULL
  /\ Initially \in Listing \ {{}} /\ DOMAIN NameOf = Item /\ (\A v \in SUBSET Names(Item) : v # NULL)
  /\ UserAttrs \in Seq(STRING)
  /\ \A k \in Kind : \A i, j \in DOMAIN Calls[k] : Calls[k][i].facet = Calls[k][j].facet => i = j
  /\ Selections \subseteq SUBSET Function /\ Slots \in Nat \ {0} /\ MaxDrifts \in Nat

VARIABLES
  aws,      \* what AWS holds: [facet -> items] of each entity, NULL when deleted
  held,     \* what it held since the fetch began, of each facet
  drifts,   \* the changes so far
  report,   \* the credential report of AWS: "none", "running" or "ready", and its users
  refused,  \* the calls that the credentials may not make
  worker,   \* the workers of the functions that the gates let through
  job       \* "fetching", "mapping" or "failed"

vars == <<aws, held, drifts, report, refused, worker, job>>
cloud == <<aws, held, drifts>>

\* st: "queued", "running", "committed" or "raised"; listed: its resources are in
\* todo; of: the resource whose calls it makes, the next one is at; row: what they
\* brought; names: what is left to get one by one, and got; retried: the call is
\* the second one; out: the rows written; tries, polls: generating the report, or
\* polling for it.
Queued == [st |-> "queued", listed |-> FALSE, todo |-> {}, of |-> NULL, at |-> 0, row |-> <<>>,
           names |-> NULL, got |-> {}, retried |-> FALSE, out |-> {}, tries |-> 0, polls |-> -1]
Raised == [Queued EXCEPT !.st = "raised"]

Running(k) == k \in DOMAIN worker /\ worker[k].st = "running"
Becomes(k, w) == worker' = [worker EXCEPT ![k] = w] /\ UNCHANGED <<cloud, report, refused, job>>

Users == {e \in Entity : KindOf[e] = "user" /\ aws[e] # NULL}

Init ==
  /\ aws = [e \in Entity |-> [f \in FacetsOf(e) |-> Initially]]
  /\ held = [e \in Entity |-> [f \in FacetsOf(e) |-> {Initially}]]
  /\ drifts = 0
  /\ report \in [is : {"none", "running", "ready"}, users : {{e \in Entity : KindOf[e] = "user"}}]
  /\ refused \in Refusals
  /\ \E selected \in Selections : worker = [k \in selected |-> Queued]
  /\ \A op \in refused : op[1] \in DOMAIN worker
  /\ "CredentialReport" \notin DOMAIN worker => report.is = "none"
  /\ job = "fetching"
---------------------------------------------------------------------------------
(***************************************************************************)
(* ServiceProxy.list and get: an answer is a value, None, or a record of   *)
(* an error, which only list gives.                                        *)
(***************************************************************************)
None == [is |-> "none", value |-> {}]
ErrorRecord == [is |-> "record", value |-> {}]
Result(v) == [is |-> "result", value |-> v]

list(op, present, v) ==
  IF op \in refused THEN ErrorRecord ELSE IF present THEN Result(v) ELSE None

get(op, present, v) ==
  IF op \in refused \/ ~present THEN None ELSE Result(v)

(***************************************************************************)
(* One import function.                                                    *)
(***************************************************************************)
Start(k) ==
  /\ k \in DOMAIN worker /\ worker[k].st = "queued"
  /\ Cardinality({j \in DOMAIN worker : worker[j].st = "running"}) < Slots
  /\ \A i, j \in DOMAIN SVC :
       SVC[j] = k /\ i < j /\ SVC[i] \in DOMAIN worker => worker[SVC[i]].st # "queued"
  /\ Becomes(k, [worker[k] EXCEPT !.st = "running"])

\* An error record has none of the keys that the functions look up: KeyError, or
\* for groups a TypeError.  The password policy is got, and may be missing.
ListAll(k) ==
  LET present == {e \in Entity : KindOf[e] = k /\ aws[e] # NULL}
      answer == IF k = "PasswordPolicy"
                THEN get(Op(k, "", "get"), present # {}, present)
                ELSE list(Op(k, "", "list"), TRUE, present)
  IN /\ Running(k) /\ k # "CredentialReport" /\ ~worker[k].listed
     /\ Becomes(k, IF answer.is = "record" THEN Raised
                   ELSE [worker[k] EXCEPT !.listed = TRUE, !.todo = answer.value, !.retried = FALSE])

NextRow(k) ==
  /\ Running(k) /\ worker[k].listed /\ worker[k].of = NULL
  /\ \E e \in worker[k].todo :
       Becomes(k, [worker[k] EXCEPT !.todo = @ \ {e}, !.of = e, !.at = 1,
                                    !.row = [f \in FacetsOf(e) |-> NULL]])

Holds(e, facet) == IF aws[e] = NULL THEN {} ELSE aws[e][facet]

\* The next call: whether the resource is there decides the answer, for the
\* password of a user also whether there is one.
Answer(k, c) ==
  LET e == worker[k].of
      v == Holds(e, c.facet)
  IN IF c.which = "list"
     THEN list(Op(k, c.facet, "list"), aws[e] # NULL, v)
     ELSE get(Op(k, c.facet, "get"), aws[e] # NULL /\ (c.how = "optional" => v # {}), v)

Stored(w, c, v) == [w EXCEPT !.at = @ + 1, !.row[c.facet] = v, !.names = NULL, !.got = {}, !.retried = FALSE]

Calling(k) == Running(k) /\ worker[k].of # NULL /\ worker[k].at <= Len(Calls[k]) /\ worker[k].names = NULL
MakeCall(k) ==
  LET w == worker[k]
      c == Calls[k][w.at]
      answer == Answer(k, c)
  IN /\ Calling(k)
     /\ Becomes(k,
          CASE answer.is = "record" /\ c.how = "index" -> Raised
            [] answer.is = "none" /\ c.how = "whole" -> Raised
            [] c.how = "each" -> [w EXCEPT !.names = Names(answer.value), !.got = {}, !.retried = FALSE]
            [] answer.is = "result" /\ c.how # "each" -> Stored(w, c, answer.value)
            [] OTHER -> Stored(w, c, NULL))

Getting(k) == Running(k) /\ worker[k].names # NULL

\* A mutant of GetOne: a name without an answer is left out.
SkipMissing(k) ==
  LET w == worker[k]
      c == Calls[k][w.at]
  IN /\ Getting(k)
     /\ \E n \in w.names :
          LET found == {x \in Holds(w.of, c.facet) : NameOf[x] = n}
              answer == get(Op(k, c.facet, "get"), found # {}, found)
          IN Becomes(k, [w EXCEPT !.names = @ \ {n}, !.got = @ \cup answer.value])

\* What is under the name by now, not when the names were listed.
GetOne(k) ==
  LET w == worker[k]
      c == Calls[k][w.at]
  IN /\ Getting(k)
     /\ \E n \in w.names :
          LET found == {x \in Holds(w.of, c.facet) : NameOf[x] = n}
              answer == get(Op(k, c.facet, "get"), found # {}, found)
          IN Becomes(k, IF answer.is = "none" THEN Raised
                        ELSE [w EXCEPT !.names = @ \ {n}, !.got = @ \cup answer.value])

GotAll(k) ==
  LET w == worker[k]
  IN /\ Getting(k) /\ w.names = {}
     /\ Becomes(k, Stored(w, Calls[k][w.at], w.got))

WriteRow(k) ==
  LET w == worker[k]
  IN /\ Running(k) /\ w.of # NULL /\ w.at > Len(Calls[k])
     /\ Becomes(k, [w EXCEPT !.out = @ \cup {[of |-> w.of, row |-> w.row]}, !.of = NULL, !.at = 0, !.row = <<>>])

Commit(k) ==
  /\ Running(k) /\ worker[k].listed /\ worker[k].of = NULL /\ worker[k].todo = {}
  /\ Becomes(k, [worker[k] EXCEPT !.st = "committed"])

\* A mutant of Throttled: the second time is as good as an answer without results.
ThrottledNone(k) ==
  LET w == worker[k]
  IN /\ Running(k) /\ Calling(k) /\ Calls[k][w.at].which = "list"
     /\ Becomes(k, IF w.retried THEN Stored(w, Calls[k][w.at], NULL) ELSE [w EXCEPT !.retried = TRUE])

\* list waits for three seconds and calls once more; get lets the error through.
Throttled(k) ==
  LET w == worker[k]
      isList == IF w.listed THEN Calling(k) /\ Calls[k][w.at].which = "list"
                            ELSE k \notin {"CredentialReport", "PasswordPolicy"}
  IN /\ Running(k) /\ isList
     /\ Becomes(k, IF w.retried THEN Raised ELSE [w EXCEPT !.retried = TRUE])

\* Any error that a proxy does not map, a throttled get among them.
Raises(k) == Running(k) /\ Becomes(k, Raised)
---------------------------------------------------------------------------------
(***************************************************************************)
(* The credential report: generated, then polled for.                      *)
(***************************************************************************)
Reporting == Running("CredentialReport") /\ ~worker["CredentialReport"].listed
Generating == Reporting /\ worker["CredentialReport"].polls = -1
Polling == Reporting /\ worker["CredentialReport"].polls >= 0

\* STARTED and COMPLETE end the loop; INPROGRESS, when somebody else asked for the
\* report, asks again at once.  Refused, the answer is None and has no State.
Generate ==
  LET w == worker["CredentialReport"]
      answer == get(Op("CredentialReport", "report", "generate"), TRUE, {})
  IN /\ Generating
     /\ worker' = [worker EXCEPT !["CredentialReport"] =
          IF answer.is = "none" THEN Raised
          ELSE IF report.is = "running" THEN w ELSE [w EXCEPT !.polls = 0]]
     /\ report' = IF answer.is = "result" /\ report.is = "none"
                  THEN [report EXCEPT !.is = "running"] ELSE report
     /\ UNCHANGED <<cloud, refused, job>>

\* A mutant of GenerateFails: one attempt too many.
OneMore ==
  LET w == worker["CredentialReport"]
  IN /\ Generating
     /\ Becomes("CredentialReport", IF w.tries >= 3 THEN Raised ELSE [w EXCEPT !.tries = @ + 1])

\* Throttling or an SSLError: three attempts.
GenerateFails ==
  LET w == worker["CredentialReport"]
  IN /\ Generating
     /\ Becomes("CredentialReport", IF w.tries + 1 >= 3 THEN Raised ELSE [w EXCEPT !.tries = @ + 1])

\* A mutant of Poll: ReportInProgress does not count.
PollForever ==
  LET w == worker["CredentialReport"]
      answer == get(Op("CredentialReport", "report", "get"), TRUE, report.users)
  IN /\ Polling
     /\ Becomes("CredentialReport",
          IF answer.is = "none" \/ report.is = "running" THEN w
          ELSE [w EXCEPT !.listed = TRUE, !.out = {[of |-> e, row |-> <<>>] : e \in report.users}])

\* ReportInProgress counts, twenty times at most; a refused answer is None, does
\* not count, and is asked for again.
Poll ==
  LET w == worker["CredentialReport"]
      answer == get(Op("CredentialReport", "report", "get"), TRUE, report.users)
  IN /\ Polling
     /\ Becomes("CredentialReport",
          CASE answer.is = "none" -> w
            [] answer.is = "result" /\ report.is = "running" ->
                 IF w.polls + 1 = 20 THEN Raised ELSE [w EXCEPT !.polls = @ + 1]
            [] OTHER -> [w EXCEPT !.listed = TRUE, !.out = {[of |-> e, row |-> <<>>] : e \in report.users}])

FinishReport ==
  /\ report.is = "running"
  /\ report' = [is |-> "ready", users |-> Users]
  /\ UNCHANGED <<cloud, refused, worker, job>>
---------------------------------------------------------------------------------
(***************************************************************************)
(* AWS while the fetch runs, and the pool.                                 *)
(***************************************************************************)
\* A call changes what is under one name; that of a policy's default version changes
\* two.
Change(u, v) == Names((u \ v) \cup (v \ u))

\* Only what a function fetches matters: of the users the report knows the names.
Drift ==
  /\ job = "fetching" /\ drifts < MaxDrifts /\ drifts' = drifts + 1
  /\ \E e \in Entity :
       /\ aws[e] # NULL
       /\ \/ /\ KindOf[e] \in DOMAIN worker \/ (KindOf[e] = "user" /\ "CredentialReport" \in DOMAIN worker)
             /\ aws' = [aws EXCEPT ![e] = NULL] /\ held' = held
          \/ /\ KindOf[e] \in DOMAIN worker
             /\ \E f \in FacetsOf(e), v \in Listing :
                  /\ IF f = "Versions" THEN v # aws[e][f]
                     ELSE Cardinality(Change(aws[e][f], v)) = 1
                  /\ aws' = [aws EXCEPT ![e][f] = v]
                  /\ held' = [held EXCEPT ![e][f] = @ \cup {v}]
  /\ UNCHANGED <<report, refused, worker, job>>

\* A process that dies breaks the pool: every future that has no result raises,
\* and the processes that are left are terminated.
PoolBreaks ==
  /\ \E k \in DOMAIN worker : worker[k].st = "running"
  /\ worker' = [k \in DOMAIN worker |->
                  IF worker[k].st \in {"queued", "running"} THEN Raised ELSE worker[k]]
  /\ UNCHANGED <<cloud, report, refused, job>>

\* collect_exceptions waits for every future.
EndFetch ==
  /\ job = "fetching"
  /\ \A k \in DOMAIN worker : worker[k].st \in {"committed", "raised"}
  /\ job' = IF \E k \in DOMAIN worker : worker[k].st = "raised" THEN "failed" ELSE "mapping"
  /\ UNCHANGED <<cloud, report, refused, worker>>

Step(k) == \/ Start(k) \/ ListAll(k) \/ NextRow(k) \/ MakeCall(k) \/ GetOne(k) \/ GotAll(k)
           \/ WriteRow(k) \/ Commit(k)
           \/ k = "CredentialReport" /\ (Generate \/ Poll)

Next == \/ \E k \in Function : Step(k) \/ Throttled(k) \/ Raises(k)
        \/ GenerateFails
        \/ FinishReport
        \/ Drift
        \/ PoolBreaks
        \/ EndFetch

Spec == Init /\ [][Next]_vars

\* Processes run on; nothing is assumed of AWS.
FairSpec == Spec /\ WF_vars(EndFetch) /\ \A k \in Function : WF_vars(Step(k))
=================================================================================
