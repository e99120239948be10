------------------------------- MODULE MapImport --------------------------------
(***************************************************************************)
(* One provider account and the import jobs that run on it, one after the  *)
(* other: import_aws_cmd, the fetch of every service, map_import and its   *)
(* passes, the delta tables, the commit and what happens when a step       *)
(* fails.  "db" is what the command's session sees; "before" is what the   *)
(* tables held when the job started, which is what a rollback restores     *)
(* until the mapping commits.                                              *)
(***************************************************************************)
EXTENDS Transforms

CONSTANTS
  Clouds,        \* what AWS may hold: the snapshots the jobs can find
  Faults         \* the faults of the instance, a subset of FaultKind

VARIABLES
  cloud,         \* what AWS holds
  job,           \* the latest import_job row: account, spec, status
  phase,         \* the step of the import command
  todo,          \* services whose fetch has not ended
  raised,        \* some fetch raised
  inbox,         \* raw_import rows of the job
  done,          \* rows mapped (raw_import.mapped), or partial rows visited
  mapped,        \* mapped_uri rows of the job
  linked,        \* links applied by map_resource_relations
  found,         \* found_relations
  swept,         \* how many of AWS_SOURCES have been processed
  db,            \* resource, resource_raw, resource_attribute, resource_relation
  before,        \* the same tables when the job started
  delta          \* the delta rows of the job, counted by key and kind

vars == <<cloud, job, phase, todo, raised, inbox, done, mapped, linked, found,
          swept, db, before, delta>>

FaultKind == {"denied", "raised", "mapping", "database", "crash", "drift"}

ASSUME FaultsAssumption == Faults \subseteq FaultKind

Row == [source : Source, uri : Uri, data : Payload]

\* What AWS holds: resources per account, and rows of the partial sources.
Cloud == [base  : [Account -> [Uri -> Payload \cup {None}]],
          extra : [Account -> [ExtraSource -> SUBSET [uri : Uri, data : Payload]]]]

ASSUME CloudsAssumption ==
  /\ Clouds \subseteq Cloud
  /\ \A c \in Clouds, a \in Account :
       /\ c.base[a][RootOf[a]] \notin {None} \cup Public
       /\ \A x \in c.extra[a]["credentialreport"] : ServiceOf[x.uri] = "iam"

\* res: the account whose path Resource.path names (None: no row); raw:
\* resource_raw by source; attr: resource_attribute; rel: resource_relation.
Tables == [res  : [Uri -> Account \cup {None}],
           raw  : [Uri -> [Source -> Payload \cup {None}]],
           attr : [Uri -> [Source -> [AttrName -> AttrVal \cup {None}]]],
           rel  : [Rel -> LinkVal \cup {None}]]

Counts == [Kind -> Nat]
Deltas == [res  : [Uri -> Counts],
           attr : [Uri -> [Source -> [AttrName -> Counts]]],
           rel  : [Rel -> Counts]]

Status == {"none", "running", "complete", "failed", "lost"}
MapPhase == {"base", "root", "adjunct", "policies", "partials", "rebase",
             "deletes", "relations", "reldeletes", "commit"}
Phase == {"idle", "fetch", "refresh"} \cup MapPhase

NoAttrs == [n \in AttrName |-> None]
AttrsOf(p) == IF p = None THEN NoAttrs ELSE Attrs[p]

EmptyTables == [res  |-> [u \in Uri |-> None],
                raw  |-> [u \in Uri |-> [s \in Source |-> None]],
                attr |-> [u \in Uri |-> [s \in Source |-> NoAttrs]],
                rel  |-> [r \in Rel |-> None]]

Zero == [k \in Kind |-> 0]
NoDeltas == [res  |-> [u \in Uri |-> Zero],
             attr |-> [u \in Uri |-> [s \in Source |-> [n \in AttrName |-> Zero]]],
             rel  |-> [r \in Rel |-> Zero]]
---------------------------------------------------------------------------------
(***************************************************************************)
(* Delta rows.                                                             *)
(***************************************************************************)
\* What if a changed value were logged as a new one, or not logged at all?
ChangeAdds(old, new) ==
  IF old = new THEN {} ELSE IF new = None THEN {"delete"} ELSE {"add"}
ChangeWithoutUpdates(old, new) ==
  IF old = new THEN {} ELSE IF new = None THEN {"delete"}
  ELSE IF old = None THEN {"add"} ELSE {}

\* The kind of delta row that turning one value into another writes.
Change(old, new) ==
  CASE old = new  -> {}
    [] old # new /\ old = None -> {"add"}
    [] old # new /\ old # None /\ new = None -> {"delete"}
    [] OTHER -> {"update"}

Log(counts, kinds) ==
  [k \in Kind |-> IF k \in kinds THEN counts[k] + 1 ELSE counts[k]]

\* diff_attrs and the attribute loops of the adds and deletes: one delta row
\* for every attribute that differs.
LogAttrs(counts, old, new) ==
  [n \in AttrName |-> Log(counts[n], Change(old[n], new[n]))]

\* The row of a source is written (p a payload) or removed (p is None), the
\* attributes of that source follow it.
StoreRaw(u, s, p) ==
  db' = [db EXCEPT !.raw[u][s] = p, !.attr[u][s] = AttrsOf(p)]

LogRaw(u, s, p, kinds) ==
  delta' = [delta EXCEPT !.res[u] = Log(@, kinds),
                         !.attr[u][s] = LogAttrs(@, db.attr[u][s], AttrsOf(p))]

\* What if every import rewrote every document?
DiffAlways(u, s, p) == FALSE

\* diff_attrs finds neither a stanza nor a synthesized attribute that differs
NoDiff(u, s, p) == db.raw[u][s] = p /\ db.attr[u][s] = AttrsOf(p)

\* apply_resource: a new resource takes the path of the importing account and
\* keeps it; an existing one is compared by diff_attrs.
apply_resource(u, p) ==
  IF db.raw[u]["base"] = None
  THEN /\ db' = [db EXCEPT !.res[u] = job.account, !.raw[u]["base"] = p,
                           !.attr[u]["base"] = AttrsOf(p)]
       /\ LogRaw(u, "base", p, {"add"})
  ELSE IF NoDiff(u, "base", p)
  THEN UNCHANGED <<db, delta>>
  ELSE StoreRaw(u, "base", p) /\ LogRaw(u, "base", p, {"update"})

\* apply_partial: the first row of a source and a changed one are both an
\* 'update' of the resource.
apply_partial(u, s, p) ==
  IF db.raw[u][s] # None /\ NoDiff(u, s, p)
  THEN UNCHANGED <<db, delta>>
  ELSE StoreRaw(u, s, p) /\ LogRaw(u, s, p, {"update"})
---------------------------------------------------------------------------------
(***************************************************************************)
(* The job: creation, fetch, and the ways it ends.                         *)
(***************************************************************************)
Init ==
  /\ cloud \in Clouds
  /\ job = [account |-> None, spec |-> NoSpec, status |-> "none"]
  /\ phase = "idle"
  /\ todo = {} /\ raised = FALSE
  /\ inbox = {} /\ done = {} /\ mapped = {} /\ linked = {} /\ found = {}
  /\ swept = 0
  /\ db = EmptyTables /\ before = EmptyTables /\ delta = NoDeltas

\* build_aws_import_job and its commit: an import of one account, of what the
\* specification asks, finds AWS in some state.
StartJob ==
  /\ phase = "idle"
  /\ \E a \in Account, spec \in Specs, c \in Clouds :
       /\ cloud' = c
       /\ job' = [account |-> a, spec |-> spec, status |-> "running"]
       /\ todo' = {s \in Service : service_gate(spec, s)}
  /\ phase' = "fetch"
  /\ raised' = FALSE /\ swept' = 0
  /\ inbox' = {} /\ done' = {} /\ mapped' = {} /\ linked' = {} /\ found' = {}
  /\ before' = db /\ delta' = NoDeltas
  /\ UNCHANGED db

\* Resource names whose list call may answer with an error record, which
\* becomes a row without resources.
Losses == {{}} \cup IF "denied" \in Faults THEN {{n} : n \in Name} ELSE {}

\* What if a resource gone between list and describe still wrote a row?
BaseRowsUnchecked(s, lost) ==
  {[source |-> "base", uri |-> u, data |-> cloud.base[job.account][u]] :
     u \in {v \in Uri \ Roots : ServiceOf[v] = s /\ Fetched(job.spec, v)}}

\* What a service's import function writes for the account: the resources its
\* gates let through.  describe_images filters on is-public = false.
BaseRows(s, lost) ==
  {[source |-> "base", uri |-> u, data |-> cloud.base[job.account][u]] :
     u \in {v \in Uri \ Roots :
              /\ ServiceOf[v] = s /\ Fetched(job.spec, v)
              /\ TypeOf[v] \notin lost
              /\ cloud.base[job.account][v] \notin {None} \cup Public}}

ExtraRows(source) ==
  {[source |-> source, uri |-> x.uri, data |-> x.data] :
     x \in cloud.extra[job.account][source]}

CredentialRows(s) ==
  IF s = "iam" /\ resource_gate(Asked(job.spec, s), "CredentialReport")
  THEN ExtraRows("credentialreport") ELSE {}

\* The pool worker of a service commits everything it fetched.
FetchService(s) ==
  /\ phase = "fetch" /\ s \in todo
  /\ \E lost \in Losses : inbox' = inbox \cup BaseRows(s, lost) \cup CredentialRows(s)
  /\ todo' = todo \ {s}
  /\ UNCHANGED <<cloud, job, phase, raised, done, mapped, linked, found, swept,
                 db, before, delta>>

\* The worker raised: it commits nothing and the others run to their end.
FetchRaises(s) ==
  /\ "raised" \in Faults /\ phase = "fetch" /\ s \in todo
  /\ todo' = todo \ {s} /\ raised' = TRUE
  /\ UNCHANGED <<cloud, job, phase, inbox, done, mapped, linked, found, swept,
                 db, before, delta>>

End(status) == phase' = "idle" /\ job' = [job EXCEPT !.status = status]

\* What if the exceptions of the workers were not looked at?
EndFetchAnyway ==
  /\ phase = "fetch" /\ todo = {} /\ phase' = "base"
  /\ UNCHANGED <<cloud, job, todo, raised, inbox, done, mapped, linked, found,
                 swept, db, before, delta>>

\* No exception: map; otherwise mark the job with the exceptions.
EndFetch ==
  /\ phase = "fetch" /\ todo = {}
  /\ IF raised THEN End("failed") ELSE phase' = "base" /\ UNCHANGED job
  /\ UNCHANGED <<cloud, todo, raised, inbox, done, mapped, linked, found, swept,
                 db, before, delta>>

\* Other principals change AWS while an import reads it.
CloudDrifts ==
  /\ "drift" \in Faults
  /\ phase \in {"fetch", "root", "adjunct", "policies"}
  /\ \E c \in Clouds \ {cloud} : cloud' = c
  /\ UNCHANGED <<job, phase, todo, raised, inbox, done, mapped, linked, found,
                 swept, db, before, delta>>

\* An exception in the mapping: the handler marks the job and commits the
\* session, with whatever the mapping had written.
MapRaises ==
  /\ "mapping" \in Faults
  /\ phase \in MapPhase \cup {"refresh"}
  /\ End("failed")
  /\ UNCHANGED <<cloud, todo, raised, inbox, done, mapped, linked, found, swept,
                 db, before, delta>>

\* What if every pass of the mapping committed by itself?
KeepHalf == UNCHANGED <<db, delta>>

\* A transaction that does not commit leaves the tables as the job found them.
Rollback == db' = before /\ delta' = NoDeltas

\* The command dies, or a statement of the mapping fails in the database, so
\* that the handler's own commit is refused: nothing more is committed, and the
\* job keeps neither an end date nor error details.
DbFails ==
  /\ \/ "crash" \in Faults /\ phase # "idle"
     \/ "database" \in Faults /\ phase \in MapPhase \cup {"refresh"}
  /\ End("lost")
  /\ IF phase = "refresh" THEN UNCHANGED <<db, delta>> ELSE Rollback
  /\ UNCHANGED <<cloud, todo, raised, inbox, done, mapped, linked, found, swept,
                 before>>
---------------------------------------------------------------------------------
(***************************************************************************)
(* map_import, in the order of its calls.                                  *)
(***************************************************************************)
\* What if mapped rows came up again, or the rows the mapping itself adds never?
PendingBaseAgain == {row \in inbox : row.source = "base"}
PendingBaseOnce == {row \in inbox \ done : row.source = "base" /\ phase = "base"}

\* raw_import rows of base resources with mapped = False.
PendingBase == {row \in inbox \ done : row.source = "base"}

\* map_resource_prefix, one row: both before and after the adjunct data.
ApplyBase(row) ==
  /\ phase \in {"base", "rebase"} /\ row \in PendingBase
  /\ apply_resource(row.uri, row.data)
  /\ mapped' = mapped \cup {<<"base", row.uri>>}
  /\ done' = done \cup {row}
  /\ UNCHANGED <<cloud, job, phase, todo, raised, inbox, linked, found, swept, before>>

EndBase ==
  /\ phase \in {"base", "rebase"} /\ PendingBase = {}
  /\ phase' = IF phase = "base" THEN "root" ELSE "deletes"
  /\ UNCHANGED <<cloud, job, todo, raised, inbox, done, mapped, linked, found,
                 swept, db, before, delta>>

\* What if the root were synthesized whatever -s asks?
IamGateOpen == TRUE
IamGate == service_gate(job.spec, "iam")

SynthesizeRoot ==
  /\ phase = "root" /\ phase' = "adjunct"
  /\ LET root == RootOf[job.account] IN
     IF IamGate
     THEN /\ apply_resource(root, cloud.base[job.account][root])
          /\ mapped' = mapped \cup {<<"base", root>>}
     ELSE UNCHANGED <<mapped, db, delta>>
  /\ UNCHANGED <<cloud, job, todo, raised, inbox, done, linked, found, swept, before>>

\* What if a public image with a row were never refreshed?
MissingAmisWithoutRow ==
  {i \in Uri : /\ db.res[i] = None
               /\ \E vm \in Uri : /\ db.res[vm] # None /\ TypeOf[vm] = "Instance"
                                  /\ ImageOf[db.raw[vm]["base"]] = i}

\* _find_missing_amis: the images that instances in the tables run, when they
\* have no row or a row that says Public.
MissingAmis ==
  {i \in Uri : /\ \E vm \in Uri : /\ db.res[vm] # None /\ TypeOf[vm] = "Instance"
                                  /\ ImageOf[db.raw[vm]["base"]] = i
               /\ \/ db.res[i] = None
                  \/ db.raw[i]["base"] \in Public}

AdjunctGate == service_gate(job.spec, "ec2")
               /\ resource_gate(Asked(job.spec, "ec2"), "Images")

\* describe_images over ImageIds knows every image.
AmisExist == \A i \in MissingAmis : cloud.base[job.account][i] # None

FindAdjunctData ==
  /\ phase = "adjunct" /\ phase' = "policies"
  /\ AdjunctGate => AmisExist
  /\ \/ /\ AdjunctGate
        /\ inbox' = inbox \cup
             {[source |-> "base", uri |-> i, data |-> cloud.base[job.account][i]] :
                i \in MissingAmis}
     \/ /\ AdjunctGate => "denied" \in Faults
        /\ UNCHANGED inbox
  /\ UNCHANGED <<cloud, job, todo, raised, done, mapped, linked, found, swept,
                 db, before, delta>>

\* InvalidAMIID.NotFound is an error no proxy maps: it leaves map_import.
AdjunctRaises ==
  /\ phase = "adjunct" /\ AdjunctGate /\ ~AmisExist
  /\ End("failed")
  /\ UNCHANGED <<cloud, todo, raised, inbox, done, mapped, linked, found, swept,
                 db, before, delta>>

LogsGate == service_gate(job.spec, "logs")
            /\ resource_gate(Asked(job.spec, "logs"), "ResourcePolicies")

\* add_logs_resource_policies: a row for every log group in the tables that a
\* policy of some region names.
AddLogsResourcePolicies ==
  /\ phase = "policies" /\ phase' = "partials"
  /\ \/ /\ LogsGate
        /\ inbox' = inbox \cup {row \in ExtraRows("logspolicies") :
                                  /\ db.res[row.uri] # None
                                  /\ TypeOf[row.uri] = "LogGroup"}
     \/ /\ LogsGate => "denied" \in Faults
        /\ UNCHANGED inbox
  /\ UNCHANGED <<cloud, job, todo, raised, done, mapped, linked, found, swept,
                 db, before, delta>>

CurrentSource == AWS_SOURCES[swept + 1]
PendingPartial == {row \in inbox \ done : row.source = CurrentSource}

\* map_partial_prefix, one row; a row whose target has no resource is skipped.
ApplyPartial(row) ==
  /\ phase = "partials" /\ row \in PendingPartial
  /\ IF db.res[row.uri] = None
     THEN UNCHANGED <<mapped, db, delta>>
     ELSE /\ apply_partial(row.uri, row.source, row.data)
          /\ mapped' = mapped \cup {<<row.source, row.uri>>}
  /\ done' = done \cup {row}
  /\ UNCHANGED <<cloud, job, phase, todo, raised, inbox, linked, found, swept, before>>

StalePartials(s) ==
  {u \in Uri : /\ db.res[u] = job.account /\ db.raw[u][s] # None
               /\ <<s, u>> \notin mapped /\ InScope(job.spec, u)}

\* Every row of a set of keys at once: what it is cleared to, and its delta.
Clear(f, stale, s, v) ==
  [u \in Uri |-> IF u \in stale THEN [f[u] EXCEPT ![s] = v] ELSE f[u]]
LogAll(counts, keys, kinds) ==
  [k \in DOMAIN counts |-> IF k \in keys THEN Log(counts[k], kinds) ELSE counts[k]]
ClearLog(u, s) ==
  [delta.attr[u] EXCEPT ![s] = LogAttrs(delta.attr[u][s], db.attr[u][s], NoAttrs)]

\* map_partial_deletes of the current source.
PartialDeletes ==
  /\ phase = "partials" /\ PendingPartial = {}
  /\ db' = [db EXCEPT
       !.raw  = Clear(db.raw, StalePartials(CurrentSource), CurrentSource, None),
       !.attr = Clear(db.attr, StalePartials(CurrentSource), CurrentSource, NoAttrs)]
  /\ delta' = [delta EXCEPT
       !.res  = LogAll(delta.res, StalePartials(CurrentSource), {"update"}),
       !.attr = [u \in Uri |->
                   IF u \in StalePartials(CurrentSource)
                   THEN ClearLog(u, CurrentSource) ELSE delta.attr[u]]]
  /\ swept' = swept + 1
  /\ phase' = IF swept' = Len(AWS_SOURCES) THEN "rebase" ELSE "partials"
  /\ UNCHANGED <<cloud, job, todo, raised, inbox, done, mapped, linked, found, before>>

\* What if a row of any source or account would count, or the types of -s would not?
StaleUnlessMapped ==
  {u \in Uri : /\ db.res[u] = job.account
               /\ \A s \in Source : <<s, u>> \notin mapped
               /\ InScope(job.spec, u)}
StaleInAnyAccount ==
  {u \in Uri : /\ db.res[u] # None
               /\ <<"base", u>> \notin mapped /\ InScope(job.spec, u)}
StaleInService ==
  {u \in Uri : /\ db.res[u] = job.account
               /\ <<"base", u>> \notin mapped /\ service_gate(job.spec, ServiceOf[u])}

\* Resources on the account's path, in scope, that no row of the job mapped.
StaleResources ==
  {u \in Uri : /\ db.res[u] = job.account
               /\ <<"base", u>> \notin mapped /\ InScope(job.spec, u)}

\* What if only the relations a resource is the parent of went with it?
CutOfParent == {r \in Rel : db.rel[r] # None /\ ParentOf[r] \in StaleResources}

\* A relation goes with either of its ends.
CutRelations ==
  {r \in Rel : /\ db.rel[r] # None
               /\ {ParentOf[r], TargetOf[r]} \cap StaleResources # {}}

Drop(f, keys, v) == [k \in DOMAIN f |-> IF k \in keys THEN v ELSE f[k]]

\* map_resource_deletes: the resource, its raws and attributes, and every
\* relation it takes part in.
ResourceDeletes ==
  /\ phase = "deletes" /\ phase' = "relations"
  /\ db' = [db EXCEPT
       !.res  = Drop(db.res, StaleResources, None),
       !.raw  = Drop(db.raw, StaleResources, [s \in Source |-> None]),
       !.attr = Drop(db.attr, StaleResources, [s \in Source |-> NoAttrs]),
       !.rel  = Drop(db.rel, CutRelations, None)]
  /\ delta' = [delta EXCEPT
       !.res  = LogAll(delta.res, StaleResources, {"delete"}),
       !.attr = [u \in Uri |->
                   IF u \in StaleResources
                   THEN [s \in Source |-> LogAttrs(delta.attr[u][s], db.attr[u][s], NoAttrs)]
                   ELSE delta.attr[u]],
       !.rel  = LogAll(delta.rel, CutRelations, {"delete"})]
  /\ UNCHANGED <<cloud, job, todo, raised, inbox, done, mapped, linked, found,
                 swept, before>>

\* Every link the raw rows of the job yield.
PendingLinks ==
  (UNION {Yields[row.uri][row.data] : row \in {x \in inbox : x.source = "base"}}) \ linked

\* map_resource_relations, one link: skipped when an end has no resource.
ApplyRelation(l) ==
  /\ phase = "relations" /\ l \in PendingLinks
  /\ IF None \in {db.res[ParentOf[l.rel]], db.res[TargetOf[l.rel]]}
     THEN UNCHANGED <<found, db, delta>>
     ELSE /\ found' = found \cup {l.rel}
          /\ db' = [db EXCEPT !.rel[l.rel] = l.val]
          /\ delta' = [delta EXCEPT !.rel[l.rel] = Log(@, Change(db.rel[l.rel], l.val))]
  /\ linked' = linked \cup {l}
  /\ UNCHANGED <<cloud, job, phase, todo, raised, inbox, done, mapped, swept, before>>

EndRelations ==
  /\ phase = "relations" /\ PendingLinks = {} /\ phase' = "reldeletes"
  /\ UNCHANGED <<cloud, job, todo, raised, inbox, done, mapped, linked, found,
                 swept, db, before, delta>>

\* What if -s did not bound the relations that go?
StaleRelationsUnscoped ==
  {r \in Rel \ found : db.rel[r] # None /\ db.res[ParentOf[r]] = job.account}

\* Relations of in-scope parents on the account's path that were not found.
StaleRelations ==
  {r \in Rel \ found : /\ db.rel[r] # None
                       /\ db.res[ParentOf[r]] = job.account
                       /\ InScope(job.spec, ParentOf[r])}

\* map_relation_deletes: scoped by the parent resource.
RelationDeletes ==
  /\ phase = "reldeletes" /\ phase' = "commit"
  /\ db' = [db EXCEPT !.rel = Drop(db.rel, StaleRelations, None)]
  /\ delta' = [delta EXCEPT !.rel = LogAll(delta.rel, StaleRelations, {"delete"})]
  /\ UNCHANGED <<cloud, job, todo, raised, inbox, done, mapped, linked, found,
                 swept, before>>

\* The commit after map_import; only then are the views refreshed.
Commit ==
  /\ phase = "commit" /\ phase' = "refresh"
  /\ UNCHANGED <<cloud, job, todo, raised, inbox, done, mapped, linked, found,
                 swept, db, before, delta>>

Complete ==
  /\ phase = "refresh" /\ End("complete")
  /\ UNCHANGED <<cloud, todo, raised, inbox, done, mapped, linked, found, swept,
                 db, before, delta>>
---------------------------------------------------------------------------------
\* The steps an import command takes by itself.
ImportStep ==
  \/ \E s \in Service : FetchService(s)
  \/ EndFetch
  \/ \E row \in inbox : ApplyBase(row) \/ ApplyPartial(row)
  \/ EndBase \/ SynthesizeRoot
  \/ FindAdjunctData \/ AdjunctRaises \/ AddLogsResourcePolicies
  \/ PartialDeletes \/ ResourceDeletes
  \/ \E l \in Link : ApplyRelation(l)
  \/ EndRelations \/ RelationDeletes
  \/ Commit \/ Complete

Fault ==
  \/ \E s \in Service : FetchRaises(s)
  \/ CloudDrifts \/ MapRaises \/ DbFails

Next == StartJob \/ ImportStep \/ Fault

Spec == Init /\ [][Next]_vars

\* The operator keeps importing and a running command keeps running.
FairSpec == Spec /\ WF_vars(ImportStep) /\ WF_vars(StartJob)
=================================================================================
