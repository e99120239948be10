----------------------------- MODULE MapImportProps -----------------------------
(***************************************************************************)
(* What an import promises about the tables and the delta log.             *)
(***************************************************************************)
EXTENDS MapImport

\* Every variable of MapImport keeps to the tables and rows the models in
\* introspector/models declare.
TypeOK ==
  /\ cloud \in Clouds
  /\ job \in [account : Account \cup {None}, spec : Specs \cup {NoSpec}, status : Status]
  /\ phase \in Phase /\ (phase # "idle" => job.account \in Account)
  /\ todo \subseteq Service /\ raised \in BOOLEAN
  /\ inbox \subseteq Row /\ done \subseteq Row
  /\ mapped \subseteq Source \X Uri
  /\ linked \subseteq Link /\ found \subseteq Rel
  /\ swept \in 0 .. Len(AWS_SOURCES)
  /\ phase \in {"fetch", "base", "root", "adjunct", "policies"} => swept = 0
  /\ phase = "partials" => swept < Len(AWS_SOURCES)
  /\ db \in Tables /\ before \in Tables /\ delta \in Deltas
---------------------------------------------------------------------------------
(***************************************************************************)
(* Integrity: what the unique and foreign keys of models/resource.py, and  *)
(* the code that assumes them, rely on.                                    *)
(***************************************************************************)
\* A resource row and its base document live and die together, so that
\* apply_resource, which looks for the document, never inserts a second row
\* for a uri; no document of any source outlives its resource.
ResourceHasBase(t) ==
  \A u \in Uri : /\ (t.res[u] = None) <=> (t.raw[u]["base"] = None)
                 /\ t.res[u] = None => \A s \in Source : t.raw[u][s] = None

\* Attribute rows are what the transforms make of the stored document: no
\* attribute survives its document or misses one of its changes.
AttrsFollowRaw(t) ==
  \A u \in Uri, s \in Source : t.attr[u][s] = AttrsOf(t.raw[u][s])

\* No relation dangles: both of its ends have rows.
RelationsHaveEnds(t) ==
  \A r \in Rel : t.rel[r] # None =>
                   t.res[ParentOf[r]] # None /\ t.res[TargetOf[r]] # None

TablesSound(t) == ResourceHasBase(t) /\ AttrsFollowRaw(t) /\ RelationsHaveEnds(t)

\* At every step of the mapping, also where a failure commits it half done,
\* the tables are sound.
Integrity == TablesSound(db)
---------------------------------------------------------------------------------
(***************************************************************************)
(* The delta log.                                                          *)
(***************************************************************************)
One(x) == IF x = None THEN 0 ELSE 1

\* As many rows of a key appear and disappear as the log says.
Balanced(old, new, counts) ==
  One(new) + counts["delete"] = One(old) + counts["add"]

\* Replaying the adds and deletes a job logged over the tables it started
\* from gives the rows that exist now, for resources, attributes, relations.
DeltaBalance ==
  /\ \A u \in Uri : Balanced(before.res[u], db.res[u], delta.res[u])
  /\ \A u \in Uri, s \in Source, n \in AttrName :
       Balanced(before.attr[u][s][n], db.attr[u][s][n], delta.attr[u][s][n])
  /\ \A r \in Rel : Balanced(before.rel[r], db.rel[r], delta.rel[r])

Logged(counts) == \E k \in Kind : counts[k] > 0

\* Nothing changes silently: whatever differs from the tables the job started
\* from has a delta row in the job.
EveryChangeLogged ==
  /\ \A u \in Uri : db.raw[u] # before.raw[u] \/ db.res[u] # before.res[u]
                      => Logged(delta.res[u])
  /\ \A u \in Uri, s \in Source, n \in AttrName :
       db.attr[u][s][n] # before.attr[u][s][n] => Logged(delta.attr[u][s][n])
  /\ \A r \in Rel : db.rel[r] # before.rel[r] => Logged(delta.rel[r])

\* Nothing is logged that did not change: a complete import over an unchanged
\* account has an empty log.  The attributes of a resource that the job removes
\* are left out: a partial document may reach it before map_resource_deletes.
NoChurn ==
  job.status = "complete" =>
    /\ \A u \in Uri : Logged(delta.res[u]) => db.raw[u] # before.raw[u]
    /\ \A u \in Uri, s \in Source, n \in AttrName :
         db.res[u] # None /\ Logged(delta.attr[u][s][n]) => db.attr[u][s][n] # before.attr[u][s][n]
    /\ \A r \in Rel : Logged(delta.rel[r]) => db.rel[r] # before.rel[r]
---------------------------------------------------------------------------------
(***************************************************************************)
(* The mapping as one publication: readers of the database see the tables  *)
(* of the previous import until the session commits.                       *)
(***************************************************************************)
Uncommitted == phase \in {"fetch"} \cup MapPhase

Content(t) == [k \in Uri \cup Rel |->
                 IF k \in Rel THEN t.rel[k]
                 ELSE IF t.res[k] = None THEN None ELSE t.raw[k]]

Seen == Content(IF Uncommitted THEN before ELSE db)
SeenLog == [k \in Uri \cup Rel |->
              IF Uncommitted THEN Zero ELSE IF k \in Rel THEN delta.rel[k] ELSE delta.res[k]]

Committed == INSTANCE Inventory WITH
               Key <- Uri \cup Rel, inv <- Seen, log <- SeenLog, outcome <- job.status

\* Every import is seen by readers as a single publication with its log.
ImplementsInventory == Committed!Spec
---------------------------------------------------------------------------------
(***************************************************************************)
(* The tables against AWS.                                                 *)
(***************************************************************************)
Here == cloud.base[job.account]

\* An image is wanted when it is private or an instance of the account runs it.
Wanted(u) ==
  Here[u] \in Public => \E vm \in Uri : /\ TypeOf[vm] = "Instance"
                                        /\ Here[vm] # None /\ ImageOf[Here[vm]] = u

\* The documents that a partial source holds for a resource.
ExtraDocs(s, u) ==
  {x.data : x \in {y \in cloud.extra[job.account][s] : y.uri = u}}

\* Whatever failures, half-done mappings and scoped imports came before, one
\* complete unscoped import makes the account's documents, partial documents
\* and relations those AWS holds (map_import and its three delete passes).
FullImportConverges ==
  job.status = "complete" /\ job.spec = NoSpec =>
    /\ \A u \in Uri :
         /\ Here[u] # None /\ Wanted(u) => db.raw[u]["base"] = Here[u]
         /\ Here[u] = None => db.res[u] # job.account
    /\ \A u \in Uri, s \in ExtraSource :
         db.res[u] = job.account =>
           IF ExtraDocs(s, u) = {} THEN db.raw[u][s] = None
           ELSE db.raw[u][s] \in ExtraDocs(s, u)
    /\ \A r \in Rel :
         db.res[ParentOf[r]] = job.account =>
           (db.rel[r] # None
              <=> /\ db.res[TargetOf[r]] # None
                  /\ \E u \in Uri : /\ Here[u] # None
                                    /\ \E l \in Yields[u][Here[u]] : l.rel = r)

\* Whatever the fetch missed or AWS changed meanwhile, a complete import
\* stores every document it fetched, and of the account and scope it was
\* asked for it keeps no other.
MirrorsFetch ==
  job.status = "complete" =>
    /\ \A row \in inbox : row.source = "base" => db.raw[row.uri]["base"] = row.data
    /\ \A u \in Uri \ Roots : db.res[u] = job.account /\ InScope(job.spec, u) =>
                        \E row \in inbox : row.source = "base" /\ row.uri = u

\* README.md:14: the database matches the infrastructure, so a resource that
\* an import removes is no longer in any account of the provider, or is a
\* public image that the account's instances no longer run.
NoFalseDelete ==
  job.status = "complete" =>
    \A u \in Uri : before.res[u] # None /\ db.res[u] = None /\ Wanted(u) =>
                     \A a \in Account : cloud.base[a][u] = None

\* cli/account/aws.py:52: an import scoped with -s imports the resources it
\* names; those of them that AWS no longer holds leave the tables.
ScopedImportConverges ==
  job.status = "complete" /\ job.spec # NoSpec =>
    \A u \in Uri : Fetched(job.spec, u) /\ db.res[u] = job.account => Here[u] # None

\* A relation that a stored document still states, between resources that are
\* both stored, is not removed.
NoFalseRelationDelete ==
  job.status = "complete" =>
    \A r \in Rel :
      before.rel[r] # None /\ db.rel[r] = None =>
        ~ /\ db.res[ParentOf[r]] # None /\ db.res[TargetOf[r]] # None
          /\ \E u \in Uri : /\ db.res[u] # None
                            /\ \E l \in Yields[u][db.raw[u]["base"]] : l.rel = r

\* An import scoped with -s leaves the rows of every service it was not asked
\* for as they were, although roots, images, policies and partial documents
\* are added outside the fetch.
OutOfScopeUntouched ==
  \A u \in Uri : ~service_gate(job.spec, ServiceOf[u]) =>
                   /\ db.res[u] = before.res[u] /\ db.raw[u] = before.raw[u]
                   /\ db.attr[u] = before.attr[u]

\* The import of one account removes no resource stored on another account's
\* path, no document of it, and no relation between two such resources.
DeletesStayInAccount ==
  LET Foreign(u) == before.res[u] \notin {None, job.account} IN
  /\ \A u \in Uri : Foreign(u) =>
       /\ db.res[u] = before.res[u]
       /\ \A s \in Source : before.raw[u][s] # None => db.raw[u][s] # None
  /\ \A r \in Rel : before.rel[r] # None /\ Foreign(ParentOf[r]) /\ Foreign(TargetOf[r])
                      => db.rel[r] # None

\* models/import_job.py:51: a job that ended without success says why, so no
\* job ends unmarked.
FailureIsRecorded == phase = "idle" => job.status # "lost"

\* Every import command that starts comes to an end, whatever the interleaving
\* of workers and rows: no pass waits for rows that never come.
ImportEnds == phase # "idle" ~> phase = "idle"

\* README.md:14: importing again and again keeps succeeding in bringing the
\* database up to date.
KeepsCompleting == []<>(job.status = "complete")
---------------------------------------------------------------------------------
(***************************************************************************)
(* Conditions on the instance, under which the proofs show what does not   *)
(* hold for all (README.md says which instances break them, and what then  *)
(* goes wrong).                                                            *)
(***************************************************************************)
\* No list call is denied, and AWS holds still during an import.
NothingMissed == Faults \cap {"denied", "drift"} = {}

\* No two accounts of the provider hold the same resource, but for public images.
\* AWS's own policies are not so (MCOrg).
AccountsApart ==
  \A c, d \in Clouds, a, b \in Account, u \in Uri :
    c.base[a][u] # None /\ d.base[b][u] # None => a = b \/ c.base[a][u] \in Public

\* The resource whose document yields a relation is in the account, and with it in
\* the scope, of the relation's parent.
LinksNearParent ==
  /\ \A c, d \in Clouds, a, b \in Account, u \in Uri :
       c.base[a][u] # None =>
         \A l \in Yields[u][c.base[a][u]] : d.base[b][ParentOf[l.rel]] # None => a = b
  /\ \A spec \in Specs \cup {NoSpec}, u \in Uri, p \in Payload :
       \A l \in Yields[u][p] : InScope(spec, ParentOf[l.rel]) => InScope(spec, u)

\* An image does not change between public and private, and a public one is seen
\* by every account (the owner may publish it: README.md).
ImagesSteady ==
  \A c, d \in Clouds, a, b \in Account, u \in Uri : c.base[a][u] \in Public =>
    c.base[b][u] # None /\ d.base[b][u] \in Public \cup {None}

\* What the deletes look for in a scope, the fetch of that scope has asked for:
\* the gates on the way to a type let it through, and for an image the adjunct
\* fetch and the instances as well (-s ecs=Service and -s ec2=Image are not so).
ScopesAgree ==
  \A spec \in Specs \cup {NoSpec}, u \in Uri \ Roots : InScope(spec, u) =>
    /\ Fetched(spec, u)
    /\ (\E p \in Payload : ImageOf[p] = u) =>
         /\ service_gate(spec, "ec2") /\ resource_gate(Asked(spec, "ec2"), "Images")
         /\ \A vm \in Uri : TypeOf[vm] = "Instance" => Fetched(spec, vm)

\* The log groups that a policy names are log groups.
PoliciesOfGroups ==
  \A c \in Clouds, a \in Account : \A x \in c.extra[a]["logspolicies"] : TypeOf[x.uri] = "LogGroup"

\* A snapshot has at most one partial document of a source for a resource: no two
\* regions of an account hold a policy for one log group.
OneDocumentEach ==
  \A c \in Clouds, a \in Account, s \in ExtraSource :
    \A x, y \in c.extra[a][s] : x.uri = y.uri => x = y

\* The resources of a snapshot that state the same relation state the same
\* attributes of it.
LinksAgree ==
  \A u, v \in Uri, p, q \in Payload :
    \A l \in Yields[u][p], k \in Yields[v][q] :
      l.rel = k.rel /\ (u = v => p = q) => l.val = k.val
=================================================================================
