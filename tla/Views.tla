---------------------------------- MODULE Views ----------------------------------
(***************************************************************************)
(* The provider tables (bootstrap_db.refresh_views and the files of        *)
(* queries/) beside the resources and relations they are built from, under *)
(* every command that maps, refreshes or removes: import (also --debug),   *)
(* remap, remove, debug reset and debug reinstall-views, for one provider  *)
(* and several commands at once.                                           *)
(*                                                                         *)
(* A file upserts the rows of one resource type and the pairs of its join  *)
(* tables, and is committed before the next; it never deletes: rows go     *)
(* with their resource, by the cascades of the tables' foreign keys.  At   *)
(* READ COMMITTED it reads what is committed when it starts and writes     *)
(* when other commits may have followed.  The statements of one file are   *)
(* taken together, and so is the mapping of a job (MapImport takes it      *)
(* apart).                                                                 *)
(*                                                                         *)
(* A mapping does not live on what was fetched alone.  Every one, a remap  *)
(* too, asks AWS anew for the root's virtual MFA, the public images that   *)
(* instances run and the resource policies of log groups; the answers are  *)
(* of its own time, and the last two are kept as raw rows of phase 1,      *)
(* which a reset deletes.                                                  *)
(***************************************************************************)
EXTENDS Integers, Sequences, FiniteSets

CONSTANTS
  Resource,     \* uris
  Doc,          \* what the attributes of a resource are made of
  Type, TypeOf, \* [Resource -> Type]; each type has a table and a file
  Number,       \* [Type -> Nat]: the number that starts the file's name
  Column,       \* foreign keys of the tables, [of, to, rel, counted]: counted
                \* where the query keeps a target only if there is just one
  JoinTable,    \* join tables, [of, to, rel]
  World,        \* what an import may fetch: [doc, part, rel], part the rows of
                \* the credential report
  Answer,       \* what AWS may answer a mapping: [doc, part], doc images (or the
                \* root) and part log policies
  Command,
  NULL,
  MaxJobs       \* bound: imports in a behaviour

ColumnsOf(t) == {c \in Column : c.of = t}

\* The raw documents of a resource: its base and what a partial source adds.
Content == [doc : Doc, part : Doc \cup {NULL}]
Documents == [Resource -> Doc \cup {NULL}]
NoDocuments == [r \in Resource |-> NULL]

Rows == [doc : Content, fk : UNION {[ColumnsOf(t) -> Resource \cup {NULL}] : t \in Type}]

Relations == [rel : {c.rel : c \in Column \cup JoinTable}, from : Resource, to : Resource]

Snapshot == [res : [Resource -> Content \cup {NULL}], rel : SUBSET Relations]

ASSUME ViewsAssumption ==
  /\ NULL \notin Doc \cup Resource \cup Nat \cup Content /\ NULL \notin Rows /\ NULL \notin Snapshot
  /\ TypeOf \in [Resource -> Type]
  /\ World \subseteq [doc : Documents, part : Documents, rel : SUBSET Relations]
  /\ Answer \subseteq [doc : Documents, part : Documents]

\* Every file has a number of its own, and comes after the files of the tables
\* that it refers to (the foreign keys of migrations/provider/aws/).
ASSUME FilesAssumption ==
  /\ IsFiniteSet(Type) /\ Type # {}
  /\ Number \in [Type -> Nat]
  /\ \A t, u \in Type : Number[t] = Number[u] => t = u
  /\ \A c \in Column \cup JoinTable :
       c.of \in Type /\ c.to \in Type /\ Number[c.to] <= Number[c.of]

VARIABLES
  res,          \* the resources: [Resource -> Content \cup {NULL}]
  rel,          \* the relations between them
  view,         \* the tables of the types: [Resource -> rows \cup {NULL}]
  join,         \* the join tables, as relations
  jobs,         \* the import jobs: what each fetched, if its rows are mapped,
                \* its mapped_uri rows, and what its mappings were answered
  shows,        \* the job that the tables hold, 0 if they are empty, NULL if
                \* they are a mixture
  cmd           \* the commands

vars == <<res, rel, view, join, jobs, shows, cmd>>
tables == <<res, rel>>

\* of: which command; at: the file it is at, -1 between its fetch and its
\* mapping, 0 when it does not run; read: the tables as its statement sees
\* them, while it runs; sole: since it mapped or started, no other command
\* mapped, and none had a statement under way that sees older tables; job: the one
\* it is about to map.
Idle == [of |-> NULL, at |-> 0, job |-> 0, read |-> NULL, sole |-> TRUE, ended |-> "never"]

\* A command that died, or raised before its refresh.
Failed == [Idle EXCEPT !.ended = "failed"]
---------------------------------------------------------------------------------
(***************************************************************************)
(* One file.                                                               *)
(***************************************************************************)
\* A mutant of files: os.listdir, which promises no order.
unsorted == CHOOSE s \in [1 .. Cardinality(Type) -> Type] :
              \A i, j \in DOMAIN s : i < j => Number[s[i]] > Number[s[j]]

\* files.sort()
files == CHOOSE s \in [1 .. Cardinality(Type) -> Type] :
           \A i, j \in DOMAIN s : i < j => Number[s[i]] < Number[s[j]]

Targets(rl, r, c) == {x.to : x \in {y \in rl : y.rel = c.rel /\ y.from = r /\ TypeOf[y.to] = c.to}}

\* The LEFT JOIN of a column.
Target(rl, r, c) ==
  LET found == Targets(rl, r, c)
  IN IF found = {} \/ (c.counted /\ Cardinality(found) # 1)
     THEN NULL ELSE CHOOSE t \in found : TRUE

Row(rs, rl, r) == [doc |-> rs[r], fk |-> [c \in ColumnsOf(TypeOf[r]) |-> Target(rl, r, c)]]

\* A mutant of Upsert: ON CONFLICT DO NOTHING.
InsertOnly(v, rs, rl, t) ==
  [r \in Resource |-> IF TypeOf[r] = t /\ rs[r] # NULL /\ v[r] = NULL THEN Row(rs, rl, r) ELSE v[r]]

\* INSERT ... ON CONFLICT (_id) DO UPDATE
Upsert(v, rs, rl, t) ==
  [r \in Resource |-> IF TypeOf[r] = t /\ rs[r] # NULL THEN Row(rs, rl, r) ELSE v[r]]

\* INSERT into the join tables of the type, ON CONFLICT DO UPDATE or DO NOTHING.
NewPairs(rl, t) ==
  {x \in rl : \E j \in JoinTable :
     j.of = t /\ x.rel = j.rel /\ TypeOf[x.from] = j.of /\ TypeOf[x.to] = j.to}

\* The statements of a file raise when a resource comes up twice, "ON CONFLICT
\* DO UPDATE command cannot affect row a second time", or when the resource
\* (among those that exist) or a row they refer to is gone, or not there yet.
Fails(v, rs, rl, t, existing) ==
  \/ \E r \in Resource : TypeOf[r] = t /\ rs[r] # NULL /\ existing[r] = NULL
  \/ \E r \in Resource, c \in ColumnsOf(t) :
       /\ TypeOf[r] = t /\ rs[r] # NULL
       /\ \/ ~c.counted /\ Cardinality(Targets(rl, r, c)) > 1
          \/ Target(rl, r, c) # NULL /\ Upsert(v, rs, rl, t)[Target(rl, r, c)] = NULL
  \/ \E x \in NewPairs(rl, t) : \E r \in {x.from, x.to} : Upsert(v, rs, rl, t)[r] = NULL

(***************************************************************************)
(* The cascades of a deleted resource: its row and its pairs go, the       *)
(* columns of other rows that refer to it become NULL.                     *)
(***************************************************************************)
SetNull(fk, rs) ==
  [c \in DOMAIN fk |-> IF fk[c] = NULL \/ rs[fk[c]] = NULL THEN NULL ELSE fk[c]]

\* A mutant of CascadeRows: the columns keep what they refer to.
KeepColumns(v, rs) == [r \in Resource |-> IF rs[r] = NULL THEN NULL ELSE v[r]]

CascadeRows(v, rs) ==
  [r \in Resource |-> IF rs[r] = NULL \/ v[r] = NULL THEN NULL
                      ELSE [doc |-> v[r].doc, fk |-> SetNull(v[r].fk, rs)]]

CascadePairs(j, rs) == {x \in j : rs[x.from] # NULL /\ rs[x.to] # NULL}
---------------------------------------------------------------------------------
(***************************************************************************)
(* What a mapping makes of a job, which asks AWS again each time.          *)
(***************************************************************************)
Live(rs, rl) == {x \in rl : rs[x.from] # NULL /\ rs[x.to] # NULL}

Fetched(w) == [world |-> w, mapped |-> FALSE, uris |-> {},
               asked |-> [doc |-> NoDocuments, part |-> [r \in Resource |-> {}]]]

\* The base row that is applied to a resource: an image that AWS answered, or one
\* that was fetched, unless it is mapped already.
Given(job, a, r) ==
  IF a.doc[r] # NULL THEN a.doc[r] ELSE IF job.mapped THEN NULL ELSE job.world.doc[r]

Applied(job, a) ==
  [world |-> job.world, mapped |-> TRUE,
   uris  |-> job.uris \cup {r \in Resource : Given(job, a, r) # NULL},
   asked |-> [doc  |-> [r \in Resource |-> IF a.doc[r] # NULL THEN a.doc[r] ELSE job.asked.doc[r]],
              part |-> [r \in Resource |-> job.asked.part[r] \cup ({a.part[r]} \ {NULL})]]]

\* Resources without one are left as they are if the job has a mapped_uri row for
\* them, and deleted otherwise.
Base(job, a, r) ==
  IF Given(job, a, r) = NULL /\ r \in job.uris /\ res[r] # NULL
  THEN res[r].doc ELSE Given(job, a, r)

\* Those of partial sources are never marked: all that the job has of a resource
\* are applied at each mapping, in any order, and the last one stays.
Parts(job, r) == (job.asked.part[r] \cup {job.world.part[r]}) \ {NULL}
Lasts(job) ==
  LET some == {r \in Resource : Parts(job, r) # {}}
  IN {last \in [some -> Doc] : \A r \in some : last[r] \in Parts(job, r)}

Built(job, a, last) ==
  [r \in Resource |-> IF Base(job, a, r) = NULL THEN NULL
                      ELSE [doc |-> Base(job, a, r),
                            part |-> IF r \in DOMAIN last THEN last[r] ELSE NULL]]

\* What a mapping may leave: the job, the resources, and its relations between those
\* that are there.
Mapping(job, a, last) == [job |-> Applied(job, a), res |-> Built(job, a, last),
                          rel |-> Live(Built(job, a, last), job.world.rel)]
Mappings(job) ==
  UNION {{Mapping(job, a, last) : last \in Lasts(Applied(job, a))} : a \in Answer}

Shown(j) == IF jobs[j].mapped /\ shows \notin {0, j} THEN NULL ELSE j

Tables(rs, rl) == /\ res' = rs /\ rel' = rl
                  /\ view' = CascadeRows(view, rs) /\ join' = CascadePairs(join, rs)

\* No statement of another command sees other tables than these.
Alone(c, rs, rl) ==
  \A d \in Command \ {c} : cmd[d].read \in {NULL, [res |-> rs, rel |-> rl]}

\* A commit of mapped rows: no other command's refresh is of these tables.
Others(c) == [d \in Command |-> IF d = c THEN cmd[d] ELSE [cmd[d] EXCEPT !.sole = FALSE]]

Init ==
  /\ res = [r \in Resource |-> NULL] /\ rel = {}
  /\ view = [r \in Resource |-> NULL] /\ join = {}
  /\ jobs = <<>> /\ shows = 0
  /\ cmd = [c \in Command |-> Idle]

(***************************************************************************)
(* account aws import: the fetch is committed, the mapping is committed,   *)
(* then every file is.                                                     *)
(***************************************************************************)
Fetch(c, w) ==
  /\ cmd[c].at = 0 /\ Len(jobs) < MaxJobs
  /\ jobs' = Append(jobs, Fetched(w))
  /\ cmd' = [cmd EXCEPT ![c] = [Idle EXCEPT !.of = "import", !.at = -1, !.job = Len(jobs')]]
  /\ UNCHANGED <<tables, view, join, shows>>

Map(c) ==
  /\ cmd[c].at = -1
  /\ \E m \in Mappings(jobs[cmd[c].job]) :
       /\ Tables(m.res, m.rel)
       /\ jobs' = [jobs EXCEPT ![cmd[c].job] = m.job]
  /\ shows' = Shown(cmd[c].job)
  /\ cmd' = [Others(c) EXCEPT ![c].at = 1, ![c].job = 0, ![c].sole = Alone(c, res', rel')]

\* An exception before the relations that the job no longer holds are deleted:
\* the handler marks the job failed and commits the session.
MapRaises(c) ==
  /\ cmd[c].at = -1
  /\ \E m \in Mappings(jobs[cmd[c].job]) :
       /\ Tables(m.res, Live(m.res, rel) \cup m.rel)
       /\ jobs' = [jobs EXCEPT ![cmd[c].job] = m.job]
  /\ shows' = NULL
  /\ cmd' = [Others(c) EXCEPT ![c] = Failed]

\* The call to AWS raises, as for an image that is gone: only the base rows are
\* applied, over what the tables have.  What was answered before it does not count,
\* the next mapping asks for it again.
AwsRaises(c) ==
  LET job == jobs[cmd[c].job]
      rs == [r \in Resource |->
               IF job.mapped \/ job.world.doc[r] = NULL THEN res[r]
               ELSE [doc |-> job.world.doc[r], part |-> IF res[r] = NULL THEN NULL ELSE res[r].part]]
  IN /\ cmd[c].at = -1
     /\ Tables(rs, rel)
     /\ jobs' = [jobs EXCEPT ![cmd[c].job] = Applied(job, [doc |-> NoDocuments, part |-> NoDocuments])]
     /\ shows' = NULL
     /\ cmd' = [Others(c) EXCEPT ![c] = Failed]

(***************************************************************************)
(* refresh_views, a transaction for each file.                             *)
(***************************************************************************)
\* A mutant of Forward: one file too many.
Overrun(c, i, cs) ==
  IF i <= Len(files) THEN [cs EXCEPT ![c].at = i + 1]
                     ELSE [cs EXCEPT ![c].at = 0, ![c].ended = "done"]

Forward(c, i, cs) ==
  IF i < Len(files) THEN [cs EXCEPT ![c].at = i + 1]
                    ELSE [cs EXCEPT ![c].at = 0, ![c].ended = "done"]

ReadFile(c) ==
  /\ cmd[c].at > 0 /\ cmd[c].read = NULL
  /\ cmd' = [cmd EXCEPT ![c].read = [res |-> res, rel |-> rel]]
  /\ UNCHANGED <<tables, view, join, jobs, shows>>

WriteFile(c) ==
  LET t == files[cmd[c].at]
      seen == cmd[c].read
  IN /\ seen # NULL /\ ~Fails(view, seen.res, seen.rel, t, res)
     /\ view' = Upsert(view, seen.res, seen.rel, t)
     /\ join' = join \cup NewPairs(seen.rel, t)
     /\ cmd' = Forward(c, cmd[c].at, [cmd EXCEPT ![c].read = NULL])
     /\ UNCHANGED <<tables, jobs, shows>>

RefreshRaises(c) ==
  LET seen == cmd[c].read
  IN /\ seen # NULL /\ Fails(view, seen.res, seen.rel, files[cmd[c].at], res)
     /\ cmd' = [cmd EXCEPT ![c].at = 0, ![c].read = NULL, ![c].ended = "raised"]
     /\ UNCHANGED <<tables, view, join, jobs, shows>>

(***************************************************************************)
(* import --debug, remap, debug reset, debug reinstall-views, remove.  The *)
(* first three hand their uncommitted session to refresh_views, whose      *)
(* first file commits it, --dry-run or not.                                *)
(***************************************************************************)
WithFirstFile(c, of, rs, rl) ==
  LET t == files[1]
      v == CascadeRows(view, rs)
  IN /\ ~Fails(v, rs, rl, t, rs)
     /\ res' = rs /\ rel' = rl
     /\ view' = Upsert(v, rs, rl, t) /\ join' = CascadePairs(join, rs) \cup NewPairs(rl, t)
     /\ cmd' = Forward(c, 1, [Others(c) EXCEPT ![c] = [Idle EXCEPT !.of = of, !.sole = Alone(c, rs, rl)]])

\* Job, fetch and mapping in the one session of run_single_session; the job is
\* never marked as complete.
Debug(c, w) ==
  /\ cmd[c].at = 0 /\ Len(jobs) < MaxJobs
  /\ \E m \in Mappings(Fetched(w)) :
       /\ WithFirstFile(c, "import", m.res, m.rel)
       /\ jobs' = Append(jobs, m.job)
  /\ shows' = Len(jobs')

Remap(c, j) ==
  /\ cmd[c].at = 0
  /\ \E m \in Mappings(jobs[j]) :
       /\ WithFirstFile(c, "remap", m.res, m.rel)
       /\ jobs' = [jobs EXCEPT ![j] = m.job]
  /\ shows' = Shown(j)

\* Nothing of the session is committed when their mapping raises, or its call to AWS.
SessionRaises(c) ==
  /\ cmd[c].at = 0
  /\ cmd' = [cmd EXCEPT ![c] = Failed]
  /\ UNCHANGED <<tables, view, join, jobs, shows>>

\* A mutant of Reset: raw_import keeps its mapped rows.
ResetStaysMapped(c) ==
  /\ cmd[c].at = 0
  /\ WithFirstFile(c, "reset", [r \in Resource |-> NULL], {})
  /\ jobs' = [j \in DOMAIN jobs |-> [Fetched(jobs[j].world) EXCEPT !.mapped = jobs[j].mapped]]
  /\ shows' = 0

\* The raw rows of phase 1 go, those that were fetched are as before the mapping.
Reset(c) ==
  /\ cmd[c].at = 0
  /\ WithFirstFile(c, "reset", [r \in Resource |-> NULL], {})
  /\ jobs' = [j \in DOMAIN jobs |-> Fetched(jobs[j].world)]
  /\ shows' = 0

Reinstall(c) ==
  /\ cmd[c].at = 0
  /\ cmd' = [cmd EXCEPT ![c] = [Idle EXCEPT !.of = "reinstall", !.at = 1, !.sole = Alone(c, res, rel)]]
  /\ UNCHANGED <<tables, view, join, jobs, shows>>

\* delete_account asks provider_credential for a column that it does not have:
\* PostgreSQL raises, and rolls back what was deleted before.
Remove(c) ==
  /\ cmd[c].at = 0
  /\ cmd' = [cmd EXCEPT ![c] = [Idle EXCEPT !.of = "remove", !.ended = "raised"]]
  /\ UNCHANGED <<tables, view, join, jobs, shows>>

Kill(c) ==
  /\ cmd[c].at # 0
  /\ cmd' = [cmd EXCEPT ![c] = Failed]
  /\ UNCHANGED <<tables, view, join, jobs, shows>>

Next == \E c \in Command :
  \/ \E w \in World : Fetch(c, w) \/ Debug(c, w)
  \/ Map(c)
  \/ MapRaises(c)
  \/ AwsRaises(c)
  \/ SessionRaises(c)
  \/ ReadFile(c)
  \/ WriteFile(c)
  \/ RefreshRaises(c)
  \/ \E j \in DOMAIN jobs : Remap(c, j)
  \/ Reset(c)
  \/ Reinstall(c)
  \/ Remove(c)
  \/ Kill(c)

Spec == Init /\ [][Next]_vars
=================================================================================
