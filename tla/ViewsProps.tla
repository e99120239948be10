------------------------------- MODULE ViewsProps --------------------------------
(***************************************************************************)
(* What the provider tables promise to the queries that read them.         *)
(***************************************************************************)
EXTENDS Views

Job == [world : World, mapped : BOOLEAN, uris : SUBSET Resource,
        asked : [doc : Documents, part : [Resource -> SUBSET Doc]]]

\* Every table and every command's record keep to their columns, and no
\* command runs a file that is not there.
TypeOK ==
  /\ res \in [Resource -> Content \cup {NULL}]
  /\ rel \in SUBSET Relations /\ join \in SUBSET Relations
  /\ view \in [Resource -> Rows \cup {NULL}]
  /\ jobs \in Seq(Job)
  /\ shows \in DOMAIN jobs \cup {0, NULL}
  /\ cmd \in [Command -> [of : {"import", "remap", "reset", "reinstall", "remove", NULL},
                          at : -1 .. Len(files), job : DOMAIN jobs \cup {0}, sole : BOOLEAN,
                          read : Snapshot \cup {NULL},
                          ended : {"never", "failed", "raised", "done"}]]

\* Every row of v is a resource's of rs, and every column of one and every pair
\* of j refers to rows.
Refer(v, rs, j) ==
  /\ \A r \in Resource : v[r] # NULL => rs[r] # NULL
  /\ \A r \in Resource : v[r] # NULL =>
       \A c \in DOMAIN v[r].fk : v[r].fk[c] # NULL => v[v[r].fk[c]] # NULL
  /\ \A x \in j : v[x.from] # NULL /\ v[x.to] # NULL

\* refresh_views never deletes, so it is the cascades alone that keep the
\* tables from naming what is gone, and a statement that saw older tables
\* must not bring it back.
ViewsRefer == Refer(view, res, join)

\* The rows and columns of a type hold what the resources and relations say.
Mirrored == /\ \A r \in Resource : view[r] = IF res[r] = NULL THEN NULL ELSE Row(res, rel, r)
            /\ \A t \in Type : NewPairs(rel, t) \subseteq join

\* README.md:14: once refresh_views has run to its end for tables that nothing
\* mapped since, every row and column is that of the resources, whatever other
\* commands, kills and failures left in the tables before and whoever else
\* refreshed them meanwhile; unless a statement of another refresh saw older
\* tables and wrote its rows over the newer ones.
RefreshMirrors ==
  \A c \in Command : cmd[c].ended = "done" /\ cmd[c].sole => Mirrored

\* A command that mapped its job to the end can refresh: the order of the
\* files fits the foreign keys, no column gets two targets, and what an earlier
\* failure committed half done is gone.  reinstall-views maps nothing, and may
\* raise on what a failed mapping left; remove always raises.
RefreshesWhatItMapped ==
  \A c \in Command : cmd[c].ended = "raised" /\ cmd[c].sole => cmd[c].of \in {"reinstall", "remove"}

\* A resource of a job: its base is the image that the last mapping with an answer
\* brought, else what the job fetched, and its part one of those that it fetched or
\* was answered.
DocOf(job, r) == IF job.asked.doc[r] = NULL THEN job.world.doc[r] ELSE job.asked.doc[r]
Restored(rs, job, r) ==
  IF DocOf(job, r) = NULL THEN rs[r] = NULL
  ELSE /\ rs[r] # NULL /\ rs[r].doc = DocOf(job, r)
       /\ IF Parts(job, r) = {} THEN rs[r].part = NULL ELSE rs[r].part \in Parts(job, r)

\* cli/account/aws.py:139 ("Remap a specific import"): the tables have what the
\* job fetched and what AWS answered its mappings, of resources, partial sources and
\* relations, after its own import, after a remap of an import that died before its
\* mapping, and, with the answers since, after a reset; except where a newer job was
\* mapped over it.
RemapRestores ==
  shows \in DOMAIN jobs => /\ \A r \in Resource : Restored(res, jobs[shows], r)
                           /\ rel = Live(res, jobs[shows].world.rel)

\* README.md:14: "Your database is updated to match the status of your
\* infrastructure", join tables included.
JoinsMirror ==
  \A c \in Command : cmd[c].ended = "done" /\ cmd[c].sole =>
    \A x \in join : x \in rel

\* No resource has two targets in a column whose query takes any of them, as
\* the fetched documents have it: one log group for a metric filter, one
\* network for a subnet.
OneTarget(rl) ==
  \A c \in Column : ~c.counted =>
    \A x \in rl : \A y \in rl :
      /\ x.rel = c.rel /\ x.from = y.from /\ TypeOf[x.from] = c.of
      /\ y.rel = c.rel /\ TypeOf[x.to] = c.to /\ TypeOf[y.to] = c.to
      => x.to = y.to

OneTargetFetched == \A w \in World : OneTarget(w.rel)
=================================================================================
