# Introspector in TLA+

Introspector takes a snapshot of an AWS account and stores it in PostgreSQL: resources, their attributes and
relations, and the deltas from the previous snapshot. From these it refreshes provider tables, which its queries and its
CIS benchmark read. This directory holds TLA+ models of that pipeline, from the calls of a fetch to the verdicts of
the benchmark, the TLC configurations that check them on small instances, and TLAPS proofs of what holds on every
instance.

The promise everything else is measured against is README.md:14 of the repository: "Your database is updated to match
the status of your infrastructure, and observed deltas from the previous snapshot are logged."

    tlc -config MCCore.cfg MCCore.tla          # model-check a run (see "Runs")
    tlapm MapImport_proofs.tla                 # check the proofs of a module

## 1. The system

An import is one command, `introspector account aws import`. Its life:

1. `build_aws_import_job` asks AWS who is calling, finds or creates the provider and the credential, reads the
   organization graph and stores an `import_job` row (committed).
2. `run_parallel_session` starts one worker per service and region in a process pool. Each opens a session of its own,
   lists what its service holds, writes `raw_import` rows and commits. A worker that raises commits nothing.
3. If any worker raised, the job is marked failed. Otherwise `map_import` turns raw rows into resources in **one
   transaction** of the command's session: base rows, the account root, adjunct data (public images, logs policies),
   partial documents, base rows again, then three delete passes around the relations.
4. Commit, then `refresh_views` (a commit per SQL file), then the job is marked complete and committed.

| component | state | operations | interacts with |
|---|---|---|---|
| import command (`cli/account/aws.py`) | `import_job` row | import, remap, remove, list | all below |
| provider registry (`aws/__init__.py`) | `provider_account`, `provider_credential` | get or create, require credential | STS, Organizations, operator's confirmation |
| organization graph (`aws/__init__.py`, `aws/organizations.py`) | `import_job.configuration` | build, walk, account paths | Organizations API |
| fetch (`aws/svc.py`, `aws/importer.py`, 35 service modules) | `raw_import` rows | one import function per service and region; gates of `-s` | process pool, client proxies |
| client proxies (`aws/fetch.py`) | pagination, one retry | list, get | botocore |
| mapping (`aws/map.py`, `delta/*.py`) | `resource`, `resource_raw`, `resource_attribute`, `resource_relation`, `mapped_uri`, `raw_import.mapped` | apply and delete passes | transform engine, the session |
| delta log (`delta/attrs.py`, the passes) | the four `*_delta` tables | add, update, delete rows | written inside the mapping |
| transform engine (`mapper.py`, `aws/mapper_fns.py`) | none: a function of the document | attributes, relations, uris | transform YAML |
| adjunct fetches (`aws/ec2_adjunct.py`, `aws/logs.py`, `aws/iam.py`) | read the tables, write `raw_import` rows | images of instances, logs policies, credential report, account root | AWS, in the middle of the mapping |
| provider tables (`bootstrap_db.py`, `queries/`) | a table per resource type, join tables for relations | upsert by the numbered files of `queries/`, a commit each; cascades of the foreign keys | `resource`, `resource_relation` |
| sessions (`bootstrap_db.py`) | role and `provider_account_id` of a session | import session, read-only session, scoped session | PostgreSQL, row level security |
| account maintenance (`account.py`, `cli/debug.py`) | every table | reset, remove, remap, reinstall-views, dry run | PostgreSQL |
| CIS benchmark (`tools/cis`) | none | a query per check, PASS, FAIL or INFO for each | the provider tables, through the scoped session |
| reports, queries, status, tags, launcher | none of their own | read only | the tables |

### What is hard here, and what makes it correct

* **Partial failure.** An exception inside the mapping is caught and the *same session* is committed, so a half-done
  mapping becomes visible (`Integrity`, `DeltaBalance`, `ImplementsInventory`). A database error instead leaves the
  session unusable and the handler's commit raises too: the job stays open for ever (section 6).
* **Missing is not empty.** Deletes are everything that was *not* fetched; whatever keeps a fetch from seeing a
  resource (a failed worker, a denied list call, a gate of `-s`, a nested gate, a public image) must not look like its
  absence (`NoFalseDelete`, `FullImportConverges`, `MirrorsFetch`, `NothingLost`).
* **Scopes.** `-s` gates the fetch by resource *name* and the deletes by `provider_type`; relations, roots, images and
  policies are added outside the gated fetch (`OutOfScopeUntouched`, `NoFalseRelationDelete`).
* **Order.** The adjunct data are read from the tables between two mappings of base rows, partial documents need their
  resource, relations need both ends, deletes come last (`FullImportConverges`).
* **Sharing.** All accounts of an organization share one provider; a resource belongs to the path that stored it first
  (`DeletesStayInAccount`).
* **Many calls for one row.** A function of iam lists names and gets them one by one while AWS changes, throttles and
  refuses (`RowsHonest`, `NothingLost`), and two of its loops wait for AWS (`FetchEnds`). Policies got one by one may be
  of different moments (`RowsOfOneMoment` is violated).
* **Concurrency.** Workers commit in any order while AWS changes; two commands on one provider map in two
  transactions at READ COMMITTED (`OneResourcePerUri`, `NoDangling`, `DocumentsStaySingle`, `MappingEnds`), and
  two commands may look for a provider or credential before either has committed it (`OneProviderPerName`,
  `OneCredentialPerAccount`).
* **Tables built from tables.** `refresh_views` only inserts and updates, commits after every file, and a statement may
  write what it read before another command committed. What is gone leaves by foreign keys alone (`ViewsRefer`,
  `RefreshMirrors`, `RefreshesWhatItMapped`; `JoinsMirror` is violated). `remap` and `reset` hand it uncommitted work,
  and a remap asks AWS again for what the mapping added to the fetch (`RemapRestores`).
* **A tree read while it changes.** The organization is listed unit by unit (`WalkCoversOrganization`,
  `JobImportsItsCaller`).
* **SQL that decides.** A check passes when its query returns *no* row: a join that misses, a NULL in a comparison or a
  row of another provider turns a FAIL into a PASS (`PassIsEarned`, `FailIsReal`; `EveryVpcHasAFlowLog` is violated).
* **The log.** Replaying it over the old tables must give the new ones, and it must be empty when nothing changed
  (`DeltaBalance`, `EveryChangeLogged`, `NoChurn`).

PROJECT.json lists every hazard at its line, with the properties that cover it or why none does.

## 2. The modules

    Transforms                 what the transform YAML and the gates say, as constants with assumptions
      MapImport                one provider, imports one after the other: fetch, mapping, failures
        MapImportProps         its properties; INSTANCEs Inventory
          MCCore MCScope MCImages MCOrg           instances for TLC
          MapImport_proofs -> Mirror_proofs -> DeltaLog_proofs
    Inventory                  the abstract specification: what a reader of the database sees
    IamImport                  the fetch of one service, call by call, in the process pool
      IamImportProps -> MCIamImport
                     -> IamImport_proofs
    ParallelImports            two imports mapping at the same time, statement by statement
      MCParallel
      ParallelImports_proofs
    JobSetup                   several commands that register a provider and create their job
      MCJobSetup
      JobSetup_proofs
    Views                      the provider tables under every command that maps, refreshes or removes
      ViewsProps -> MCViews, MCRemap
                 -> Views_proofs
    Benchmark                  the CIS checks over the provider tables
      BenchmarkProps -> MCBenchmark
                     -> Benchmark_proofs

How they fit: JobSetup ends where MapImport's `StartJob` begins; IamImport takes apart MapImport's `FetchService` and
`EndFetch`, for the service with the most calls; ParallelImports takes apart its passes, where a second transaction can
come between; Views takes a whole mapping as the step `Map` and goes on with the refresh; Benchmark takes a refresh as
the step `Refresh` and goes on with the reader. Each of these steps is one commit of the finer module.

### Transforms and MapImport

| TLA+ | code |
|---|---|
| `job`, `phase` | the `import_job` row; how far `import_aws_cmd` and `map_import` are |
| `cloud`, `StartJob`, `CloudDrifts` | what AWS holds, found by a new job or changed while it runs |
| `todo`, `inbox`, `FetchService`, `FetchRaises`, `EndFetch` | the pool and its `raw_import` rows |
| `ApplyBase`, `EndBase` | `map_resource_prefix` and `apply_resource`, one raw row a step, in any order; twice |
| `SynthesizeRoot` | `synthesize_account_root` |
| `FindAdjunctData`, `AdjunctRaises` | `find_adjunct_data` with `_find_missing_amis` |
| `AddLogsResourcePolicies` | `add_logs_resource_policies` |
| `ApplyPartial`, `PartialDeletes` | `map_partial_prefix`, `apply_partial`, `map_partial_deletes`, for each of `AWS_SOURCES` |
| `ResourceDeletes` | `map_resource_deletes` |
| `ApplyRelation`, `EndRelations`, `RelationDeletes` | `map_resource_relations`, `_apply_relation`, `map_relation_deletes` |
| `Commit`, `Complete` | the two commits around `refresh_views` |
| `MapRaises` | an exception anywhere in the mapping: marked failed, the session committed |
| `DbFails` | a database error, or the death of the command: rollback, the job row left open |
| `db`, `before` | the tables as the session sees them, and as a rollback restores them |
| `delta` | the job's delta rows, counted per key and kind |

Abstractions, each chosen so that the properties do not depend on it:

* A document is a *payload*: a class of JSON documents that `json_diff` does not tell apart. The transforms are
  constants: `Attrs` (document to attributes) and `Yields` (document to relations), so every theorem is for all of
  them. A relation's attribute list is one opaque value.
* `Resource.path` is the account it names: all paths of one account compare alike in the delete passes.
* The workers of one service are one step that commits all or nothing; regions are merged. A list call that answers
  with an error record is the fault `denied`: the rows of one resource name are missing.
* A delete pass is one step here, because nothing else writes within the transaction. `ParallelImports` takes the
  passes apart where something does.
* An image is looked for by the uri that `ImageOf` gives, a log group by its type: `ServicesAssumption` says that roots are
  of iam, images of ec2 and log groups of logs, as the functions that add them do.
* `_find_missing_amis` joins attribute rows; the model reads the document they come from, which `Integrity`
  (attributes follow documents) makes equal.
* The faults of an instance are the constant `Faults`. `refresh_views` is one step after the commit (Views takes it apart).

`Inventory` is what README.md:14 promises a reader: rows change only by a publication, each publication comes with a
log that says of every key whether it was added or deleted, and a job ends at most once. Readers see the tables
of the previous import until the session commits, so the mapping `Seen` is `before` until then and `db` afterwards.
`MapRaises`, `AdjunctRaises` and `Commit` are the steps that publish; everything else is a stutter or a change of the
job's outcome.

### IamImport

| TLA+ | code |
|---|---|
| `Calls` | the calls of `_import_users` ... `_import_roles` for one resource, in their order, and how each takes a missing answer |
| `list`, `get` | `ServiceProxy.list` and `get`: a result, `None`, or (list only) a record of an error |
| `Start`, `Commit` | a process of the pool runs the next function of `iam.SVC`; its session commits when the function returns |
| `ListAll`, `NextRow`, `MakeCall`, `WriteRow` | the loop of an import function, one call a step |
| `GetOne`, `GotAll` | `_fetch_inline_policies` and the policy versions: names, then one get for each |
| `Throttled`, `Raises` | three seconds and one more call; any error that no proxy maps |
| `Listing`, `NameOf`, `Change`, `Drift` | AWS, external: one item under a name; a change adds, removes or rewrites it |
| `Generate`, `GenerateFails`, `Poll` | the two loops of `_import_credential_report` |
| `PoolBreaks`, `EndFetch` | `BrokenProcessPool`; `collect_exceptions` waits for every future |
| `FinishReport` | AWS, external |

The two listings of policies (`Local`, and attached ones of AWS) are one; a facet of a resource is a set of items, at most
one under a name; the gates are `Selections`, sets of functions. Only what a selected function fetches changes, and
AWS starts with every name everywhere. One call to AWS changes what is under one name; setting a policy's default
version, which moves a flag from one version to another, changes two. `held` is a history variable: what each facet
has been since the fetch began.

A name that is rewritten between the listing and its get brings the new document. So `RowsHonest` does not say that
such a facet is one that AWS held: its names are those of one moment, and under each is a document that AWS held at some
moment of the fetch. `RowsOfOneMoment` is the stronger claim, and MCMixedPolicies refutes it.

### ParallelImports

Two commands, each in its own transaction. A pass *reads* (`ApplyBase`, `ApplyPartial`, `ApplyRelation` and the delete
loops compute the statements of their flush) and the statements *execute* later, one by one (`Execute`): in between the
other command may commit. `WaitsFor` says whose locks a statement needs (rows updated or deleted, unique keys and
referenced rows inserted), `Refused` which constraint fails or which row is gone. `Deadlock` aborts one of two
transactions that wait for each other. `Raise` is an exception in Python (half the mapping is committed), `Lost` one of
the database (everything is rolled back). The constraints are those of the migration, not of the SQLAlchemy
models, which are never used to create tables. A resource stands for its row, its base document and its attributes;
a document is one of the partial sources; deltas, scopes and the fetch are MapImport's.

What the model leaves out because a row's identity is not at stake: attribute rows have no unique key either, and
two overlapping updates of one document may leave attribute rows twice until the document changes again; two commands
that delete the same relation both log it.

### JobSetup

What happens before MapImport's `StartJob`: `Call` is `get_caller_identity`, `GetProvider`, `CreateProvider` and
`NewCredentials` are `_get_or_create_provider`, `_create_provider_and_credential` and `_require_credential`, split where
the command waits for the operator's answer or for AWS, so that other commands commit in between. `ReadRoots` and
`BuildGraph` are `_build_org_graph` and the recursive `build_graph`, one unit a step with its stack of pending paths
in `todo`; `MoveAccount` is an administrator at work meanwhile. `Save` is the commit of the job with
`account_paths_for_import`; `walk_graph` and `OrganizationRows` are what the organizations worker writes from it. `Fail` is an
exception, a refusal or a crash: nothing was committed. `moved` records which accounts moved during a command, so that
the properties can say "every account that stayed where it was".

Left out: an account that joins or leaves the organization between two calls, and changes of the units themselves
(AWS cannot move them). `ReadRoots` branches on who the caller is; the code on the answer of `list_roots`, 'auth failure'
or the roots (aws/__init__.py:230-234). They agree for credentials with the policies that README.md:178-186
requires: AWS lets the management account list roots and no other. A management account without that permission
would get the small graph.

MapImport takes from here that a job imports exactly one account of one provider (`JobImportsItsCaller`); ParallelImports,
that two accounts of one organization share a provider row (`OneProviderPerName`).

### Views

| TLA+ | code |
|---|---|
| `res`, `rel` | `resource` and `resource_relation`, committed |
| `view`, `join` | the tables that `queries/` fills, by resource; their join tables |
| `jobs`, `shows` | `import_job` with its raw rows of phase 0 (`world`) and 1 (`asked`), `raw_import.mapped` and `mapped_uri`; `shows` is a history variable |
| `Content` | the documents of a resource: its base, and one that a partial source adds |
| `Answer`, `Given`, `Applied` | what AWS answers a mapping; the base row that is applied; what the job has after it |
| `Base`, `Parts`, `Lasts`, `Built` | what stays or is deleted without a base row; the partial rows, applied in any order |
| `Mapping`, `Mappings` | `map_import`, for each answer and order |
| `files` | `files.sort()` over the numbers that begin the file names |
| `Row`, `Target`, `Upsert`, `NewPairs` | `INSERT ... SELECT ... ON CONFLICT (_id) DO UPDATE`, a `LEFT JOIN` for each foreign key, the join tables |
| `Fails` | the errors of a file: a row twice in one statement, a foreign key without its row |
| `CascadeRows`, `CascadePairs` | `ON DELETE CASCADE` and `ON DELETE SET NULL` of the migrations |
| `Fetch`, `Map`, `MapRaises` | `import`: the commit of the fetch, of the mapping, or of a mapping that raised |
| `AwsRaises` | `import`, when a call to AWS in the middle of the mapping raised |
| `ReadFile`, `WriteFile`, `RefreshRaises` | a file: what its statement sees, and what it commits, later |
| `Debug`, `Remap`, `Reset`, `Reinstall`, `Remove` | `import --debug`, `remap`, `debug reset`, `debug reinstall-views`, `remove` |
| `SessionRaises` | a command whose open session is lost by an exception in the mapping, the call to AWS included |
| `Kill` | the command dies: what is not committed is gone |

The statements of one file are taken together, with one snapshot. `Debug`, `Remap` and `Reset` pass their open session
to `refresh_views`, whose first file commits it: mapping and first file are one step. `MapRaises` fails at
one point, before the relations the job no longer holds are deleted, which leaves the most behind. `-s`, attributes and the
delta log are MapImport's, and a pass is of one account path. `sole` and `shows` record who else changed the tables, so
that the properties can say when a refresh is of the tables as they are.

**Mappings ask AWS.** Every mapping, a remap too, asks AWS anew for the root's virtual MFA, for the public images that
stored instances run and for the policies of log groups (map.py:127-159). The answers are of the time of the mapping and
not of the job, and the call may raise. Images and policies are kept as raw rows of phase 1, which `debug reset`
deletes (account.py:170-180): after it a remap brings them as AWS has them *then*. Hence `RemapRestores`
speaks of what the job fetched **and what AWS answered its mappings** since the last reset. In the model:

* A partial row is never marked as mapped. Those of several mappings are all applied again, in the order of an unsorted
  query, and the last one stays: `RemapRestores` promises one of them.
* The root is an image that is always answered, whose row is applied one call earlier. Its `mapped_uri` row has no raw row
  and survives a reset, which makes no difference: every mapping writes it again.
* An image may be asked for although its instance is gone, because the query runs before the deletes; the answers are
  therefore not tied to the instances.
* When a call raises (`AwsRaises`), what was answered before it does not count: its raw row is unmapped, and the next mapping
  asks for it again, whose answer wins.

### Benchmark

A definition named after a check class is the set of rows its query returns; `Verdict` is `Check.run` and `Info.run`.
`Start` is `provider_for_spec` and the scoped read-only session, `RunCheck` one statement, `RaiseError` the one query that
can fail (`jsonb_array_elements` of a policy whose `Statement` is one object), `Refresh` a file of another command's
`refresh_views`. Row level security (`Visible`) is what keeps the queries that join without a condition on the
provider in the account.

Ages are in days, a JSON array is a set, a filter pattern is the name of what it watches for. All 49 checks that
`run()` runs are there, the last one `ReviewPeeringConnections`, which only informs. The recommendations that the
properties compare with are stated independently in BenchmarkProps, from the messages of the checks. They
stop where the code does not look: an alert's topic and its subscribers, IPv6 ranges of security groups. Two
things are excepted by name: check 1.11 (`Reliable`) and columns that are NULL (`Evidence`), see section 6.

`Columns` gives the types of those columns and json fields that a query compares with a constant, as the migrations of
`provider/aws` declare them; `Fits` is a row of a table and a provider. The tables are otherwise constants (`Initially`,
`Variants`), so that the theorems are about any contents.

## 3. Runs

| run | configuration | what it asks |
|---|---|---|
| core | MCCore.cfg | one account, four resources, faults `raised`, `mapping`, `database`, `crash`: all of soundness, log, convergence, refinement, termination |
| scope | MCScope.cfg | imports with eight different `-s` values, mixed, nested resources, private and public images: nothing AWS still holds is deleted, nothing out of scope touched |
| org | MCOrg.cfg | two accounts sharing a managed policy, faults `mapping`, `denied`, `drift` |
| iam_fetch | MCIamImport.cfg | the fetch of iam while AWS changes, throttles, refuses and fails: rows are honest, nothing is lost, the fetch ends |
| parallel | MCParallel.cfg | two overlapping imports of two accounts that share two policies |
| setup | MCJobSetup.cfg | two operators set up imports of different accounts of a registered organization; accounts move |
| views | MCViews.cfg | every command that maps or refreshes, two at once, killed between any two files, with AWS asked again by each mapping |
| benchmark | MCBenchmark.cfg | every check on an account that follows all recommendations, and on each single way of falling short |
| retired_image | MCRetiredImage.cfg | *violated*: a deregistered public image that a stored instance ran makes every later import fail |
| denied | MCDenied.cfg | *violated*: a denied list call deletes what it could not see |
| flow_logs | MCFlowLogs.cfg | *violated*: one flow log on a subnet makes check 2.9 print PASS whatever the VPCs have |
| stale_joins | MCStaleJoins.cfg | *violated*: a relation that is gone between two resources that are not stays in its join table |

Five more configurations are kept for the divergences of section 6 that they show; TLC finds each violated:

    tlc -config MCUnmarked.cfg MCCore.tla         # FailureIsRecorded: a job that a database error leaves open
    tlc -config MCHelpScope.cfg MCImages.tla      # ScopedImportConverges: -s ec2=Images never removes an image
    tlc -config MCOverlap.cfg MCParallel.tla      # DocumentsStaySingle: overlapping imports of one account
    tlc -config MCExternalId.cfg MCJobSetup.tla   # OneProviderPerName: --external-id for a known account
    tlc -config MCMixedPolicies.cfg MCIamImport.tla  # RowsOfOneMoment: policies rewritten between their gets

and one that passes, a wider instance of Views for one command: two documents of everything that is fetched or answered, a
column that counts its targets (the account), credential report rows, an empty account. 1.1 million states:

    tlc -config MCRemap.cfg MCRemap.tla           # RefreshMirrors, RemapRestores

Bounds, and why they are enough:

* *core*: one root, one policy, one user and one log group are one resource of each way a row comes to be (synthesized,
  target and parent of a relation, target of a credential report row, target of a logs policy). Four snapshots contain
  every transition of a document, a partial document and a link: appear, change, disappear, and a partial
  row whose resource is missing. Jobs repeat without bound: the log starts over with each, so the state space is finite.
* *scope*: a service with an outer and an inner gate, two services joined by a relation, `iam` for the root, and an
  instance with a private and a public image. Six snapshots contain every combination of what a running instance, a
  private and a public image can be, except a public image deregistered with its last instance, which is the run
  *retired_image*. The specifications are those whose fetch gates and types agree; for the others the properties do
  not hold (see section 6).
* *org*: two accounts, one shared resource, a user each, the policy attached in either, both or none, and drift in the
  middle of a fetch.
* *parallel*: two shared rows are what a deadlock takes, one user with a document and a relation to a shared row is
  what a dangling reference takes. Each account has two snapshots, with and without the shared rows, and they
  disagree about their documents. Deadlock cycles of three commands are out.
* *setup*: a unit inside a unit is the shortest tree on which a path matters; the management account, a member
  and an account that stands alone are the three ways to get a graph. The organization is registered and the callers are
  different: two overlapping *first* imports of one organization, or of one account, do leave two rows, because neither
  table has a unique key.
* *iam_fetch*: one resource of each kind; two names in each facet, so that a listing can lose one and keep the other, and
  two documents for one of them, so that it can be rewritten; two changes of AWS, which is what it takes for a facet to
  become a value and leave it between two calls; two processes for up to three functions; every way a function takes a
  refusal, one at a time. Functions do not share state, so sets of three with both kinds of fetch are enough. 188 thousand
  states. MCMixedPolicies is its user alone.
* *views*: an instance with a foreign key to its public image and a join table to its security group, the shape of
  `0030-aws_ec2_instance.sql`, and a log group with resource policies. AWS answers a mapping with image and policy, or refuses
  both, so that base and partial documents, a target of the column and whole resources come and go between any two
  mappings; two worlds add and remove the log group and the pair of the join table. Two jobs allow a remap of an old job
  over a new one, two commands a refresh beside another. 1.8 million states with symmetry. That fetched documents
  change as well is in MCRemap.
* *benchmark*: what can make a verdict wrong is one table at a time, with the joined tables good: each deviation is a
  variant of its table, beside the rows of another provider that falls short everywhere. `MaxChanges` is two: one
  variant before the command, and one refresh while it runs.

Fairness. `core` and `retired_image` use `WF(ImportStep)`: a running command goes on running, nothing in the code
waits for an event outside it but AWS and the database, which the code gives no other assumption about; and
`WF(StartJob)`: operators import again. `parallel` uses `SF(Step(j))`: a statement that can run again and again does,
because PostgreSQL queues waiters for a lock in order; and `WF(Deadlock(j))`: the deadlock check runs after its
timeout. No command is assumed ever to *complete*: two commands that restart at once may deadlock each other
for ever, which TLC shows when asked for `[]<>` some completion, and the code has no retry that would prevent it.
`iam_fetch` uses `WF(Step(k))` for each function and `WF(EndFetch)`: processes run on. Nothing is assumed of AWS, which is why
`FetchEnds` has two premises: the report may be read if it may be generated, and a report that somebody else asked for
gets ready. Without them the code does loop for ever (section 6). Its configuration turns the deadlock check off, because
a command that has ended is the end of the behaviour. `views` and `benchmark` state no liveness: a killed command may stop
anywhere.

Every property of every passing run has a mutant: a definition of the model changed the way a plausible bug would
change the code (the operators with a "What if" or "A mutant of" comment), with which TLC finds the property violated.

## 4. Proofs

Each theorem is about the `Spec` of a module, for every choice of the constants that satisfies the named assumptions.

**MapImport**: any accounts, services, uris, transforms, gates, specifications, snapshots and faults.

* `TypeCorrect`: `Spec => []TypeOK`.
* `AlwaysSound`: the inductive invariant `SoundInv` is `TypeOK`, `TablesSound(db)` and `TablesSound(before)`. The
  copy must be sound too because a rollback restores it; types are needed because the soundness of a deletion rests on
  `StaleResources` being a set of uris. `IntegrityHolds` follows.
* `LogAccounts`: `LogInv` is `DeltaBalance` and `EveryChangeLogged`, inductive next to `SoundInv`: an add is only logged
  right because a resource without a base document has no row and no attributes (`ResourceHasBase`), an attribute delta
  because the stored attributes follow the stored document. Each action needs one fact about `Change`: what a value
  turned into and the kinds it logs agree. `DeltaBalanceHolds` and `EveryChangeLoggedHolds` follow.
* `ImplementsInventoryHolds`: `Spec => Committed!Spec`. It needs `LogInv` (a publication's log accounts for the
  difference between `before` and `db`) and `PhaseInv` (a job is running exactly while its command is in a phase, and a
  fetch leaves the tables and the log alone); each action is then shown to publish, to change the outcome, or to stutter.
* `DeletesStayInAccountHolds`: what each action may do to a resource of another account, from `SoundInv`; a deletion
  starts from `StaleResources` and its like, which ask for the path of the job's account.
* `OutOfScopeUntouchedHolds`: inductive with what carries the scope into the mapping (`ScopeInv`): every raw row is of a
  selected service, and so is every worker still to come. Roots, images and policies are added by functions that know
  their service (`ServicesAssumption`), so the gate in front of each is enough.
* `MirrorsFetchHolds`: `MirrorInv` follows a row from the fetch to the table. A uri comes up once among the base rows
  (`RowsOnce`, with `ServicesOnce`: a service is fetched once, and `ListedRows`: an adjunct row is of an image that was not
  listed); a row that is done is stored and has its `mapped_uri` (`RowsStored`, `MappedRows`); a pass ends with no row
  left (`AllMapped`); after the delete pass no resource of account and scope is without a row (`NoneStale`).

Four more hold under conditions on the instance (end of `MapImportProps`): the first three compare the tables with AWS and
not only with the fetch, the fourth the log with the tables. MCCore, MCScope and MCOrg ASSUME the conditions that they
satisfy, so that TLC evaluates them with the runs. Where a condition is known to fail, the text names the instance; for
`PoliciesOfGroups` and `LinksAgree` none is known.

* `NoFalseRelationDeleteHolds`, for any faults: `HeldInv` (a stored document is one that the account held, at some time)
  and `RelInv` (what `linked` and `found` are about: the relations of stored documents; after the last link nothing that a
  stored document states is missing from `found`). It needs `AccountsApart` (no resource is listed by two accounts, which
  AWS's own policies are, in MCOrg) and `LinksNearParent` (whoever states a relation is in the account and the scope of
  its parent, which the users of MCOrg are not: the `MCSteadyClouds` of section 6 loses their relations).
* `NoFalseDeleteHolds`: `ListInv` says that the rows are what the account holds, that every resource whose gates are open
  has a row once the fetch is over, the public images once the adjunct pass is, and the root once it is synthesized. It
  needs `NothingMissed` (no denied list, no change during a fetch: the run *denied* is the counterexample),
  `AccountsApart`, `ImagesSteady` (false when a private image is published) and `ScopesAgree` (false for
  `-s ecs=Service` and `-s ec2=Image`).
* `FullImportConvergesHolds`: `PartialInv` does for the partial documents what `ListInv` does for the base ones. It
  needs, besides, that the log groups a policy names are log groups (`PoliciesOfGroups`).
* `NoChurnHolds`, for any faults: `ChurnInv` says that a key not yet visited is as it was with nothing logged, and a
  visited one has logged what it differs by from `before`; `RowInv` that no row comes twice. Deletions do not undo
  a change, because what is deleted was not mapped (`MirrorInv`) and what is linked stays (`RelInv`). It needs
  `OneDocumentEach` and `LinksAgree`, for a document or relation that is written twice may change there and back; both
  are true of MCCore, MCScope and MCOrg, and the first is false where two regions hold a policy for one log group.

**ParallelImports**: any finite number of commands, any accounts, snapshots and initial tables that the constraints of the
migration allow.

* `IInv` rests on what a command *sees*: the committed rows without those it deleted, with those it inserted (`Seen`).
  What every command sees is closed under references and free of clashes of a unique key (`ViewsSound`), so that each
  may commit; `LocksApart` is why a commit of one leaves it so for the others: two open transactions insert different
  keys, touch different rows, and none inserts a reference to what another has deleted. `FlowInv` gives the statements of a
  flush their types. New ids are fresh because the ids in use are finitely many.
* `OneResourcePerUriHolds` and `NoDanglingHolds` are then what `ViewsSound` says of the committed rows; `TypeCorrect` too.
* `DocumentsStaySingleHolds` needs `DocumentsApart`: commands that overlap list the documents of different resources.
  Then what `apply_partial` looks for is in its own view or nowhere (`SingleInv`). MCParallel satisfies it; MCOverlap,
  two imports of one account, does not, and there the property is violated: `resource_raw` has no unique key.

**JobSetup**: any accounts, any finite organization whose units are a tree, any commands.

* `WalkCoversOrganizationHolds`: `Walk` is the loop invariant of `build_graph`. A path that was read has the paths of the
  units below it beside it, and exactly those accounts that live there and did not move; no path is found twice, and
  moves change only accounts that are then excused. When none is left to read every unit has its path, by the
  induction on the tree that `OrganizationAssumption` states.
* `JobImportsItsCallerHolds` is the same walk for the caller, or the small graph that an account other than the
  management account gets.
* `OneProviderPerNameHolds` and `OneCredentialPerAccountHolds`: `RegInv` says what a command that is about to create a row
  knows to be absent. No unique key protects it, so it needs `CommandsApart`: different callers, one organization shared
  only when its provider exists, and no external id. MCJobSetup satisfies it, MCExternalId does not.

**IamImport**: any resources, kinds, items, gates, refusals, pool size and number of changes.

* `RowsHonestHolds`: `IamInv` says that the row in the making is honest up to its next call; that the names still to get and
  those of the items already got are together the names of one listing that AWS answered with; and that each item got
  was held. A missing name raises, so the names never drift apart from that listing, though what is under them may be
  rewritten; facets are distinct because they are keys of one dict.
* `NothingLostHolds`: `KeptInv` says where a resource can be that was there all the time: not listed yet, in `todo`, in
  work with its facets so far, or written. Commit needs the first three empty, and `EndFetch` every worker committed.
* `TypeCorrect`: no more functions run than the pool has processes, the report is asked for three times and polled twenty
  times at most, and a row in work has the facets of its kind.

**Views**: any types, columns, files, worlds, commands and number of jobs.

* `ViewsReferHolds`: `ViewsInv` is `ViewsRefer` with the types of the tables it rests on. The cascades keep it when a
  mapping removes resources; a file keeps it although its statement saw older tables, because the foreign keys are
  checked against the rows that exist when it writes (`Fails`).
* `RemapRestoresHolds`: `RestoreInv` says that the tables are those of the job shown, that its rows are flagged as mapped,
  that a mapped job knows the uris of what it fetched and of what it was answered, and that a job not mapped has been
  answered nothing. A reset makes every job one that is not mapped.
* `RefreshMirrorsHolds`: while a command stands alone, its statement reads the tables as they are, and the types of the
  files it has passed are covered (`CmdCovers`); later files leave the tables of earlier ones alone.
* `RefreshesWhatItMappedHolds` needs `OneTargetFetched` (no fetched document has two targets in a column that takes any).
  A file then finds the rows it refers to, because their files come first and are covered.

**Benchmark**: any providers, any tables whose columns have the declared types, any number of refreshes.

* `InvHolds`: `BenchmarkInv` says that the rows are of their tables and that what is printed, as long as no table was
  refreshed meanwhile, is what the tables say.
* `PassIsEarnedHolds`, without a further condition: for each check, no row of its query means that the recommendation
  is followed. This is where a join could hide what falls short.
* `FailIsRealHolds` needs `KeysHold`: bucket uris are unique, and the log group and metrics of a metric filter are listed.
  The check of the trail's bucket joins by uri, and a filter whose log group is missing counts for nothing although the
  alert exists. MCBenchmark satisfies it.

Assumptions, on the constants only (the modules name them; TLC evaluates them in every run that extends the module):

* MapImport: `None` is no document, value, account or uri; specifications map services to names; uris, documents and
  relations have the service, type, gates, attributes, links and ends that the constants say; roots are of iam, images of
  ec2, log groups of logs; images and roots yield no relations, an image runs no image, and a root is no instance
  (`KindsAssumption`); a snapshot contains the root of every account, and no root is a public image; its credential report
  is of users of iam; `Faults` are fault kinds.
* ParallelImports: finitely many commands; the initial tables keep the constraints of the migration.
* JobSetup: the units are finitely many, and a tree below their root; no unit is an account.
* IamImport: a listing is of at least one item, and the calls for a resource have different facets.
* Views: worlds and answers have documents and relations of the resources; every file has a number of its own and comes after the files of
  the tables that it refers to (`FilesAssumption`). Of the 426 `REFERENCES` in `migrations/provider/aws/` one does not fit,
  from `aws_ec2_networkinterface` to `aws_ec2_vpcendpoint` (0095), a column that no file of `queries/` fills.
* Benchmark: the tables have the columns that `Columns` types; NULL is no number, Boolean, verdict or provider.

Only model-checked: liveness (`ImportEnds`, `MappingEnds`, `FetchEnds`), which is beyond the prover. Every other property
of a passing run has a theorem; those named above with a condition have it under that condition, and TLC checks
the property besides on instances of the run.

## 5. Plan

| step | module | content |
|---|---|---|
| done | Transforms, MapImport, Inventory | the core: one import after the other, with failures; checked and proved |
| done | ParallelImports, JobSetup | what surrounds it: overlapping imports, provider and job creation; checked and proved |
| done | IamImport | a fetch call by call: proxies, retries, the credential report, the pool; checked and proved |
| done | Views | refresh_views, remap, reset, remove, reinstall-views, --debug and the commits they share; checked and proved |
| done | Benchmark | the CIS checks, in their scoped session; checked and proved |
| 1 | ScopeCatalog | per service module: its gates, its types and their nesting, as one table; which `-s` values are safe. Its instance takes the place of MCScope, with the real catalogue instead of one service of each shape |
| 2 | MapImport | the attributes of a relation one by one, with their deltas |
| 3 | MapperFns | attribute diffs, policy normalisation, relation specifications as operators against reference definitions |

Theorems to come: the refinement of MapImport's `FetchService` by IamImport, and of a refresh's reader by Views; and
narrower conditions, since `AccountsApart` excludes every organization whose accounts list AWS's own policies, although only
those policies make it false.

The order follows what a wrong import costs: scopes decide what is deleted, the deltas of relation attributes only what
a report says, and the operators of MapperFns are constants everywhere else.

## 6. Where the code and its words part

The *violated* runs above each have a finding in PROJECT.json. Further ones met while modelling, first those that have a
configuration:

* After a database error in the mapping the handler's own commit raises, and the job has neither end date nor error
  details, although models/import_job.py:51 gives a failed job both (`MCUnmarked.cfg`).
* `-s ec2=Images`, the example in the command's own help, gates the fetch by `Images` and the deletes by the type `Image`:
  no image is ever removed (`MCHelpScope.cfg`).
* Two overlapping imports of *one* account store two partial documents for one resource and source; no unique key
  forbids it (`MCOverlap.cfg`).
* `--external-id` for an account imported before makes a second provider of the same name (`MCExternalId.cfg`).
* `-s ecs=Service` (`MCNestedSpecs`): services are listed inside the gate `Cluster`, so nothing is fetched, and
  every service is deleted. The same shape: `Listener` in elbv2, `Nodegroup` in eks, `FunctionVersion` and `Alias` in
  lambda, `Task` in ecs.
* A private image that its owner publishes (`MCPublishedImage`) is no longer listed, but comes in by the adjunct pass as
  long as an instance runs it, and is deleted otherwise although it is still the account's own.
* The AWS-managed policy both accounts list (`MCSteadyClouds`): each import deletes the relations of the policy to the
  other account's users when the policy is on its path, and the next import of the other account adds them again.
* Two regions whose resource policies name one log group (`MCRegionalPolicies`): both rows are written as the same source of
  the same resource, so every import logs a change.

Sessions, maintenance and provider tables:

* `account aws remove` ("Remove an AWS account"): `_delete_provider_account` deletes from `provider_credential` where
  `provider_id` (account.py:144); the column is `provider_account_id`, so the command always fails, and is rolled back.
* `--dry-run` of `remap` and of `import --debug`: `refresh_views` commits the session. The job of `import --debug` is never
  marked complete.
* A remap of an old job deletes the resources of newer ones without restoring documents (`RemapRestores` excepts it): raw
  rows that are mapped are not applied again.
* When a file of `queries/` raises after the mapping was committed, `mark_complete` has nothing to run in: the transaction
  is aborted. A failed mapping can leave two targets for one column, on which the next `reinstall-views` raises
  (`RefreshesWhatItMapped`).
* `debug reset` keeps `mapped_uri` rows whose `raw_import_id` is NULL, and prints the row count of the statement before as
  the number of resources (account.py:106).

* What a mapping asked AWS for is not the job's: a remap brings the images, policies and root MFA of its own time beside
  documents of the import's, and fails when AWS does not answer, although its help is "Remap a specific import".

The fetch of iam:

* Inline policies are listed and got one by one: rewritten in between, the stored list has documents of different moments
  (iam.py:212-220, `MCMixedPolicies.cfg`). Policy versions have the same loop, but only
  their default flag can change.
* Credentials that may generate the credential report but not get it: `get` answers `None`, which neither ends the
  polling loop nor counts (iam.py:92-94 with fetch.py:137-140). The loop runs hot for ever.
* `INPROGRESS` from `generate_credential_report` asks again without a count or a pause (iam.py:68-71).
* A refused listing of inline policies stores an empty `PolicyList`; refused attachments and tags of a role store nothing
  (iam.py:206-212, 236-238). In the tables they look like a resource without policies (`Unseen` excepts them). The same
  refusal for a user raises `KeyError` and fails the fetch.

The CIS tool:

* Check 1.11 fails the password policies that expire sooner than in 90 days and passes those that expire later
  (aws_foundation.py:450).
* Nine checks compare columns that are NULL where the import was refused or the resource lacks the thing: no row, and
  PASS on no evidence (`Evidence` lists them).
* A bucket policy whose `Statement` is one object, which IAM allows, makes the query of check 2.3 raise (aws_foundation.py:895) and
  mapper_fns.py:92 likewise.
* The help of `status` and `tags` says that a provider type or the default `all` is accepted; `provider_for_spec` takes a name.

## 7. Not modelled

* *Transform engine* (`mapper.py`, `mapper_fns.py`, `uri.py`): interprets YAML over documents and keeps no state. It is a
  constant of Transforms, so the theorems hold whatever it computes; evaluating a real document is data of a size
  that no property here tells apart.
* *Service modules other than iam*: what their calls answer is a snapshot of MapImport. They have iam's shape, one list and
  some calls for each resource, in fewer steps.
* *Delta report*: adds up delta rows, whose balance with the tables `DeltaBalance` states, and prints them.
* *query, status, tags*: read-only statements and their output.
* *Migrations runner, roles, launcher*: SQL run once by dbmate, and a Go program that starts containers. The constraints
  and the row level security that the migrations create are in ParallelImports, Views and Benchmark.
* Hazards without a property, with the reason in PROJECT.json. Some the code falls to, and a configuration or an instance
  of section 6 shows it: the job left open by a database error (cli/account/aws.py:121), nested gates (aws/ecs.py:77),
  policies of several regions (aws/logs.py:111), two imports of one account (delta/partial.py:58), a report that raises
  (aws_foundation.py:895) and the polling loop without an end (iam.py:94), which is a premise of `FetchEnds`. Others are
  excluded by a premise: overlapping first imports (aws/__init__.py:116) and a refresh in the middle of a report
  (aws_foundation.py:60). Two need transforms that change between imports: attributes that only the YAML changed
  (delta/attrs.py:28) and a keyword that the relation delta's constructor does not have (delta/resource.py:236).
