-------------------------------- MODULE JobSetup --------------------------------
(***************************************************************************)
(* How an import job comes to be, before anything is fetched               *)
(* (aws/__init__.py): the command finds or creates the provider of the     *)
(* caller's organization and the caller's credential, reads the tree of    *)
(* the organization while accounts may move in it, and commits the job     *)
(* with the accounts it will import.  Several commands may do this at the  *)
(* same time, each in a transaction that the others do not see.            *)
(***************************************************************************)
EXTENDS Naturals, FiniteSets, Sequences, SequencesExt

CONSTANTS
  None,
  Command,       \* the import commands that may run at the same time
  CallerOf,      \* command -> the accounts whose identity it may use
  ExternalId,    \* the values given with --external-id, None when not given
  Acct,          \* AWS accounts
  Organization,  \* the id of the organization
  Member,        \* its accounts; every other account stands alone
  Management,    \* its management account
  Unit,          \* its root and its organizational units
  Root,
  ParentUnit,    \* unit other than the root -> its parent
  Registered     \* the management account has been imported before

VARIABLES
  home,          \* member -> its unit in AWS
  providers,     \* committed provider_account rows
  credentials,   \* committed provider_credential rows
  phase,         \* command -> what it does next
  call,          \* command -> caller and external id
  provider,      \* command -> the provider of its job
  added,         \* command -> rows of its open transaction
  todo,          \* command -> paths of units that build_graph has yet to read
  graph,         \* command -> aws_graph of its job
  paths,         \* command -> account_paths_for_import of its job
  moved          \* command -> members that moved in AWS since it was called

vars == <<home, providers, credentials, phase, call, provider, added, todo, graph,
          paths, moved>>

ASSUME SetupAssumption ==
  /\ CallerOf \in [Command -> SUBSET Acct]
  /\ Member \subseteq Acct /\ Management \in Member
  /\ Root \in Unit /\ ParentUnit \in [Unit \ {Root} -> Unit]
  /\ None \notin Acct \cup Command /\ Registered \in BOOLEAN

\* The units of an organization are a tree below its root: what holds the root
\* and, with a unit, those under it, holds them all.  A unit is not an account.
ASSUME OrganizationAssumption ==
  /\ IsFiniteSet(Unit) /\ Unit \cap Acct = {}
  /\ \A S \in SUBSET Unit :
       Root \in S /\ (\A u \in Unit \ {Root} : ParentUnit[u] \in S => u \in S) => S = Unit

OrgDummy(a) == <<"OrgDummy", a>>

\* describe_organization: its id, or one made up for an account that stands alone.
org_id(a) == IF a \in Member THEN Organization ELSE OrgDummy(a)
MasterAccount(a) == IF a \in Member THEN Management ELSE a

NoRows == [providers |-> {}, credentials |-> {}]
NoGraph == [accounts |-> {}, organizational_units |-> {}]

FirstProvider == [n |-> 0, name |-> Organization, external |-> None]
FirstCredential == [by |-> None, provider |-> 0, scope |-> Management]

Init ==
  /\ home \in [Member -> Unit]
  /\ providers = IF Registered THEN {FirstProvider} ELSE {}
  /\ credentials = IF Registered THEN {FirstCredential} ELSE {}
  /\ phase = [c \in Command |-> "idle"]
  /\ call = [c \in Command |-> [caller |-> None, external |-> None]]
  /\ provider = [c \in Command |-> None] /\ added = [c \in Command |-> NoRows]
  /\ todo = [c \in Command |-> <<>>] /\ graph = [c \in Command |-> NoGraph]
  /\ paths = [c \in Command |-> {}] /\ moved = [c \in Command |-> {}]
---------------------------------------------------------------------------------
(***************************************************************************)
(* The registry.                                                           *)
(***************************************************************************)
caller(c) == call[c].caller

\* get_caller_identity.
Call(c) ==
  /\ phase[c] \in {"idle", "import"}
  /\ \E a \in CallerOf[c], e \in ExternalId :
       call' = [call EXCEPT ![c] = [caller |-> a, external |-> e]]
  /\ phase' = [phase EXCEPT ![c] = "lookup"]
  /\ provider' = [provider EXCEPT ![c] = None]
  /\ graph' = [graph EXCEPT ![c] = NoGraph] /\ paths' = [paths EXCEPT ![c] = {}]
  /\ moved' = [moved EXCEPT ![c] = {}]
  /\ UNCHANGED <<home, providers, credentials, added, todo>>

\* What if an exception left the rows for the next command of the process?
AbandonUnclosed(c) ==
  /\ phase' = [phase EXCEPT ![c] = "idle"]
  /\ todo' = [todo EXCEPT ![c] = <<>>]
  /\ UNCHANGED <<home, providers, credentials, call, provider, added, graph, paths, moved>>

\* An exception ends the command, and with it the transaction.
Abandon(c) ==
  /\ phase' = [phase EXCEPT ![c] = "idle"]
  /\ added' = [added EXCEPT ![c] = NoRows] /\ todo' = [todo EXCEPT ![c] = <<>>]
  /\ UNCHANGED <<home, providers, credentials, call, provider, graph, paths, moved>>

\* What if the provider were looked for by its account?
KnownByAccount(c) == {p \in providers : p.name = OrgDummy(caller(c))}

\* account_query.
Known(c) ==
  {p \in providers : /\ p.name = org_id(caller(c))
                     /\ call[c].external # None => p.external = call[c].external}

\* Ids come from a sequence that all transactions share.
InUse == {p.n : p \in providers \cup UNION {added[c].providers : c \in Command}}
NextId == CHOOSE n \in 0 .. Cardinality(InUse) : n \notin InUse

Credential(c, p) == [by |-> c, provider |-> p, scope |-> caller(c)]

\* What if credentials were only made with their provider, or every time?
CredentialsOfNew(c, p) == {}
CredentialsAlways(c, p) == {Credential(c, p)}

\* _require_credential: the row it adds when there is none.
NewCredentials(c, p) ==
  IF \E k \in credentials : k.provider = p /\ k.scope = caller(c) THEN {}
  ELSE {Credential(c, p)}

\* one_or_none() raises on more than one row, of providers or of credentials.
Ambiguous(c) ==
  \/ Cardinality(Known(c)) > 1
  \/ \E p \in Known(c) : Cardinality({k \in credentials : /\ k.provider = p.n
                                                           /\ k.scope = caller(c)}) > 1

\* _get_or_create_provider up to the question it may ask.
GetProvider(c) ==
  /\ phase[c] = "lookup"
  /\ \/ Ambiguous(c) /\ Abandon(c)
     \/ /\ ~Ambiguous(c)
        /\ IF Known(c) = {}
           THEN /\ phase' = [phase EXCEPT ![c] = "confirm"]
                /\ UNCHANGED <<provider, added>>
           ELSE LET p == (CHOOSE q \in Known(c) : TRUE).n IN
                /\ phase' = [phase EXCEPT ![c] = "roots"]
                /\ provider' = [provider EXCEPT ![c] = p]
                /\ added' = [added EXCEPT ![c].credentials = NewCredentials(c, p)]
        /\ UNCHANGED <<home, providers, credentials, call, todo, graph, paths, moved>>

\* Any call to AWS may raise, the operator may cancel, the command may die.
Fail(c) == phase[c] \notin {"idle", "import"} /\ Abandon(c)

\* _create_provider_and_credential, once the operator has said yes.
CreateProvider(c) ==
  /\ phase[c] = "confirm"
  /\ phase' = [phase EXCEPT ![c] = "roots"]
  /\ provider' = [provider EXCEPT ![c] = NextId]
  /\ added' = [added EXCEPT ![c] =
       [providers |-> {[n |-> NextId, name |-> org_id(caller(c)),
                        external |-> call[c].external]},
        credentials |-> {Credential(c, NextId)}]]
  /\ UNCHANGED <<home, providers, credentials, call, todo, graph, paths, moved>>
---------------------------------------------------------------------------------
(***************************************************************************)
(* The organization.  Paths are sequences of unit ids; the graph holds     *)
(* pairs of a path and the account or unit found at it.                    *)
(***************************************************************************)
\* _build_dummy_org_graph and _build_sub_account_graph: one root, one account.
SmallGraph(a) == [accounts |-> {<<<<"r-dummy">>, a>>},
                  organizational_units |-> {<<<<>>, "r-dummy">>}]

\* _build_org_graph branches on list_roots' answer, which is 'auth failure' for all but
\* the management account as long as its credentials have the permissions that
\* README.md:178-186 requires.
ReadRoots(c) ==
  /\ phase[c] = "roots"
  /\ IF caller(c) = MasterAccount(caller(c)) /\ caller(c) \in Member
     THEN /\ phase' = [phase EXCEPT ![c] = "graph"]
          /\ todo' = [todo EXCEPT ![c] = <<<<Root>>>>]
          /\ graph' = [graph EXCEPT ![c].organizational_units = {<<<<>>, Root>>}]
     ELSE /\ phase' = [phase EXCEPT ![c] = "save"]
          /\ graph' = [graph EXCEPT ![c] = SmallGraph(caller(c))]
          /\ UNCHANGED todo
  /\ UNCHANGED <<home, providers, credentials, call, provider, added, paths, moved>>

Children(u) == {v \in Unit \ {Root} : ParentUnit[v] = u}

\* What if a path held only its unit?
PathForgets(path, u) == <<u>>

\* next_path.
Below(path, u) == Append(path, u)

\* build_graph of one unit: its accounts, its units, and then each of those.
BuildGraph(c) ==
  /\ phase[c] = "graph" /\ todo[c] # <<>>
  /\ LET path == Head(todo[c])
         ous == Children(Last(path))
     IN /\ graph' = [graph EXCEPT ![c] =
             [accounts |-> @.accounts \cup
                {<<path, a>> : a \in {b \in Member : home[b] = Last(path)}},
              organizational_units |-> @.organizational_units \cup {<<path, u>> : u \in ous}]]
        /\ todo' = [todo EXCEPT ![c] = SetToSeq({Below(path, u) : u \in ous}) \o Tail(@)]
  /\ phase' = IF todo'[c] = <<>> THEN [phase EXCEPT ![c] = "save"] ELSE phase
  /\ UNCHANGED <<home, providers, credentials, call, provider, added, paths, moved>>

\* Administrators move accounts between units.
MoveAccount(a, u) ==
  /\ home[a] # u /\ home' = [home EXCEPT ![a] = u]
  /\ moved' = [c \in Command |-> IF phase[c] = "idle" THEN {} ELSE moved[c] \cup {a}]
  /\ UNCHANGED <<providers, credentials, phase, call, provider, added, todo, graph, paths>>

\* account_paths_for_import: where the graph has the caller, with its credential.
account_paths_for_import(c) ==
  {x \in graph[c].accounts :
     /\ x[2] = caller(c)
     /\ \E k \in credentials \cup added[c].credentials :
          k.provider = provider[c] /\ k.scope = x[2]}

\* The job row is written and everything committed; the workers can start.
Save(c) ==
  /\ phase[c] = "save" /\ phase' = [phase EXCEPT ![c] = "import"]
  /\ paths' = [paths EXCEPT ![c] = account_paths_for_import(c)]
  /\ providers' = providers \cup added[c].providers
  /\ credentials' = credentials \cup added[c].credentials
  /\ added' = [added EXCEPT ![c] = NoRows]
  /\ UNCHANGED <<home, call, provider, todo, graph, moved>>

\* walk_graph: the units, and the accounts at the paths of the units.
UnitPaths(g) == {Append(x[1], x[2]) : x \in g.organizational_units}
walk_graph(g) ==
  UnitPaths(g) \cup {Append(x[1], x[2]) : x \in {y \in g.accounts : y[1] \in UnitPaths(g)}}

\* _import_graph: what the worker of "organizations" writes, which is nothing
\* when the management account is not imported.
OrganizationRows(c) ==
  IF \E x \in paths[c] : x[2] = MasterAccount(caller(c)) THEN walk_graph(graph[c]) ELSE {}

Next ==
  \/ \E c \in Command : \/ Call(c) \/ Fail(c) \/ GetProvider(c) \/ CreateProvider(c)
                        \/ ReadRoots(c) \/ BuildGraph(c) \/ Save(c)
  \/ \E a \in Member, u \in Unit : MoveAccount(a, u)

Spec == Init /\ [][Next]_vars
---------------------------------------------------------------------------------
(***************************************************************************)
(* Properties.                                                             *)
(***************************************************************************)
Provider == [n : Nat, name : {Organization} \cup {OrgDummy(a) : a \in Acct},
             external : ExternalId \cup {None}]
CredentialRow == [by : Command \cup {None}, provider : Nat, scope : Acct]

\* The rows are those of models/provider_account.py, and nothing stays
\* uncommitted when no command is at work.
TypeOK ==
  /\ home \in [Member -> Unit]
  /\ providers \subseteq Provider /\ credentials \subseteq CredentialRow
  /\ phase \in [Command -> {"idle", "lookup", "confirm", "roots", "graph", "save", "import"}]
  /\ \A c \in Command : /\ phase[c] \in {"idle", "import"} => added[c] = NoRows
                        /\ phase[c] # "idle" => caller(c) \in Acct

\* The rows of one organization, or of one account that stands alone, never
\* become two, on which one_or_none() would raise in every later import.
OneProviderPerName == \A p, q \in providers : p.name = q.name => p = q

\* _require_credential leaves one credential per account, for the same reason.
OneCredentialPerAccount ==
  \A j, k \in credentials : j.provider = k.provider /\ j.scope = k.scope => j = k

\* The fetch that follows imports the account that called, once, whatever
\* happens to the rest of the organization while its tree is read: a job
\* without a path would map nothing and still be marked complete.
JobImportsItsCaller ==
  \A c \in Command :
    phase[c] = "import" /\ caller(c) \notin moved[c]
      => \E path \in {x[1] : x \in graph[c].accounts} : paths[c] = {<<path, caller(c)>>}

RightPath(path, a) ==
  /\ path[1] = Root /\ Last(path) = a /\ home[a] = path[Len(path) - 1]
  /\ \A i \in 2 .. Len(path) - 1 : ParentUnit[path[i]] = path[i - 1]

\* An import of the management account stores every unit, and every account
\* that stayed where it was, once and in its place: an account that the walk
\* missed would be deleted by map_resource_deletes.
WalkCoversOrganization ==
  \A c \in Command :
    phase[c] = "import" /\ caller(c) = Management /\ Management \notin moved[c] =>
      /\ Unit = {Last(x) : x \in OrganizationRows(c) \cap UnitPaths(graph[c])}
      /\ \A a \in Member \ moved[c] :
           LET found == {x \in OrganizationRows(c) : Last(x) = a} IN
           Cardinality(found) = 1 /\ \A x \in found : RightPath(x, a)

\* Commands that may run together import different accounts, those of one
\* organization only when it has its provider, and nobody gives an external id.
CommandsApart ==
  /\ ExternalId \subseteq {None}
  /\ \A c, d \in Command : c # d =>
       \A a \in CallerOf[c], b \in CallerOf[d] : a # b /\ (org_id(a) = org_id(b) => Registered)
=================================================================================
