------------------------------ MODULE Mirror_proofs -------------------------------
(***************************************************************************)
(* What an import may touch, and what it leaves in the tables, for every   *)
(* account, transform, snapshot and set of faults: it stays in its account *)
(* and in its scope, the tables mirror what it fetched, and it deletes     *)
(* nothing that AWS still has and ends with what AWS has.                  *)
(***************************************************************************)
EXTENDS MapImport_proofs

(***************************************************************************)
(* The account.                                                            *)
(***************************************************************************)
OnPathOfAnother(u) == db.res[u] \notin {None, job.account}

\* The step of a job that takes nothing from what is on another account's path.
SparesOthers ==
  /\ before' = before /\ job'.account = job.account
  /\ \A u \in Uri : OnPathOfAnother(u) =>
       /\ db'.res[u] = db.res[u]
       /\ \A s \in Source : db.raw[u][s] # None => db'.raw[u][s] # None
  /\ \A r \in Rel : db.rel[r] # None /\ OnPathOfAnother(ParentOf[r]) /\ OnPathOfAnother(TargetOf[r])
                      => db'.rel[r] # None

\* A job that starts, and a rollback, find the tables as they were.
LEMMA AsBeforeStays == ASSUME db' = before' PROVE DeletesStayInAccount'
BY DEF DeletesStayInAccount

\* Every other step adds up.
LEMMA SparesStays ==
  ASSUME DeletesStayInAccount, SparesOthers
  PROVE  DeletesStayInAccount'
BY TransformsAssumption DEF DeletesStayInAccount, SparesOthers, OnPathOfAnother

\* A step that leaves the tables alone.
LEMMA SameSpares ==
  ASSUME UNCHANGED <<db, before>>, job'.account = job.account
  PROVE  SparesOthers
BY DEF SparesOthers

\* What a step that stores a document of a source for u leaves: all else.
Stores(u, s, p) ==
  /\ db'.rel = db.rel /\ db'.raw[u][s] = p
  /\ \A v \in Uri \ {u} :
       db'.res[v] = db.res[v] /\ db'.raw[v] = db.raw[v] /\ db'.attr[v] = db.attr[v]
  /\ \A t \in Source \ {s} : db'.raw[u][t] = db.raw[u][t]
  /\ db.raw[u]["base"] # None => db'.res[u] = db.res[u]

\* StoreRaw writes one document and its attributes.
LEMMA StoreRawStores ==
  ASSUME TypeOK, NEW u \in Uri, NEW s \in Source, NEW p \in Payload, StoreRaw(u, s, p)
  PROVE  Stores(u, s, p) /\ db'.res = db.res
BY DEF StoreRaw, Stores, TypeOK, Tables

\* apply_resource gives a path only to a resource that has no document.
LEMMA ApplyStores ==
  ASSUME TypeOK, NEW u \in Uri, NEW p \in Payload, apply_resource(u, p)
  PROVE  /\ Stores(u, "base", p)
         /\ db'.res[u] \in {db.res[u], job.account}
<1> "base" \in Source BY DEF Source
<1>1. CASE db.raw[u]["base"] = None
  <2>1. db' = [db EXCEPT !.res[u] = job.account, !.raw[u]["base"] = p,
                         !.attr[u]["base"] = AttrsOf(p)]
    BY <1>1 DEF apply_resource
  <2> QED BY <1>1, <2>1 DEF Stores, TypeOK, Tables
<1>2. CASE db.raw[u]["base"] # None /\ NoDiff(u, "base", p)
  BY <1>2 DEF apply_resource, NoDiff, Stores
<1>3. CASE db.raw[u]["base"] # None /\ ~NoDiff(u, "base", p)
  BY <1>3, StoreRawStores DEF apply_resource
<1> QED BY <1>1, <1>2, <1>3

\* A stored document takes nothing from anyone.
LEMMA StoresSpares ==
  ASSUME TypeOK, TablesSound(db), NEW u \in Uri, NEW s \in Source, NEW p \in Payload,
         Stores(u, s, p), UNCHANGED <<before, job>>
  PROVE  SparesOthers
<1>1. p # None BY NoneAssumption
<1>2. OnPathOfAnother(u) => db.raw[u]["base"] # None
  BY DEF TablesSound, ResourceHasBase, OnPathOfAnother
<1> QED BY <1>1, <1>2 DEF SparesOthers, Stores

\* The passes take only what is on the path of the job's account.
LEMMA PassesSpare ==
  ASSUME TypeOK, TablesSound(db),
         \/ PartialDeletes \/ ResourceDeletes \/ RelationDeletes
         \/ \E row \in inbox : ApplyPartial(row)
         \/ \E l \in Link : ApplyRelation(l)
  PROVE  SparesOthers
<1>1. CASE PartialDeletes
  <2> DEFINE s == CurrentSource
             stale == StalePartials(s)
  <2>1. db' = [db EXCEPT !.raw = Clear(db.raw, stale, s, None),
                         !.attr = Clear(db.attr, stale, s, NoAttrs)]
    BY <1>1 DEF PartialDeletes
  <2>2. \A u \in Uri : OnPathOfAnother(u) => u \notin stale
    BY DEF StalePartials, OnPathOfAnother
  <2>3. UNCHANGED <<before, job>> BY <1>1 DEF PartialDeletes
  <2> HIDE DEF s, stale
  <2> QED BY <2>1, <2>2, <2>3 DEF SparesOthers, Clear, TypeOK, Tables
<1>2. CASE ResourceDeletes
  <2>1. /\ db'.res = Drop(db.res, StaleResources, None)
        /\ db'.raw = Drop(db.raw, StaleResources, [s \in Source |-> None])
        /\ db'.rel = Drop(db.rel, CutRelations, None)
        /\ UNCHANGED <<before, job>>
    BY <1>2 DEF ResourceDeletes, TypeOK, Tables
  <2>2. \A u \in Uri : OnPathOfAnother(u) => u \notin StaleResources
    BY DEF StaleResources, OnPathOfAnother
  <2>3. \A r \in Rel : OnPathOfAnother(ParentOf[r]) /\ OnPathOfAnother(TargetOf[r]) => r \notin CutRelations
    BY <2>2, TransformsAssumption DEF CutRelations
  <2> QED BY <2>1, <2>2, <2>3 DEF SparesOthers, Drop, TypeOK, Tables
<1>3. CASE RelationDeletes
  <2>1. db' = [db EXCEPT !.rel = Drop(db.rel, StaleRelations, None)] /\ UNCHANGED <<before, job>>
    BY <1>3 DEF RelationDeletes
  <2>2. \A r \in Rel : OnPathOfAnother(ParentOf[r]) => r \notin StaleRelations
    BY DEF StaleRelations, OnPathOfAnother
  <2> QED BY <2>1, <2>2 DEF SparesOthers, Drop, TypeOK, Tables
<1>4. ASSUME NEW row \in inbox, ApplyPartial(row) PROVE SparesOthers
  <2>1. row.uri \in Uri /\ row.source \in Source /\ row.data \in Payload
    BY DEF TypeOK, Row
  <2>2. db' = db \/ StoreRaw(row.uri, row.source, row.data)
    BY <1>4 DEF ApplyPartial, apply_partial
  <2>3. UNCHANGED <<before, job>> BY <1>4 DEF ApplyPartial
  <2> QED BY <2>1, <2>2, <2>3, SameSpares, StoreRawStores, StoresSpares
<1>5. ASSUME NEW l \in Link, ApplyRelation(l) PROVE SparesOthers
  <2>1. UNCHANGED <<before, job>> /\ (db' = db \/ db' = [db EXCEPT !.rel[l.rel] = l.val])
    BY <1>5 DEF ApplyRelation
  <2>2. l.rel \in Rel /\ l.val # None BY NoneAssumption DEF Link
  <2>3. /\ db'.res = db.res /\ db'.raw = db.raw
        /\ \A r \in Rel : db.rel[r] # None => db'.rel[r] # None
    BY <2>1, <2>2 DEF TypeOK, Tables
  <2> QED BY <2>1, <2>3 DEF SparesOthers
<1> QED BY <1>1, <1>2, <1>3, <1>4, <1>5

\* Every step leaves what is on another account's path.
LEMMA StayStep == SoundInv /\ DeletesStayInAccount /\ [Next]_vars => DeletesStayInAccount'
<1> SUFFICES ASSUME SoundInv, DeletesStayInAccount, [Next]_vars PROVE DeletesStayInAccount'
  OBVIOUS
<1> USE DEF SoundInv
<1>1. CASE StartJob BY <1>1, AsBeforeStays DEF StartJob
<1>2. ASSUME NEW row \in inbox, ApplyBase(row) PROVE DeletesStayInAccount'
  <2>1. row.uri \in Uri /\ row.data \in Payload BY DEF TypeOK, Row
  <2> QED BY <1>2, <2>1, ApplyStores, StoresSpares, SparesStays DEF ApplyBase, Source
<1>3. CASE SynthesizeRoot
  <2> DEFINE root == RootOf[job.account]
  <2>1. root \in Uri /\ cloud.base[job.account][root] \in Payload
    BY <1>3, CloudsAssumption, TransformsAssumption DEF SynthesizeRoot, TypeOK, Cloud
  <2> QED BY <1>3, <2>1, ApplyStores, StoresSpares, SameSpares, SparesStays DEF SynthesizeRoot, Source
<1>4. CASE \/ PartialDeletes \/ ResourceDeletes \/ RelationDeletes
           \/ \E row \in inbox : ApplyPartial(row)
           \/ \E l \in Link : ApplyRelation(l)
  BY <1>4, PassesSpare, SparesStays
<1>5. CASE DbFails
  <2>1. CASE phase = "refresh"
    BY <1>5, <2>1, SameSpares, SparesStays DEF DbFails, End, TypeOK
  <2>2. CASE phase # "refresh"
    BY <1>5, <2>2, AsBeforeStays DEF DbFails, Rollback
  <2> QED BY <2>1, <2>2
<1>6. CASE \/ EndFetch \/ EndBase \/ FindAdjunctData \/ AdjunctRaises \/ AddLogsResourcePolicies
           \/ EndRelations \/ Commit \/ Complete \/ CloudDrifts \/ MapRaises \/ UNCHANGED vars
           \/ \E s \in Service : FetchService(s) \/ FetchRaises(s)
  <2>1. UNCHANGED <<db, before>> /\ job'.account = job.account
    BY <1>6 DEF EndFetch, EndBase, FindAdjunctData, AdjunctRaises, AddLogsResourcePolicies,
       EndRelations, Commit, Complete, CloudDrifts, MapRaises, FetchService, FetchRaises, vars,
       End, TypeOK
  <2> QED BY <2>1, SameSpares, SparesStays
<1> QED BY <1>1, <1>2, <1>3, <1>4, <1>5, <1>6 DEF Next, ImportStep, Fault

\* Accounts of one organization share a provider, and with it the tables: no
\* import removes what another account's path holds, whatever it fetched and
\* wherever it failed (the delete passes of delta/resource.py).
THEOREM DeletesStayInAccountHolds == Spec => []DeletesStayInAccount
<1>1. Init => DeletesStayInAccount BY DEF Init, DeletesStayInAccount, EmptyTables
<1>2. SoundInv /\ DeletesStayInAccount /\ [Next]_vars => DeletesStayInAccount' BY StayStep
<1> QED BY <1>1, <1>2, AlwaysSound, PTL DEF Spec
---------------------------------------------------------------------------------
(***************************************************************************)
(* The scope.                                                              *)
(***************************************************************************)
Selected(u) == service_gate(job.spec, ServiceOf[u])

\* The inductive invariant: what is fetched, or still to be, is what -s asks for.
ScopeInv ==
  /\ OutOfScopeUntouched
  /\ \A row \in inbox : Selected(row.uri)
  /\ \A s \in todo : service_gate(job.spec, s)

\* A step of a job that changes rows of what is selected alone.
KeepsToScope ==
  /\ UNCHANGED before /\ job'.spec = job.spec
  /\ \A u \in Uri : ~Selected(u) =>
       db'.res[u] = db.res[u] /\ db'.raw[u] = db.raw[u] /\ db'.attr[u] = db.attr[u]

\* Such steps add up.
LEMMA ScopeStays ==
  ASSUME ScopeInv, KeepsToScope, todo' \subseteq todo, \A row \in inbox' : Selected(row.uri)
  PROVE  ScopeInv'
BY DEF ScopeInv, KeepsToScope, OutOfScopeUntouched, Selected

\* A step that leaves the tables alone.
LEMMA SameKeepsToScope ==
  ASSUME UNCHANGED <<db, before>>, job'.spec = job.spec
  PROVE  KeepsToScope
BY DEF KeepsToScope

\* A document is stored for what is selected.
LEMMA StoresInScope ==
  ASSUME NEW u \in Uri, NEW s, NEW p, Selected(u), Stores(u, s, p), UNCHANGED <<before, job>>
  PROVE  KeepsToScope
BY DEF KeepsToScope, Stores

\* The delete passes look for the services of the specification, and relations
\* are rows of their own.
LEMMA PassesKeepToScope ==
  ASSUME TypeOK,
         \/ PartialDeletes \/ ResourceDeletes \/ RelationDeletes
         \/ \E l \in Link : ApplyRelation(l)
  PROVE  KeepsToScope /\ UNCHANGED <<inbox, todo>>
<1>1. CASE PartialDeletes
  <2> DEFINE s == CurrentSource
             stale == StalePartials(s)
  <2>1. db' = [db EXCEPT !.raw = Clear(db.raw, stale, s, None),
                         !.attr = Clear(db.attr, stale, s, NoAttrs)]
    BY <1>1 DEF PartialDeletes
  <2>2. \A u \in stale : Selected(u) BY DEF StalePartials, InScope, Selected
  <2>3. UNCHANGED <<before, job, inbox, todo>> BY <1>1 DEF PartialDeletes
  <2> HIDE DEF s, stale
  <2> QED BY <2>1, <2>2, <2>3 DEF KeepsToScope, Clear, TypeOK, Tables
<1>2. CASE ResourceDeletes
  <2>1. /\ db'.res = Drop(db.res, StaleResources, None)
        /\ db'.raw = Drop(db.raw, StaleResources, [s \in Source |-> None])
        /\ db'.attr = Drop(db.attr, StaleResources, [s \in Source |-> NoAttrs])
        /\ UNCHANGED <<before, job, inbox, todo>>
    BY <1>2 DEF ResourceDeletes, TypeOK, Tables
  <2>2. \A u \in StaleResources : Selected(u) BY DEF StaleResources, InScope, Selected
  <2> QED BY <2>1, <2>2 DEF KeepsToScope, Drop, TypeOK, Tables
<1>3. CASE RelationDeletes \/ \E l \in Link : ApplyRelation(l)
  <2>1. /\ UNCHANGED <<before, job, inbox, todo>>
        /\ db'.res = db.res /\ db'.raw = db.raw /\ db'.attr = db.attr
    BY <1>3 DEF RelationDeletes, ApplyRelation, TypeOK, Tables
  <2> QED BY <2>1 DEF KeepsToScope
<1> QED BY <1>1, <1>2, <1>3

\* Every step keeps to the scope.
LEMMA ScopeStep == SoundInv /\ ScopeInv /\ [Next]_vars => ScopeInv'
<1> SUFFICES ASSUME SoundInv, ScopeInv, [Next]_vars PROVE ScopeInv'
  OBVIOUS
<1> USE DEF SoundInv
<1>1. CASE StartJob
  <2>1. db' = before' /\ inbox' = {} BY <1>1 DEF StartJob
  <2>2. \A s \in todo' : service_gate(job'.spec, s) BY <1>1 DEF StartJob
  <2> QED BY <2>1, <2>2 DEF ScopeInv, OutOfScopeUntouched
<1>2. ASSUME NEW s \in Service, FetchService(s) PROVE ScopeInv'
  <2>1. PICK lost \in Losses : inbox' = inbox \cup BaseRows(s, lost) \cup CredentialRows(s)
    BY <1>2 DEF FetchService
  <2>2. UNCHANGED <<db, before, job>> /\ todo' \subseteq todo /\ s \in todo
    BY <1>2 DEF FetchService
  <2>3. \A row \in BaseRows(s, lost) : Selected(row.uri) BY DEF BaseRows, Fetched, Selected
  <2>4. \A row \in CredentialRows(s) : ServiceOf[row.uri] = "iam" /\ s = "iam"
    BY <1>2, CloudsAssumption DEF CredentialRows, ExtraRows, FetchService, TypeOK
  <2>5. \A row \in CredentialRows(s) : Selected(row.uri) BY <2>2, <2>4 DEF ScopeInv, Selected
  <2>6. \A row \in inbox' : Selected(row.uri) BY <2>1, <2>3, <2>5 DEF ScopeInv
  <2> QED BY <2>2, <2>6, SameKeepsToScope, ScopeStays
<1>3. ASSUME NEW row \in inbox, ApplyBase(row) PROVE ScopeInv'
  <2>1. row.uri \in Uri /\ row.data \in Payload BY DEF TypeOK, Row
  <2>2. Selected(row.uri) BY DEF ScopeInv
  <2>3. KeepsToScope BY <1>3, <2>1, <2>2, ApplyStores, StoresInScope DEF ApplyBase
  <2> QED BY <1>3, <2>3, ScopeStays DEF ApplyBase, ScopeInv
<1>4. ASSUME NEW row \in inbox, ApplyPartial(row) PROVE ScopeInv'
  <2>1. row.uri \in Uri /\ row.source \in Source /\ row.data \in Payload BY DEF TypeOK, Row
  <2>2. Selected(row.uri) BY DEF ScopeInv
  <2>3. db' = db \/ StoreRaw(row.uri, row.source, row.data)
    BY <1>4 DEF ApplyPartial, apply_partial
  <2>4. UNCHANGED <<before, job, inbox, todo>> BY <1>4 DEF ApplyPartial
  <2>5. KeepsToScope BY <2>1, <2>2, <2>3, <2>4, StoreRawStores, StoresInScope, SameKeepsToScope
  <2> QED BY <2>4, <2>5, ScopeStays DEF ScopeInv
<1>5. CASE SynthesizeRoot
  <2> DEFINE root == RootOf[job.account]
  <2>1. root \in Uri /\ cloud.base[job.account][root] \in Payload /\ job.account \in Account
    BY <1>5, CloudsAssumption, TransformsAssumption DEF SynthesizeRoot, TypeOK, Cloud
  <2>2. IamGate => Selected(root) BY <2>1, ServicesAssumption DEF IamGate, Selected
  <2>3. UNCHANGED <<before, job, inbox, todo>> BY <1>5 DEF SynthesizeRoot
  <2>4. KeepsToScope
    BY <1>5, <2>1, <2>2, <2>3, ApplyStores, StoresInScope, SameKeepsToScope DEF SynthesizeRoot
  <2> QED BY <2>3, <2>4, ScopeStays DEF ScopeInv
<1>6. CASE FindAdjunctData
  <2>1. UNCHANGED <<db, before, job, todo>> BY <1>6 DEF FindAdjunctData
  <2>2. ASSUME AdjunctGate, NEW i \in MissingAmis PROVE Selected(i)
    <3>1. PICK vm \in Uri : db.res[vm] # None /\ ImageOf[db.raw[vm]["base"]] = i
      BY DEF MissingAmis
    <3>2. db.raw[vm]["base"] \in Payload
      BY <3>1 DEF TablesSound, ResourceHasBase, TypeOK, Tables, Source
    <3>3. i \in Uri BY DEF MissingAmis
    <3> QED BY <2>2, <3>1, <3>2, <3>3, ServicesAssumption DEF AdjunctGate, Selected
  <2>3. \A row \in inbox' : Selected(row.uri)
    BY <1>6, <2>2 DEF FindAdjunctData, ScopeInv
  <2> QED BY <2>1, <2>3, SameKeepsToScope, ScopeStays
<1>7. CASE AddLogsResourcePolicies
  <2>1. UNCHANGED <<db, before, job, todo>> BY <1>7 DEF AddLogsResourcePolicies
  <2>2. \A row \in inbox' : Selected(row.uri)
    BY <1>7, ServicesAssumption, CloudsAssumption
    DEF AddLogsResourcePolicies, LogsGate, ScopeInv, Selected, ExtraRows, TypeOK, Cloud, ExtraSource
  <2> QED BY <2>1, <2>2, SameKeepsToScope, ScopeStays
<1>8. CASE \/ PartialDeletes \/ ResourceDeletes \/ RelationDeletes
           \/ \E l \in Link : ApplyRelation(l)
  BY <1>8, PassesKeepToScope, ScopeStays DEF ScopeInv
<1>9. CASE DbFails
  <2>1. UNCHANGED <<before, inbox, todo>> /\ job'.spec = job.spec BY <1>9 DEF DbFails, End, TypeOK
  <2>2. db' = db \/ db' = before' BY <1>9 DEF DbFails, Rollback
  <2> QED BY <2>1, <2>2 DEF ScopeInv, OutOfScopeUntouched, Selected
<1>10. CASE \/ EndFetch \/ EndBase \/ AdjunctRaises \/ EndRelations \/ Commit \/ Complete
            \/ CloudDrifts \/ MapRaises \/ UNCHANGED vars \/ \E s \in Service : FetchRaises(s)
  <2>1. UNCHANGED <<db, before, inbox>> /\ job'.spec = job.spec /\ todo' \subseteq todo
    BY <1>10 DEF EndFetch, EndBase, AdjunctRaises, EndRelations, Commit, Complete, CloudDrifts,
       MapRaises, FetchRaises, vars, End, TypeOK
  <2> QED BY <2>1, SameKeepsToScope, ScopeStays DEF ScopeInv
<1> QED BY <1>1, <1>2, <1>3, <1>4, <1>5, <1>6, <1>7, <1>8, <1>9, <1>10 DEF Next, ImportStep, Fault

\* An import with -s leaves the rows of every service that it was not asked for:
\* what it adds outside the fetch asks the gates too, and the delete passes ask
\* for the services (aws/map.py, aws/ec2_adjunct.py, aws/logs.py).
THEOREM OutOfScopeUntouchedHolds == Spec => []OutOfScopeUntouched
<1>1. Init => ScopeInv BY DEF Init, ScopeInv, OutOfScopeUntouched
<1>2. SoundInv /\ ScopeInv /\ [Next]_vars => ScopeInv' BY ScopeStep
<1>3. ScopeInv => OutOfScopeUntouched BY DEF ScopeInv
<1> QED BY <1>1, <1>2, <1>3, AlwaysSound, PTL DEF Spec
---------------------------------------------------------------------------------
(***************************************************************************)
(* The fetch.                                                              *)
(***************************************************************************)
BaseRow == {row \in inbox : row.source = "base"}
Working == phase # "idle" \/ job.status = "complete"
Swept == phase \in {"relations", "reldeletes", "commit", "refresh"} \/ job.status = "complete"

\* No uri is fetched twice: its service is done, or the image had no row.
RowsOnce == \A x, y \in BaseRow : x.uri = y.uri => x = y
ServicesOnce == phase = "fetch" => \A x \in BaseRow : ServiceOf[x.uri] \notin todo

\* Before the adjunct fetch there are no rows of roots and public images.
ListedRows == phase \in {"fetch", "base", "root", "adjunct"} =>
                \A x \in BaseRow : x.uri \notin Roots /\ x.data \notin Public

\* A row that is mapped is stored; its resource counts as mapped, and so does no
\* other but the root.
RowsStored == Working => \A x \in BaseRow \cap done :
                db.raw[x.uri]["base"] = x.data /\ <<"base", x.uri>> \in mapped
MappedRows == Working => \A u \in Uri : <<"base", u>> \in mapped =>
                u \in Roots \/ \E x \in BaseRow : x.uri = u

\* A pass over the rows ends with none left, the deletes with nothing unmapped.
AllMapped == phase \in {"root", "adjunct", "deletes"} \/ Swept => BaseRow \subseteq done
NoneStale == Swept => \A u \in Uri : db.res[u] = job.account /\ InScope(job.spec, u) =>
                <<"base", u>> \in mapped

\* The inductive invariant.
MirrorInv ==
  /\ phase # "idle" => job.status = "running"
  /\ done \subseteq inbox
  /\ RowsOnce /\ ServicesOnce /\ ListedRows
  /\ RowsStored /\ MappedRows /\ AllMapped /\ NoneStale

Early(p) == p \in {"fetch", "base", "root", "adjunct"}
Through == phase \in {"root", "adjunct", "deletes"} \/ Swept

\* Steps that leave the rows, and what is stored of them, alone, and go on only to
\* a phase that promises no more.
LEMMA SameMirror ==
  ASSUME MirrorInv, TypeOK, UNCHANGED inbox, todo' \subseteq todo,
         done' \subseteq inbox, BaseRow \cap done' = BaseRow \cap done,
         \A u : <<"base", u>> \in mapped' <=> <<"base", u>> \in mapped,
         phase' = "fetch" => phase = "fetch", Early(phase') => Early(phase),
         Working' => Working, Through' => Through, Swept' => Swept,
         phase' # "idle" => job'.status = "running",
         Working' => /\ job'.account = job.account /\ job'.spec = job.spec /\ db'.res = db.res
                     /\ \A x \in BaseRow : db'.raw[x.uri]["base"] = db.raw[x.uri]["base"]
  PROVE  MirrorInv'
<1>1. BaseRow' = BaseRow BY DEF BaseRow
<1>2. RowsOnce' BY <1>1 DEF MirrorInv, RowsOnce
<1>3. ServicesOnce' BY <1>1 DEF MirrorInv, ServicesOnce
<1>4. ListedRows' BY <1>1 DEF MirrorInv, ListedRows, Early
<1>5. RowsStored' BY <1>1 DEF MirrorInv, RowsStored
<1>6. MappedRows' BY <1>1 DEF MirrorInv, MappedRows
<1>7. AllMapped' BY <1>1 DEF MirrorInv, AllMapped, Through
<1>8. NoneStale'
  <2>1. Swept' => Working' BY DEF Swept, Working
  <2> QED BY <2>1 DEF MirrorInv, NoneStale, InScope
<1> QED BY <1>2, <1>3, <1>4, <1>5, <1>6, <1>7, <1>8 DEF MirrorInv

\* A document of another source, or of a resource that no row is of, changes nothing
\* that a row says; one of a row that is mapped is the row's.
LEMMA StoreMirrors ==
  ASSUME MirrorInv, TypeOK, NEW u \in Uri, NEW p, Stores(u, "base", p),
         ~Swept, phase # "idle", UNCHANGED <<inbox, todo, job>>,
         mapped' = mapped \cup {<<"base", u>>}, done' \subseteq inbox, done \subseteq done',
         \A x \in BaseRow \cap done' : IF x.uri = u THEN x.data = p ELSE x \in done,
         u \in Roots \/ \E x \in BaseRow : x.uri = u,
         phase' = phase \/ (phase = "root" /\ phase' = "adjunct")
  PROVE  MirrorInv'
<1>1. BaseRow' = BaseRow BY DEF BaseRow
<1>2. RowsOnce' BY <1>1 DEF MirrorInv, RowsOnce
<1>3. ServicesOnce' BY <1>1 DEF MirrorInv, ServicesOnce
<1>4. ListedRows' BY <1>1 DEF MirrorInv, ListedRows
<1>5. RowsStored'
  <2> SUFFICES ASSUME NEW x \in BaseRow \cap done'
               PROVE  db'.raw[x.uri]["base"] = x.data /\ <<"base", x.uri>> \in mapped'
    BY <1>1 DEF RowsStored
  <2>1. CASE x.uri = u BY <2>1 DEF Stores
  <2>2. CASE x.uri # u
    <3>1. x \in done /\ x.uri \in Uri BY <2>2 DEF TypeOK, Row, BaseRow
    <3> QED BY <2>2, <3>1 DEF Stores, MirrorInv, RowsStored, Working
  <2> QED BY <2>1, <2>2
<1>6. MappedRows'
  <2> SUFFICES ASSUME NEW v \in Uri, <<"base", v>> \in mapped'
               PROVE  v \in Roots \/ \E x \in BaseRow : x.uri = v
    BY <1>1 DEF MappedRows
  <2>1. v = u \/ <<"base", v>> \in mapped OBVIOUS
  <2> QED BY <2>1 DEF MirrorInv, MappedRows, Working
<1>7. AllMapped' /\ NoneStale'
  <2>1. ~Swept' BY DEF Swept
  <2> QED BY <1>1, <2>1 DEF MirrorInv, AllMapped, NoneStale
<1> QED BY <1>2, <1>3, <1>4, <1>5, <1>6, <1>7 DEF MirrorInv

\* Rows come from services that have none, or are images that have no row.
LEMMA RowsMirror ==
  ASSUME MirrorInv, TypeOK, TablesSound(db),
         FindAdjunctData \/ AddLogsResourcePolicies \/ \E s \in Service : FetchService(s)
  PROVE  MirrorInv'
<1> DEFINE New == {row \in inbox' : row.source = "base" /\ row \notin inbox}
<1>1. /\ inbox \subseteq inbox' /\ UNCHANGED <<done, mapped, job, db>> /\ todo' \subseteq todo
      /\ phase # "idle" /\ phase' # "idle" /\ ~Swept' /\ ~Through'
      /\ <<phase, phase'>> \in {<<"fetch", "fetch">>, <<"adjunct", "policies">>, <<"policies", "partials">>}
  BY DEF FindAdjunctData, AddLogsResourcePolicies, FetchService, Swept, Through, MirrorInv
<1>2. BaseRow' = BaseRow \cup New BY <1>1 DEF BaseRow
<1>3. /\ \A x, y \in New : x.uri = y.uri => x = y
      /\ \A x \in New, y \in BaseRow : x.uri # y.uri
      /\ phase' = "fetch" => \A x \in New : ServiceOf[x.uri] \notin todo' /\ x.uri \notin Roots /\ x.data \notin Public
  <2>1. CASE AddLogsResourcePolicies
    <3>1. New = {} BY <2>1 DEF AddLogsResourcePolicies, ExtraRows
    <3> QED BY <1>1, <2>1, <3>1 DEF AddLogsResourcePolicies
  <2>2. CASE FindAdjunctData
    <3>1. \A x \in New : x.uri \in MissingAmis /\ x.data = cloud.base[job.account][x.uri]
                         /\ x = [source |-> "base", uri |-> x.uri, data |-> x.data]
      BY <2>2 DEF FindAdjunctData
    <3>2. ASSUME NEW y \in BaseRow PROVE y.uri \notin MissingAmis
      <4>1. y \in done /\ y.data \notin Public /\ y.uri \in Uri /\ y.data \in Payload
        BY <2>2 DEF FindAdjunctData, MirrorInv, AllMapped, ListedRows, BaseRow, TypeOK, Row
      <4>2. db.raw[y.uri]["base"] = y.data
        BY <1>1, <4>1 DEF MirrorInv, RowsStored, Working
      <4>3. db.res[y.uri] # None
        BY <4>1, <4>2, NoneAssumption DEF TablesSound, ResourceHasBase
      <4> QED BY <4>1, <4>2, <4>3 DEF MissingAmis
    <3> QED BY <2>2, <3>1, <3>2 DEF FindAdjunctData
  <2>3. ASSUME NEW s \in Service, FetchService(s)
        PROVE  /\ \A x, y \in New : x.uri = y.uri => x = y
               /\ \A x \in New, y \in BaseRow : x.uri # y.uri
               /\ \A x \in New : ServiceOf[x.uri] \notin todo' /\ x.uri \notin Roots /\ x.data \notin Public
    <3>1. PICK lost \in Losses : inbox' = inbox \cup BaseRows(s, lost) \cup CredentialRows(s)
      BY <2>3 DEF FetchService
    <3>2. \A x \in CredentialRows(s) : x.source # "base"
      BY DEF CredentialRows, ExtraRows
    <3>3. New \subseteq BaseRows(s, lost) BY <3>1, <3>2
    <3>4. \A x \in BaseRows(s, lost) :
            /\ x.uri \notin Roots /\ ServiceOf[x.uri] = s
            /\ x.data = cloud.base[job.account][x.uri] /\ x.data \notin Public
            /\ x = [source |-> "base", uri |-> x.uri, data |-> x.data]
      BY DEF BaseRows
    <3>5. todo' = todo \ {s} /\ s \in todo /\ phase = "fetch" BY <2>3 DEF FetchService
    <3>6. \A y \in BaseRow : ServiceOf[y.uri] # s BY <3>5 DEF MirrorInv, ServicesOnce
    <3> HIDE DEF New
    <3> QED BY <3>3, <3>4, <3>5, <3>6
  <2> QED BY <2>1, <2>2, <2>3
<1> HIDE DEF New
<1>4. RowsOnce' BY <1>2, <1>3 DEF MirrorInv, RowsOnce
<1>5. ServicesOnce' BY <1>1, <1>2, <1>3 DEF MirrorInv, ServicesOnce
<1>6. ListedRows' BY <1>1, <1>2, <1>3 DEF MirrorInv, ListedRows
<1>7. BaseRow' \cap done' = BaseRow \cap done BY <1>1, <1>2 DEF MirrorInv, BaseRow
<1>8. Working /\ Working' BY <1>1 DEF Working
<1>9. RowsStored' BY <1>1, <1>7, <1>8 DEF MirrorInv, RowsStored
<1>10. MappedRows' BY <1>1, <1>2, <1>8 DEF MirrorInv, MappedRows
<1>11. AllMapped' /\ NoneStale' BY <1>1 DEF AllMapped, NoneStale, Through
<1> QED BY <1>1, <1>4, <1>5, <1>6, <1>9, <1>10, <1>11 DEF MirrorInv

\* A pass of the delete passes leaves what is mapped, and map_resource_deletes
\* nothing else in scope.
LEMMA DeletesMirror ==
  ASSUME MirrorInv, TypeOK, ResourceDeletes
  PROVE  MirrorInv'
<1>1. /\ db'.res = Drop(db.res, StaleResources, None)
      /\ db'.raw = Drop(db.raw, StaleResources, [s \in Source |-> None])
      /\ UNCHANGED <<inbox, done, mapped, job, todo>> /\ phase = "deletes" /\ phase' = "relations"
  BY DEF ResourceDeletes, TypeOK, Tables
<1>2. BaseRow' = BaseRow BY <1>1 DEF BaseRow
<1>3. RowsOnce' /\ ServicesOnce' /\ ListedRows'
  BY <1>1, <1>2 DEF MirrorInv, RowsOnce, ServicesOnce, ListedRows
<1>4. RowsStored'
  <2> SUFFICES ASSUME NEW x \in BaseRow \cap done
               PROVE  db'.raw[x.uri]["base"] = x.data /\ <<"base", x.uri>> \in mapped
    BY <1>1, <1>2 DEF RowsStored
  <2>1. /\ db.raw[x.uri]["base"] = x.data /\ <<"base", x.uri>> \in mapped /\ x.uri \in Uri
    BY <1>1 DEF MirrorInv, RowsStored, Working, BaseRow, TypeOK, Row
  <2>2. x.uri \notin StaleResources BY <2>1 DEF StaleResources
  <2> QED BY <1>1, <2>1, <2>2 DEF Drop, TypeOK, Tables
<1>5. MappedRows' BY <1>1, <1>2 DEF MirrorInv, MappedRows, Working
<1>6. AllMapped' BY <1>1, <1>2 DEF MirrorInv, AllMapped
<1>7. NoneStale'
  <2> SUFFICES ASSUME NEW u \in Uri, db'.res[u] = job.account, InScope(job.spec, u)
               PROVE  <<"base", u>> \in mapped
    BY <1>1 DEF NoneStale, InScope
  <2>1. u \notin StaleResources /\ db.res[u] = job.account
    BY <1>1, NoneAssumption DEF Drop, TypeOK, Tables
  <2> QED BY <2>1 DEF StaleResources
<1> QED BY <1>1, <1>3, <1>4, <1>5, <1>6, <1>7 DEF MirrorInv

\* Every step keeps the invariant.
LEMMA MirrorStep == SoundInv /\ MirrorInv /\ [Next]_vars => MirrorInv'
<1> SUFFICES ASSUME SoundInv, MirrorInv, [Next]_vars PROVE MirrorInv'
  OBVIOUS
<1> USE DEF SoundInv
<1>1. CASE StartJob
  <2>1. /\ inbox' = {} /\ done' = {} /\ mapped' = {} /\ phase' = "fetch" /\ job'.status = "running"
    BY <1>1 DEF StartJob
  <2>2. BaseRow' = {} BY <2>1 DEF BaseRow
  <2> QED BY <2>1, <2>2 DEF MirrorInv, RowsOnce, ServicesOnce, ListedRows, RowsStored, MappedRows,
                            AllMapped, NoneStale, Swept
<1>2. CASE FindAdjunctData \/ AddLogsResourcePolicies \/ \E s \in Service : FetchService(s)
  BY <1>2, RowsMirror
<1>3. ASSUME NEW row \in inbox, ApplyBase(row) PROVE MirrorInv'
  <2>1. /\ row.uri \in Uri /\ row.data \in Payload /\ row \in BaseRow
        /\ phase \in {"base", "rebase"} /\ done' = done \cup {row}
        /\ UNCHANGED <<inbox, todo, job, phase>> /\ mapped' = mapped \cup {<<"base", row.uri>>}
    BY <1>3 DEF ApplyBase, PendingBase, BaseRow, TypeOK, Row
  <2>2. Stores(row.uri, "base", row.data) BY <1>3, <2>1, ApplyStores DEF ApplyBase
  <2>3. \A x \in BaseRow : x.uri = row.uri => x = row BY <2>1 DEF MirrorInv, RowsOnce
  <2>4. ~Swept /\ done' \subseteq inbox BY <2>1 DEF Swept, MirrorInv
  <2>5. \A x \in BaseRow \cap done' : IF x.uri = row.uri THEN x.data = row.data ELSE x \in done
    BY <2>1, <2>3
  <2>6. \E x \in BaseRow : x.uri = row.uri BY <2>1
  <2> QED BY <2>1, <2>2, <2>4, <2>5, <2>6, StoreMirrors
<1>4. CASE SynthesizeRoot
  <2> DEFINE root == RootOf[job.account]
  <2>1. root \in Uri /\ cloud.base[job.account][root] \in Payload /\ root \in Roots
    BY <1>4, CloudsAssumption, TransformsAssumption DEF SynthesizeRoot, TypeOK, Cloud, Roots
  <2>2. /\ phase = "root" /\ phase' = "adjunct" /\ UNCHANGED <<inbox, todo, job, done>> /\ ~Swept
    BY <1>4 DEF SynthesizeRoot, Swept, MirrorInv
  <2>3. CASE IamGate
    <3>1. Stores(root, "base", cloud.base[job.account][root]) /\ mapped' = mapped \cup {<<"base", root>>}
      BY <1>4, <2>1, <2>3, ApplyStores DEF SynthesizeRoot
    <3>2. \A x \in BaseRow : x.uri # root BY <2>1, <2>2 DEF MirrorInv, ListedRows
    <3>3. done' \subseteq inbox /\ done \subseteq done' BY <2>2 DEF MirrorInv
    <3> QED BY <2>1, <2>2, <3>1, <3>2, <3>3, StoreMirrors
  <2>4. CASE ~IamGate
    <3>1. UNCHANGED <<mapped, db>> BY <1>4, <2>4 DEF SynthesizeRoot
    <3> QED BY <2>2, <3>1, SameMirror DEF Early, Working, Through, Swept, MirrorInv
  <2> QED BY <2>3, <2>4
<1>5. ASSUME NEW row \in inbox, ApplyPartial(row) PROVE MirrorInv'
  <2>1. /\ row.uri \in Uri /\ row.source \in Source /\ row.data \in Payload /\ row.source # "base"
        /\ phase = "partials" /\ done' = done \cup {row} /\ UNCHANGED <<inbox, todo, job, phase>>
    BY <1>5, CurrentSourceType DEF ApplyPartial, PendingPartial, TypeOK, Row, ExtraSource
  <2>2. db' = db \/ StoreRaw(row.uri, row.source, row.data)
    BY <1>5 DEF ApplyPartial, apply_partial
  <2>3. db'.res = db.res /\ \A u \in Uri : db'.raw[u]["base"] = db.raw[u]["base"]
    <3>1. CASE db' = db BY <3>1
    <3>2. CASE StoreRaw(row.uri, row.source, row.data)
      <4>1. Stores(row.uri, row.source, row.data) /\ db'.res = db.res
        BY <2>1, <3>2, StoreRawStores
      <4>2. "base" \in Source \ {row.source} BY <2>1 DEF Source
      <4> QED BY <4>1, <4>2 DEF Stores
    <3> QED BY <2>2, <3>1, <3>2
  <2>4. mapped' = mapped \/ mapped' = mapped \cup {<<row.source, row.uri>>}
    BY <1>5 DEF ApplyPartial
  <2>5. \A u : <<"base", u>> \in mapped' <=> <<"base", u>> \in mapped BY <2>1, <2>4
  <2>6. done' \subseteq inbox /\ BaseRow \cap done' = BaseRow \cap done BY <2>1 DEF MirrorInv, BaseRow
  <2>7. \A x \in BaseRow : db'.raw[x.uri]["base"] = db.raw[x.uri]["base"]
    BY <2>3 DEF BaseRow, TypeOK, Row
  <2> QED BY <2>1, <2>3, <2>5, <2>6, <2>7, SameMirror DEF Working, Through, Swept, MirrorInv
<1>6. CASE PartialDeletes
  <2> DEFINE s == CurrentSource
             stale == StalePartials(s)
  <2>1. s \in Source /\ s # "base"
    BY <1>6, CurrentSourceType DEF PartialDeletes, ExtraSource
  <2>2. db' = [db EXCEPT !.raw = Clear(db.raw, stale, s, None),
                         !.attr = Clear(db.attr, stale, s, NoAttrs)]
    BY <1>6 DEF PartialDeletes
  <2>3. /\ UNCHANGED <<inbox, todo, job, done, mapped>>
        /\ phase = "partials" /\ phase' \in {"partials", "rebase"}
    BY <1>6 DEF PartialDeletes
  <2> HIDE DEF s, stale
  <2>4. db'.res = db.res /\ \A u \in Uri : db'.raw[u]["base"] = db.raw[u]["base"]
    BY <2>1, <2>2 DEF Clear, TypeOK, Tables, Source
  <2>5. \A x \in BaseRow : db'.raw[x.uri]["base"] = db.raw[x.uri]["base"]
    BY <2>4 DEF BaseRow, TypeOK, Row
  <2> QED BY <2>3, <2>4, <2>5, SameMirror DEF Early, Working, Through, Swept, MirrorInv
<1>7. CASE ResourceDeletes BY <1>7, DeletesMirror
<1>8. CASE RelationDeletes \/ EndRelations \/ Commit \/ Complete \/ \E l \in Link : ApplyRelation(l)
  <2>1. /\ UNCHANGED <<inbox, todo, done, mapped>> /\ Swept
        /\ <<phase, phase'>> \in {<<"relations", "relations">>, <<"relations", "reldeletes">>,
              <<"reldeletes", "commit">>, <<"commit", "refresh">>, <<"refresh", "idle">>}
        /\ phase' # "idle" => job' = job
        /\ job'.account = job.account /\ job'.spec = job.spec
    BY <1>8 DEF RelationDeletes, EndRelations, Commit, Complete, ApplyRelation, End, Swept, TypeOK
  <2>2. db'.res = db.res /\ db'.raw = db.raw
    BY <1>8 DEF RelationDeletes, EndRelations, Commit, Complete, ApplyRelation, TypeOK, Tables
  <2> QED BY <2>1, <2>2, SameMirror DEF Early, Working, Through, Swept, MirrorInv
<1>9. CASE EndBase
  <2>1. /\ UNCHANGED <<inbox, todo, job, done, mapped, db>> /\ BaseRow \subseteq done
        /\ <<phase, phase'>> \in {<<"base", "root">>, <<"rebase", "deletes">>}
    BY <1>9 DEF EndBase, PendingBase, BaseRow
  <2>2. BaseRow' = BaseRow BY <2>1 DEF BaseRow
  <2>3. ~Swept' BY <2>1 DEF Swept, MirrorInv
  <2> QED BY <2>1, <2>2, <2>3 DEF MirrorInv, RowsOnce, ServicesOnce, ListedRows, RowsStored,
       MappedRows, AllMapped, NoneStale, Working
<1>10. CASE \/ EndFetch \/ AdjunctRaises \/ CloudDrifts \/ MapRaises \/ DbFails
            \/ UNCHANGED vars \/ \E s \in Service : FetchRaises(s)
  <2>1. UNCHANGED <<inbox, done, mapped>> /\ todo' \subseteq todo
    BY <1>10 DEF EndFetch, AdjunctRaises, CloudDrifts, MapRaises, DbFails, FetchRaises, vars
  <2>2. \/ phase' = phase /\ UNCHANGED <<db, job>>
        \/ phase = "fetch" /\ phase' = "base" /\ UNCHANGED <<db, job>>
        \/ phase' = "idle" /\ job'.status \in {"failed", "lost"}
    BY <1>10 DEF EndFetch, AdjunctRaises, CloudDrifts, MapRaises, DbFails, FetchRaises, vars, End, TypeOK
  <2> QED BY <2>1, <2>2, SameMirror DEF Early, Working, Through, Swept, MirrorInv
<1> QED BY <1>1, <1>2, <1>3, <1>4, <1>5, <1>6, <1>7, <1>8, <1>9, <1>10 DEF Next, ImportStep, Fault

\* Whatever was denied, lost or raised before, and whatever AWS did meanwhile: an
\* import that completes has stored each document it fetched, and keeps of its
\* account and scope no resource that it did not fetch (map_import).
THEOREM MirrorsFetchHolds == Spec => []MirrorsFetch
<1>1. Init => MirrorInv
  BY DEF Init, MirrorInv, BaseRow, RowsOnce, ServicesOnce, ListedRows, RowsStored, MappedRows,
         AllMapped, NoneStale, Working, Swept
<1>2. SoundInv /\ MirrorInv /\ [Next]_vars => MirrorInv' BY MirrorStep
<1>3. MirrorInv => MirrorsFetch
  <2> SUFFICES ASSUME MirrorInv, job.status = "complete" PROVE MirrorsFetch
    BY DEF MirrorsFetch
  <2>1. Swept /\ Working BY DEF Swept, Working
  <2>2. BaseRow \subseteq done BY <2>1 DEF MirrorInv, AllMapped
  <2>3. \A x \in BaseRow : db.raw[x.uri]["base"] = x.data
    BY <2>1, <2>2 DEF MirrorInv, RowsStored
  <2>4. ASSUME NEW u \in Uri \ Roots, db.res[u] = job.account, InScope(job.spec, u)
        PROVE  \E x \in BaseRow : x.uri = u
    BY <2>1, <2>4 DEF MirrorInv, NoneStale, MappedRows
  <2> QED BY <2>3, <2>4 DEF MirrorsFetch, BaseRow
<1> QED BY <1>1, <1>2, <1>3, AlwaysSound, PTL DEF Spec
---------------------------------------------------------------------------------
(***************************************************************************)
(* What the stored documents have to do with AWS.                          *)
(***************************************************************************)
\* The account of a resource's path held it, in some snapshot, and the stored
\* document is one that some account held.
Held(t) ==
  \A u \in Uri : t.res[u] # None =>
    /\ \E c \in Clouds : c.base[t.res[u]][u] # None
    /\ \E c \in Clouds, a \in Account : c.base[a][u] = t.raw[u]["base"]

\* The rows are documents of the job's account.
HeldRows == \A x \in BaseRow : \E c \in Clouds : c.base[job.account][x.uri] = x.data

HeldInv == Held(db) /\ Held(before) /\ HeldRows

\* The passes of the partial sources leave the base documents, and what is mapped
\* of them, alone.
LEMMA PartialsKeepBase ==
  ASSUME TypeOK, PartialDeletes \/ \E row \in inbox : ApplyPartial(row)
  PROVE  /\ UNCHANGED <<cloud, job, todo, raised, inbox, linked, found, before>>
         /\ phase = "partials" /\ phase' \in {"partials", "rebase"}
         /\ db'.res = db.res /\ db'.rel = db.rel
         /\ \A u \in Uri : db'.raw[u]["base"] = db.raw[u]["base"]
         /\ \A u : <<"base", u>> \in mapped' <=> <<"base", u>> \in mapped
<1>1. ASSUME NEW row \in inbox, ApplyPartial(row)
      PROVE  /\ db'.res = db.res /\ db'.rel = db.rel
             /\ \A u \in Uri : db'.raw[u]["base"] = db.raw[u]["base"]
             /\ \A u : <<"base", u>> \in mapped' <=> <<"base", u>> \in mapped
  <2>1. /\ row.uri \in Uri /\ row.source \in Source /\ row.data \in Payload /\ row.source # "base"
    BY <1>1, CurrentSourceType DEF ApplyPartial, PendingPartial, TypeOK, Row, ExtraSource
  <2>2. db' = db \/ StoreRaw(row.uri, row.source, row.data)
    BY <1>1 DEF ApplyPartial, apply_partial
  <2>3. mapped' = mapped \/ mapped' = mapped \cup {<<row.source, row.uri>>}
    BY <1>1 DEF ApplyPartial
  <2>4. CASE StoreRaw(row.uri, row.source, row.data)
    <3>1. Stores(row.uri, row.source, row.data) /\ db'.res = db.res
      BY <2>1, <2>4, StoreRawStores
    <3>2. "base" \in Source \ {row.source} BY <2>1 DEF Source
    <3> QED BY <2>1, <2>3, <3>1, <3>2 DEF Stores
  <2> QED BY <2>1, <2>2, <2>3, <2>4
<1>2. ASSUME PartialDeletes
      PROVE  /\ db'.res = db.res /\ db'.rel = db.rel
             /\ \A u \in Uri : db'.raw[u]["base"] = db.raw[u]["base"]
  <2> DEFINE s == CurrentSource
             stale == StalePartials(s)
  <2>1. s \in Source /\ s # "base"
    BY <1>2, CurrentSourceType DEF PartialDeletes, ExtraSource
  <2>2. db' = [db EXCEPT !.raw = Clear(db.raw, stale, s, None),
                         !.attr = Clear(db.attr, stale, s, NoAttrs)]
    BY <1>2 DEF PartialDeletes
  <2> HIDE DEF s, stale
  <2> QED BY <2>1, <2>2 DEF Clear, TypeOK, Tables, Source
<1> QED BY <1>1, <1>2 DEF PartialDeletes, ApplyPartial

\* map_resource_deletes takes the stale resources, their documents and relations.
LEMMA DeletesLeave ==
  ASSUME TypeOK, ResourceDeletes
  PROVE  /\ UNCHANGED <<cloud, job, todo, raised, inbox, done, mapped, linked, found, swept, before>>
         /\ phase = "deletes" /\ phase' = "relations"
         /\ \A u \in StaleResources : db'.res[u] = None
         /\ \A u \in Uri \ StaleResources : db'.res[u] = db.res[u] /\ db'.raw[u] = db.raw[u]
         /\ \A r \in Rel : IF r \in CutRelations THEN db'.rel[r] = None ELSE db'.rel[r] = db.rel[r]
<1>1. /\ db'.res = Drop(db.res, StaleResources, None)
      /\ db'.raw = Drop(db.raw, StaleResources, [s \in Source |-> None])
      /\ db'.rel = Drop(db.rel, CutRelations, None)
  BY DEF ResourceDeletes, TypeOK, Tables
<1>2. StaleResources \subseteq Uri BY DEF StaleResources
<1>3. DOMAIN db.res = Uri /\ DOMAIN db.raw = Uri /\ DOMAIN db.rel = Rel BY DEF TypeOK, Tables
<1> QED BY <1>1, <1>2, <1>3 DEF ResourceDeletes, Drop

\* The steps after the deletes change relations alone.
LEMMA LinksKeepResources ==
  ASSUME TypeOK, RelationDeletes \/ EndRelations \/ Commit \/ Complete \/ \E l \in Link : ApplyRelation(l)
  PROVE  /\ UNCHANGED <<cloud, todo, raised, inbox, done, mapped, swept, before>>
         /\ db'.res = db.res /\ db'.raw = db.raw
         /\ <<phase, phase'>> \in {<<"relations", "relations">>, <<"relations", "reldeletes">>,
              <<"reldeletes", "commit">>, <<"commit", "refresh">>, <<"refresh", "idle">>}
         /\ phase' = "idle" => job'.status = "complete"
         /\ phase' # "idle" => job' = job
         /\ job'.account = job.account /\ job'.spec = job.spec
BY DEF RelationDeletes, EndRelations, Commit, Complete, ApplyRelation, End, TypeOK, Tables

\* The other steps but the start of a job and a rollback leave the tables and the
\* rows alone.
LEMMA QuietSteps ==
  ASSUME TypeOK, \/ EndFetch \/ EndBase \/ AdjunctRaises \/ CloudDrifts \/ MapRaises \/ DbFails
                 \/ UNCHANGED vars \/ \E s \in Service : FetchRaises(s)
  PROVE  /\ UNCHANGED <<inbox, done, mapped, linked, found, swept, before>>
         /\ job'.account = job.account /\ job'.spec = job.spec /\ todo' \subseteq todo
         /\ db' = db \/ db' = before
         /\ cloud' = cloud \/ "drift" \in Faults
         /\ \/ phase' = phase /\ UNCHANGED <<db, job>>
            \/ phase' = "idle" /\ job'.status \in {"failed", "lost"}
            \/ /\ <<phase, phase'>> \in {<<"fetch", "base">>, <<"base", "root">>, <<"rebase", "deletes">>}
               /\ UNCHANGED <<db, job>>
BY DEF EndFetch, EndBase, AdjunctRaises, CloudDrifts, MapRaises, DbFails, Rollback, FetchRaises,
       vars, End, TypeOK

\* A step that takes rows away and changes none.
LEMMA SameHeld ==
  ASSUME HeldInv, before' = before, BaseRow' \subseteq BaseRow, job'.account = job.account,
         \A u \in Uri : \/ db'.res[u] = None
                        \/ db'.res[u] = db.res[u] /\ db'.raw[u]["base"] = db.raw[u]["base"]
  PROVE  HeldInv'
BY DEF HeldInv, Held, HeldRows

\* A document of the account is stored.
LEMMA StoresHeld ==
  ASSUME HeldInv, UNCHANGED <<before, inbox, job>>, job.account \in Account,
         NEW u \in Uri, NEW p \in Payload, NEW c \in Clouds, c.base[job.account][u] = p,
         Stores(u, "base", p), db'.res[u] \in {db.res[u], job.account}
  PROVE  HeldInv'
<1>1. BaseRow' = BaseRow BY DEF BaseRow
<1>2. Held(db')
  <2> SUFFICES ASSUME NEW v \in Uri, db'.res[v] # None
               PROVE  /\ \E d \in Clouds : d.base[db'.res[v]][v] # None
                      /\ \E d \in Clouds, a \in Account : d.base[a][v] = db'.raw[v]["base"]
    BY DEF Held
  <2>1. CASE v = u
    <3>1. p # None /\ db'.raw[u]["base"] = p BY NoneAssumption DEF Stores
    <3> QED BY <2>1, <3>1 DEF HeldInv, Held
  <2>2. CASE v # u
    <3>1. db'.res[v] = db.res[v] /\ db'.raw[v] = db.raw[v] BY <2>2 DEF Stores
    <3> QED BY <3>1 DEF HeldInv, Held
  <2> QED BY <2>1, <2>2
<1> QED BY <1>1, <1>2 DEF HeldInv, HeldRows

\* Whatever is fetched and stored was in AWS.
LEMMA HeldStep == SoundInv /\ HeldInv /\ [Next]_vars => HeldInv'
<1> SUFFICES ASSUME SoundInv, HeldInv, [Next]_vars PROVE HeldInv'
  OBVIOUS
<1> USE DEF SoundInv
<1>1. CASE StartJob
  <2>1. db' = db /\ before' = db /\ inbox' = {} BY <1>1 DEF StartJob
  <2> QED BY <2>1 DEF HeldInv, HeldRows, BaseRow
<1>2. ASSUME FindAdjunctData \/ AddLogsResourcePolicies \/ \E s \in Service : FetchService(s)
      PROVE  HeldInv'
  <2>1. UNCHANGED <<db, before, job>> /\ cloud \in Clouds
    BY <1>2 DEF FindAdjunctData, AddLogsResourcePolicies, FetchService, TypeOK
  <2>2. ASSUME NEW x \in BaseRow' PROVE x \in BaseRow \/ cloud.base[job.account][x.uri] = x.data
    BY <1>2, <2>2 DEF FindAdjunctData, AddLogsResourcePolicies, FetchService, BaseRows, CredentialRows,
                      ExtraRows, BaseRow
  <2> QED BY <2>1, <2>2 DEF HeldInv, HeldRows
<1>3. ASSUME NEW row \in inbox, ApplyBase(row) PROVE HeldInv'
  <2>1. row.uri \in Uri /\ row.data \in Payload /\ row \in BaseRow
    BY <1>3 DEF ApplyBase, PendingBase, BaseRow, TypeOK, Row
  <2>2. /\ Stores(row.uri, "base", row.data) /\ db'.res[row.uri] \in {db.res[row.uri], job.account}
        /\ UNCHANGED <<before, inbox, job>> /\ job.account \in Account
    BY <1>3, <2>1, ApplyStores DEF ApplyBase, TypeOK
  <2>3. PICK c \in Clouds : c.base[job.account][row.uri] = row.data
    BY <2>1 DEF HeldInv, HeldRows
  <2> QED BY <2>1, <2>2, <2>3, StoresHeld
<1>4. CASE SynthesizeRoot
  <2> DEFINE root == RootOf[job.account]
  <2>1. /\ root \in Uri /\ cloud.base[job.account][root] \in Payload /\ cloud \in Clouds
        /\ UNCHANGED <<before, inbox, job>> /\ job.account \in Account
    BY <1>4, CloudsAssumption, TransformsAssumption DEF SynthesizeRoot, TypeOK, Cloud
  <2>2. CASE ~IamGate
    <3>1. db' = db BY <1>4, <2>2 DEF SynthesizeRoot
    <3> QED BY <2>1, <3>1, SameHeld DEF BaseRow
  <2>3. CASE IamGate
    <3>1. apply_resource(root, cloud.base[job.account][root]) BY <1>4, <2>3 DEF SynthesizeRoot
    <3>2. /\ Stores(root, "base", cloud.base[job.account][root])
          /\ db'.res[root] \in {db.res[root], job.account}
      BY <2>1, <3>1, ApplyStores
    <3> QED BY <2>1, <3>2, StoresHeld
  <2> QED BY <2>2, <2>3
<1>5. CASE PartialDeletes \/ \E row \in inbox : ApplyPartial(row)
  BY <1>5, PartialsKeepBase, SameHeld DEF BaseRow
<1>6. CASE ResourceDeletes
  <2>1. \A u \in Uri : \/ db'.res[u] = None
                       \/ db'.res[u] = db.res[u] /\ db'.raw[u]["base"] = db.raw[u]["base"]
    <3>1. \A u \in StaleResources : db'.res[u] = None BY <1>6, DeletesLeave
    <3>2. \A u \in Uri \ StaleResources : db'.res[u] = db.res[u] /\ db'.raw[u] = db.raw[u]
      BY <1>6, DeletesLeave
    <3> QED BY <3>1, <3>2
  <2> QED BY <1>6, <2>1, DeletesLeave, SameHeld DEF BaseRow
<1>7. CASE RelationDeletes \/ EndRelations \/ Commit \/ Complete \/ \E l \in Link : ApplyRelation(l)
  BY <1>7, LinksKeepResources, SameHeld DEF BaseRow
<1>8. CASE \/ EndFetch \/ EndBase \/ AdjunctRaises \/ CloudDrifts \/ MapRaises \/ DbFails
           \/ UNCHANGED vars \/ \E s \in Service : FetchRaises(s)
  <2>1. UNCHANGED <<inbox, before>> /\ job'.account = job.account /\ db' \in {db, before}
    BY <1>8, QuietSteps
  <2>2. HeldRows' BY <2>1 DEF HeldInv, HeldRows, BaseRow
  <2> QED BY <2>1, <2>2 DEF HeldInv
<1> QED BY <1>1, <1>2, <1>3, <1>4, <1>5, <1>6, <1>7, <1>8 DEF Next, ImportStep, Fault
---------------------------------------------------------------------------------
(***************************************************************************)
(* The relations.                                                          *)
(***************************************************************************)
\* The last passes: links are applied, all of them are, and what was not found is
\* removed.
Linking == phase \in {"relations", "reldeletes", "commit", "refresh"} \/ job.status = "complete"
Closing == phase \in {"reldeletes", "commit", "refresh"} \/ job.status = "complete"
Cleared == phase \in {"commit", "refresh"} \/ job.status = "complete"

Ended(r) == db.res[ParentOf[r]] # None /\ db.res[TargetOf[r]] # None
OfScope(r) == db.res[ParentOf[r]] = job.account /\ InScope(job.spec, ParentOf[r])

\* The links that the rows yield.
Links == UNION {Yields[row.uri][row.data] : row \in BaseRow}

\* Links come from the rows, relations that are found from links between stored
\* resources.
LinksOfRows == linked \subseteq Links /\ \A r \in found : \E l \in linked : l.rel = r
FoundLinks == Linking => /\ \A l \in linked : Ended(l.rel) => l.rel \in found
                         /\ \A r \in found : db.rel[r] # None
AllLinked == Closing => Links \subseteq linked

\* A relation is gone with an end of it, or because it was not found.
NoneUnfound == Cleared => \A r \in Rel : db.rel[r] # None /\ OfScope(r) => r \in found
GoneRelations == Linking => \A r \in Rel : before.rel[r] # None /\ db.rel[r] = None =>
                   ~Ended(r) \/ (r \notin found /\ OfScope(r))

\* The inductive invariant.
RelInv ==
  /\ Working /\ ~Linking => linked = {} /\ found = {} /\ db.rel = before.rel
  /\ LinksOfRows /\ FoundLinks /\ AllLinked /\ NoneUnfound /\ GoneRelations

\* Until the deletes no relation is touched.
LEMMA EarlyRel ==
  ASSUME ~Linking', Working' => linked' = {} /\ found' = {} /\ db'.rel = before'.rel, LinksOfRows'
  PROVE  RelInv'
<1>1. ~Closing' /\ ~Cleared' BY DEF Linking, Closing, Cleared
<1> QED BY <1>1 DEF RelInv, FoundLinks, AllLinked, NoneUnfound, GoneRelations

\* map_resource_deletes cuts the relations that lose an end.
LEMMA DeletesRel ==
  ASSUME SoundInv, MirrorInv, RelInv, ResourceDeletes
  PROVE  RelInv'
<1>1. TypeOK /\ phase = "deletes" /\ phase' = "relations" /\ UNCHANGED <<job, inbox, linked, found, before>>
  BY DeletesLeave DEF SoundInv
<1>2. job.status = "running" BY <1>1 DEF MirrorInv
<1>3. linked = {} /\ found = {} /\ db.rel = before.rel BY <1>1, <1>2 DEF RelInv, Working, Linking
<1>4. ASSUME NEW r \in Rel, before'.rel[r] # None, db'.rel[r] = None PROVE ~Ended(r)'
  <2>1. r \in CutRelations BY <1>1, <1>3, <1>4, DeletesLeave
  <2>2. PICK u \in {ParentOf[r], TargetOf[r]} : u \in StaleResources
    BY <2>1 DEF CutRelations
  <2>3. db'.res[u] = None BY <1>1, <2>2, DeletesLeave
  <2> QED BY <2>2, <2>3 DEF Ended
<1>5. ~Closing' /\ ~Cleared' /\ Linking' BY <1>1, <1>2 DEF Linking, Closing, Cleared
<1> QED BY <1>1, <1>3, <1>4, <1>5 DEF RelInv, LinksOfRows, FoundLinks, AllLinked, NoneUnfound, GoneRelations

\* _apply_relation, when both ends are stored.
LEMMA LinkRel ==
  ASSUME SoundInv, MirrorInv, RelInv, NEW l \in Link, ApplyRelation(l)
  PROVE  RelInv'
<1>1. /\ phase = "relations" /\ UNCHANGED <<phase, job, inbox, before>> /\ linked' = linked \cup {l}
      /\ l \in PendingLinks /\ l.rel \in Rel /\ l.val # None
  BY NoneAssumption DEF ApplyRelation, Link
<1>2. job.status = "running" BY <1>1 DEF MirrorInv
<1>3. Linking /\ Linking' /\ ~Closing' /\ ~Cleared' BY <1>1, <1>2 DEF Linking, Closing, Cleared
<1>4. BaseRow' = BaseRow /\ Links' = Links /\ l \in Links
  BY <1>1 DEF BaseRow, Links, PendingLinks
<1>5. db'.res = db.res BY LinksKeepResources DEF SoundInv
<1>6. \A r \in Rel : Ended(r)' = Ended(r) /\ OfScope(r)' = OfScope(r) BY <1>1, <1>5 DEF Ended, OfScope
<1>7. CASE ~Ended(l.rel)
  <2>1. UNCHANGED <<found, db>> BY <1>7 DEF ApplyRelation, Ended
  <2> QED BY <1>1, <1>3, <1>4, <1>7, <2>1
       DEF RelInv, LinksOfRows, FoundLinks, AllLinked, NoneUnfound, GoneRelations, Ended, OfScope
<1>8. CASE Ended(l.rel)
  <2>1. /\ found' = found \cup {l.rel}
        /\ db'.rel = [db.rel EXCEPT ![l.rel] = l.val]
    BY <1>8 DEF ApplyRelation, Ended, SoundInv, TypeOK, Tables
  <2>2. DOMAIN db.rel = Rel BY DEF SoundInv, TypeOK, Tables
  <2>3. LinksOfRows' BY <1>1, <1>4, <2>1 DEF RelInv, LinksOfRows
  <2>4. linked \subseteq Link /\ found \subseteq Rel BY DEF SoundInv, TypeOK
  <2>5. \A k \in linked' : Ended(k.rel)' => k.rel \in found'
    BY <1>1, <1>3, <1>6, <2>1, <2>4 DEF RelInv, FoundLinks, Link
  <2>6. \A r \in found' : db'.rel[r] # None
    BY <1>1, <1>3, <2>1, <2>2, <2>4 DEF RelInv, FoundLinks
  <2>7. GoneRelations'
    BY <1>1, <1>3, <1>6, <2>1, <2>2 DEF RelInv, GoneRelations
  <2> QED BY <1>3, <2>3, <2>5, <2>6, <2>7 DEF RelInv, FoundLinks, AllLinked, NoneUnfound
<1> QED BY <1>7, <1>8

\* map_relation_deletes takes only what was not found.
LEMMA RelationDeletesRel ==
  ASSUME SoundInv, MirrorInv, RelInv, RelationDeletes
  PROVE  RelInv'
<1>1. /\ phase = "reldeletes" /\ phase' = "commit" /\ UNCHANGED <<job, inbox, linked, found, before>>
      /\ db'.rel = Drop(db.rel, StaleRelations, None) /\ db'.res = db.res /\ DOMAIN db.rel = Rel
  BY DEF RelationDeletes, SoundInv, TypeOK, Tables
<1>2. Linking /\ Closing /\ Linking' BY <1>1 DEF Linking, Closing
<1>3. BaseRow' = BaseRow /\ Links' = Links BY <1>1 DEF BaseRow, Links
<1>4. \A r \in Rel : IF r \in StaleRelations THEN db'.rel[r] = None ELSE db'.rel[r] = db.rel[r]
  BY <1>1 DEF Drop
<1>5. \A r \in StaleRelations : r \notin found /\ OfScope(r) BY DEF StaleRelations, OfScope
<1>6. \A r \in Rel : Ended(r)' = Ended(r) /\ OfScope(r)' = OfScope(r) BY <1>1 DEF Ended, OfScope
<1>7. found \subseteq Rel /\ linked \subseteq Link BY DEF SoundInv, TypeOK
<1>8. LinksOfRows' /\ AllLinked' BY <1>1, <1>2, <1>3 DEF RelInv, LinksOfRows, AllLinked
<1>9. FoundLinks' BY <1>1, <1>2, <1>4, <1>5, <1>6, <1>7 DEF RelInv, FoundLinks, Link
<1>10. NoneUnfound'
  <2> SUFFICES ASSUME NEW r \in Rel, db'.rel[r] # None, OfScope(r) PROVE r \in found
    BY <1>1, <1>6 DEF NoneUnfound
  <2>1. r \notin StaleRelations /\ db.rel[r] # None BY <1>4
  <2> QED BY <2>1 DEF StaleRelations, OfScope
<1>11. GoneRelations' BY <1>1, <1>2, <1>4, <1>5, <1>6 DEF RelInv, GoneRelations
<1> QED BY <1>2, <1>8, <1>9, <1>10, <1>11 DEF RelInv

\* Every step keeps the invariant.
LEMMA RelStep == SoundInv /\ MirrorInv /\ RelInv /\ [Next]_vars => RelInv'
<1> SUFFICES ASSUME SoundInv, MirrorInv, RelInv, [Next]_vars PROVE RelInv'
  OBVIOUS
<1> USE DEF SoundInv
<1>1. CASE StartJob
  <2>1. /\ linked' = {} /\ found' = {} /\ db' = before' /\ phase' = "fetch" /\ job'.status = "running"
    BY <1>1 DEF StartJob
  <2> QED BY <2>1, EarlyRel DEF Linking, LinksOfRows
<1>2. CASE FindAdjunctData \/ AddLogsResourcePolicies \/ \E s \in Service : FetchService(s)
  <2>1. /\ UNCHANGED <<db, before, job, linked, found>> /\ inbox \subseteq inbox'
        /\ phase \in {"fetch", "adjunct", "policies"} /\ phase' \in {"fetch", "policies", "partials"}
    BY <1>2 DEF FindAdjunctData, AddLogsResourcePolicies, FetchService
  <2>2. job.status = "running" BY <2>1 DEF MirrorInv
  <2>3. Links \subseteq Links' BY <2>1 DEF Links, BaseRow
  <2> QED BY <2>1, <2>2, <2>3, EarlyRel DEF RelInv, Linking, Working, LinksOfRows
<1>3. CASE SynthesizeRoot \/ (\E row \in inbox : ApplyBase(row))
           \/ PartialDeletes \/ (\E row \in inbox : ApplyPartial(row))
  <2>1. db'.rel = db.rel
    <3>1. CASE SynthesizeRoot
      <4> DEFINE root == RootOf[job.account]
      <4>1. root \in Uri /\ cloud.base[job.account][root] \in Payload
        BY <3>1, CloudsAssumption, TransformsAssumption DEF SynthesizeRoot, TypeOK, Cloud
      <4> QED BY <3>1, <4>1, ApplyStores DEF SynthesizeRoot, Stores
    <3>2. ASSUME NEW row \in inbox, ApplyBase(row) PROVE db'.rel = db.rel
      <4>1. row.uri \in Uri /\ row.data \in Payload BY DEF TypeOK, Row
      <4> QED BY <3>2, <4>1, ApplyStores DEF ApplyBase, Stores
    <3> QED BY <1>3, <3>1, <3>2, PartialsKeepBase
  <2>2. /\ UNCHANGED <<before, job, linked, found, inbox>>
        /\ phase \in {"base", "rebase", "root", "partials"}
        /\ phase' \in {"base", "rebase", "adjunct", "partials"}
    BY <1>3 DEF SynthesizeRoot, ApplyBase, PartialDeletes, ApplyPartial
  <2>3. job.status = "running" BY <2>2 DEF MirrorInv
  <2> QED BY <2>1, <2>2, <2>3, EarlyRel DEF RelInv, Linking, Working, LinksOfRows, Links, BaseRow
<1>4. CASE ResourceDeletes BY <1>4, DeletesRel
<1>5. CASE RelationDeletes BY <1>5, RelationDeletesRel
<1>6. CASE \E l \in Link : ApplyRelation(l) BY <1>6, LinkRel
<1>7. CASE EndRelations \/ Commit \/ Complete
  <2>1. /\ UNCHANGED <<db, before, inbox, linked, found>> /\ Linking /\ Linking'
        /\ Closing' => Closing \/ PendingLinks = {}
        /\ Cleared' => Cleared
        /\ job'.account = job.account /\ job'.spec = job.spec
    BY <1>7 DEF EndRelations, Commit, Complete, End, Linking, Closing, Cleared, TypeOK
  <2>2. PendingLinks = {} => Links \subseteq linked
    <3> SUFFICES ASSUME NEW l \in Links, l \notin linked PROVE l \in PendingLinks
      OBVIOUS
    <3>1. PICK row \in BaseRow : l \in Yields[row.uri][row.data] BY DEF Links
    <3>2. row \in {x \in inbox : x.source = "base"} BY <3>1 DEF BaseRow
    <3>3. l \in UNION {Yields[y.uri][y.data] : y \in {x \in inbox : x.source = "base"}}
      BY <3>1, <3>2
    <3> QED BY <3>3 DEF PendingLinks
  <2> QED BY <2>1, <2>2 DEF RelInv, LinksOfRows, FoundLinks, AllLinked, NoneUnfound, GoneRelations,
                            Ended, OfScope, InScope, Links, BaseRow
<1>8. CASE \/ EndFetch \/ EndBase \/ AdjunctRaises \/ CloudDrifts \/ MapRaises \/ DbFails
           \/ UNCHANGED vars \/ \E s \in Service : FetchRaises(s)
  <2>1. UNCHANGED <<inbox, linked, found, before>> BY <1>8, QuietSteps
  <2>2. LinksOfRows' BY <2>1 DEF RelInv, LinksOfRows, Links, BaseRow
  <2>3. CASE phase' = phase /\ UNCHANGED <<db, job>>
    BY <2>1, <2>3 DEF RelInv, LinksOfRows, FoundLinks, AllLinked, NoneUnfound, GoneRelations, Ended,
       OfScope, InScope, Links, BaseRow, Linking, Closing, Cleared, Working
  <2>4. CASE phase' = "idle" /\ job'.status \in {"failed", "lost"}
    BY <2>2, <2>4, EarlyRel DEF Linking, Working
  <2>5. CASE /\ <<phase, phase'>> \in {<<"fetch", "base">>, <<"base", "root">>, <<"rebase", "deletes">>}
             /\ UNCHANGED <<db, job>>
    <3>1. job.status = "running" BY <2>5 DEF MirrorInv
    <3> QED BY <2>1, <2>2, <2>5, <3>1, EarlyRel DEF RelInv, Linking, Working
  <2> QED BY <1>8, <2>3, <2>4, <2>5, QuietSteps
<1> QED BY <1>1, <1>2, <1>3, <1>4, <1>5, <1>6, <1>7, <1>8 DEF Next, ImportStep, Fault

\* When the documents that yield a relation are in the scope of its parent,
\* map_relation_deletes removes none that a stored document states, whatever was
\* denied, lost or raised and whatever AWS did meanwhile.
THEOREM NoFalseRelationDeleteHolds ==
  ASSUME AccountsApart, LinksNearParent
  PROVE  Spec => []NoFalseRelationDelete
<1>1. Init => MirrorInv /\ HeldInv /\ RelInv
  <2>1. Init => MirrorInv
    BY DEF Init, MirrorInv, BaseRow, RowsOnce, ServicesOnce, ListedRows, RowsStored, MappedRows,
           AllMapped, NoneStale, Working, Swept
  <2>2. Init => HeldInv
    BY DEF Init, HeldInv, Held, HeldRows, BaseRow, EmptyTables
  <2>3. Init => RelInv
    BY DEF Init, RelInv, LinksOfRows, FoundLinks, AllLinked, NoneUnfound, GoneRelations,
           Working, Linking, Closing, Cleared
  <2> QED BY <2>1, <2>2, <2>3
<1>2. /\ SoundInv /\ MirrorInv /\ [Next]_vars => MirrorInv'
      /\ SoundInv /\ HeldInv /\ [Next]_vars => HeldInv'
      /\ SoundInv /\ MirrorInv /\ RelInv /\ [Next]_vars => RelInv'
  BY MirrorStep, HeldStep, RelStep
<1>3. SoundInv /\ MirrorInv /\ HeldInv /\ RelInv => NoFalseRelationDelete
  <2> SUFFICES ASSUME SoundInv, MirrorInv, HeldInv, RelInv, job.status = "complete",
                      NEW r \in Rel, before.rel[r] # None, db.rel[r] = None, Ended(r),
                      NEW u \in Uri, db.res[u] # None,
                      NEW l \in Yields[u][db.raw[u]["base"]], l.rel = r
               PROVE  FALSE
    BY DEF NoFalseRelationDelete, Ended
  <2>1. Working /\ Swept /\ Linking /\ Closing BY DEF Working, Swept, Linking, Closing
  <2>2. r \notin found /\ OfScope(r) BY <2>1 DEF RelInv, GoneRelations
  <2>3. /\ db.raw[u]["base"] \in Payload /\ db.res[u] \in Account
        /\ job.spec \in Specs \cup {NoSpec} /\ ParentOf[r] \in Uri /\ job.account \in Account
    BY <2>2, TransformsAssumption DEF SoundInv, TypeOK, Tables, TablesSound, ResourceHasBase, Source, OfScope, Ended
  <2>4. PICK d \in Clouds : d.base[job.account][ParentOf[r]] # None
    BY <2>2, <2>3 DEF HeldInv, Held, OfScope, Ended
  <2>5. PICK c \in Clouds, a \in Account : c.base[a][u] = db.raw[u]["base"]
    BY DEF HeldInv, Held
  <2>6. PICK e \in Clouds : e.base[db.res[u]][u] # None
    BY DEF HeldInv, Held
  <2>7. db.raw[u]["base"] \notin Public BY <2>3, KindsAssumption
  <2>8. c.base[a][u] # None BY <2>3, <2>5, NoneAssumption
  <2>9. a = job.account BY <2>3, <2>4, <2>5, <2>8 DEF LinksNearParent
  <2>10. db.res[u] = a BY <2>3, <2>5, <2>6, <2>7, <2>8 DEF AccountsApart
  <2>11. InScope(job.spec, u) BY <2>2, <2>3 DEF LinksNearParent, OfScope
  <2>12. <<"base", u>> \in mapped BY <2>1, <2>9, <2>10, <2>11 DEF MirrorInv, NoneStale
  <2>13. u \notin Roots BY <2>3, KindsAssumption DEF Roots
  <2>14. PICK x \in BaseRow : x.uri = u BY <2>1, <2>12, <2>13 DEF MirrorInv, MappedRows
  <2>15. x.data = db.raw[u]["base"] BY <2>1, <2>14 DEF MirrorInv, AllMapped, RowsStored
  <2>16. l \in linked BY <2>1, <2>14, <2>15 DEF RelInv, AllLinked, Links
  <2>17. l.rel \in found BY <2>1, <2>16 DEF RelInv, FoundLinks
  <2> QED BY <2>2, <2>17
<1> QED BY <1>1, <1>2, <1>3, AlwaysSound, PTL DEF Spec
---------------------------------------------------------------------------------
(***************************************************************************)
(* The resources.  When no list call is denied and AWS holds still during  *)
(* an import, the rows are what the account holds.                         *)
(***************************************************************************)
\* What a service lists, and what of it has a row.
Listed(v) == v \notin Roots /\ Fetched(job.spec, v) /\ Here[v] \notin {None} \cup Public
HasRow(v) == \E x \in BaseRow : x.uri = v

Mapping == phase \in MapPhase \cup {"refresh"} \/ job.status = "complete"
Adjoined == phase \in (MapPhase \ {"base", "root", "adjunct"}) \cup {"refresh"} \/ job.status = "complete"
Rooted == phase = "adjunct" \/ Adjoined

InstancesFetched == \A vm \in Uri : TypeOf[vm] = "Instance" => Fetched(job.spec, vm)

\* The rows hold what the account holds, and every listed resource has one as soon
\* as its service is through.
RowsHere == \A x \in BaseRow : x.data = Here[x.uri]
ListedFetched == phase = "fetch" /\ ~raised =>
                   \A v \in Uri : Listed(v) /\ ServiceOf[v] \notin todo => HasRow(v)
ListedMapped == Mapping => \A v \in Uri : Listed(v) => HasRow(v)

\* So have the public images that instances of the account run, and the root.
ImagesFetched == Adjoined /\ AdjunctGate /\ InstancesFetched =>
                   \A u \in Uri : Here[u] \in Public /\ Wanted(u) => HasRow(u)
RootStored == Rooted /\ IamGate => /\ <<"base", RootOf[job.account]>> \in mapped
                                   /\ db.raw[RootOf[job.account]]["base"] = Here[RootOf[job.account]]

\* What is gone was in scope, and not mapped.
GoneResources == Working => \A u \in Uri : before.res[u] # None /\ db.res[u] = None =>
                   InScope(job.spec, u) /\ <<"base", u>> \notin mapped

\* The inductive invariant.
ListInv == /\ RowsHere /\ ListedFetched /\ ListedMapped
           /\ ImagesFetched /\ RootStored /\ GoneResources

\* Steps that leave the rows and the base documents alone.
LEMMA SameList ==
  ASSUME ListInv, UNCHANGED <<cloud, inbox>>, TransformsAssumption, job.account \in Account,
         job'.account = job.account /\ job'.spec = job.spec,
         phase' = "fetch" /\ ~raised' => phase = "fetch" /\ ~raised /\ todo' = todo,
         Mapping' => Mapping, Adjoined' => Adjoined, Rooted' => Rooted, Working' => Working,
         Working' => /\ UNCHANGED before
                     /\ \A u : <<"base", u>> \in mapped' <=> <<"base", u>> \in mapped
                     /\ db'.res = db.res /\ \A u \in Uri : db'.raw[u]["base"] = db.raw[u]["base"]
  PROVE  ListInv'
<1>1. BaseRow' = BaseRow /\ Here' = Here BY DEF BaseRow, Here
<1>2. \A v : HasRow(v)' = HasRow(v) /\ Listed(v)' = Listed(v) /\ Wanted(v)' = Wanted(v)
  BY <1>1 DEF HasRow, Listed, Wanted
<1>3. AdjunctGate' = AdjunctGate /\ IamGate' = IamGate /\ InstancesFetched' = InstancesFetched
  BY DEF AdjunctGate, IamGate, InstancesFetched
<1>4. RootOf[job.account] \in Uri BY TransformsAssumption
<1>5. RowsHere' BY <1>1 DEF ListInv, RowsHere
<1>6. ListedFetched' BY <1>2 DEF ListInv, ListedFetched
<1>7. ListedMapped' BY <1>2 DEF ListInv, ListedMapped
<1>8. ImagesFetched' BY <1>1, <1>2, <1>3 DEF ListInv, ImagesFetched
<1>9. Rooted' => Working' BY DEF Rooted, Adjoined, Working, MapPhase
<1>10. RootStored' BY <1>1, <1>3, <1>4, <1>9 DEF ListInv, RootStored
<1>11. GoneResources' BY DEF ListInv, GoneResources
<1> QED BY <1>5, <1>6, <1>7, <1>8, <1>10, <1>11 DEF ListInv

\* The document that is stored is the one that the account holds.
LEMMA StoresList ==
  ASSUME SoundInv, SoundInv', ListInv, UNCHANGED <<cloud, inbox, job, before>>,
         job.account \in Account, phase # "idle",
         phase \in MapPhase, phase' = phase \/ (phase = "root" /\ phase' = "adjunct"),
         NEW u \in Uri, Stores(u, "base", Here[u]), Here[u] \in Payload,
         mapped' = mapped \cup {<<"base", u>>},
         phase = "root" => u = RootOf[job.account]
  PROVE  ListInv'
<1>1. BaseRow' = BaseRow /\ Here' = Here BY DEF BaseRow, Here
<1>2. \A v : HasRow(v)' = HasRow(v) /\ Listed(v)' = Listed(v) /\ Wanted(v)' = Wanted(v)
  BY <1>1 DEF HasRow, Listed, Wanted
<1>3. AdjunctGate' = AdjunctGate /\ IamGate' = IamGate /\ InstancesFetched' = InstancesFetched
  BY DEF AdjunctGate, IamGate, InstancesFetched
<1>4. RootOf[job.account] \in Uri BY TransformsAssumption
<1>5. RowsHere' BY <1>1 DEF ListInv, RowsHere
<1>6. ListedFetched' BY DEF ListedFetched, MapPhase
<1>7. Mapping BY DEF Mapping
<1>8. ListedMapped' BY <1>2, <1>7 DEF ListInv, ListedMapped
<1>9. Adjoined' => Adjoined BY DEF Adjoined
<1>10. ImagesFetched' BY <1>1, <1>2, <1>3, <1>9 DEF ListInv, ImagesFetched
<1>11. RootStored'
  <2>1. CASE u = RootOf[job.account] BY <1>1, <2>1 DEF RootStored, Stores
  <2>2. CASE u # RootOf[job.account]
    <3>1. Rooted' => Rooted BY <2>2 DEF Rooted, Adjoined
    <3>2. db'.raw[RootOf[job.account]] = db.raw[RootOf[job.account]] BY <1>4, <2>2 DEF Stores
    <3> QED BY <1>1, <1>3, <3>1, <3>2 DEF ListInv, RootStored
  <2> QED BY <2>1, <2>2
<1>12. db'.res[u] # None
  BY NoneAssumption DEF SoundInv, TablesSound, ResourceHasBase, Stores
<1>13. GoneResources'
  BY <1>12 DEF ListInv, GoneResources, Working, Stores
<1> QED BY <1>5, <1>6, <1>8, <1>10, <1>11, <1>13 DEF ListInv

\* The worker of a service writes a row for everything that it lists.
LEMMA FetchList ==
  ASSUME SoundInv, MirrorInv, ListInv, NothingMissed, NEW s \in Service, FetchService(s)
  PROVE  ListInv'
<1>1. /\ phase = "fetch" /\ todo' = todo \ {s}
      /\ UNCHANGED <<cloud, job, phase, raised, mapped, db, before>>
      /\ inbox' = inbox \cup BaseRows(s, {}) \cup CredentialRows(s)
  BY DEF FetchService, Losses, NothingMissed
<1>2. job.status = "running" BY <1>1 DEF MirrorInv
<1>3. ~Mapping' /\ ~Adjoined' /\ ~Rooted'
  BY <1>1, <1>2 DEF Mapping, Adjoined, Rooted, MapPhase
<1>4. Here' = Here BY <1>1 DEF Here
<1>5. BaseRow' = BaseRow \cup BaseRows(s, {})
  BY <1>1 DEF BaseRow, BaseRows, CredentialRows, ExtraRows
<1>6. RowsHere' BY <1>4, <1>5 DEF ListInv, RowsHere, BaseRows, Here
<1>7. ASSUME NEW v \in Uri, Listed(v), ServiceOf[v] \notin todo', ~raised PROVE HasRow(v)'
  <2>1. CASE ServiceOf[v] # s BY <1>1, <1>5, <1>7, <2>1 DEF ListInv, ListedFetched, HasRow
  <2>2. CASE ServiceOf[v] = s
    <3>1. [source |-> "base", uri |-> v, data |-> Here[v]] \in BaseRows(s, {})
      BY <1>7, <2>2 DEF BaseRows, Listed, Here
    <3> QED BY <1>5, <3>1 DEF HasRow
  <2> QED BY <2>1, <2>2
<1>8. ListedFetched' BY <1>1, <1>4, <1>7 DEF ListedFetched, Listed
<1>9. GoneResources' BY <1>1 DEF ListInv, GoneResources, Working
<1> QED BY <1>3, <1>6, <1>8, <1>9 DEF ListInv, ListedMapped, ImagesFetched, RootStored

\* _find_missing_amis finds the public images that the instances run.
LEMMA AdjunctList ==
  ASSUME SoundInv, MirrorInv, HeldInv, ListInv, NothingMissed, ImagesSteady, FindAdjunctData
  PROVE  ListInv'
<1>1. /\ phase = "adjunct" /\ phase' = "policies"
      /\ UNCHANGED <<cloud, job, todo, raised, mapped, db, before, done>>
      /\ AdjunctGate => inbox' = inbox \cup {[source |-> "base", uri |-> i, data |-> Here[i]] : i \in MissingAmis}
      /\ ~AdjunctGate => inbox' = inbox
  BY DEF FindAdjunctData, NothingMissed, Here
<1>2. job.status = "running" /\ job.account \in Account /\ cloud \in Clouds
  BY <1>1 DEF MirrorInv, SoundInv, TypeOK
<1>3. /\ Mapping /\ Rooted /\ Working /\ Working'
  BY <1>1, <1>2 DEF Mapping, Rooted, Working, MapPhase
<1>4. Here' = Here BY <1>1 DEF Here
<1>5. \A v : Listed(v)' = Listed(v) /\ Wanted(v)' = Wanted(v) BY <1>1, <1>4 DEF Listed, Wanted
<1>6. /\ BaseRow \subseteq BaseRow'
      /\ \A x \in BaseRow' \ BaseRow : x.data = Here[x.uri]
  BY <1>1 DEF BaseRow
<1>7. RowsHere' BY <1>4, <1>6 DEF ListInv, RowsHere
<1>8. ListedMapped' BY <1>3, <1>5, <1>6 DEF ListInv, ListedMapped, HasRow
<1>9. ASSUME AdjunctGate, InstancesFetched, NEW u \in Uri, Here[u] \in Public, Wanted(u)
      PROVE  HasRow(u)'
  <2>1. PICK vm \in Uri : TypeOf[vm] = "Instance" /\ Here[vm] # None /\ ImageOf[Here[vm]] = u
    BY <1>9 DEF Wanted
  <2>2. Listed(vm)
    BY <1>9, <2>1, KindsAssumption, NoneAssumption DEF Listed, InstancesFetched, Roots
  <2>3. PICK x \in BaseRow : x.uri = vm BY <1>3, <2>1, <2>2 DEF ListInv, ListedMapped, HasRow
  <2>4. db.raw[vm]["base"] = Here[vm]
    BY <1>1, <1>3, <2>3 DEF MirrorInv, AllMapped, RowsStored, ListInv, RowsHere
  <2>5. db.res[vm] # None BY <2>1, <2>4 DEF SoundInv, TablesSound, ResourceHasBase
  <2>6. ASSUME db.res[u] # None PROVE db.raw[u]["base"] \in Public
    <3>1. PICK c \in Clouds, a \in Account : c.base[a][u] = db.raw[u]["base"]
      BY <2>6 DEF HeldInv, Held
    <3>2. c.base[a][u] # None BY <2>6, <3>1 DEF SoundInv, TablesSound, ResourceHasBase
    <3> QED BY <1>2, <1>9, <3>1, <3>2 DEF ImagesSteady, Here
  <2>7. u \in MissingAmis BY <2>1, <2>4, <2>5, <2>6 DEF MissingAmis
  <2>8. [source |-> "base", uri |-> u, data |-> Here[u]] \in inbox' BY <1>1, <1>9, <2>7
  <2> QED BY <2>8 DEF HasRow, BaseRow
<1>10. ImagesFetched'
  BY <1>1, <1>4, <1>5, <1>9 DEF ImagesFetched, AdjunctGate, InstancesFetched
<1>11. RootStored' BY <1>1, <1>3, <1>4 DEF ListInv, RootStored, IamGate
<1>12. GoneResources' BY <1>1, <1>3 DEF ListInv, GoneResources
<1>13. ListedFetched' BY <1>1 DEF ListedFetched
<1> QED BY <1>7, <1>8, <1>10, <1>11, <1>12, <1>13 DEF ListInv

\* map_resource_deletes takes what is in scope and not mapped.
LEMMA DeletesList ==
  ASSUME SoundInv, MirrorInv, ListInv, ResourceDeletes
  PROVE  ListInv'
<1>1. TypeOK BY DEF SoundInv
<1>2. /\ UNCHANGED <<cloud, job, todo, raised, inbox, mapped, before>>
      /\ phase = "deletes" /\ phase' = "relations"
  BY <1>1, DeletesLeave
<1>3. job.account \in Account /\ RootOf[job.account] \in Uri
  BY <1>1, <1>2, TransformsAssumption DEF TypeOK
<1>4. Mapping /\ Rooted /\ Adjoined /\ Working /\ Working'
  BY <1>2 DEF Mapping, Rooted, Adjoined, Working, MapPhase
<1>5. BaseRow' = BaseRow /\ Here' = Here BY <1>2 DEF BaseRow, Here
<1>6. \A v : HasRow(v)' = HasRow(v) /\ Listed(v)' = Listed(v) /\ Wanted(v)' = Wanted(v)
  BY <1>2, <1>5 DEF HasRow, Listed, Wanted
<1>7. RowsHere' BY <1>5 DEF ListInv, RowsHere
<1>8. ListedMapped' BY <1>4, <1>6 DEF ListInv, ListedMapped
<1>9. ImagesFetched'
  BY <1>2, <1>4, <1>5, <1>6 DEF ListInv, ImagesFetched, AdjunctGate, InstancesFetched
<1>10. RootStored'
  <2> SUFFICES ASSUME IamGate
               PROVE  /\ <<"base", RootOf[job.account]>> \in mapped
                      /\ db'.raw[RootOf[job.account]]["base"] = Here[RootOf[job.account]]
    BY <1>2, <1>5 DEF RootStored, IamGate
  <2>1. /\ <<"base", RootOf[job.account]>> \in mapped
        /\ db.raw[RootOf[job.account]]["base"] = Here[RootOf[job.account]]
    BY <1>4 DEF ListInv, RootStored
  <2>2. RootOf[job.account] \notin StaleResources BY <2>1 DEF StaleResources
  <2>3. db'.raw[RootOf[job.account]] = db.raw[RootOf[job.account]]
    BY <1>1, <1>3, <2>2, DeletesLeave
  <2> QED BY <2>1, <2>3
<1>11. GoneResources'
  <2> SUFFICES ASSUME NEW u \in Uri, before.res[u] # None, db'.res[u] = None
               PROVE  InScope(job.spec, u) /\ <<"base", u>> \notin mapped
    BY <1>2 DEF GoneResources
  <2>1. CASE u \in StaleResources BY <2>1 DEF StaleResources
  <2>2. CASE u \notin StaleResources
    <3>1. db'.res[u] = db.res[u] BY <1>1, <2>2, DeletesLeave
    <3> QED BY <1>4, <3>1 DEF ListInv, GoneResources
  <2> QED BY <2>1, <2>2
<1>12. ListedFetched' BY <1>2 DEF ListedFetched
<1> QED BY <1>7, <1>8, <1>9, <1>10, <1>11, <1>12 DEF ListInv

\* Every step keeps the invariant.
LEMMA ListStep ==
  ASSUME NothingMissed, ImagesSteady
  PROVE  SoundInv /\ MirrorInv /\ HeldInv /\ ListInv /\ [Next]_vars => ListInv'
<1> SUFFICES ASSUME SoundInv, MirrorInv, HeldInv, ListInv, [Next]_vars PROVE ListInv'
  OBVIOUS
<1>1. SoundInv' BY NextSound
<1>2. TypeOK BY DEF SoundInv
<1>3. phase # "idle" => job.account \in Account BY <1>2 DEF TypeOK
<1>4. CASE StartJob
  <2>1. /\ inbox' = {} /\ before' = db /\ db' = db /\ phase' = "fetch" /\ job'.status = "running"
        /\ \E a \in Account, spec \in Specs :
             /\ job'.spec = spec
             /\ todo' = {s \in Service : service_gate(spec, s)}
    BY <1>4 DEF StartJob
  <2>2. \A v \in Uri : Listed(v)' => ServiceOf[v] \in todo'
    BY <2>1, TransformsAssumption DEF Listed, Fetched
  <2>3. ~Mapping' /\ ~Adjoined' /\ ~Rooted' BY <2>1 DEF Mapping, Adjoined, Rooted, MapPhase
  <2>4. BaseRow' = {} BY <2>1 DEF BaseRow
  <2> QED BY <2>1, <2>2, <2>3, <2>4
       DEF ListInv, RowsHere, ListedFetched, ListedMapped, ImagesFetched, RootStored, GoneResources
<1>5. CASE \E s \in Service : FetchService(s) BY <1>5, FetchList
<1>6. CASE FindAdjunctData BY <1>6, AdjunctList
<1>7. CASE ResourceDeletes BY <1>7, DeletesList
<1>8. ASSUME NEW row \in inbox, ApplyBase(row) PROVE ListInv'
  <2>1. /\ row.uri \in Uri /\ row.data \in Payload /\ row \in BaseRow /\ phase \in {"base", "rebase"}
        /\ UNCHANGED <<cloud, inbox, job, before, phase>> /\ mapped' = mapped \cup {<<"base", row.uri>>}
    BY <1>2, <1>8 DEF ApplyBase, PendingBase, BaseRow, TypeOK, Row
  <2>2. row.data = Here[row.uri] BY <2>1 DEF ListInv, RowsHere
  <2>3. Stores(row.uri, "base", row.data) BY <1>2, <1>8, <2>1, ApplyStores DEF ApplyBase
  <2> QED BY <1>1, <1>3, <2>1, <2>2, <2>3, StoresList DEF MapPhase
<1>9. CASE SynthesizeRoot
  <2> DEFINE root == RootOf[job.account]
  <2>1. /\ root \in Uri /\ Here[root] \in Payload /\ phase = "root" /\ phase' = "adjunct"
        /\ UNCHANGED <<cloud, inbox, job, before, todo, raised>>
    BY <1>2, <1>3, <1>9, CloudsAssumption, TransformsAssumption DEF SynthesizeRoot, TypeOK, Cloud, Here
  <2>2. CASE IamGate
    <3>1. apply_resource(root, Here[root]) /\ mapped' = mapped \cup {<<"base", root>>}
      BY <1>9, <2>2 DEF SynthesizeRoot, Here
    <3>2. Stores(root, "base", Here[root]) BY <1>2, <2>1, <3>1, ApplyStores
    <3> QED BY <1>1, <1>3, <2>1, <3>1, <3>2, StoresList DEF MapPhase
  <2>3. CASE ~IamGate
    <3>1. UNCHANGED <<mapped, db>> BY <1>9, <2>3 DEF SynthesizeRoot
    <3>2. BaseRow' = BaseRow /\ Here' = Here /\ ~IamGate' BY <2>1, <2>3 DEF BaseRow, Here, IamGate
    <3>3. Mapping /\ ~Adjoined' /\ Working BY <2>1 DEF Mapping, Adjoined, Working, MapPhase, MirrorInv
    <3> QED BY <2>1, <3>1, <3>2, <3>3
         DEF ListInv, RowsHere, ListedFetched, ListedMapped, ImagesFetched, RootStored, GoneResources,
             HasRow, Listed
  <2> QED BY <2>2, <2>3
<1>10. CASE PartialDeletes \/ \E row \in inbox : ApplyPartial(row)
  <2>1. /\ phase = "partials" /\ phase' \in {"partials", "rebase"} /\ UNCHANGED <<cloud, inbox, job, before>>
        /\ \A u : <<"base", u>> \in mapped' <=> <<"base", u>> \in mapped
        /\ db'.res = db.res /\ \A u \in Uri : db'.raw[u]["base"] = db.raw[u]["base"]
    BY <1>2, <1>10, PartialsKeepBase
  <2>2. Mapping /\ Adjoined /\ Rooted /\ Working BY <2>1 DEF Mapping, Adjoined, Rooted, Working, MapPhase
  <2> QED BY <1>3, <2>1, <2>2, SameList, TransformsAssumption
<1>11. CASE AddLogsResourcePolicies
  <2>1. /\ phase = "policies" /\ phase' = "partials"
        /\ UNCHANGED <<cloud, job, before, mapped, db>>
    BY <1>11 DEF AddLogsResourcePolicies
  <2>2. BaseRow' = BaseRow BY <1>11 DEF AddLogsResourcePolicies, ExtraRows, BaseRow
  <2>3. Mapping /\ Adjoined /\ Rooted /\ Working BY <2>1 DEF Mapping, Adjoined, Rooted, Working, MapPhase
  <2>4. Here' = Here BY <2>1 DEF Here
  <2> QED BY <2>1, <2>2, <2>3, <2>4
       DEF ListInv, RowsHere, ListedFetched, ListedMapped, ImagesFetched, RootStored, GoneResources,
           HasRow, Listed, Wanted, AdjunctGate, InstancesFetched, IamGate
<1>12. CASE RelationDeletes \/ EndRelations \/ Commit \/ Complete \/ \E l \in Link : ApplyRelation(l)
  <2>1. /\ UNCHANGED <<cloud, todo, raised, inbox, mapped, before>>
        /\ db'.res = db.res /\ db'.raw = db.raw
        /\ <<phase, phase'>> \in {<<"relations", "relations">>, <<"relations", "reldeletes">>,
              <<"reldeletes", "commit">>, <<"commit", "refresh">>, <<"refresh", "idle">>}
        /\ job'.account = job.account /\ job'.spec = job.spec
    BY <1>2, <1>12, LinksKeepResources
  <2>2. Mapping /\ Adjoined /\ Rooted /\ Working BY <2>1 DEF Mapping, Adjoined, Rooted, Working, MapPhase
  <2>3. phase' # "fetch" /\ phase # "idle" BY <2>1
  <2> QED BY <1>3, <2>1, <2>2, <2>3, SameList, TransformsAssumption
<1>13. CASE EndFetch /\ ~raised
  <2>1. /\ phase = "fetch" /\ phase' = "base" /\ todo = {} /\ ~raised
        /\ UNCHANGED <<cloud, job, before, mapped, db, inbox>>
    BY <1>13 DEF EndFetch
  <2>2. job.status = "running" BY <2>1 DEF MirrorInv
  <2>3. ~Adjoined' /\ ~Rooted' /\ Working BY <2>1, <2>2 DEF Adjoined, Rooted, Working, MapPhase
  <2>4. BaseRow' = BaseRow /\ Here' = Here BY <2>1 DEF BaseRow, Here
  <2>5. ListedMapped' BY <2>1, <2>4 DEF ListInv, ListedFetched, ListedMapped, HasRow, Listed
  <2> QED BY <2>1, <2>3, <2>4, <2>5
       DEF ListInv, RowsHere, ListedFetched, ImagesFetched, RootStored, GoneResources
<1>14. CASE (EndFetch /\ raised) \/ AdjunctRaises \/ MapRaises \/ DbFails
  <2>1. /\ UNCHANGED <<cloud, inbox>> /\ job'.account = job.account /\ job'.spec = job.spec
        /\ phase' = "idle" /\ job'.status \in {"failed", "lost"}
    BY <1>2, <1>14 DEF EndFetch, AdjunctRaises, MapRaises, DbFails, End, TypeOK
  <2>2. ~Mapping' /\ ~Adjoined' /\ ~Rooted' /\ ~Working'
    BY <2>1 DEF Mapping, Adjoined, Rooted, Working, MapPhase
  <2>3. RowsHere' BY <2>1 DEF ListInv, RowsHere, BaseRow, Here
  <2> QED BY <2>1, <2>2, <2>3 DEF ListInv, ListedFetched, ListedMapped, ImagesFetched, RootStored, GoneResources
<1>15. CASE EndBase \/ UNCHANGED vars \/ \E s \in Service : FetchRaises(s)
  <2>1. /\ UNCHANGED <<cloud, inbox, job, before, mapped, db>>
        /\ \/ UNCHANGED <<phase, todo, raised>>
           \/ phase = "fetch" /\ phase' = "fetch" /\ raised'
           \/ <<phase, phase'>> \in {<<"base", "root">>, <<"rebase", "deletes">>}
    BY <1>15 DEF EndBase, vars, FetchRaises
  <2>2. /\ Mapping' => Mapping
        /\ Adjoined' => Adjoined
        /\ Rooted' => Rooted
        /\ Working' => Working
    BY <2>1 DEF Mapping, Adjoined, Rooted, Working, MapPhase
  <2>3. BaseRow' = BaseRow /\ Here' = Here BY <2>1 DEF BaseRow, Here
  <2>4. phase' = "fetch" /\ ~raised' => phase = "fetch" /\ ~raised /\ todo' = todo BY <2>1
  <2> QED BY <2>1, <2>2, <2>3, <2>4
       DEF ListInv, RowsHere, ListedFetched, ListedMapped, ImagesFetched, RootStored, GoneResources,
           HasRow, Listed, Wanted, AdjunctGate, InstancesFetched, IamGate
<1>16. ~CloudDrifts BY DEF CloudDrifts, NothingMissed
<1> QED BY <1>4, <1>5, <1>6, <1>7, <1>8, <1>9, <1>10, <1>11, <1>12, <1>13, <1>14, <1>15, <1>16
     DEF Next, ImportStep, Fault

\* What the account holds, of a scope, is mapped when the deletes come.
LEMMA HeldMapped ==
  ASSUME SoundInv, MirrorInv, ListInv, AccountsApart, ScopesAgree, job.status = "complete",
         job.account \in Account,
         NEW u \in Uri, InScope(job.spec, u), Here[u] # None, Wanted(u)
  PROVE  <<"base", u>> \in mapped
<1>1. /\ Swept /\ Working /\ Mapping /\ Adjoined /\ Rooted
      /\ cloud \in Clouds /\ job.spec \in Specs \cup {NoSpec}
  BY DEF Swept, Working, Mapping, Adjoined, Rooted, SoundInv, TypeOK
<1>2. ASSUME HasRow(u) PROVE <<"base", u>> \in mapped
  BY <1>1, <1>2 DEF HasRow, MirrorInv, AllMapped, RowsStored
<1>3. CASE u \in Roots
  <2>1. PICK a \in Account : u = RootOf[a] BY <1>3 DEF Roots
  <2>2. cloud.base[a][u] \notin {None} \cup Public BY <1>1, <2>1, CloudsAssumption
  <2>3. a = job.account BY <1>1, <2>2 DEF AccountsApart, Here
  <2>4. ServiceOf[u] = "iam" BY <2>1, ServicesAssumption
  <2>5. IamGate BY <2>4 DEF IamGate, InScope
  <2> QED BY <1>1, <2>1, <2>3, <2>5 DEF ListInv, RootStored
<1>4. CASE u \notin Roots /\ Here[u] \notin Public
  BY <1>1, <1>2, <1>4 DEF ScopesAgree, ListInv, ListedMapped, Listed
<1>5. CASE u \notin Roots /\ Here[u] \in Public
  <2>1. PICK vm \in Uri : Here[vm] # None /\ ImageOf[Here[vm]] = u BY <1>5 DEF Wanted
  <2>2. Here[vm] \in Payload BY <1>1, <2>1, CloudsAssumption DEF Cloud, Here
  <2>3. AdjunctGate /\ InstancesFetched
    BY <1>1, <1>5, <2>1, <2>2 DEF ScopesAgree, AdjunctGate, InstancesFetched
  <2> QED BY <1>1, <1>2, <1>5, <2>3 DEF ListInv, ImagesFetched
<1> QED BY <1>3, <1>4, <1>5

\* A resource that an import removes is in no account of the provider any more, or
\* is an image that nothing runs: where lists are not denied, and the scope of the
\* deletes is the scope of the fetch.
THEOREM NoFalseDeleteHolds ==
  ASSUME NothingMissed, AccountsApart, ImagesSteady, ScopesAgree
  PROVE  Spec => []NoFalseDelete
<1>1. Init => MirrorInv /\ HeldInv /\ ListInv /\ DeletesStayInAccount
  <2>1. Init => MirrorInv
    BY DEF Init, MirrorInv, BaseRow, RowsOnce, ServicesOnce, ListedRows, RowsStored, MappedRows,
           AllMapped, NoneStale, Working, Swept
  <2>2. Init => HeldInv
    BY DEF Init, HeldInv, Held, HeldRows, BaseRow, EmptyTables
  <2>3. Init => ListInv
    BY DEF Init, ListInv, RowsHere, ListedFetched, ListedMapped, ImagesFetched, RootStored,
           GoneResources, BaseRow, Working, Mapping, Adjoined, Rooted, MapPhase
  <2> QED BY <2>1, <2>2, <2>3 DEF Init, DeletesStayInAccount, EmptyTables
<1>2. /\ SoundInv /\ MirrorInv /\ [Next]_vars => MirrorInv'
      /\ SoundInv /\ HeldInv /\ [Next]_vars => HeldInv'
      /\ SoundInv /\ DeletesStayInAccount /\ [Next]_vars => DeletesStayInAccount'
      /\ SoundInv /\ MirrorInv /\ HeldInv /\ ListInv /\ [Next]_vars => ListInv'
  BY MirrorStep, HeldStep, StayStep, ListStep
<1>3. SoundInv /\ MirrorInv /\ HeldInv /\ ListInv /\ DeletesStayInAccount => NoFalseDelete
  <2> SUFFICES ASSUME SoundInv, MirrorInv, HeldInv, ListInv, DeletesStayInAccount,
                      job.status = "complete",
                      NEW u \in Uri, before.res[u] # None, db.res[u] = None, Wanted(u),
                      NEW a \in Account, cloud.base[a][u] # None
               PROVE  FALSE
    BY DEF NoFalseDelete
  <2>1. Working BY DEF Working
  <2>2. before.res[u] = job.account BY DEF DeletesStayInAccount
  <2>3. job.account \in Account /\ cloud \in Clouds
    BY <2>2 DEF SoundInv, TypeOK, Tables
  <2>4. PICK c \in Clouds : c.base[job.account][u] # None BY <2>2 DEF HeldInv, Held
  <2>5. Here[u] # None
    <3>1. a = job.account \/ cloud.base[a][u] \in Public BY <2>3, <2>4 DEF AccountsApart
    <3> QED BY <2>3, <3>1 DEF ImagesSteady, Here
  <2>6. InScope(job.spec, u) /\ <<"base", u>> \notin mapped BY <2>1 DEF ListInv, GoneResources
  <2> QED BY <2>3, <2>5, <2>6, HeldMapped
<1> QED BY <1>1, <1>2, <1>3, AlwaysSound, PTL DEF Spec
---------------------------------------------------------------------------------
(***************************************************************************)
(* The partial sources, under the same conditions.                         *)
(***************************************************************************)
PartialRow == {x \in inbox : x.source # "base"}
Past(s) == \E i \in 1 .. swept : AWS_SOURCES[i] = s

Beginning == phase \in {"fetch", "base", "root", "adjunct", "policies"}
Finishing == phase \in {"rebase", "deletes", "relations", "reldeletes", "commit", "refresh"} \/ job.status = "complete"
Policied == phase = "partials" \/ Finishing

ReportGate == service_gate(job.spec, "iam") /\ resource_gate(Asked(job.spec, "iam"), "CredentialReport")

\* The partial rows hold what the account holds, and none is of the service whose
\* resources come after them.
RowsOfExtras == \A x \in PartialRow : x.data \in ExtraDocs(x.source, x.uri) /\ ServiceOf[x.uri] # "ec2"

\* Before their pass none is mapped.
EarlyExtras == Beginning => /\ PartialRow \cap done = {}
                            /\ \A s \in ExtraSource, u \in Uri : <<s, u>> \notin mapped

\* What is mapped is stored, what was visited is mapped or has no resource.
MappedExtras == Working => \A s \in ExtraSource, u \in Uri : <<s, u>> \in mapped =>
                  ServiceOf[u] # "ec2" /\ (db.res[u] = None \/ db.raw[u][s] \in ExtraDocs(s, u))
VisitedExtras == Working => \A x \in PartialRow \cap done :
                   db.res[x.uri] # None => <<x.source, x.uri>> \in mapped

\* After the pass of a source no row of it is left, and nothing stored of it that
\* was not mapped.
PastRows == Working => \A x \in PartialRow : Past(x.source) => x \in done
PastExtras == Working => \A s \in ExtraSource, u \in Uri :
                Past(s) /\ db.res[u] = job.account /\ InScope(job.spec, u) /\ db.raw[u][s] # None
                  => <<s, u>> \in mapped
AllPast == Finishing => swept = Len(AWS_SOURCES)

\* What the account holds is fetched.
ReportFetched == (phase = "fetch" /\ ~raised /\ "iam" \notin todo) \/ Mapping =>
                   (ReportGate => ExtraRows("credentialreport") \subseteq inbox)
PoliciesFetched == Policied /\ LogsGate => \A x \in ExtraRows("logspolicies") :
                     TypeOf[x.uri] = "LogGroup" /\ db.res[x.uri] # None => x \in inbox

\* The resources that come after are images.
LateRows == Adjoined => \A x \in BaseRow \ done : ServiceOf[x.uri] = "ec2"

\* The inductive invariant.
PartialInv == /\ RowsOfExtras /\ EarlyExtras /\ MappedExtras /\ VisitedExtras /\ PastRows
              /\ PastExtras /\ AllPast /\ ReportFetched /\ PoliciesFetched /\ LateRows

\* Steps that take resources away, and change no partial row or document.
LEMMA SamePartial ==
  ASSUME PartialInv, TypeOK, UNCHANGED <<cloud, inbox, done, swept>>, job.account \in Account,
         job'.account = job.account /\ job'.spec = job.spec,
         phase' = "fetch" /\ ~raised' => phase = "fetch" /\ ~raised /\ todo' = todo,
         Mapping' => Mapping, Adjoined' => Adjoined, Finishing' => Finishing, Policied' => Policied,
         Beginning' => Beginning, Working' => Working,
         Working' => /\ mapped' = mapped
                     /\ \A u \in Uri : \/ db'.res[u] = None
                                       \/ db'.res[u] = db.res[u] /\ db'.raw[u] = db.raw[u]
  PROVE  PartialInv'
<1>1. PartialRow' = PartialRow /\ BaseRow' = BaseRow BY DEF PartialRow, BaseRow
<1>2. \A s, u : ExtraDocs(s, u)' = ExtraDocs(s, u) BY DEF ExtraDocs
<1>3. \A s : ExtraRows(s)' = ExtraRows(s) /\ Past(s)' = Past(s) BY DEF ExtraRows, Past
<1>4. ReportGate' = ReportGate /\ LogsGate' = LogsGate BY DEF ReportGate, LogsGate
<1>5. \A x \in inbox : x.uri \in Uri /\ x.source \in Source BY DEF TypeOK, Row
<1>6. Beginning' => Working' BY DEF Beginning, Working
<1>7. RowsOfExtras' BY <1>1, <1>2 DEF PartialInv, RowsOfExtras
<1>8. EarlyExtras' BY <1>1, <1>6 DEF PartialInv, EarlyExtras
<1>9. MappedExtras' BY <1>2 DEF PartialInv, MappedExtras
<1>10. VisitedExtras' BY <1>1, <1>5 DEF PartialInv, VisitedExtras, PartialRow
<1>11. PastRows' BY <1>1, <1>3 DEF PartialInv, PastRows
<1>12. PastExtras' BY <1>3, NoneAssumption DEF PartialInv, PastExtras
<1>13. AllPast' BY DEF PartialInv, AllPast
<1>14. ReportFetched' BY <1>3, <1>4 DEF PartialInv, ReportFetched
<1>15. PoliciesFetched'
  <2>1. Policied' => Working' BY DEF Policied, Finishing, Working
  <2>2. cloud.extra[job.account]["logspolicies"] \subseteq [uri : Uri, data : Payload]
    BY CloudsAssumption DEF TypeOK, Cloud, ExtraSource
  <2>3. \A x \in ExtraRows("logspolicies") : x.uri \in Uri BY <2>2 DEF ExtraRows
  <2> QED BY <1>3, <1>4, <2>1, <2>3 DEF PartialInv, PoliciesFetched
<1>16. LateRows' BY <1>1 DEF PartialInv, LateRows
<1> QED BY <1>7, <1>8, <1>9, <1>10, <1>11, <1>12, <1>13, <1>14, <1>15, <1>16 DEF PartialInv

\* The index of a source tells it.
LEMMA SourcesApart ==
  ASSUME NEW i \in 1 .. 2, NEW j \in 1 .. 2, AWS_SOURCES[i] = AWS_SOURCES[j]
  PROVE  i = j
BY DEF AWS_SOURCES

\* The current source is not past.
LEMMA CurrentNotPast ==
  ASSUME TypeOK, phase = "partials"
  PROVE  ~Past(CurrentSource)
<1>1. swept \in 0 .. 2 /\ swept < 2 BY Sources DEF TypeOK
<1>2. swept + 1 \in 1 .. 2 /\ \A i \in 1 .. swept : i \in 1 .. 2 /\ i # swept + 1 BY <1>1
<1> QED BY <1>2, SourcesApart DEF Past, CurrentSource

\* The report is fetched with iam.
LEMMA FetchPartial ==
  ASSUME SoundInv, MirrorInv, PartialInv, NEW s \in Service, FetchService(s)
  PROVE  PartialInv'
<1>1. /\ phase = "fetch" /\ todo' = todo \ {s} /\ s \in todo
      /\ UNCHANGED <<cloud, job, phase, raised, done, mapped, swept, db, before>>
      /\ \A x \in inbox' \ inbox : x \in CredentialRows(s) \/ x.source = "base"
      /\ inbox \cup CredentialRows(s) \subseteq inbox'
  BY DEF FetchService, BaseRows
<1>2. job.status = "running" /\ job.account \in Account /\ cloud \in Clouds /\ swept = 0
  BY <1>1 DEF MirrorInv, SoundInv, TypeOK
<1>3. ~Mapping' /\ ~Adjoined' /\ ~Finishing' /\ ~Policied' /\ Beginning /\ Working
  BY <1>1, <1>2 DEF Mapping, Adjoined, Finishing, Policied, MapPhase, Beginning, Working
<1>4. PartialRow' = PartialRow \cup CredentialRows(s)
  BY <1>1 DEF PartialRow, CredentialRows, ExtraRows
<1>5. \A x \in CredentialRows(s) :
        x.data \in ExtraDocs(x.source, x.uri) /\ ServiceOf[x.uri] = "iam"
  BY <1>2, CloudsAssumption DEF CredentialRows, ExtraRows, ExtraDocs
<1>6. done' \subseteq inbox BY <1>1 DEF MirrorInv
<1>7. RowsOfExtras' BY <1>1, <1>4, <1>5 DEF PartialInv, RowsOfExtras, ExtraDocs
<1>8. PartialRow' \cap done' = {}
  <2>1. PartialRow \cap done = {} BY <1>3 DEF PartialInv, EarlyExtras
  <2>2. PartialRow' \cap inbox = PartialRow BY <1>4 DEF PartialRow, CredentialRows, ExtraRows
  <2> QED BY <1>1, <1>6, <2>1, <2>2
<1>9. EarlyExtras' /\ VisitedExtras' /\ MappedExtras'
  BY <1>1, <1>3, <1>8 DEF PartialInv, EarlyExtras, VisitedExtras, MappedExtras, Working
<1>10. PastRows' /\ PastExtras' BY <1>1, <1>2 DEF PastRows, PastExtras, Past
<1>11. ReportFetched'
  <2> SUFFICES ASSUME ~raised, "iam" \notin todo', ReportGate
               PROVE  ExtraRows("credentialreport") \subseteq inbox'
    BY <1>1, <1>3 DEF ReportFetched, ReportGate, ExtraRows
  <2>1. CASE s = "iam"
    BY <1>1, <2>1 DEF CredentialRows, ReportGate
  <2>2. CASE s # "iam"
    <3>1. "iam" \notin todo BY <1>1, <2>2
    <3> QED BY <1>1, <3>1 DEF PartialInv, ReportFetched
  <2> QED BY <2>1, <2>2
<1> QED BY <1>3, <1>7, <1>9, <1>10, <1>11 DEF PartialInv, AllPast, PoliciesFetched, LateRows

\* A base document takes nothing from the partial sources.
LEMMA StoresPartial ==
  ASSUME SoundInv, PartialInv, phase # "idle",
         UNCHANGED <<cloud, inbox, swept, job, before, todo, raised>>, job.account \in Account,
         NEW u \in Uri, NEW p, Stores(u, "base", p), mapped' = mapped \cup {<<"base", u>>},
         \/ phase = "base" /\ phase' = "base"
         \/ phase = "root" /\ phase' = "adjunct" /\ BaseRow \subseteq done
         \/ phase = "rebase" /\ phase' = "rebase" /\ ServiceOf[u] = "ec2",
         done \subseteq done', PartialRow \cap done' = PartialRow \cap done,
         job.status = "running"
  PROVE  PartialInv'
<1>1. PartialRow' = PartialRow /\ BaseRow' = BaseRow BY DEF PartialRow, BaseRow
<1>2. \A s, v : ExtraDocs(s, v)' = ExtraDocs(s, v) BY DEF ExtraDocs
<1>3. \A s : ExtraRows(s)' = ExtraRows(s) /\ Past(s)' = Past(s) BY DEF ExtraRows, Past
<1>4. ReportGate' = ReportGate /\ LogsGate' = LogsGate BY DEF ReportGate, LogsGate
<1>5. \A x \in inbox : x.uri \in Uri /\ x.source \in Source BY DEF SoundInv, TypeOK, Row
<1>6. \A x \in PartialRow : x.source \in ExtraSource BY <1>5 DEF PartialRow, Source
<1>7. /\ Working /\ Working' /\ (Beginning' => Beginning)
      /\ Finishing' => Finishing
      /\ Policied' => Policied
      /\ Mapping
      /\ Adjoined' => Adjoined
      /\ Policied' => phase = "rebase"
  BY DEF Working, Beginning, Finishing, Policied, Mapping, Adjoined, MapPhase
<1>8. Beginning \/ ServiceOf[u] = "ec2" BY DEF Beginning
<1>9. \A s \in ExtraSource, v \in Uri : db'.raw[v][s] = db.raw[v][s]
  BY DEF Stores, ExtraSource, Source
<1>10. \A s \in ExtraSource, v \in Uri : <<s, v>> \in mapped' <=> <<s, v>> \in mapped BY DEF ExtraSource
<1>11. RowsOfExtras' BY <1>1, <1>2 DEF PartialInv, RowsOfExtras
<1>12. EarlyExtras' BY <1>1, <1>7, <1>10 DEF PartialInv, EarlyExtras
<1>13. \A v \in Uri : v # u => db'.res[v] = db.res[v] BY DEF Stores
<1>14. MappedExtras'
  <2> SUFFICES ASSUME NEW s \in ExtraSource, NEW v \in Uri, <<s, v>> \in mapped
               PROVE  ServiceOf[v] # "ec2" /\ (db'.res[v] = None \/ db'.raw[v][s] \in ExtraDocs(s, v))
    BY <1>2, <1>10 DEF MappedExtras
  <2>1. ~Beginning BY DEF PartialInv, EarlyExtras
  <2>2. ServiceOf[v] # "ec2" /\ (db.res[v] = None \/ db.raw[v][s] \in ExtraDocs(s, v))
    BY <1>7 DEF PartialInv, MappedExtras
  <2> QED BY <1>8, <1>9, <1>13, <2>1, <2>2
<1>15. VisitedExtras'
  <2> SUFFICES ASSUME NEW x \in PartialRow \cap done, db'.res[x.uri] # None
               PROVE  <<x.source, x.uri>> \in mapped
    BY <1>1, <1>6, <1>10 DEF VisitedExtras
  <2>1. ~Beginning BY DEF PartialInv, EarlyExtras
  <2>2. ServiceOf[x.uri] # "ec2" BY DEF PartialInv, RowsOfExtras
  <2>3. db.res[x.uri] # None BY <1>5, <1>8, <1>13, <2>1, <2>2 DEF PartialRow
  <2> QED BY <1>7, <2>3 DEF PartialInv, VisitedExtras
<1>16. PastRows' BY <1>1, <1>3, <1>7 DEF PartialInv, PastRows
<1>17. PastExtras'
  <2> SUFFICES ASSUME NEW s \in ExtraSource, NEW v \in Uri, Past(s), db'.res[v] = job.account,
                      InScope(job.spec, v), db.raw[v][s] # None
               PROVE  <<s, v>> \in mapped
    BY <1>3, <1>9, <1>10 DEF PastExtras
  <2>1. db.res[v] # None BY DEF SoundInv, TablesSound, ResourceHasBase, ExtraSource, Source
  <2>2. db.raw[v]["base"] # None BY <2>1 DEF SoundInv, TablesSound, ResourceHasBase
  <2>3. db.res[v] = job.account BY <1>13, <2>2 DEF Stores
  <2> QED BY <1>7, <2>3 DEF PartialInv, PastExtras
<1>18. AllPast' BY <1>7 DEF PartialInv, AllPast
<1>19. ReportFetched' BY <1>3, <1>4, <1>7 DEF PartialInv, ReportFetched
<1>20. PoliciesFetched'
  <2> SUFFICES ASSUME Policied', LogsGate, NEW x \in ExtraRows("logspolicies"),
                      TypeOf[x.uri] = "LogGroup", db'.res[x.uri] # None
               PROVE  x \in inbox
    BY <1>3, <1>4 DEF PoliciesFetched
  <2>1. cloud.extra[job.account]["logspolicies"] \subseteq [uri : Uri, data : Payload]
    BY CloudsAssumption DEF SoundInv, TypeOK, Cloud, ExtraSource
  <2>2. x.uri \in Uri BY <2>1 DEF ExtraRows
  <2>3. ServiceOf[x.uri] = "logs" BY <2>2, ServicesAssumption
  <2>4. x.uri # u BY <1>7, <2>3
  <2> QED BY <1>7, <1>13, <2>2, <2>4 DEF PartialInv, PoliciesFetched
<1>21. LateRows' BY <1>1, <1>7 DEF PartialInv, LateRows, Adjoined
<1> QED BY <1>11, <1>12, <1>14, <1>15, <1>16, <1>17, <1>18, <1>19, <1>20, <1>21 DEF PartialInv

\* map_partial_prefix stores what it visits.
LEMMA ApplyPartialPartial ==
  ASSUME SoundInv, MirrorInv, PartialInv, NEW row \in inbox, ApplyPartial(row)
  PROVE  PartialInv'
<1>1. TypeOK BY DEF SoundInv
<1> DEFINE u == row.uri
           s == row.source
<1>2. /\ u \in Uri /\ s \in ExtraSource /\ s \in Source /\ row.data \in Payload /\ s # "base" /\ s = CurrentSource
      /\ phase = "partials" /\ UNCHANGED <<cloud, job, phase, todo, raised, inbox, swept, before>>
      /\ done' = done \cup {row} /\ job.account \in Account
  BY <1>1, CurrentSourceType DEF ApplyPartial, PendingPartial, TypeOK, Row, ExtraSource
<1>3. /\ Working /\ ~Beginning /\ ~Finishing /\ Policied /\ Mapping /\ Adjoined
      /\ job.status = "running"
  BY <1>2 DEF MirrorInv, Working, Beginning, Finishing, Policied, Mapping, Adjoined, MapPhase
<1>4. PartialRow' = PartialRow /\ BaseRow' = BaseRow /\ row \in PartialRow
  BY <1>2 DEF PartialRow, BaseRow
<1>5. \A t, v : ExtraDocs(t, v)' = ExtraDocs(t, v) BY <1>2 DEF ExtraDocs
<1>6. \A t : ExtraRows(t)' = ExtraRows(t) /\ Past(t)' = Past(t) BY <1>2 DEF ExtraRows, Past
<1>7. db'.res = db.res BY <1>1, PartialsKeepBase
<1>8. ~Past(s) BY <1>1, <1>2, CurrentNotPast
<1>9. IF db.res[u] = None THEN db' = db /\ mapped' = mapped
      ELSE Stores(u, s, row.data) /\ mapped' = mapped \cup {<<s, u>>}
  <2>1. CASE db.res[u] = None BY <2>1 DEF ApplyPartial
  <2>2. CASE db.res[u] # None
    <3>1. mapped' = mapped \cup {<<s, u>>} /\ apply_partial(u, s, row.data)
      BY <2>2 DEF ApplyPartial
    <3>2. CASE StoreRaw(u, s, row.data) BY <1>1, <1>2, <2>2, <3>1, <3>2, StoreRawStores
    <3>3. CASE ~StoreRaw(u, s, row.data)
      BY <2>2, <3>1, <3>3 DEF apply_partial, NoDiff, Stores
    <3> QED BY <3>2, <3>3
  <2> QED BY <2>1, <2>2
<1>10. row.data \in ExtraDocs(s, u) /\ ServiceOf[u] # "ec2"
  BY <1>4 DEF PartialInv, RowsOfExtras
<1>11. \A t \in Source, v \in Uri : t # s \/ v # u =>
          db'.raw[v][t] = db.raw[v][t] /\ (<<t, v>> \in mapped' <=> <<t, v>> \in mapped)
  BY <1>2, <1>9 DEF Stores
<1>12. db.res[u] # None => db'.raw[u][s] = row.data /\ <<s, u>> \in mapped' BY <1>9 DEF Stores
<1>13. db.res[u] = None => db' = db /\ mapped' = mapped BY <1>9
<1>14. \A x \in inbox : x.uri \in Uri /\ x.source \in Source BY <1>1 DEF TypeOK, Row
<1>15. ExtraSource \subseteq Source BY DEF Source
<1> HIDE DEF u, s
<1>16. RowsOfExtras' BY <1>4, <1>5 DEF PartialInv, RowsOfExtras
<1>17. EarlyExtras' BY <1>2 DEF EarlyExtras, Beginning
<1>18. MappedExtras'
  <2> SUFFICES ASSUME NEW t \in ExtraSource, NEW v \in Uri, <<t, v>> \in mapped'
               PROVE  ServiceOf[v] # "ec2" /\ (db'.res[v] = None \/ db'.raw[v][t] \in ExtraDocs(t, v))
    BY <1>5 DEF MappedExtras
  <2>1. CASE t = s /\ v = u BY <1>7, <1>10, <1>12, <2>1
  <2>2. CASE t # s \/ v # u
    <3>1. <<t, v>> \in mapped /\ db'.raw[v][t] = db.raw[v][t] BY <1>11, <1>15, <2>2
    <3> QED BY <1>3, <1>7, <3>1 DEF PartialInv, MappedExtras
  <2> QED BY <2>1, <2>2
<1>19. VisitedExtras'
  <2> SUFFICES ASSUME NEW x \in PartialRow, x \in done', db.res[x.uri] # None
               PROVE  <<x.source, x.uri>> \in mapped'
    BY <1>4, <1>7 DEF VisitedExtras
  <2>1. CASE x.source = s /\ x.uri = u BY <1>12, <2>1
  <2>2. CASE ~(x.source = s /\ x.uri = u)
    <3>1. x \in done /\ x.uri \in Uri /\ x.source \in Source
      BY <1>2, <1>14, <2>2 DEF u, s, PartialRow
    <3>2. <<x.source, x.uri>> \in mapped BY <1>3, <3>1 DEF PartialInv, VisitedExtras
    <3> QED BY <1>11, <2>2, <3>1, <3>2
  <2> QED BY <2>1, <2>2
<1>20. PastRows' BY <1>2, <1>3, <1>4, <1>6 DEF PartialInv, PastRows
<1>21. PastExtras'
  <2> SUFFICES ASSUME NEW t \in ExtraSource, NEW v \in Uri, Past(t), db.res[v] = job.account,
                      InScope(job.spec, v), db'.raw[v][t] # None
               PROVE  <<t, v>> \in mapped'
    BY <1>2, <1>6, <1>7 DEF PastExtras
  <2>1. t # s BY <1>8
  <2>2. db'.raw[v][t] = db.raw[v][t] /\ (<<t, v>> \in mapped' <=> <<t, v>> \in mapped)
    BY <1>11, <1>15, <2>1
  <2> QED BY <1>3, <2>2 DEF PartialInv, PastExtras
<1>22. AllPast' BY <1>2, <1>3 DEF AllPast, Finishing
<1>23. ReportFetched' BY <1>2, <1>3, <1>6 DEF PartialInv, ReportFetched, ReportGate
<1>24. PoliciesFetched' BY <1>2, <1>3, <1>6, <1>7 DEF PartialInv, PoliciesFetched, LogsGate
<1>25. LateRows' BY <1>2, <1>3, <1>4 DEF PartialInv, LateRows
<1> QED BY <1>16, <1>17, <1>18, <1>19, <1>20, <1>21, <1>22, <1>23, <1>24, <1>25 DEF PartialInv

\* map_partial_deletes clears what its source stored and did not map.
LEMMA PartialDeletesPartial ==
  ASSUME SoundInv, MirrorInv, PartialInv, PartialDeletes
  PROVE  PartialInv'
<1>1. TypeOK BY DEF SoundInv
<1> DEFINE s == CurrentSource
           stale == StalePartials(s)
<1>2. /\ s \in ExtraSource /\ s \in Source /\ swept \in 0 .. 2 /\ swept < 2
      /\ phase = "partials" /\ UNCHANGED <<cloud, job, inbox, done, mapped, before, todo, raised>>
      /\ swept' = swept + 1 /\ phase' = IF swept' = Len(AWS_SOURCES) THEN "rebase" ELSE "partials"
      /\ job.account \in Account /\ PendingPartial = {}
  BY <1>1, CurrentSourceType, Sources DEF PartialDeletes, TypeOK
<1>3. /\ Working /\ ~Beginning /\ Policied /\ Mapping /\ Adjoined /\ job.status = "running"
      /\ ~Beginning' /\ (Finishing' => phase' = "rebase")
  BY <1>2 DEF MirrorInv, Working, Beginning, Finishing, Policied, Mapping, Adjoined, MapPhase
<1>4. PartialRow' = PartialRow /\ BaseRow' = BaseRow BY <1>2 DEF PartialRow, BaseRow
<1>5. \A t, v : ExtraDocs(t, v)' = ExtraDocs(t, v) BY <1>2 DEF ExtraDocs
<1>6. \A t : ExtraRows(t)' = ExtraRows(t) BY <1>2 DEF ExtraRows
<1>7. \A t : Past(t)' => Past(t) \/ t = s
  <2>1. 1 .. swept' = 1 .. swept \cup {swept + 1} BY <1>2
  <2> QED BY <2>1 DEF Past, CurrentSource
<1>8. db'.res = db.res BY <1>1, PartialsKeepBase
<1>9. db' = [db EXCEPT !.raw = Clear(db.raw, stale, s, None),
                       !.attr = Clear(db.attr, stale, s, NoAttrs)]
  BY DEF PartialDeletes
<1>10. stale = {u \in Uri : /\ db.res[u] = job.account /\ db.raw[u][s] # None
                            /\ <<s, u>> \notin mapped /\ InScope(job.spec, u)}
  BY DEF StalePartials
<1>11. PendingPartial = {x \in inbox \ done : x.source = s} BY DEF PendingPartial
<1> HIDE DEF s, stale
<1>12. \A t \in Source, v \in Uri :
          db'.raw[v][t] = IF t = s /\ v \in stale THEN None ELSE db.raw[v][t]
  BY <1>1, <1>2, <1>9 DEF Clear, TypeOK, Tables
<1>13. ExtraSource \subseteq Source BY DEF Source
<1>14. RowsOfExtras' BY <1>4, <1>5 DEF PartialInv, RowsOfExtras
<1>15. EarlyExtras' BY <1>3 DEF EarlyExtras
<1>16. MappedExtras'
  BY <1>2, <1>3, <1>5, <1>8, <1>10, <1>12, <1>13 DEF PartialInv, MappedExtras
<1>17. VisitedExtras' BY <1>2, <1>3, <1>4, <1>8 DEF PartialInv, VisitedExtras
<1>18. PastRows' BY <1>2, <1>3, <1>4, <1>7, <1>11 DEF PartialInv, PastRows, PartialRow
<1>19. PastExtras'
  <2> SUFFICES ASSUME NEW t \in ExtraSource, NEW v \in Uri, Past(t)', db.res[v] = job.account,
                      InScope(job.spec, v), db'.raw[v][t] # None
               PROVE  <<t, v>> \in mapped
    BY <1>2, <1>8 DEF PastExtras
  <2>1. db.raw[v][t] # None BY <1>12, <1>13
  <2>2. CASE t = s BY <1>10, <1>12, <1>13, <2>1, <2>2
  <2>3. CASE t # s BY <1>3, <1>7, <2>1, <2>3 DEF PartialInv, PastExtras
  <2> QED BY <2>2, <2>3
<1>20. AllPast' BY <1>2, <1>3 DEF AllPast
<1>21. ReportFetched' BY <1>2, <1>3, <1>6 DEF PartialInv, ReportFetched, ReportGate
<1>22. PoliciesFetched' BY <1>2, <1>3, <1>6, <1>8 DEF PartialInv, PoliciesFetched, LogsGate
<1>23. LateRows' BY <1>2, <1>3, <1>4 DEF PartialInv, LateRows
<1> QED BY <1>14, <1>15, <1>16, <1>17, <1>18, <1>19, <1>20, <1>21, <1>22, <1>23 DEF PartialInv

\* The images that the adjunct fetch adds are of ec2, the policies of log groups.
LEMMA AddedPartial ==
  ASSUME SoundInv, MirrorInv, PartialInv, NothingMissed, FindAdjunctData \/ AddLogsResourcePolicies
  PROVE  PartialInv'
<1>1. /\ UNCHANGED <<cloud, job, todo, raised, done, mapped, swept, db, before>>
      /\ inbox \subseteq inbox' /\ phase \in {"adjunct", "policies"}
      /\ phase = "adjunct" => FindAdjunctData /\ phase' = "policies"
      /\ phase = "policies" => AddLogsResourcePolicies /\ phase' = "partials"
  BY DEF FindAdjunctData, AddLogsResourcePolicies
<1>2. job.status = "running" /\ job.account \in Account /\ cloud \in Clouds /\ swept = 0
  BY <1>1 DEF MirrorInv, SoundInv, TypeOK
<1>3. /\ Beginning /\ Working /\ Mapping /\ ~Finishing'
      /\ Policied' => phase = "policies"
      /\ phase = "policies" => Adjoined
      /\ Beginning' => phase = "adjunct"
  BY <1>1, <1>2 DEF Beginning, Working, Mapping, Finishing, Policied, Adjoined, MapPhase
<1>4. \A t, v : ExtraDocs(t, v)' = ExtraDocs(t, v) BY <1>1 DEF ExtraDocs
<1>5. \A t : ExtraRows(t)' = ExtraRows(t) BY <1>1 DEF ExtraRows
<1>6. phase = "adjunct" =>
        /\ PartialRow' = PartialRow
        /\ \A x \in BaseRow' \ BaseRow : x.uri \in MissingAmis
  BY <1>1 DEF FindAdjunctData, PartialRow, BaseRow
<1>7. phase = "policies" =>
        /\ \A x \in PartialRow' \ PartialRow :
             x \in ExtraRows("logspolicies") /\ TypeOf[x.uri] = "LogGroup"
        /\ BaseRow' = BaseRow
  BY <1>1 DEF AddLogsResourcePolicies, PartialRow, BaseRow, ExtraRows
<1>8. ASSUME NEW i \in MissingAmis PROVE ServiceOf[i] = "ec2"
  <2>1. PICK vm \in Uri : db.res[vm] # None /\ ImageOf[db.raw[vm]["base"]] = i
    BY DEF MissingAmis
  <2>2. db.raw[vm]["base"] \in Payload
    BY <2>1 DEF SoundInv, TablesSound, ResourceHasBase, TypeOK, Tables, Source
  <2> QED BY <2>1, <2>2, ServicesAssumption DEF MissingAmis
<1>9. cloud.extra[job.account]["logspolicies"] \subseteq [uri : Uri, data : Payload]
  BY <1>2, CloudsAssumption DEF Cloud, ExtraSource
<1>10. RowsOfExtras'
  <2> SUFFICES ASSUME NEW x \in PartialRow', x \notin PartialRow
               PROVE  x.data \in ExtraDocs(x.source, x.uri) /\ ServiceOf[x.uri] # "ec2"
    BY <1>4 DEF PartialInv, RowsOfExtras
  <2>1. x \in ExtraRows("logspolicies") /\ TypeOf[x.uri] = "LogGroup" BY <1>1, <1>6, <1>7
  <2>2. x.uri \in Uri BY <1>9, <2>1 DEF ExtraRows
  <2>3. ServiceOf[x.uri] = "logs" BY <2>1, <2>2, ServicesAssumption
  <2> QED BY <2>1, <2>3 DEF ExtraRows, ExtraDocs
<1>11. PartialRow' \cap done' = {} /\ \A t \in ExtraSource, u \in Uri : <<t, u>> \notin mapped'
  BY <1>1, <1>3 DEF PartialInv, EarlyExtras, MirrorInv, PartialRow
<1>12. EarlyExtras' /\ MappedExtras' /\ VisitedExtras'
  BY <1>11 DEF EarlyExtras, MappedExtras, VisitedExtras
<1>13. PastRows' /\ PastExtras' BY <1>1, <1>2 DEF PastRows, PastExtras, Past
<1>14. ReportFetched' BY <1>1, <1>3, <1>5 DEF PartialInv, ReportFetched, ReportGate
<1>15. PoliciesFetched'
  <2> SUFFICES ASSUME phase = "policies", LogsGate, NEW x \in ExtraRows("logspolicies"),
                      TypeOf[x.uri] = "LogGroup", db.res[x.uri] # None
               PROVE  x \in inbox'
    BY <1>1, <1>3, <1>5 DEF PoliciesFetched, LogsGate
  <2> QED BY <1>1 DEF AddLogsResourcePolicies, NothingMissed
<1>16. LateRows'
  <2> SUFFICES ASSUME NEW x \in BaseRow', x \notin done PROVE ServiceOf[x.uri] = "ec2"
    BY <1>1 DEF LateRows
  <2>1. CASE phase = "adjunct"
    <3>1. BaseRow \subseteq done BY <2>1 DEF MirrorInv, AllMapped
    <3> QED BY <1>6, <1>8, <2>1, <3>1
  <2>2. CASE phase = "policies" BY <1>3, <1>7, <2>2 DEF PartialInv, LateRows
  <2> QED BY <1>1, <2>1, <2>2
<1> QED BY <1>3, <1>10, <1>12, <1>13, <1>14, <1>15, <1>16 DEF PartialInv, AllPast

\* Every step keeps the invariant.
LEMMA PartialStep ==
  ASSUME NothingMissed
  PROVE  SoundInv /\ MirrorInv /\ PartialInv /\ [Next]_vars => PartialInv'
<1> SUFFICES ASSUME SoundInv, MirrorInv, PartialInv, [Next]_vars PROVE PartialInv'
  OBVIOUS
<1>1. TypeOK /\ (phase # "idle" => job.account \in Account) BY DEF SoundInv, TypeOK
<1>2. phase # "idle" => job.status = "running" BY DEF MirrorInv
<1>3. CASE StartJob
  <2>1. /\ inbox' = {} /\ mapped' = {} /\ swept' = 0 /\ phase' = "fetch" /\ job'.status = "running"
        /\ \E a \in Account, spec \in Specs :
             /\ job'.account = a /\ job'.spec = spec
             /\ todo' = {s \in Service : service_gate(spec, s)}
    BY <1>3 DEF StartJob
  <2>2. PartialRow' = {} BY <2>1 DEF PartialRow
  <2>3. \A s : ~Past(s)' BY <2>1 DEF Past
  <2>4. ~Mapping' /\ ~Adjoined' /\ ~Finishing' /\ ~Policied'
    BY <2>1 DEF Mapping, Adjoined, Finishing, Policied, MapPhase
  <2>5. "iam" \in Service BY <2>1, TransformsAssumption, ServicesAssumption
  <2>6. "iam" \notin todo' => ~ReportGate' BY <2>1, <2>5 DEF ReportGate
  <2> QED BY <2>1, <2>2, <2>3, <2>4, <2>6
       DEF PartialInv, RowsOfExtras, EarlyExtras, MappedExtras, VisitedExtras, PastRows, PastExtras,
           AllPast, ReportFetched, PoliciesFetched, LateRows
<1>4. CASE \E s \in Service : FetchService(s) BY <1>4, FetchPartial
<1>5. CASE FindAdjunctData \/ AddLogsResourcePolicies BY <1>5, AddedPartial
<1>6. ASSUME NEW row \in inbox, ApplyBase(row) PROVE PartialInv'
  <2>1. /\ row.uri \in Uri /\ row.data \in Payload /\ row \in BaseRow \ done /\ phase \in {"base", "rebase"}
        /\ UNCHANGED <<cloud, inbox, swept, job, before, todo, raised, phase>>
        /\ mapped' = mapped \cup {<<"base", row.uri>>} /\ done' = done \cup {row}
    BY <1>1, <1>6 DEF ApplyBase, PendingBase, BaseRow, TypeOK, Row
  <2>2. Stores(row.uri, "base", row.data) BY <1>1, <1>6, <2>1, ApplyStores DEF ApplyBase
  <2>3. PartialRow \cap done' = PartialRow \cap done BY <2>1 DEF PartialRow, BaseRow
  <2>4. phase = "rebase" => ServiceOf[row.uri] = "ec2" BY <2>1 DEF PartialInv, LateRows, Adjoined, MapPhase
  <2> QED BY <1>1, <1>2, <2>1, <2>2, <2>3, <2>4, StoresPartial
<1>7. CASE SynthesizeRoot
  <2> DEFINE root == RootOf[job.account]
  <2>1. /\ root \in Uri /\ cloud.base[job.account][root] \in Payload /\ phase = "root" /\ phase' = "adjunct"
        /\ UNCHANGED <<cloud, inbox, swept, job, before, todo, raised, done>> /\ BaseRow \subseteq done
    BY <1>1, <1>7, CloudsAssumption, TransformsAssumption
    DEF SynthesizeRoot, TypeOK, Cloud, MirrorInv, AllMapped
  <2>2. CASE IamGate
    <3>1. apply_resource(root, cloud.base[job.account][root]) /\ mapped' = mapped \cup {<<"base", root>>}
      BY <1>7, <2>2 DEF SynthesizeRoot
    <3>2. Stores(root, "base", cloud.base[job.account][root]) BY <1>1, <2>1, <3>1, ApplyStores
    <3> QED BY <1>1, <1>2, <2>1, <3>1, <3>2, StoresPartial
  <2>3. CASE ~IamGate
    <3>1. UNCHANGED <<mapped, db>> BY <1>7, <2>3 DEF SynthesizeRoot
    <3>2. /\ Mapping /\ Beginning /\ ~Finishing' /\ ~Policied' /\ Working /\ ~Adjoined'
      BY <1>2, <2>1 DEF Mapping, Beginning, Finishing, Policied, Working, Adjoined, MapPhase
    <3>3. phase # "idle" /\ phase' # "fetch" BY <2>1
    <3> QED BY <1>1, <2>1, <3>1, <3>2, <3>3, SamePartial
  <2> QED BY <2>2, <2>3
<1>8. CASE \E row \in inbox : ApplyPartial(row) BY <1>8, ApplyPartialPartial
<1>9. CASE PartialDeletes BY <1>9, PartialDeletesPartial
<1>10. CASE ResourceDeletes
  <2>1. /\ UNCHANGED <<cloud, job, todo, raised, inbox, done, mapped, swept, before>>
        /\ phase = "deletes" /\ phase' = "relations"
    BY <1>1, <1>10, DeletesLeave
  <2>2. \A u \in Uri : \/ db'.res[u] = None
                       \/ db'.res[u] = db.res[u] /\ db'.raw[u] = db.raw[u]
    <3>1. \A u \in StaleResources : db'.res[u] = None BY <1>1, <1>10, DeletesLeave
    <3>2. \A u \in Uri \ StaleResources : db'.res[u] = db.res[u] /\ db'.raw[u] = db.raw[u]
      BY <1>1, <1>10, DeletesLeave
    <3> QED BY <3>1, <3>2
  <2>3. /\ Mapping /\ ~Beginning' /\ Finishing /\ Policied /\ Working /\ Adjoined
    BY <2>1 DEF Mapping, Beginning, Finishing, Policied, Working, Adjoined, MapPhase
  <2>4. phase # "idle" /\ phase' # "fetch" BY <2>1
  <2> QED BY <1>1, <2>1, <2>2, <2>3, <2>4, SamePartial
<1>11. CASE RelationDeletes \/ EndRelations \/ Commit \/ Complete \/ \E l \in Link : ApplyRelation(l)
  <2>1. /\ UNCHANGED <<cloud, todo, raised, inbox, done, mapped, swept, before>>
        /\ db'.res = db.res /\ db'.raw = db.raw
        /\ <<phase, phase'>> \in {<<"relations", "relations">>, <<"relations", "reldeletes">>,
              <<"reldeletes", "commit">>, <<"commit", "refresh">>, <<"refresh", "idle">>}
        /\ job'.account = job.account /\ job'.spec = job.spec
    BY <1>1, <1>11, LinksKeepResources
  <2>2. /\ Mapping /\ ~Beginning' /\ Finishing /\ Policied /\ Working /\ Adjoined
    BY <2>1 DEF Mapping, Beginning, Finishing, Policied, Working, Adjoined, MapPhase
  <2>3. phase # "idle" /\ phase' # "fetch" BY <2>1
  <2> QED BY <1>1, <2>1, <2>2, <2>3, SamePartial
<1>12. CASE EndFetch /\ ~raised
  <2>1. /\ phase = "fetch" /\ phase' = "base" /\ todo = {} /\ ~raised
        /\ UNCHANGED <<cloud, job, before, mapped, db, inbox, done, swept>>
    BY <1>12 DEF EndFetch
  <2>2. /\ ~Adjoined' /\ ~Finishing' /\ ~Policied' /\ Beginning /\ Working
    BY <1>2, <2>1 DEF Adjoined, Finishing, Policied, Beginning, Working, MapPhase
  <2>3. ReportFetched' BY <2>1 DEF PartialInv, ReportFetched, ReportGate, ExtraRows
  <2> QED BY <2>1, <2>2, <2>3
       DEF PartialInv, RowsOfExtras, EarlyExtras, MappedExtras, VisitedExtras, PastRows, PastExtras,
           AllPast, PoliciesFetched, LateRows, PartialRow, ExtraDocs, Past
<1>13. CASE (EndFetch /\ raised) \/ AdjunctRaises \/ MapRaises \/ DbFails
  <2>1. /\ UNCHANGED <<cloud, inbox>> /\ job'.account = job.account
        /\ phase' = "idle" /\ job'.status \in {"failed", "lost"}
    BY <1>1, <1>13 DEF EndFetch, AdjunctRaises, MapRaises, DbFails, End, TypeOK
  <2>2. ~Mapping' /\ ~Adjoined' /\ ~Finishing' /\ ~Policied' /\ ~Beginning' /\ ~Working'
    BY <2>1 DEF Mapping, Adjoined, Finishing, Policied, Beginning, Working, MapPhase
  <2>3. RowsOfExtras' BY <2>1 DEF PartialInv, RowsOfExtras, PartialRow, ExtraDocs
  <2> QED BY <2>1, <2>2, <2>3
       DEF PartialInv, EarlyExtras, MappedExtras, VisitedExtras, PastRows, PastExtras,
           AllPast, ReportFetched, PoliciesFetched, LateRows
<1>14. CASE EndBase \/ \E s \in Service : FetchRaises(s)
  <2>1. /\ UNCHANGED <<cloud, inbox, job, before, mapped, db, done, swept>> /\ phase # "idle"
        /\ \/ phase = "fetch" /\ phase' = "fetch" /\ raised'
           \/ <<phase, phase'>> \in {<<"base", "root">>, <<"rebase", "deletes">>}
    BY <1>14 DEF EndBase, FetchRaises
  <2>2. /\ Mapping' => Mapping
        /\ Adjoined' => Adjoined
        /\ Finishing' => Finishing
        /\ Policied' => Policied
        /\ Beginning' => Beginning
        /\ Working' => Working
    BY <2>1 DEF Mapping, Adjoined, Finishing, Policied, Beginning, Working, MapPhase
  <2>3. ~(phase' = "fetch" /\ ~raised') BY <2>1
  <2> QED BY <1>1, <2>1, <2>2, <2>3, SamePartial
<1>15. CASE UNCHANGED vars
  BY <1>15 DEF vars, PartialInv, RowsOfExtras, EarlyExtras, MappedExtras, VisitedExtras, PastRows,
     PastExtras, AllPast, ReportFetched, PoliciesFetched, LateRows, PartialRow, BaseRow, ExtraDocs,
     ExtraRows, Past, Mapping, Adjoined, Finishing, Policied, Beginning, Working, ReportGate, LogsGate
<1>16. ~CloudDrifts BY DEF CloudDrifts, NothingMissed
<1> QED BY <1>3, <1>4, <1>5, <1>6, <1>7, <1>8, <1>9, <1>10, <1>11, <1>12, <1>13, <1>14, <1>15, <1>16
     DEF Next, ImportStep, Fault

\* The relations of a complete import are those of what was fetched.
LEMMA RelationsConverge ==
  ASSUME SoundInv, MirrorInv, RelInv, ListInv, job.status = "complete", job.spec = NoSpec,
         job.account \in Account, NEW r \in Rel, db.res[ParentOf[r]] = job.account
  PROVE  db.rel[r] # None
           <=> /\ db.res[TargetOf[r]] # None
               /\ \E u \in Uri : Here[u] # None /\ \E l \in Yields[u][Here[u]] : l.rel = r
<1>1. /\ Working /\ Swept /\ Linking /\ Closing /\ Cleared /\ Mapping /\ cloud \in Clouds
      /\ \A u : InScope(job.spec, u) /\ Fetched(job.spec, u)
  BY DEF Working, Swept, Linking, Closing, Cleared, Mapping, SoundInv, TypeOK, InScope, Fetched,
         service_gate, resource_gate, Asked
<1>2. \A x \in BaseRow : x.uri \in Uri /\ x.data \in Payload /\ x.data = Here[x.uri]
  BY DEF SoundInv, TypeOK, Row, BaseRow, ListInv, RowsHere
<1>3. ASSUME db.rel[r] # None
      PROVE  \E u \in Uri : Here[u] # None /\ \E l \in Yields[u][Here[u]] : l.rel = r
  <2>1. r \in found BY <1>1, <1>3 DEF RelInv, NoneUnfound, OfScope
  <2>2. PICK l \in linked : l.rel = r BY <2>1 DEF RelInv, LinksOfRows
  <2>3. PICK x \in BaseRow : l \in Yields[x.uri][x.data] BY <2>2 DEF RelInv, LinksOfRows, Links
  <2> QED BY <1>2, <2>2, <2>3, NoneAssumption
<1>4. ASSUME db.res[TargetOf[r]] # None, NEW u \in Uri, Here[u] # None,
             NEW l \in Yields[u][Here[u]], l.rel = r
      PROVE  db.rel[r] # None
  <2>1. Here[u] \in Payload BY <1>1, <1>4, CloudsAssumption DEF Cloud, Here
  <2>2. u \notin Roots /\ Here[u] \notin Public BY <1>4, <2>1, KindsAssumption DEF Roots
  <2>3. PICK x \in BaseRow : x.uri = u BY <1>1, <1>4, <2>2 DEF ListInv, ListedMapped, Listed, HasRow
  <2>4. l \in linked BY <1>1, <1>2, <1>4, <2>3 DEF RelInv, AllLinked, Links
  <2>5. Ended(l.rel) BY <1>4, NoneAssumption DEF Ended
  <2> QED BY <1>1, <1>4, <2>4, <2>5 DEF RelInv, FoundLinks
<1>5. db.rel[r] # None => db.res[TargetOf[r]] # None
  BY DEF SoundInv, TablesSound, RelationsHaveEnds
<1> QED BY <1>3, <1>4, <1>5

\* So are its partial documents.
LEMMA ExtrasConverge ==
  ASSUME SoundInv, MirrorInv, PartialInv, PoliciesOfGroups, job.status = "complete", job.spec = NoSpec,
         job.account \in Account, NEW u \in Uri, NEW s \in ExtraSource, db.res[u] = job.account
  PROVE  IF ExtraDocs(s, u) = {} THEN db.raw[u][s] = None ELSE db.raw[u][s] \in ExtraDocs(s, u)
<1>1. /\ Working /\ Mapping /\ Finishing /\ Policied /\ cloud \in Clouds /\ InScope(job.spec, u)
      /\ ReportGate /\ LogsGate /\ swept = 2
  BY Sources DEF Working, Mapping, Finishing, Policied, SoundInv, TypeOK, InScope, ReportGate, LogsGate,
     service_gate, resource_gate, Asked, PartialInv, AllPast
<1>2. Past(s)
  <2>1. AWS_SOURCES[1] = "credentialreport" /\ AWS_SOURCES[2] = "logspolicies" BY DEF AWS_SOURCES
  <2> QED BY <1>1, <2>1 DEF Past, ExtraSource
<1>3. db.res[u] # None BY NoneAssumption
<1>4. <<s, u>> \in mapped => db.raw[u][s] \in ExtraDocs(s, u)
  BY <1>1, <1>3 DEF PartialInv, MappedExtras
<1>5. db.raw[u][s] # None => <<s, u>> \in mapped BY <1>1, <1>2 DEF PartialInv, PastExtras
<1>6. ASSUME NEW d \in ExtraDocs(s, u) PROVE <<s, u>> \in mapped
  <2> DEFINE x == [source |-> s, uri |-> u, data |-> d]
  <2>1. PICK y \in cloud.extra[job.account][s] : y.uri = u /\ y.data = d BY DEF ExtraDocs
  <2>2. x \in ExtraRows(s) BY <2>1 DEF ExtraRows
  <2>3. x \in inbox
    <3>1. CASE s = "credentialreport" BY <1>1, <2>2, <3>1 DEF PartialInv, ReportFetched
    <3>2. CASE s = "logspolicies"
      <4>1. TypeOf[u] = "LogGroup" BY <1>1, <2>1, <3>2 DEF PoliciesOfGroups
      <4> QED BY <1>1, <1>3, <2>2, <3>2, <4>1 DEF PartialInv, PoliciesFetched
    <3> QED BY <3>1, <3>2 DEF ExtraSource
  <2>4. x \in PartialRow BY <2>3 DEF PartialRow, ExtraSource
  <2>5. x \in done BY <1>1, <1>2, <2>4 DEF PartialInv, PastRows
  <2> QED BY <1>1, <1>3, <2>4, <2>5 DEF PartialInv, VisitedExtras
<1> QED BY <1>4, <1>5, <1>6

\* A job that was started has an account.
Named == job.status # "none" => job.account \in Account

LEMMA NamedStep ==
  ASSUME TypeOK, Named, [Next]_vars
  PROVE  Named'
<1>1. CASE UNCHANGED vars BY <1>1 DEF vars, Named
<1>2. CASE StartJob BY <1>2 DEF StartJob, Named
<1>3. CASE UNCHANGED job BY <1>3 DEF Named
<1>4. ASSUME NEW status \in {"failed", "lost", "complete"}, End(status), phase # "idle"
      PROVE  Named'
  <2>1. job.account \in Account BY <1>4 DEF TypeOK
  <2>2. job'.account = job.account BY <1>4 DEF End, TypeOK
  <2> QED BY <2>1, <2>2 DEF Named
<1>5. CASE EndFetch BY <1>3, <1>4, <1>5 DEF EndFetch
<1>6. CASE MapRaises BY <1>4, <1>6 DEF MapRaises, MapPhase
<1>7. CASE DbFails BY <1>4, <1>7 DEF DbFails, MapPhase
<1>8. CASE AdjunctRaises BY <1>4, <1>8 DEF AdjunctRaises
<1>9. CASE Complete BY <1>4, <1>9 DEF Complete
<1> QED
  BY <1>1, <1>2, <1>3, <1>5, <1>6, <1>7, <1>8, <1>9
  DEF Next, FetchService, FetchRaises, CloudDrifts, EndBase, SynthesizeRoot, FindAdjunctData,
      AddLogsResourcePolicies, ApplyBase, ApplyPartial, PartialDeletes, ResourceDeletes,
      ApplyRelation, EndRelations, RelationDeletes, Commit, ImportStep, Fault

\* Whatever failures, half-done mappings and scoped imports came before: where lists
\* are not denied and AWS holds still, a complete import without -s leaves exactly
\* the documents, partial documents and relations that the account holds.
THEOREM FullImportConvergesHolds ==
  ASSUME NothingMissed, AccountsApart, ImagesSteady, ScopesAgree, PoliciesOfGroups
  PROVE  Spec => []FullImportConverges
<1>1. Init => MirrorInv /\ HeldInv /\ RelInv /\ ListInv /\ PartialInv /\ Named
  <2>1. Init => MirrorInv
    BY DEF Init, MirrorInv, BaseRow, RowsOnce, ServicesOnce, ListedRows, RowsStored, MappedRows,
           AllMapped, NoneStale, Working, Swept
  <2>2. Init => HeldInv
    BY DEF Init, HeldInv, Held, HeldRows, BaseRow, EmptyTables
  <2>3. Init => RelInv
    BY DEF Init, RelInv, LinksOfRows, FoundLinks, AllLinked, NoneUnfound, GoneRelations,
           Working, Linking, Closing, Cleared
  <2>4. Init => ListInv
    BY DEF Init, ListInv, RowsHere, ListedFetched, ListedMapped, ImagesFetched, RootStored,
           GoneResources, BaseRow, Working, Mapping, Adjoined, Rooted, MapPhase
  <2>5. Init => PartialInv
    BY DEF Init, PartialInv, RowsOfExtras, EarlyExtras, MappedExtras, VisitedExtras, PastRows, PastExtras,
           AllPast, ReportFetched, PoliciesFetched, LateRows, PartialRow, Mapping, Adjoined, Finishing,
           Policied, Beginning, Working, MapPhase
  <2>6. Init => Named BY DEF Init, Named
  <2> QED BY <2>1, <2>2, <2>3, <2>4, <2>5, <2>6
<1>2. /\ SoundInv /\ Named /\ [Next]_vars => Named'
      /\ SoundInv /\ MirrorInv /\ [Next]_vars => MirrorInv'
      /\ SoundInv /\ HeldInv /\ [Next]_vars => HeldInv'
      /\ SoundInv /\ MirrorInv /\ RelInv /\ [Next]_vars => RelInv'
      /\ SoundInv /\ MirrorInv /\ HeldInv /\ ListInv /\ [Next]_vars => ListInv'
      /\ SoundInv /\ MirrorInv /\ PartialInv /\ [Next]_vars => PartialInv'
  BY MirrorStep, HeldStep, RelStep, ListStep, PartialStep, NamedStep DEF SoundInv
<1>3. SoundInv /\ MirrorInv /\ HeldInv /\ RelInv /\ ListInv /\ PartialInv /\ Named
        => FullImportConverges
  <2> SUFFICES ASSUME SoundInv, MirrorInv, HeldInv, RelInv, ListInv, PartialInv, Named,
                      job.status = "complete", job.spec = NoSpec
               PROVE  FullImportConverges
    BY DEF FullImportConverges
  <2>1. /\ Working /\ Swept /\ Mapping /\ cloud \in Clouds
        /\ \A u : InScope(job.spec, u)
    BY DEF Working, Swept, Mapping, SoundInv, TypeOK, InScope, service_gate, resource_gate, Asked
  <2>3. job.account \in Account BY DEF Named
  <2>4. ASSUME NEW u \in Uri, Here[u] # None, Wanted(u) PROVE db.raw[u]["base"] = Here[u]
    <3>1. <<"base", u>> \in mapped BY <2>1, <2>3, <2>4, HeldMapped
    <3>2. CASE u \in Roots
      <4>1. PICK a \in Account : u = RootOf[a] BY <3>2 DEF Roots
      <4>2. cloud.base[a][u] \notin {None} \cup Public BY <2>1, <4>1, CloudsAssumption
      <4>3. a = job.account BY <2>1, <2>3, <2>4, <4>2 DEF AccountsApart, Here
      <4>4. Rooted /\ IamGate BY DEF Rooted, Adjoined, IamGate, service_gate
      <4> QED BY <4>1, <4>3, <4>4 DEF ListInv, RootStored
    <3>3. CASE u \notin Roots
      <4>1. PICK x \in BaseRow : x.uri = u BY <2>1, <3>1, <3>3 DEF MirrorInv, MappedRows
      <4> QED BY <2>1, <4>1 DEF MirrorInv, AllMapped, RowsStored, ListInv, RowsHere
    <3> QED BY <3>2, <3>3
  <2>5. ASSUME NEW u \in Uri, Here[u] = None, db.res[u] = job.account PROVE FALSE
    <3>1. <<"base", u>> \in mapped BY <2>1, <2>5 DEF MirrorInv, NoneStale
    <3>2. CASE u \in Roots
      <4>1. PICK a \in Account : u = RootOf[a] BY <3>2 DEF Roots
      <4>2. cloud.base[a][u] \notin {None} \cup Public BY <2>1, <4>1, CloudsAssumption
      <4>3. PICK c \in Clouds : c.base[job.account][u] # None
        BY <2>3, <2>5, NoneAssumption DEF HeldInv, Held
      <4>4. a = job.account BY <2>1, <2>3, <4>2, <4>3 DEF AccountsApart
      <4> QED BY <2>5, <4>2, <4>4 DEF Here
    <3>3. CASE u \notin Roots
      <4>1. PICK x \in BaseRow : x.uri = u BY <2>1, <3>1, <3>3 DEF MirrorInv, MappedRows
      <4>2. x.data = None /\ x.data \in Payload
        BY <2>5, <4>1 DEF ListInv, RowsHere, SoundInv, TypeOK, Row, BaseRow
      <4> QED BY <4>2, NoneAssumption
    <3> QED BY <3>2, <3>3
  <2>6. \A u \in Uri, s \in ExtraSource : db.res[u] = job.account =>
          IF ExtraDocs(s, u) = {} THEN db.raw[u][s] = None ELSE db.raw[u][s] \in ExtraDocs(s, u)
    BY <2>3, ExtrasConverge
  <2>7. \A r \in Rel : db.res[ParentOf[r]] = job.account =>
          (db.rel[r] # None
             <=> /\ db.res[TargetOf[r]] # None
                 /\ \E u \in Uri : Here[u] # None /\ \E l \in Yields[u][Here[u]] : l.rel = r)
    BY <2>3, RelationsConverge
  <2> QED BY <2>4, <2>5, <2>6, <2>7 DEF FullImportConverges
<1> QED BY <1>1, <1>2, <1>3, AlwaysSound, PTL DEF Spec
===================================================================================
