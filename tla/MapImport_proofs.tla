---------------------------- MODULE MapImport_proofs ----------------------------
(***************************************************************************)
(* Theorems about MapImport, for every account, transform, snapshot and    *)
(* set of faults.                                                          *)
(***************************************************************************)
EXTENDS MapImportProps, TLAPS

(***************************************************************************)
(* The operators on delta counts and attributes return what the tables     *)
(* hold.                                                                   *)
(***************************************************************************)
\* Log counts up (every place that adds a delta row).
LEMMA LogType ==
  ASSUME NEW counts \in Counts, NEW kinds
  PROVE  Log(counts, kinds) \in Counts
BY DEF Log, Counts

\* LogAttrs logs one resource_attribute_delta per attribute (diff_attrs).
LEMMA LogAttrsType ==
  ASSUME NEW counts \in [AttrName -> Counts], NEW old, NEW new
  PROVE  LogAttrs(counts, old, new) \in [AttrName -> Counts]
BY LogType DEF LogAttrs

\* The attributes of a document, or of none, fit resource_attribute.
LEMMA AttrsOfType ==
  ASSUME NEW p \in Payload \cup {None}
  PROVE  AttrsOf(p) \in [AttrName -> AttrVal \cup {None}]
BY TransformsAssumption, NoneAssumption DEF AttrsOf, NoAttrs

\* A job starts with empty delta counts.
LEMMA NoDeltasType == NoDeltas \in Deltas
BY DEF NoDeltas, Deltas, Zero, Counts

\* The first import starts from empty tables.
LEMMA EmptyTablesType == EmptyTables \in Tables
BY DEF EmptyTables, Tables, NoAttrs

\* Storing or removing a document keeps the tables typed (apply_partial and the
\* update branch of apply_resource).
LEMMA StoreRawType ==
  ASSUME db \in Tables, delta \in Deltas, NEW u \in Uri, NEW s \in Source,
         NEW p \in Payload \cup {None}, NEW kinds,
         StoreRaw(u, s, p), LogRaw(u, s, p, kinds)
  PROVE  db' \in Tables /\ delta' \in Deltas
<1>1. db' \in Tables
  BY AttrsOfType DEF StoreRaw, Tables
<1>2. delta' \in Deltas
  <2>1. Log(delta.res[u], kinds) \in Counts
    BY LogType DEF Deltas
  <2>2. LogAttrs(delta.attr[u][s], db.attr[u][s], AttrsOf(p)) \in [AttrName -> Counts]
    BY LogAttrsType DEF Deltas
  <2> QED
    BY <2>1, <2>2 DEF LogRaw, Deltas
<1> QED
  BY <1>1, <1>2

\* apply_resource keeps the tables typed.
LEMMA ApplyResourceType ==
  ASSUME db \in Tables, delta \in Deltas, job.account \in Account,
         NEW u \in Uri, NEW p \in Payload, apply_resource(u, p)
  PROVE  db' \in Tables /\ delta' \in Deltas
<1> "base" \in Source
  BY DEF Source
<1>1. CASE db.raw[u]["base"] = None
  <2>0. AttrsOf(p) \in [AttrName -> AttrVal \cup {None}]
    BY AttrsOfType
  <2>1. db' = [db EXCEPT !.res[u] = job.account, !.raw[u]["base"] = p,
                         !.attr[u]["base"] = AttrsOf(p)]
    BY <1>1 DEF apply_resource
  <2>5. LogRaw(u, "base", p, {"add"})
    BY <1>1 DEF apply_resource
  <2>6. db' \in Tables
    BY <2>0, <2>1 DEF Tables
  <2>2. Log(delta.res[u], {"add"}) \in Counts
    BY LogType DEF Deltas
  <2>3. LogAttrs(delta.attr[u]["base"], db.attr[u]["base"], AttrsOf(p)) \in [AttrName -> Counts]
    BY LogAttrsType DEF Deltas
  <2>4. delta' \in Deltas
    BY <2>2, <2>3, <2>5 DEF LogRaw, Deltas
  <2> QED
    BY <2>4, <2>6
<1>2. CASE db.raw[u]["base"] # None /\ NoDiff(u, "base", p)
  BY <1>2 DEF apply_resource
<1>3. CASE db.raw[u]["base"] # None /\ ~NoDiff(u, "base", p)
  BY <1>3, StoreRawType DEF apply_resource
<1> QED
  BY <1>1, <1>2, <1>3
---------------------------------------------------------------------------------
(***************************************************************************)
(* The bulk deletes.                                                       *)
(***************************************************************************)
\* One delta row for every key of a set.
LEMMA LogAllType ==
  ASSUME NEW K, NEW counts \in [K -> Counts], NEW keys, NEW kinds
  PROVE  LogAll(counts, keys, kinds) \in [K -> Counts]
BY LogType DEF LogAll

\* Clearing the rows of a set of keys.
LEMMA DropType ==
  ASSUME NEW K, NEW T, NEW f \in [K -> T], NEW keys, NEW v \in T
  PROVE  Drop(f, keys, v) \in [K -> T]
BY DEF Drop

\* There are two partial sources.
LEMMA Sources ==
  /\ Len(AWS_SOURCES) = 2
  /\ 0 \in 0 .. Len(AWS_SOURCES) /\ 0 < Len(AWS_SOURCES)
  /\ \A i \in 1 .. 2 : AWS_SOURCES[i] \in ExtraSource
BY DEF AWS_SOURCES, ExtraSource

\* In the partial passes the current source is one of them.
LEMMA CurrentSourceType ==
  ASSUME TypeOK, phase = "partials"
  PROVE  CurrentSource \in ExtraSource /\ CurrentSource \in Source
BY Sources DEF TypeOK, CurrentSource, Source

\* map_partial_deletes keeps the tables typed.
LEMMA PartialDeletesType ==
  ASSUME TypeOK, PartialDeletes
  PROVE  db' \in Tables /\ delta' \in Deltas
<1> DEFINE s == CurrentSource
           stale == StalePartials(s)
           DAttr == [u \in Uri |-> IF u \in stale THEN ClearLog(u, s) ELSE delta.attr[u]]
<1>1. s \in Source
  BY CurrentSourceType DEF PartialDeletes
<1>2. /\ db' = [db EXCEPT !.raw = Clear(db.raw, stale, s, None),
                          !.attr = Clear(db.attr, stale, s, NoAttrs)]
      /\ delta' = [delta EXCEPT !.res = LogAll(delta.res, stale, {"update"}),
                                !.attr = DAttr]
  BY DEF PartialDeletes
<1>3. NoAttrs \in [AttrName -> AttrVal \cup {None}]
  BY DEF NoAttrs
<1> HIDE DEF s, stale
<1>4. Clear(db.raw, stale, s, None) \in [Uri -> [Source -> Payload \cup {None}]]
  BY <1>1 DEF Clear, TypeOK, Tables
<1>5. Clear(db.attr, stale, s, NoAttrs)
        \in [Uri -> [Source -> [AttrName -> AttrVal \cup {None}]]]
  BY <1>1, <1>3 DEF Clear, TypeOK, Tables
<1>6. LogAll(delta.res, stale, {"update"}) \in [Uri -> Counts]
  BY LogAllType DEF TypeOK, Deltas
<1>7. ASSUME NEW u \in Uri PROVE ClearLog(u, s) \in [Source -> [AttrName -> Counts]]
  <2>1. delta.attr[u] \in [Source -> [AttrName -> Counts]]
    BY DEF TypeOK, Deltas
  <2>2. delta.attr[u][s] \in [AttrName -> Counts]
    BY <1>1, <2>1
  <2>3. LogAttrs(delta.attr[u][s], db.attr[u][s], NoAttrs) \in [AttrName -> Counts]
    BY <2>2, LogAttrsType
  <2> QED
    BY <1>1, <2>1, <2>3 DEF ClearLog
<1>8. DAttr \in [Uri -> [Source -> [AttrName -> Counts]]]
  BY <1>7 DEF TypeOK, Deltas
<1> HIDE DEF DAttr
<1> QED
  BY <1>2, <1>4, <1>5, <1>6, <1>8 DEF TypeOK, Tables, Deltas

\* map_resource_deletes keeps the tables typed.
LEMMA ResourceDeletesType ==
  ASSUME TypeOK, ResourceDeletes
  PROVE  db' \in Tables /\ delta' \in Deltas
<1> DEFINE NoRaw == [s \in Source |-> None]
           NoAttr == [s \in Source |-> NoAttrs]
           DAttr == [u \in Uri |->
                       IF u \in StaleResources
                       THEN [s \in Source |->
                               LogAttrs(delta.attr[u][s], db.attr[u][s], NoAttrs)]
                       ELSE delta.attr[u]]
<1>1. /\ db' = [db EXCEPT !.res = Drop(db.res, StaleResources, None),
                          !.raw = Drop(db.raw, StaleResources, NoRaw),
                          !.attr = Drop(db.attr, StaleResources, NoAttr),
                          !.rel = Drop(db.rel, CutRelations, None)]
      /\ delta' = [delta EXCEPT !.res = LogAll(delta.res, StaleResources, {"delete"}),
                                !.attr = DAttr,
                                !.rel = LogAll(delta.rel, CutRelations, {"delete"})]
  BY DEF ResourceDeletes
<1>2. /\ NoRaw \in [Source -> Payload \cup {None}]
      /\ NoAttr \in [Source -> [AttrName -> AttrVal \cup {None}]]
  BY DEF NoAttrs
<1> HIDE DEF NoRaw, NoAttr
<1>3. /\ Drop(db.res, StaleResources, None) \in [Uri -> Account \cup {None}]
      /\ Drop(db.rel, CutRelations, None) \in [Rel -> LinkVal \cup {None}]
  BY DropType DEF TypeOK, Tables
<1>4. Drop(db.raw, StaleResources, NoRaw) \in [Uri -> [Source -> Payload \cup {None}]]
  BY <1>2, DropType DEF TypeOK, Tables
<1>5. Drop(db.attr, StaleResources, NoAttr)
        \in [Uri -> [Source -> [AttrName -> AttrVal \cup {None}]]]
  BY <1>2, DropType DEF TypeOK, Tables
<1>6. /\ LogAll(delta.res, StaleResources, {"delete"}) \in [Uri -> Counts]
      /\ LogAll(delta.rel, CutRelations, {"delete"}) \in [Rel -> Counts]
  BY LogAllType DEF TypeOK, Deltas
<1>7. DAttr \in [Uri -> [Source -> [AttrName -> Counts]]]
  BY LogAttrsType DEF TypeOK, Deltas
<1> HIDE DEF DAttr
<1> QED
  BY <1>1, <1>3, <1>4, <1>5, <1>6, <1>7 DEF TypeOK, Tables, Deltas

\* map_relation_deletes keeps the tables typed.
LEMMA RelationDeletesType ==
  ASSUME TypeOK, RelationDeletes
  PROVE  db' \in Tables /\ delta' \in Deltas
<1>1. Drop(db.rel, StaleRelations, None) \in [Rel -> LinkVal \cup {None}]
  BY DropType DEF TypeOK, Tables
<1>2. LogAll(delta.rel, StaleRelations, {"delete"}) \in [Rel -> Counts]
  BY LogAllType DEF TypeOK, Deltas
<1> QED
  BY <1>1, <1>2 DEF RelationDeletes, TypeOK, Tables, Deltas

\* _apply_relation keeps the tables typed.
LEMMA ApplyRelationType ==
  ASSUME TypeOK, NEW l \in Link, ApplyRelation(l)
  PROVE  db' \in Tables /\ delta' \in Deltas
<1> DEFINE kinds == Change(db.rel[l.rel], l.val)
<1>1. Log(delta.rel[l.rel], kinds) \in Counts
  BY LogType DEF TypeOK, Deltas, Link
<1>2. CASE None \in {db.res[ParentOf[l.rel]], db.res[TargetOf[l.rel]]}
  BY <1>2 DEF ApplyRelation, TypeOK
<1>3. CASE None \notin {db.res[ParentOf[l.rel]], db.res[TargetOf[l.rel]]}
  <2>1. /\ db' = [db EXCEPT !.rel[l.rel] = l.val]
        /\ delta' = [delta EXCEPT !.rel[l.rel] = Log(@, kinds)]
    BY <1>3 DEF ApplyRelation
  <2> HIDE DEF kinds
  <2> QED
    BY <1>1, <2>1 DEF TypeOK, Tables, Deltas, Link
<1> QED
  BY <1>2, <1>3
---------------------------------------------------------------------------------
(***************************************************************************)
(* Type correctness.                                                       *)
(***************************************************************************)
\* What a service's workers write are rows (FetchService).
LEMMA RowsType ==
  ASSUME TypeOK, phase # "idle", NEW s \in Service, NEW lost
  PROVE  BaseRows(s, lost) \subseteq Row /\ CredentialRows(s) \subseteq Row
<1>1. BaseRows(s, lost) \subseteq Row
  BY CloudsAssumption DEF TypeOK, BaseRows, Row, Source, Cloud
<1>2. ExtraRows("credentialreport") \subseteq Row
  BY CloudsAssumption DEF TypeOK, ExtraRows, Row, Source, ExtraSource, Cloud
<1> QED
  BY <1>1, <1>2 DEF CredentialRows

\* The links a row yields are links (mapper.map_relations).
LEMMA PendingLinksType ==
  ASSUME TypeOK
  PROVE  PendingLinks \subseteq Link
BY TransformsAssumption DEF TypeOK, PendingLinks, Row

\* The first state is well typed.
LEMMA InitType == Init => TypeOK
<1> SUFFICES ASSUME Init PROVE TypeOK
  OBVIOUS
<1>1. /\ db \in Tables /\ before \in Tables /\ delta \in Deltas
  BY EmptyTablesType, NoDeltasType DEF Init
<1>2. job \in [account : Account \cup {None}, spec : Specs \cup {NoSpec}, status : Status]
  BY DEF Init, Status
<1>3. swept \in 0 .. Len(AWS_SOURCES) /\ phase = "idle" /\ phase \in Phase
  BY Sources DEF Init, Phase
<1>4. /\ cloud \in Clouds /\ todo \subseteq Service /\ raised \in BOOLEAN
      /\ inbox \subseteq Row /\ done \subseteq Row /\ mapped \subseteq Source \X Uri
      /\ linked \subseteq Link /\ found \subseteq Rel
  BY DEF Init
<1> QED
  BY <1>1, <1>2, <1>3, <1>4 DEF TypeOK

\* Every step of the program keeps every variable in its type.
LEMMA NextType ==
  ASSUME TypeOK, [Next]_vars
  PROVE  TypeOK'
<1>1. ASSUME StartJob PROVE TypeOK'
  <2>1. /\ cloud' \in Clouds /\ job'.account \in Account
        /\ job' \in [account : Account \cup {None}, spec : Specs \cup {NoSpec}, status : Status]
        /\ todo' \subseteq Service
    BY <1>1 DEF StartJob, Status
  <2> QED
    BY <1>1, <2>1, NoDeltasType, Sources DEF StartJob, TypeOK, Phase
<1>2. ASSUME NEW s \in Service, FetchService(s) PROVE TypeOK'
  <2>1. inbox' \subseteq Row
    BY <1>2, RowsType DEF FetchService, TypeOK
  <2> QED
    BY <1>2, <2>1 DEF FetchService, TypeOK
<1>3. ASSUME NEW s \in Service, FetchRaises(s) PROVE TypeOK'
  BY <1>3 DEF FetchRaises, TypeOK
<1>4. ASSUME EndFetch \/ EndBase \/ AdjunctRaises \/ EndRelations \/ Commit
             \/ Complete \/ MapRaises
      PROVE  TypeOK'
  BY <1>4 DEF EndFetch, EndBase, AdjunctRaises, EndRelations, Commit, Complete,
              MapRaises, End, TypeOK, Status, Phase, MapPhase
<1>5. ASSUME CloudDrifts PROVE TypeOK'
  BY <1>5 DEF CloudDrifts, TypeOK
<1>6. ASSUME DbFails PROVE TypeOK'
  BY <1>6, NoDeltasType DEF DbFails, Rollback, End, TypeOK, Status, Phase
<1>7. ASSUME NEW row \in inbox, ApplyBase(row) PROVE TypeOK'
  <2>1. row \in Row /\ row.source = "base" /\ job.account \in Account
    BY <1>7 DEF ApplyBase, PendingBase, TypeOK
  <2>2. db' \in Tables /\ delta' \in Deltas
    BY <1>7, <2>1, ApplyResourceType DEF ApplyBase, TypeOK, Row
  <2> QED
    BY <1>7, <2>1, <2>2 DEF ApplyBase, TypeOK, Row, Source
<1>8. ASSUME SynthesizeRoot PROVE TypeOK'
  <2> DEFINE root == RootOf[job.account]
  <2>1. job.account \in Account /\ root \in Uri /\ cloud.base[job.account][root] \in Payload
    BY <1>8, CloudsAssumption, TransformsAssumption DEF SynthesizeRoot, TypeOK, Cloud
  <2>2. db' \in Tables /\ delta' \in Deltas
    BY <1>8, <2>1, ApplyResourceType DEF SynthesizeRoot, TypeOK
  <2>3. mapped' \subseteq Source \X Uri
    BY <1>8, <2>1 DEF SynthesizeRoot, TypeOK, Source
  <2> QED
    BY <1>8, <2>2, <2>3 DEF SynthesizeRoot, TypeOK, Phase, MapPhase
<1>9. ASSUME FindAdjunctData PROVE TypeOK'
  <2>1. inbox' \subseteq Row
    BY <1>9, CloudsAssumption
    DEF FindAdjunctData, AmisExist, MissingAmis, TypeOK, Cloud, Row, Source
  <2> QED
    BY <1>9, <2>1 DEF FindAdjunctData, TypeOK, Phase, MapPhase
<1>10. ASSUME AddLogsResourcePolicies PROVE TypeOK'
  <2>1. ExtraRows("logspolicies") \subseteq Row
    BY <1>10, CloudsAssumption
    DEF AddLogsResourcePolicies, TypeOK, ExtraRows, Row, Source, ExtraSource, Cloud
  <2>2. inbox' \subseteq Row
    BY <1>10, <2>1 DEF AddLogsResourcePolicies, TypeOK
  <2>3. phase' = "partials" /\ swept' = 0
    BY <1>10 DEF AddLogsResourcePolicies, TypeOK
  <2> QED
    BY <1>10, <2>2, Sources
    DEF AddLogsResourcePolicies, TypeOK, Phase, MapPhase
<1>11. ASSUME NEW row \in inbox, ApplyPartial(row) PROVE TypeOK'
  <2>1. row \in Row
    BY DEF TypeOK
  <2>2. db' \in Tables /\ delta' \in Deltas
    <3>1. /\ row.uri \in Uri /\ row.source \in Source /\ row.data \in Payload
          /\ db \in Tables /\ delta \in Deltas
      BY <2>1 DEF Row, TypeOK
    <3>2. CASE UNCHANGED <<db, delta>>
      BY <3>1, <3>2
    <3>3. CASE /\ StoreRaw(row.uri, row.source, row.data)
               /\ LogRaw(row.uri, row.source, row.data, {"update"})
      BY <3>1, <3>3, StoreRawType
    <3> QED
      BY <1>11, <3>2, <3>3 DEF ApplyPartial, apply_partial
  <2> QED
    BY <1>11, <2>1, <2>2 DEF ApplyPartial, TypeOK, Row
<1>12. ASSUME PartialDeletes PROVE TypeOK'
  BY <1>12, PartialDeletesType, Sources DEF PartialDeletes, TypeOK, Phase, MapPhase
<1>13. ASSUME ResourceDeletes PROVE TypeOK'
  BY <1>13, ResourceDeletesType DEF ResourceDeletes, TypeOK, Phase, MapPhase
<1>14. ASSUME NEW l \in Link, ApplyRelation(l) PROVE TypeOK'
  BY <1>14, ApplyRelationType DEF ApplyRelation, TypeOK, Link
<1>15. ASSUME RelationDeletes PROVE TypeOK'
  BY <1>15, RelationDeletesType DEF RelationDeletes, TypeOK, Phase, MapPhase
<1>16. CASE UNCHANGED vars
  BY <1>16 DEF vars, TypeOK
<1> QED
  BY <1>1, <1>2, <1>3, <1>4, <1>5, <1>6, <1>7, <1>8, <1>9, <1>10, <1>11, <1>12,
     <1>13, <1>14, <1>15, <1>16 DEF Next, ImportStep, Fault

\* Every variable of an import keeps to its type, whatever fails and in
\* whatever order the rows are mapped.
THEOREM TypeCorrect == Spec => []TypeOK
<1>1. Init => TypeOK
  BY InitType
<1>2. TypeOK /\ [Next]_vars => TypeOK'
  BY NextType
<1> QED
  BY <1>1, <1>2, PTL DEF Spec
---------------------------------------------------------------------------------
(***************************************************************************)
(* Integrity.                                                              *)
(***************************************************************************)
\* The tables are sound now and were when the job started, which is what a
\* rollback returns to.
SoundInv == TypeOK /\ TablesSound(db) /\ TablesSound(before)

\* The attribute rows of no document are no attribute rows.
LEMMA AttrsOfNone == AttrsOf(None) = NoAttrs
BY DEF AttrsOf

\* Empty tables are sound.
LEMMA EmptySound == TablesSound(EmptyTables)
BY AttrsOfNone, TransformsAssumption
DEF TablesSound, ResourceHasBase, AttrsFollowRaw, RelationsHaveEnds, EmptyTables, Source

\* A document written to an existing resource, or a base document written over
\* another, leaves the tables sound.
LEMMA StoreRawSound ==
  ASSUME db \in Tables, TablesSound(db), NEW u \in Uri, NEW s \in Source,
         NEW p \in Payload, db.res[u] # None, StoreRaw(u, s, p)
  PROVE  TablesSound(db')
<1>1. ResourceHasBase(db')
  BY NoneAssumption DEF TablesSound, ResourceHasBase, StoreRaw, Tables, Source
<1>2. AttrsFollowRaw(db')
  BY AttrsOfType DEF TablesSound, AttrsFollowRaw, StoreRaw, Tables
<1>3. RelationsHaveEnds(db')
  BY DEF TablesSound, RelationsHaveEnds, StoreRaw, Tables
<1> QED
  BY <1>1, <1>2, <1>3 DEF TablesSound

\* apply_resource leaves the tables sound: it inserts a row only for a uri
\* that has none.
LEMMA ApplyResourceSound ==
  ASSUME db \in Tables, TablesSound(db), job.account \in Account,
         NEW u \in Uri, NEW p \in Payload, apply_resource(u, p)
  PROVE  TablesSound(db')
<1> "base" \in Source
  BY DEF Source
<1>1. CASE db.raw[u]["base"] = None
  <2>1. db' = [db EXCEPT !.res[u] = job.account, !.raw[u]["base"] = p,
                         !.attr[u]["base"] = AttrsOf(p)]
    BY <1>1 DEF apply_resource
  <2>2. ResourceHasBase(db')
    BY <2>1, NoneAssumption DEF TablesSound, ResourceHasBase, Tables
  <2>3. AttrsFollowRaw(db')
    BY <2>1 DEF TablesSound, AttrsFollowRaw, Tables
  <2>4. RelationsHaveEnds(db')
    BY <2>1, NoneAssumption, TransformsAssumption
    DEF TablesSound, RelationsHaveEnds, Tables
  <2> QED
    BY <2>2, <2>3, <2>4 DEF TablesSound
<1>2. CASE db.raw[u]["base"] # None
  <2>1. db.res[u] # None
    BY <1>2 DEF TablesSound, ResourceHasBase
  <2> QED
    BY <1>2, <2>1, StoreRawSound DEF apply_resource
<1> QED
  BY <1>1, <1>2

\* map_partial_deletes removes documents of an extra source with their
\* attributes, and nothing else.
LEMMA PartialDeletesSound ==
  ASSUME TypeOK, TablesSound(db), PartialDeletes
  PROVE  TablesSound(db')
<1> DEFINE s == CurrentSource
           stale == StalePartials(s)
<1>1. s \in Source /\ s # "base"
  BY CurrentSourceType DEF PartialDeletes, ExtraSource
<1>2. db' = [db EXCEPT !.raw = Clear(db.raw, stale, s, None),
                       !.attr = Clear(db.attr, stale, s, NoAttrs)]
  BY DEF PartialDeletes
<1> HIDE DEF s, stale
<1>3. ResourceHasBase(db')
  BY <1>1, <1>2 DEF TablesSound, ResourceHasBase, TypeOK, Tables, Clear
<1>4. AttrsFollowRaw(db')
  BY <1>1, <1>2, AttrsOfNone DEF TablesSound, AttrsFollowRaw, TypeOK, Tables, Clear
<1>5. RelationsHaveEnds(db')
  BY <1>2 DEF TablesSound, RelationsHaveEnds, TypeOK, Tables
<1> QED
  BY <1>3, <1>4, <1>5 DEF TablesSound

\* map_resource_deletes takes with a resource its documents, attributes and
\* the relations at both of its ends.
LEMMA ResourceDeletesSound ==
  ASSUME TypeOK, TablesSound(db), ResourceDeletes
  PROVE  TablesSound(db')
<1>1. db' = [db EXCEPT !.res = Drop(db.res, StaleResources, None),
                       !.raw = Drop(db.raw, StaleResources, [s \in Source |-> None]),
                       !.attr = Drop(db.attr, StaleResources, [s \in Source |-> NoAttrs]),
                       !.rel = Drop(db.rel, CutRelations, None)]
  BY DEF ResourceDeletes
<1> "base" \in Source
  BY DEF Source
<1>2. ResourceHasBase(db')
  BY <1>1 DEF TablesSound, ResourceHasBase, TypeOK, Tables, Drop
<1>3. AttrsFollowRaw(db')
  BY <1>1, AttrsOfNone DEF TablesSound, AttrsFollowRaw, TypeOK, Tables, Drop
<1>4. RelationsHaveEnds(db')
  <2> SUFFICES ASSUME NEW r \in Rel, db'.rel[r] # None
               PROVE  db'.res[ParentOf[r]] # None /\ db'.res[TargetOf[r]] # None
    BY DEF RelationsHaveEnds
  <2>1. r \notin CutRelations /\ db.rel[r] # None
    BY <1>1 DEF TypeOK, Tables, Drop
  <2>2. ParentOf[r] \in Uri \ StaleResources /\ TargetOf[r] \in Uri \ StaleResources
    BY <2>1, TransformsAssumption DEF CutRelations
  <2> QED
    BY <1>1, <2>1, <2>2 DEF TablesSound, RelationsHaveEnds, TypeOK, Tables, Drop
<1> QED
  BY <1>2, <1>3, <1>4 DEF TablesSound

\* A relation is written only between resources that exist, or removed.
LEMMA RelationStepsSound ==
  ASSUME TypeOK, TablesSound(db),
         RelationDeletes \/ \E l \in Link : ApplyRelation(l)
  PROVE  TablesSound(db')
<1>1. CASE RelationDeletes
  BY <1>1
  DEF RelationDeletes, TablesSound, ResourceHasBase, AttrsFollowRaw, RelationsHaveEnds,
      TypeOK, Tables, Drop
<1>2. ASSUME NEW l \in Link, ApplyRelation(l) PROVE TablesSound(db')
  <2>1. CASE None \in {db.res[ParentOf[l.rel]], db.res[TargetOf[l.rel]]}
    BY <1>2, <2>1 DEF ApplyRelation
  <2>2. CASE None \notin {db.res[ParentOf[l.rel]], db.res[TargetOf[l.rel]]}
    <3>1. db' = [db EXCEPT !.rel[l.rel] = l.val] /\ l.rel \in Rel
      BY <1>2, <2>2 DEF ApplyRelation, Link
    <3> QED
      BY <2>2, <3>1
      DEF TablesSound, ResourceHasBase, AttrsFollowRaw, RelationsHaveEnds, TypeOK, Tables
  <2> QED
    BY <2>1, <2>2
<1> QED
  BY <1>1, <1>2

\* Every step keeps the tables sound.
LEMMA NextSound ==
  ASSUME SoundInv, [Next]_vars
  PROVE  SoundInv'
<1>1. TypeOK'
  BY NextType DEF SoundInv
<1>2. TablesSound(before')
  <2>1. before' \in {before, db}
    BY DEF Next, ImportStep, Fault, StartJob, FetchService, EndFetch, ApplyBase, ApplyPartial,
           EndBase, SynthesizeRoot, FindAdjunctData, AdjunctRaises, AddLogsResourcePolicies,
           PartialDeletes, ResourceDeletes, ApplyRelation, EndRelations, RelationDeletes,
           Commit, Complete, FetchRaises, CloudDrifts, MapRaises, DbFails, Rollback, vars
  <2> QED
    BY <2>1 DEF SoundInv
<1>3. TablesSound(db')
  <2>1. CASE db' \in {db, before}
    BY <2>1 DEF SoundInv
  <2>2. ASSUME NEW row \in inbox, ApplyBase(row) PROVE TablesSound(db')
    <3>1. row \in Row /\ job.account \in Account
      BY <2>2 DEF ApplyBase, SoundInv, TypeOK
    <3> QED
      BY <2>2, <3>1, ApplyResourceSound DEF ApplyBase, SoundInv, TypeOK, Row
  <2>3. CASE SynthesizeRoot
    <3> DEFINE root == RootOf[job.account]
    <3>1. job.account \in Account /\ root \in Uri
          /\ cloud.base[job.account][root] \in Payload
      BY <2>3, CloudsAssumption, TransformsAssumption
      DEF SynthesizeRoot, SoundInv, TypeOK, Cloud
    <3> QED
      BY <2>3, <3>1, ApplyResourceSound DEF SynthesizeRoot, SoundInv, TypeOK
  <2>4. ASSUME NEW row \in inbox, ApplyPartial(row) PROVE TablesSound(db')
    <3>1. row.uri \in Uri /\ row.source \in Source /\ row.data \in Payload
      BY DEF SoundInv, TypeOK, Row
    <3> QED
      BY <2>4, <3>1, StoreRawSound DEF ApplyPartial, apply_partial, SoundInv, TypeOK
  <2>5. CASE PartialDeletes
    BY <2>5, PartialDeletesSound DEF SoundInv
  <2>6. CASE ResourceDeletes
    BY <2>6, ResourceDeletesSound DEF SoundInv
  <2>7. CASE RelationDeletes \/ \E l \in Link : ApplyRelation(l)
    BY <2>7, RelationStepsSound DEF SoundInv
  <2>8. CASE \/ StartJob \/ EndFetch \/ EndBase \/ FindAdjunctData \/ AdjunctRaises
             \/ AddLogsResourcePolicies \/ EndRelations \/ Commit \/ Complete
             \/ CloudDrifts \/ MapRaises \/ DbFails \/ UNCHANGED vars
             \/ \E s \in Service : FetchService(s) \/ FetchRaises(s)
    <3>1. db' \in {db, before}
      BY <2>8 DEF StartJob, EndFetch, EndBase, FindAdjunctData, AdjunctRaises,
         AddLogsResourcePolicies, EndRelations, Commit, Complete, CloudDrifts, MapRaises,
         DbFails, Rollback, FetchService, FetchRaises, vars
    <3> QED
      BY <2>1, <3>1
  <2> QED
    BY <2>2, <2>3, <2>4, <2>5, <2>6, <2>7, <2>8 DEF Next, ImportStep, Fault
<1> QED
  BY <1>1, <1>2, <1>3 DEF SoundInv

\* The inductive invariant holds in every state.
THEOREM AlwaysSound == Spec => []SoundInv
<1>1. Init => SoundInv
  BY InitType, EmptySound DEF Init, SoundInv
<1>2. SoundInv /\ [Next]_vars => SoundInv'
  BY NextSound
<1> QED
  BY <1>1, <1>2, PTL DEF Spec

\* After any sequence of imports, failures, rollbacks and half-done mappings
\* there is no dangling relation, orphan document or stale attribute row, and
\* no insert finds its uri taken.
THEOREM IntegrityHolds == Spec => []Integrity
<1>1. SoundInv => Integrity
  BY DEF SoundInv, Integrity
<1> QED
  BY <1>1, AlwaysSound, PTL
=================================================================================
