---------------------------- MODULE DeltaLog_proofs -----------------------------
(***************************************************************************)
(* The delta log accounts for every import.  Each step of the mapping logs *)
(* exactly the change it makes to each key (Accounted); every other step   *)
(* leaves tables and log alone, or starts a log over (Reset).  With what   *)
(* the fetch mirrors (Mirror_proofs), an import that changes nothing logs  *)
(* nothing.                                                                *)
(***************************************************************************)
EXTENDS Mirror_proofs

\* The log of an attribute or relation key grows by the change of its value.
AttrAccounted ==
  \A u \in Uri, s \in Source, n \in AttrName :
    delta'.attr[u][s][n]
      = Log(delta.attr[u][s][n], Change(db.attr[u][s][n], db'.attr[u][s][n]))

RelAccounted ==
  \A r \in Rel : delta'.rel[r] = Log(delta.rel[r], Change(db.rel[r], db'.rel[r]))

\* A resource is logged as added or deleted when its row is, as updated only
\* when its row stays, and never not at all when something changed.
ResAccounted ==
  \A u \in Uri :
    \E kinds \in SUBSET Kind :
      /\ delta'.res[u] = Log(delta.res[u], kinds)
      /\ "add" \in kinds <=> db.res[u] = None /\ db'.res[u] # None
      /\ "delete" \in kinds <=> db.res[u] # None /\ db'.res[u] = None
      /\ db'.res[u] # db.res[u] \/ db'.raw[u] # db.raw[u] => kinds # {}

Accounted == AttrAccounted /\ RelAccounted /\ ResAccounted /\ before' = before

Reset == delta' = NoDeltas /\ db' = before'
---------------------------------------------------------------------------------
(***************************************************************************)
(* Counting.                                                               *)
(***************************************************************************)
\* Logging nothing leaves the counts alone.
LEMMA LogNothing ==
  ASSUME NEW c \in Counts
  PROVE  Log(c, {}) = c
BY DEF Log, Counts

\* Logging adds one to the kinds it logs (a delta row inserted by db.add).
LEMMA LogCounts ==
  ASSUME NEW c \in Counts, NEW kinds, NEW k \in Kind
  PROVE  Log(c, kinds)[k] = IF k \in kinds THEN c[k] + 1 ELSE c[k]
BY DEF Log

\* A key that was logged stays logged, and logging some kind logs it.
LEMMA LoggedGrows ==
  ASSUME NEW c \in Counts, NEW kinds, Logged(c) \/ kinds \cap Kind # {}
  PROVE  Logged(Log(c, kinds))
<1>1. CASE Logged(c)
  <2>1. PICK k \in Kind : c[k] > 0
    BY <1>1 DEF Logged
  <2>2. c[k] \in Nat
    BY DEF Counts
  <2>3. Log(c, kinds)[k] > 0
    BY <2>1, <2>2 DEF Log
  <2> QED
    BY <2>3 DEF Logged
<1>2. CASE kinds \cap Kind # {}
  <2>1. PICK k \in Kind : k \in kinds
    BY <1>2
  <2>2. c[k] \in Nat
    BY DEF Counts
  <2>3. Log(c, kinds)[k] > 0
    BY <2>1, <2>2 DEF Log
  <2> QED
    BY <2>3 DEF Logged
<1> QED
  BY <1>1, <1>2

\* A value that differs is a change of some kind (diff_attrs, _apply_relation).
LEMMA ChangeKinds ==
  ASSUME NEW x, NEW y
  PROVE  /\ Change(x, y) \subseteq Kind
         /\ x = y <=> Change(x, y) = {}
         /\ "add" \in Change(x, y) <=> x = None /\ y # None
         /\ "delete" \in Change(x, y) <=> x # None /\ y = None
BY DEF Change, Kind

\* A value that stays needs no delta row.
LEMMA LogNoChange ==
  ASSUME NEW c \in Counts, NEW x
  PROVE  Log(c, Change(x, x)) = c
<1>1. Change(x, x) = {}
  BY ChangeKinds
<1> QED
  BY <1>1, LogNothing

\* The balance of a key survives a step that logs its appearance as an add and
\* its disappearance as a delete.
LEMMA BalanceStep ==
  ASSUME NEW b, NEW x, NEW y, NEW c \in Counts, NEW kinds,
         Balanced(b, x, c),
         "add" \in kinds <=> x = None /\ y # None,
         "delete" \in kinds <=> x # None /\ y = None
  PROVE  Balanced(b, y, Log(c, kinds))
<1>1. "add" \in Kind /\ "delete" \in Kind
  BY DEF Kind
<1>2. c["add"] \in Nat /\ c["delete"] \in Nat
  BY <1>1 DEF Counts
<1>3. /\ Log(c, kinds)["add"] = IF "add" \in kinds THEN c["add"] + 1 ELSE c["add"]
      /\ Log(c, kinds)["delete"] = IF "delete" \in kinds THEN c["delete"] + 1 ELSE c["delete"]
  BY <1>1, LogCounts
<1> QED
  BY <1>2, <1>3 DEF Balanced, One
---------------------------------------------------------------------------------
(***************************************************************************)
(* The actions.                                                            *)
(***************************************************************************)
\* A step that leaves tables and log alone is accounted for.
LEMMA IdleAccounted ==
  ASSUME TypeOK, UNCHANGED <<db, delta, before>>
  PROVE  Accounted
<1>1. AttrAccounted
  BY LogNoChange DEF AttrAccounted, TypeOK, Tables, Deltas
<1>2. RelAccounted
  BY LogNoChange DEF RelAccounted, TypeOK, Tables, Deltas
<1>3. ResAccounted
  <2> SUFFICES ASSUME NEW u \in Uri
               PROVE  /\ delta'.res[u] = Log(delta.res[u], {})
                      /\ db'.res[u] = db.res[u] /\ db'.raw[u] = db.raw[u]
    BY DEF ResAccounted
  <2> QED
    BY LogNothing DEF TypeOK, Deltas
<1> QED
  BY <1>1, <1>2, <1>3 DEF Accounted

\* Writing the document of a source over what was there, logged with kinds.
LEMMA StoreAccounted ==
  ASSUME TypeOK, UNCHANGED before,
         NEW u \in Uri, NEW s \in Source, NEW p \in Payload, NEW kinds \in SUBSET Kind,
         LogRaw(u, s, p, kinds),
         db'.attr = [db.attr EXCEPT ![u][s] = AttrsOf(p)],
         db'.rel = db.rel,
         \A v \in Uri \ {u} : db'.res[v] = db.res[v] /\ db'.raw[v] = db.raw[v],
         "add" \in kinds <=> db.res[u] = None /\ db'.res[u] # None,
         "delete" \in kinds <=> db.res[u] # None /\ db'.res[u] = None,
         kinds # {}
  PROVE  Accounted
<1>1. AttrAccounted
  <2> SUFFICES ASSUME NEW v \in Uri, NEW t \in Source, NEW n \in AttrName
               PROVE  delta'.attr[v][t][n]
                        = Log(delta.attr[v][t][n],
                              Change(db.attr[v][t][n], db'.attr[v][t][n]))
    BY DEF AttrAccounted
  <2>1. CASE v = u /\ t = s
    <3>1. db'.attr[u][s] = AttrsOf(p)
      BY DEF TypeOK, Tables
    <3>2. delta'.attr[u][s] = LogAttrs(delta.attr[u][s], db.attr[u][s], AttrsOf(p))
      BY DEF LogRaw, TypeOK, Deltas
    <3> QED
      BY <2>1, <3>1, <3>2 DEF LogAttrs
  <2>2. CASE ~(v = u /\ t = s)
    <3>1. db'.attr[v][t] = db.attr[v][t]
      BY <2>2 DEF TypeOK, Tables
    <3>2. delta'.attr[v][t] = delta.attr[v][t]
      BY <2>2 DEF LogRaw, TypeOK, Deltas
    <3>3. delta.attr[v][t][n] \in Counts
      BY DEF TypeOK, Deltas
    <3> QED
      BY <3>1, <3>2, <3>3, LogNoChange
  <2> QED
    BY <2>1, <2>2
<1>2. RelAccounted
  <2>1. delta'.rel = delta.rel
    BY DEF LogRaw, TypeOK, Deltas
  <2> QED
    BY <2>1, LogNoChange DEF RelAccounted, TypeOK, Deltas
<1>3. ResAccounted
  <2> SUFFICES ASSUME NEW v \in Uri
               PROVE  \E ks \in SUBSET Kind :
                        /\ delta'.res[v] = Log(delta.res[v], ks)
                        /\ "add" \in ks <=> db.res[v] = None /\ db'.res[v] # None
                        /\ "delete" \in ks <=> db.res[v] # None /\ db'.res[v] = None
                        /\ db'.res[v] # db.res[v] \/ db'.raw[v] # db.raw[v] => ks # {}
    BY DEF ResAccounted
  <2>1. CASE v = u
    <3>1. delta'.res[u] = Log(delta.res[u], kinds)
      BY DEF LogRaw, TypeOK, Deltas
    <3> WITNESS kinds \in SUBSET Kind
    <3> QED
      BY <2>1, <3>1
  <2>2. CASE v # u
    <3>1. delta'.res[v] = delta.res[v] /\ delta.res[v] \in Counts
      BY <2>2 DEF LogRaw, TypeOK, Deltas
    <3>2. db'.res[v] = db.res[v] /\ db'.raw[v] = db.raw[v]
      BY <2>2
    <3> WITNESS {} \in SUBSET Kind
    <3> QED
      BY <3>1, <3>2, LogNothing
  <2> QED
    BY <2>1, <2>2
<1> QED
  BY <1>1, <1>2, <1>3 DEF Accounted

\* apply_resource logs what it does.
LEMMA ApplyResourceAccounted ==
  ASSUME SoundInv, UNCHANGED before, job.account \in Account,
         NEW u \in Uri, NEW p \in Payload, apply_resource(u, p)
  PROVE  Accounted
<1> TypeOK /\ "base" \in Source /\ "add" \in Kind /\ "update" \in Kind
  BY DEF SoundInv, Source, Kind
<1>1. CASE db.raw[u]["base"] = None
  <2>1. db' = [db EXCEPT !.res[u] = job.account, !.raw[u]["base"] = p,
                         !.attr[u]["base"] = AttrsOf(p)]
    BY <1>1 DEF apply_resource
  <2>2. LogRaw(u, "base", p, {"add"})
    BY <1>1 DEF apply_resource
  <2>3. db.res[u] = None /\ db'.res[u] # None
    BY <1>1, <2>1, NoneAssumption DEF SoundInv, TablesSound, ResourceHasBase, TypeOK, Tables
  <2>4. /\ db'.attr = [db.attr EXCEPT ![u]["base"] = AttrsOf(p)] /\ db'.rel = db.rel
        /\ \A v \in Uri \ {u} : db'.res[v] = db.res[v] /\ db'.raw[v] = db.raw[v]
    BY <2>1 DEF TypeOK, Tables
  <2> QED
    BY <2>2, <2>3, <2>4, StoreAccounted
<1>2. CASE db.raw[u]["base"] # None /\ NoDiff(u, "base", p)
  BY <1>2, IdleAccounted DEF apply_resource
<1>3. CASE db.raw[u]["base"] # None /\ ~NoDiff(u, "base", p)
  <2>1. StoreRaw(u, "base", p) /\ LogRaw(u, "base", p, {"update"})
    BY <1>3 DEF apply_resource
  <2>2. /\ db'.attr = [db.attr EXCEPT ![u]["base"] = AttrsOf(p)] /\ db'.rel = db.rel
        /\ db'.res = db.res /\ \A v \in Uri \ {u} : db'.raw[v] = db.raw[v]
    BY <2>1 DEF StoreRaw, TypeOK, Tables
  <2> QED
    BY <2>1, <2>2, StoreAccounted
<1> QED
  BY <1>1, <1>2, <1>3

\* apply_partial logs what it does.
LEMMA ApplyPartialAccounted ==
  ASSUME TypeOK, UNCHANGED before, NEW u \in Uri, NEW s \in Source, NEW p \in Payload,
         apply_partial(u, s, p)
  PROVE  Accounted
<1>1. CASE UNCHANGED <<db, delta>>
  BY <1>1, IdleAccounted
<1>2. CASE StoreRaw(u, s, p) /\ LogRaw(u, s, p, {"update"})
  <2>1. /\ db'.attr = [db.attr EXCEPT ![u][s] = AttrsOf(p)] /\ db'.rel = db.rel
        /\ db'.res = db.res /\ \A v \in Uri \ {u} : db'.raw[v] = db.raw[v]
    BY <1>2 DEF StoreRaw, TypeOK, Tables
  <2> QED
    BY <1>2, <2>1, StoreAccounted DEF Kind
<1> QED
  BY <1>1, <1>2 DEF apply_partial
\* map_partial_deletes logs an update for each resource that loses a document
\* and a delete for each attribute of that document.
LEMMA PartialDeletesAccounted ==
  ASSUME TypeOK, PartialDeletes
  PROVE  Accounted
<1> DEFINE s == CurrentSource
           stale == StalePartials(s)
           DAttr == [u \in Uri |-> IF u \in stale THEN ClearLog(u, s) ELSE delta.attr[u]]
<1>1. s \in Source
  BY CurrentSourceType DEF PartialDeletes
<1>2. /\ db' = [db EXCEPT !.raw = Clear(db.raw, stale, s, None),
                          !.attr = Clear(db.attr, stale, s, NoAttrs)]
      /\ delta' = [delta EXCEPT !.res = LogAll(delta.res, stale, {"update"}),
                                !.attr = DAttr]
      /\ before' = before
  BY DEF PartialDeletes
<1>3. stale \subseteq Uri
  BY DEF StalePartials
<1> HIDE DEF s, stale
<1>4. AttrAccounted
  <2> SUFFICES ASSUME NEW u \in Uri, NEW t \in Source, NEW n \in AttrName
               PROVE  delta'.attr[u][t][n]
                        = Log(delta.attr[u][t][n],
                              Change(db.attr[u][t][n], db'.attr[u][t][n]))
    BY DEF AttrAccounted
  <2>1. CASE u \in stale /\ t = s
    <3>1. db'.attr[u][s] = NoAttrs
      BY <1>1, <1>2, <2>1 DEF TypeOK, Tables, Clear
    <3>2. delta'.attr[u][s] = LogAttrs(delta.attr[u][s], db.attr[u][s], NoAttrs)
      BY <1>1, <1>2, <2>1 DEF TypeOK, Deltas, ClearLog
    <3> QED
      BY <2>1, <3>1, <3>2 DEF LogAttrs
  <2>2. CASE ~(u \in stale /\ t = s)
    <3>1. db'.attr[u][t] = db.attr[u][t]
      BY <1>2, <2>2 DEF TypeOK, Tables, Clear
    <3>2. delta'.attr[u][t] = delta.attr[u][t]
      BY <1>2, <2>2 DEF TypeOK, Deltas, ClearLog
    <3>3. delta.attr[u][t][n] \in Counts
      BY DEF TypeOK, Deltas
    <3> QED
      BY <3>1, <3>2, <3>3, LogNoChange
  <2> QED
    BY <2>1, <2>2
<1>5. RelAccounted
  <2>1. delta'.rel = delta.rel /\ db'.rel = db.rel
    BY <1>2 DEF TypeOK, Deltas, Tables
  <2> QED
    BY <2>1, LogNoChange DEF RelAccounted, TypeOK, Deltas
<1>6. ResAccounted
  <2>1. db'.res = db.res
    BY <1>2 DEF TypeOK, Tables
  <2>2. ASSUME NEW u \in stale
        PROVE  delta'.res[u] = Log(delta.res[u], {"update"})
    BY <1>2, <1>3 DEF TypeOK, Deltas, LogAll
  <2>3. ASSUME NEW u \in Uri \ stale
        PROVE  delta'.res[u] = Log(delta.res[u], {}) /\ db'.raw[u] = db.raw[u]
    <3>1. delta'.res[u] = delta.res[u] /\ db'.raw[u] = db.raw[u]
      BY <1>2 DEF TypeOK, Deltas, Tables, LogAll, Clear
    <3> QED
      BY <3>1, LogNothing DEF TypeOK, Deltas
  <2>4. {"update"} \in SUBSET Kind /\ {} \in SUBSET Kind
    BY DEF Kind
  <2> QED
    BY <2>1, <2>2, <2>3, <2>4 DEF ResAccounted
<1> QED
  BY <1>2, <1>4, <1>5, <1>6 DEF Accounted

\* map_resource_deletes logs a delete for each resource, each attribute and
\* each relation it takes along.
LEMMA ResourceDeletesAccounted ==
  ASSUME SoundInv, ResourceDeletes
  PROVE  Accounted
<1> DEFINE DAttr == [u \in Uri |->
                       IF u \in StaleResources
                       THEN [s \in Source |->
                               LogAttrs(delta.attr[u][s], db.attr[u][s], NoAttrs)]
                       ELSE delta.attr[u]]
<1>1. /\ db' = [db EXCEPT !.res = Drop(db.res, StaleResources, None),
                          !.raw = Drop(db.raw, StaleResources, [s \in Source |-> None]),
                          !.attr = Drop(db.attr, StaleResources, [s \in Source |-> NoAttrs]),
                          !.rel = Drop(db.rel, CutRelations, None)]
      /\ delta' = [delta EXCEPT !.res = LogAll(delta.res, StaleResources, {"delete"}),
                                !.attr = DAttr,
                                !.rel = LogAll(delta.rel, CutRelations, {"delete"})]
      /\ before' = before
  BY DEF ResourceDeletes
<1>2. TypeOK /\ job.account \in Account
  BY DEF SoundInv, TypeOK, ResourceDeletes
<1>3. AttrAccounted
  <2> SUFFICES ASSUME NEW u \in Uri, NEW t \in Source, NEW n \in AttrName
               PROVE  delta'.attr[u][t][n]
                        = Log(delta.attr[u][t][n],
                              Change(db.attr[u][t][n], db'.attr[u][t][n]))
    BY DEF AttrAccounted
  <2>1. CASE u \in StaleResources
    <3>1. db'.attr[u][t] = NoAttrs
      BY <1>1, <1>2, <2>1 DEF TypeOK, Tables, Drop
    <3>2. delta'.attr[u][t] = LogAttrs(delta.attr[u][t], db.attr[u][t], NoAttrs)
      BY <1>1, <1>2, <2>1 DEF TypeOK, Deltas
    <3> QED
      BY <3>1, <3>2 DEF LogAttrs
  <2>2. CASE u \notin StaleResources
    <3>1. db'.attr[u] = db.attr[u]
      BY <1>1, <1>2, <2>2 DEF TypeOK, Tables, Drop
    <3>2. delta'.attr[u] = delta.attr[u]
      BY <1>1, <1>2, <2>2 DEF TypeOK, Deltas
    <3>3. delta.attr[u][t][n] \in Counts
      BY <1>2 DEF TypeOK, Deltas
    <3> QED
      BY <3>1, <3>2, <3>3, LogNoChange
  <2> QED
    BY <2>1, <2>2
<1>4. RelAccounted
  <2> SUFFICES ASSUME NEW r \in Rel
               PROVE  delta'.rel[r] = Log(delta.rel[r], Change(db.rel[r], db'.rel[r]))
    BY DEF RelAccounted
  <2>1. CASE r \in CutRelations
    <3>1. db.rel[r] # None /\ db'.rel[r] = None
      BY <1>1, <1>2, <2>1 DEF CutRelations, TypeOK, Tables, Drop
    <3>2. delta'.rel[r] = Log(delta.rel[r], {"delete"})
      BY <1>1, <1>2, <2>1 DEF TypeOK, Deltas, LogAll
    <3>3. Change(db.rel[r], db'.rel[r]) = {"delete"}
      BY <3>1 DEF Change
    <3> QED
      BY <3>2, <3>3
  <2>2. CASE r \notin CutRelations
    <3>1. db'.rel[r] = db.rel[r]
      BY <1>1, <1>2, <2>2 DEF TypeOK, Tables, Drop
    <3>2. delta'.rel[r] = delta.rel[r] /\ delta.rel[r] \in Counts
      BY <1>1, <1>2, <2>2 DEF TypeOK, Deltas, LogAll
    <3> QED
      BY <3>1, <3>2, LogNoChange
  <2> QED
    BY <2>1, <2>2
<1>5. ResAccounted
  <2>1. ASSUME NEW u \in StaleResources
        PROVE  /\ delta'.res[u] = Log(delta.res[u], {"delete"})
               /\ db.res[u] # None /\ db'.res[u] = None
    <3>1. u \in Uri /\ db.res[u] = job.account
      BY DEF StaleResources
    <3> QED
      BY <1>1, <1>2, <3>1, NoneAssumption DEF TypeOK, Tables, Deltas, Drop, LogAll
  <2>2. ASSUME NEW u \in Uri \ StaleResources
        PROVE  /\ delta'.res[u] = Log(delta.res[u], {})
               /\ db'.res[u] = db.res[u] /\ db'.raw[u] = db.raw[u]
    <3>1. /\ delta'.res[u] = delta.res[u] /\ delta.res[u] \in Counts
          /\ db'.res[u] = db.res[u] /\ db'.raw[u] = db.raw[u]
      BY <1>1, <1>2 DEF TypeOK, Tables, Deltas, Drop, LogAll
    <3> QED
      BY <3>1, LogNothing
  <2>3. {"delete"} \in SUBSET Kind /\ {} \in SUBSET Kind
    BY DEF Kind
  <2> QED
    BY <2>1, <2>2, <2>3 DEF ResAccounted
<1> QED
  BY <1>1, <1>3, <1>4, <1>5 DEF Accounted

\* A step that changes only relations, each key logged with its change.
LEMMA RelationStepAccounted ==
  ASSUME TypeOK, RelAccounted, before' = before,
         db'.res = db.res, db'.raw = db.raw, db'.attr = db.attr,
         delta'.res = delta.res, delta'.attr = delta.attr
  PROVE  Accounted
<1>1. AttrAccounted
  BY LogNoChange DEF AttrAccounted, TypeOK, Deltas
<1>2. ResAccounted
  <2>1. ASSUME NEW u \in Uri
        PROVE  delta'.res[u] = Log(delta.res[u], {})
    BY LogNothing DEF TypeOK, Deltas
  <2> QED
    BY <2>1 DEF ResAccounted
<1> QED
  BY <1>1, <1>2 DEF Accounted

\* _apply_relation logs an add, an update or nothing.
LEMMA ApplyRelationAccounted ==
  ASSUME TypeOK, NEW l \in Link, ApplyRelation(l)
  PROVE  Accounted
<1>1. CASE None \in {db.res[ParentOf[l.rel]], db.res[TargetOf[l.rel]]}
  BY <1>1, IdleAccounted DEF ApplyRelation
<1>2. CASE None \notin {db.res[ParentOf[l.rel]], db.res[TargetOf[l.rel]]}
  <2> DEFINE kinds == Change(db.rel[l.rel], l.val)
  <2>1. /\ db' = [db EXCEPT !.rel[l.rel] = l.val]
        /\ delta' = [delta EXCEPT !.rel[l.rel] = Log(@, kinds)]
        /\ before' = before /\ l.rel \in Rel
    BY <1>2 DEF ApplyRelation, Link
  <2>2. RelAccounted
    <3> SUFFICES ASSUME NEW r \in Rel
                 PROVE  delta'.rel[r] = Log(delta.rel[r], Change(db.rel[r], db'.rel[r]))
      BY DEF RelAccounted
    <3>1. CASE r = l.rel
      BY <2>1, <3>1 DEF TypeOK, Tables, Deltas
    <3>2. CASE r # l.rel
      <4>1. db'.rel[r] = db.rel[r]
        BY <2>1, <3>2 DEF TypeOK, Tables
      <4>2. delta'.rel[r] = delta.rel[r] /\ delta.rel[r] \in Counts
        BY <2>1, <3>2 DEF TypeOK, Deltas
      <4> QED
        BY <4>1, <4>2, LogNoChange
    <3> QED
      BY <3>1, <3>2
  <2>3. /\ db'.res = db.res /\ db'.raw = db.raw /\ db'.attr = db.attr
        /\ delta'.res = delta.res /\ delta'.attr = delta.attr
    BY <2>1 DEF TypeOK, Tables, Deltas
  <2> QED
    BY <2>1, <2>2, <2>3, RelationStepAccounted
<1> QED
  BY <1>1, <1>2

\* map_relation_deletes logs a delete for each relation it removes.
LEMMA RelationDeletesAccounted ==
  ASSUME TypeOK, RelationDeletes
  PROVE  Accounted
<1>1. /\ db' = [db EXCEPT !.rel = Drop(db.rel, StaleRelations, None)]
      /\ delta' = [delta EXCEPT !.rel = LogAll(delta.rel, StaleRelations, {"delete"})]
      /\ before' = before
  BY DEF RelationDeletes
<1>2. RelAccounted
  <2> SUFFICES ASSUME NEW r \in Rel
               PROVE  delta'.rel[r] = Log(delta.rel[r], Change(db.rel[r], db'.rel[r]))
    BY DEF RelAccounted
  <2>1. CASE r \in StaleRelations
    <3>1. Change(db.rel[r], db'.rel[r]) = {"delete"}
      BY <1>1, <2>1 DEF StaleRelations, TypeOK, Tables, Drop, Change
    <3> QED
      BY <1>1, <2>1, <3>1 DEF TypeOK, Deltas, LogAll
  <2>2. CASE r \notin StaleRelations
    <3>1. db'.rel[r] = db.rel[r]
      BY <1>1, <2>2 DEF TypeOK, Tables, Drop
    <3>2. delta'.rel[r] = delta.rel[r] /\ delta.rel[r] \in Counts
      BY <1>1, <2>2 DEF TypeOK, Deltas, LogAll
    <3> QED
      BY <3>1, <3>2, LogNoChange
  <2> QED
    BY <2>1, <2>2
<1>3. /\ db'.res = db.res /\ db'.raw = db.raw /\ db'.attr = db.attr
      /\ delta'.res = delta.res /\ delta'.attr = delta.attr
  BY <1>1 DEF TypeOK, Tables, Deltas
<1> QED
  BY <1>1, <1>2, <1>3, RelationStepAccounted

\* Every step of the program is accounted for or starts the log over.
LEMMA StepAccounted ==
  ASSUME SoundInv, [Next]_vars
  PROVE  Accounted \/ Reset
<1> TypeOK
  BY DEF SoundInv
<1>1. CASE StartJob \/ DbFails
  BY <1>1, IdleAccounted DEF StartJob, DbFails, Rollback, Reset
<1>2. ASSUME NEW row \in inbox, ApplyBase(row) PROVE Accounted
  <2>1. row.uri \in Uri /\ row.data \in Payload /\ job.account \in Account
    BY <1>2 DEF ApplyBase, TypeOK, Row
  <2> QED
    BY <1>2, <2>1, ApplyResourceAccounted DEF ApplyBase
<1>3. CASE SynthesizeRoot
  <2> DEFINE root == RootOf[job.account]
  <2>1. job.account \in Account /\ root \in Uri /\ cloud.base[job.account][root] \in Payload
    BY <1>3, CloudsAssumption, TransformsAssumption DEF SynthesizeRoot, TypeOK, Cloud
  <2> QED
    BY <1>3, <2>1, ApplyResourceAccounted, IdleAccounted DEF SynthesizeRoot
<1>4. ASSUME NEW row \in inbox, ApplyPartial(row) PROVE Accounted
  <2>1. row.uri \in Uri /\ row.source \in Source /\ row.data \in Payload
    BY DEF TypeOK, Row
  <2> QED
    BY <1>4, <2>1, ApplyPartialAccounted, IdleAccounted DEF ApplyPartial
<1>5. CASE \/ EndFetch \/ EndBase \/ FindAdjunctData \/ AdjunctRaises
           \/ AddLogsResourcePolicies \/ EndRelations \/ Commit \/ Complete
           \/ CloudDrifts \/ MapRaises \/ UNCHANGED vars
           \/ \E s \in Service : FetchService(s) \/ FetchRaises(s)
  <2>1. UNCHANGED <<db, delta, before>>
    BY <1>5 DEF EndFetch, EndBase, FindAdjunctData, AdjunctRaises,
       AddLogsResourcePolicies, EndRelations, Commit, Complete, CloudDrifts, MapRaises,
       FetchService, FetchRaises, vars
  <2> QED
    BY <2>1, IdleAccounted
<1> QED
  BY <1>1, <1>2, <1>3, <1>4, <1>5, PartialDeletesAccounted, ResourceDeletesAccounted,
     ApplyRelationAccounted, RelationDeletesAccounted DEF Next, ImportStep, Fault
---------------------------------------------------------------------------------
(***************************************************************************)
(* The inductive invariant: balance and log together, over sound tables.   *)
(***************************************************************************)
LogInv == DeltaBalance /\ EveryChangeLogged

\* A key that did not change balances with an empty log.
LEMMA ZeroBalance == \A x : Balanced(x, x, Zero)
BY DEF Balanced, One, Zero, Kind

\* Tables equal to those the job started from need no log: at the start, and
\* after build_aws_import_job or the rollback of a failed command.
LEMMA InitLog ==
  ASSUME Init
  PROVE  LogInv
<1>1. /\ db = before
      /\ \A u \in Uri : delta.res[u] = Zero
      /\ \A u \in Uri, s \in Source, n \in AttrName : delta.attr[u][s][n] = Zero
      /\ \A r \in Rel : delta.rel[r] = Zero
  BY DEF Init, NoDeltas
<1> QED
  BY <1>1, ZeroBalance DEF LogInv, DeltaBalance, EveryChangeLogged

LEMMA ResetLog ==
  ASSUME Reset
  PROVE  LogInv'
<1>1. /\ db' = before'
      /\ \A u \in Uri : delta'.res[u] = Zero
      /\ \A u \in Uri, s \in Source, n \in AttrName : delta'.attr[u][s][n] = Zero
      /\ \A r \in Rel : delta'.rel[r] = Zero
  BY DEF Reset, NoDeltas
<1> QED
  BY <1>1, ZeroBalance DEF LogInv, DeltaBalance, EveryChangeLogged

\* A step that is accounted for keeps the balance.
LEMMA AccountedBalance ==
  ASSUME TypeOK, DeltaBalance, Accounted
  PROVE  DeltaBalance'
<1>1. ASSUME NEW u \in Uri PROVE Balanced(before'.res[u], db'.res[u], delta'.res[u])
  <2>1. PICK kinds \in SUBSET Kind :
          /\ delta'.res[u] = Log(delta.res[u], kinds)
          /\ "add" \in kinds <=> db.res[u] = None /\ db'.res[u] # None
          /\ "delete" \in kinds <=> db.res[u] # None /\ db'.res[u] = None
    BY DEF Accounted, ResAccounted
  <2>2. delta.res[u] \in Counts /\ Balanced(before.res[u], db.res[u], delta.res[u])
    BY DEF TypeOK, Deltas, DeltaBalance
  <2> QED
    BY <2>1, <2>2, BalanceStep DEF Accounted
<1>2. ASSUME NEW u \in Uri, NEW s \in Source, NEW n \in AttrName
      PROVE  Balanced(before'.attr[u][s][n], db'.attr[u][s][n], delta'.attr[u][s][n])
  <2>1. delta'.attr[u][s][n]
          = Log(delta.attr[u][s][n], Change(db.attr[u][s][n], db'.attr[u][s][n]))
    BY DEF Accounted, AttrAccounted
  <2>2. /\ delta.attr[u][s][n] \in Counts
        /\ Balanced(before.attr[u][s][n], db.attr[u][s][n], delta.attr[u][s][n])
    BY DEF TypeOK, Deltas, DeltaBalance
  <2> QED
    BY <2>1, <2>2, BalanceStep, ChangeKinds DEF Accounted
<1>3. ASSUME NEW r \in Rel PROVE Balanced(before'.rel[r], db'.rel[r], delta'.rel[r])
  <2>1. delta'.rel[r] = Log(delta.rel[r], Change(db.rel[r], db'.rel[r]))
    BY DEF Accounted, RelAccounted
  <2>2. delta.rel[r] \in Counts /\ Balanced(before.rel[r], db.rel[r], delta.rel[r])
    BY DEF TypeOK, Deltas, DeltaBalance
  <2> QED
    BY <2>1, <2>2, BalanceStep, ChangeKinds DEF Accounted
<1> QED
  BY <1>1, <1>2, <1>3 DEF DeltaBalance

\* A step that is accounted for changes nothing silently.
LEMMA AccountedLogged ==
  ASSUME TypeOK, EveryChangeLogged, Accounted
  PROVE  EveryChangeLogged'
<1>1. ASSUME NEW u \in Uri, db'.raw[u] # before'.raw[u] \/ db'.res[u] # before'.res[u]
      PROVE  Logged(delta'.res[u])
  <2>1. PICK kinds \in SUBSET Kind :
          /\ delta'.res[u] = Log(delta.res[u], kinds)
          /\ db'.res[u] # db.res[u] \/ db'.raw[u] # db.raw[u] => kinds # {}
    BY DEF Accounted, ResAccounted
  <2>2. delta.res[u] \in Counts
    BY DEF TypeOK, Deltas
  <2>3. Logged(delta.res[u]) \/ kinds \cap Kind # {}
    BY <1>1, <2>1 DEF EveryChangeLogged, Accounted
  <2> QED
    BY <2>1, <2>2, <2>3, LoggedGrows
<1>2. ASSUME NEW u \in Uri, NEW s \in Source, NEW n \in AttrName,
             db'.attr[u][s][n] # before'.attr[u][s][n]
      PROVE  Logged(delta'.attr[u][s][n])
  <2> DEFINE kinds == Change(db.attr[u][s][n], db'.attr[u][s][n])
  <2>1. delta'.attr[u][s][n] = Log(delta.attr[u][s][n], kinds)
    BY DEF Accounted, AttrAccounted
  <2>2. delta.attr[u][s][n] \in Counts
    BY DEF TypeOK, Deltas
  <2>3. Logged(delta.attr[u][s][n]) \/ kinds \cap Kind # {}
    BY <1>2, ChangeKinds DEF EveryChangeLogged, Accounted
  <2> QED
    BY <2>1, <2>2, <2>3, LoggedGrows
<1>3. ASSUME NEW r \in Rel, db'.rel[r] # before'.rel[r]
      PROVE  Logged(delta'.rel[r])
  <2> DEFINE kinds == Change(db.rel[r], db'.rel[r])
  <2>1. delta'.rel[r] = Log(delta.rel[r], kinds)
    BY DEF Accounted, RelAccounted
  <2>2. delta.rel[r] \in Counts
    BY DEF TypeOK, Deltas
  <2>3. Logged(delta.rel[r]) \/ kinds \cap Kind # {}
    BY <1>3, ChangeKinds DEF EveryChangeLogged, Accounted
  <2> QED
    BY <2>1, <2>2, <2>3, LoggedGrows
<1> QED
  BY <1>1, <1>2, <1>3 DEF EveryChangeLogged

\* The log accounts for the tables in every state, for every account, transform,
\* snapshot and fault.
THEOREM LogAccounts == Spec => []LogInv
<1>1. Init => LogInv
  BY InitLog
<1>2. SoundInv /\ LogInv /\ [Next]_vars => LogInv'
  <2> SUFFICES ASSUME SoundInv, LogInv, [Next]_vars
               PROVE  LogInv'
    OBVIOUS
  <2>1. CASE Accounted
    BY <2>1, AccountedBalance, AccountedLogged DEF LogInv, SoundInv
  <2>2. CASE Reset
    BY <2>2, ResetLog
  <2> QED
    BY <2>1, <2>2, StepAccounted
<1> QED
  BY <1>1, <1>2, AlwaysSound, PTL DEF Spec

\* Replaying a job's adds and deletes gives the tables it left (report_for_import
\* reads them that way).
THEOREM DeltaBalanceHolds == Spec => []DeltaBalance
<1>1. LogInv => DeltaBalance
  BY DEF LogInv
<1> QED
  BY <1>1, LogAccounts, PTL

\* Nothing that an import changes is missing from its log.
THEOREM EveryChangeLoggedHolds == Spec => []EveryChangeLogged
<1>1. LogInv => EveryChangeLogged
  BY DEF LogInv
<1> QED
  BY <1>1, LogAccounts, PTL
---------------------------------------------------------------------------------
(***************************************************************************)
(* The import implements the promise of Inventory: every step maps to one  *)
(* publication, to the begin or the close of a job, or to a stutter.       *)
(***************************************************************************)
\* A job runs exactly while a command works on it (End sets both).
JobFollowsPhase == phase = "idle" <=> job.status # "running"

\* The fetch writes no table (the pool workers only add raw_import rows).
FetchKeepsTables == phase = "fetch" => db = before /\ delta = NoDeltas

PhaseInv == JobFollowsPhase /\ FetchKeepsTables
---------------------------------------------------------------------------------
\* End marks the job and stops the command (mark_complete).
LEMMA EndMarks ==
  ASSUME TypeOK, NEW status, End(status)
  PROVE  phase' = "idle" /\ job'.status = status /\ job'.account = job.account
BY DEF TypeOK, End

\* Every step keeps job and phase together.
LEMMA PhaseStep ==
  ASSUME TypeOK, PhaseInv, [Next]_vars
  PROVE  PhaseInv'
<1> USE DEF PhaseInv, JobFollowsPhase, FetchKeepsTables
<1>1. CASE StartJob
  BY <1>1 DEF StartJob, NoDeltas
<1>2. ASSUME NEW row \in inbox, ApplyBase(row) PROVE PhaseInv'
  BY <1>2 DEF ApplyBase
<1>3. CASE EndFetch \/ EndBase \/ SynthesizeRoot
  BY <1>3, EndMarks DEF EndFetch, EndBase, SynthesizeRoot
<1>4. ASSUME NEW row \in inbox, ApplyPartial(row) PROVE PhaseInv'
  BY <1>4 DEF ApplyPartial
<1>5. CASE FindAdjunctData \/ AdjunctRaises \/ AddLogsResourcePolicies
  BY <1>5, EndMarks DEF FindAdjunctData, AdjunctRaises, AddLogsResourcePolicies
<1>6. CASE PartialDeletes \/ ResourceDeletes \/ RelationDeletes \/ EndRelations
  BY <1>6 DEF PartialDeletes, ResourceDeletes, RelationDeletes, EndRelations
<1>7. ASSUME NEW l \in Link, ApplyRelation(l) PROVE PhaseInv'
  BY <1>7 DEF ApplyRelation
<1>8. CASE Commit \/ Complete \/ MapRaises \/ DbFails
  BY <1>8, EndMarks DEF Commit, Complete, MapRaises, DbFails, Rollback, MapPhase
<1>9. CASE CloudDrifts \/ UNCHANGED vars \/ \E s \in Service : FetchService(s) \/ FetchRaises(s)
  BY <1>9 DEF CloudDrifts, FetchService, FetchRaises, vars, NoDeltas
<1> QED
  BY <1>1, <1>2, <1>3, <1>4, <1>5, <1>6, <1>7, <1>8, <1>9 DEF Next, ImportStep, Fault
---------------------------------------------------------------------------------
(***************************************************************************)
(* What readers see.                                                       *)
(***************************************************************************)
\* Until the commit: the tables the job started from, and no log.
LEMMA SeenBefore ==
  ASSUME Uncommitted
  PROVE  Seen = Content(before) /\ SeenLog = Committed!NoLog
BY DEF Seen, SeenLog, Committed!NoLog, Zero

LogOf(k) == IF k \in Rel THEN delta.rel[k] ELSE delta.res[k]

\* The log that readers find accounts for the step from the tables the job
\* started from to the tables it leaves.
LEMMA PublicationAccounts ==
  ASSUME SoundInv, LogInv, NEW k \in Uri \cup Rel
  PROVE  Committed!Accounts(Content(before)[k], Content(db)[k], LogOf(k))
<1> TypeOK
  BY DEF SoundInv
<1>1. CASE k \in Rel
  <2>1. Content(before)[k] = before.rel[k] /\ Content(db)[k] = db.rel[k] /\ LogOf(k) = delta.rel[k]
    BY <1>1 DEF Content, LogOf
  <2>2. /\ Balanced(before.rel[k], db.rel[k], delta.rel[k])
        /\ db.rel[k] # before.rel[k] => Logged(delta.rel[k])
    BY <1>1 DEF LogInv, DeltaBalance, EveryChangeLogged
  <2> QED
    BY <2>1, <2>2 DEF Committed!Accounts, Committed!Row, Balanced, One, Logged
<1>2. CASE k \in Uri \ Rel
  <2>1. /\ Content(before)[k] = IF before.res[k] = None THEN None ELSE before.raw[k]
        /\ Content(db)[k] = IF db.res[k] = None THEN None ELSE db.raw[k]
        /\ LogOf(k) = delta.res[k]
    BY <1>2 DEF Content, LogOf
  <2>2. before.raw[k] # None /\ db.raw[k] # None
    BY <1>2, DocumentsAssumption DEF TypeOK, Tables
  <2>3. /\ Balanced(before.res[k], db.res[k], delta.res[k])
        /\ db.raw[k] # before.raw[k] \/ db.res[k] # before.res[k] => Logged(delta.res[k])
    BY <1>2 DEF LogInv, DeltaBalance, EveryChangeLogged
  <2> QED
    BY <2>1, <2>2, <2>3 DEF Committed!Accounts, Committed!Row, Balanced, One, Logged
<1> QED
  BY <1>1, <1>2
---------------------------------------------------------------------------------
(***************************************************************************)
(* The steps.                                                              *)
(***************************************************************************)
AbstractStep == Committed!Next \/ UNCHANGED <<Seen, SeenLog, job.status>>

\* A commit of the mapping, whole or half done, is a publication.
LEMMA CommitPublishes ==
  ASSUME SoundInv, LogInv, PhaseInv, Uncommitted, ~Uncommitted',
         UNCHANGED <<db, before, delta>>, job'.status \in {"running", "failed"}
  PROVE  Committed!Publish
<1>1. job.status = "running"
  BY DEF PhaseInv, JobFollowsPhase, Uncommitted, MapPhase
<1>2. Seen = Content(before) /\ SeenLog = Committed!NoLog
  BY SeenBefore
<1>3. Seen' = Content(db) /\ SeenLog' = [k \in Uri \cup Rel |-> LogOf(k)]
  BY DEF Seen, SeenLog, Content, LogOf
<1>4. \A k \in Uri \cup Rel : Committed!Accounts(Seen[k], Seen'[k], SeenLog'[k])
  BY <1>2, <1>3, PublicationAccounts
<1>5. DOMAIN Seen' = Uri \cup Rel /\ DOMAIN SeenLog' = Uri \cup Rel
  BY <1>3 DEF Content
<1> QED
  BY <1>1, <1>2, <1>4, <1>5 DEF Committed!Publish

\* Inside the transaction readers see nothing.
LEMMA InsideStutters ==
  ASSUME Uncommitted, Uncommitted', before' = before, job'.status = job.status
  PROVE  UNCHANGED <<Seen, SeenLog, job.status>>
BY DEF Seen, SeenLog, Content

\* StartJob begins an import: the new log is empty, the tables stay.
LEMMA StartBegins ==
  ASSUME PhaseInv, StartJob
  PROVE  Committed!Begin
<1>1. job.status # "running" /\ job'.status = "running"
  BY DEF StartJob, PhaseInv, JobFollowsPhase
<1>2. ~Uncommitted /\ Uncommitted'
  BY DEF StartJob, Uncommitted, MapPhase
<1>3. Seen = Content(db) /\ Seen' = Content(db)
  BY <1>2 DEF StartJob, Seen, Content
<1>4. SeenLog' = Committed!NoLog
  BY <1>2 DEF SeenLog, Committed!NoLog, Zero
<1> QED
  BY <1>1, <1>3, <1>4 DEF Committed!Begin

\* The ways a job ends: a command that dies, a failed fetch, a failure after
\* the commit, and success close it; a failed mapping publishes what it had.
LEMMA EndCloses ==
  ASSUME SoundInv, LogInv, PhaseInv,
         EndFetch \/ AdjunctRaises \/ MapRaises \/ DbFails \/ Complete
  PROVE  AbstractStep
<1> TypeOK
  BY DEF SoundInv
<1>1. CASE EndFetch /\ ~raised
  <2>1. Uncommitted /\ Uncommitted' /\ before' = before /\ job' = job
    BY <1>1 DEF EndFetch, Uncommitted, MapPhase
  <2> QED
    BY <2>1, InsideStutters DEF AbstractStep
<1>2. CASE EndFetch /\ raised
  <2>1. Uncommitted /\ ~Uncommitted' /\ job.status = "running" /\ job'.status = "failed"
    BY <1>2, EndMarks DEF EndFetch, Uncommitted, MapPhase, PhaseInv, JobFollowsPhase
  <2>2. db = before /\ delta = NoDeltas /\ UNCHANGED <<db, before, delta>>
    BY <1>2 DEF EndFetch, PhaseInv, FetchKeepsTables
  <2>3. Seen' = Seen
    BY <2>1, <2>2 DEF Seen, Content
  <2>4. SeenLog' = SeenLog
    BY <2>1, <2>2 DEF SeenLog, NoDeltas
  <2> QED
    BY <2>1, <2>3, <2>4 DEF AbstractStep, Committed!Next, Committed!Close
<1>3. CASE AdjunctRaises \/ (MapRaises /\ phase \in MapPhase)
  <2>1. Uncommitted /\ ~Uncommitted' /\ job'.status = "failed"
    BY <1>3, EndMarks DEF AdjunctRaises, MapRaises, Uncommitted, MapPhase
  <2>2. UNCHANGED <<db, before, delta>>
    BY <1>3 DEF AdjunctRaises, MapRaises
  <2> QED
    BY <2>1, <2>2, CommitPublishes DEF AbstractStep, Committed!Next
<1>4. CASE phase = "refresh" /\ (MapRaises \/ DbFails \/ Complete)
  <2>1. ~Uncommitted /\ ~Uncommitted' /\ job.status = "running"
    BY <1>4, EndMarks DEF MapRaises, DbFails, Rollback, Complete, Uncommitted, MapPhase, PhaseInv, JobFollowsPhase
  <2>2. job'.status \in {"complete", "failed", "lost"} /\ UNCHANGED <<db, delta>>
    BY <1>4, EndMarks DEF MapRaises, DbFails, Rollback, Complete
  <2>3. Seen' = Seen /\ SeenLog' = SeenLog
    BY <2>1, <2>2 DEF Seen, SeenLog, Content
  <2> QED
    BY <2>1, <2>2, <2>3 DEF AbstractStep, Committed!Next, Committed!Close
<1>5. CASE DbFails /\ phase # "refresh"
  <2>1. Uncommitted /\ ~Uncommitted' /\ job.status = "running" /\ job'.status = "lost"
    BY <1>5, EndMarks DEF DbFails, Rollback, Uncommitted, MapPhase, TypeOK, Phase, PhaseInv, JobFollowsPhase
  <2>2. db' = before /\ before' = before /\ delta' = NoDeltas
    BY <1>5 DEF DbFails, Rollback
  <2>3. Seen' = Seen
    BY <2>1, <2>2 DEF Seen, Content
  <2>4. SeenLog' = SeenLog
    BY <2>1, <2>2 DEF SeenLog, NoDeltas
  <2> QED
    BY <2>1, <2>3, <2>4 DEF AbstractStep, Committed!Next, Committed!Close
<1>6. MapRaises => phase \in MapPhase \/ phase = "refresh"
  BY DEF MapRaises
<1>7. Complete => phase = "refresh"
  BY DEF Complete
<1> QED
  BY <1>1, <1>2, <1>3, <1>4, <1>5, <1>6, <1>7

\* Every step of an import is a step of the inventory or a stutter.
LEMMA StepSimulates ==
  ASSUME SoundInv, LogInv, PhaseInv, [Next]_vars
  PROVE  AbstractStep
<1>1. CASE StartJob
  BY <1>1, StartBegins DEF AbstractStep, Committed!Next
<1>2. CASE EndFetch \/ AdjunctRaises \/ MapRaises \/ DbFails \/ Complete
  BY <1>2, EndCloses
<1>3. CASE Commit
  <2>1. Uncommitted /\ ~Uncommitted' /\ UNCHANGED <<db, before, delta>> /\ job' = job
    BY <1>3 DEF Commit, Uncommitted, MapPhase
  <2>2. job'.status \in {"running", "failed"}
    BY <1>3, <2>1 DEF Commit, PhaseInv, JobFollowsPhase
  <2> QED
    BY <2>1, <2>2, CommitPublishes DEF AbstractStep, Committed!Next
<1>4. ASSUME Uncommitted, Uncommitted', before' = before, job' = job PROVE AbstractStep
  BY <1>4, InsideStutters DEF AbstractStep
<1>5. ASSUME NEW s \in Service, FetchService(s) \/ FetchRaises(s) PROVE AbstractStep
  BY <1>4, <1>5 DEF FetchService, FetchRaises, Uncommitted
<1>6. ASSUME NEW row \in inbox, ApplyBase(row) \/ ApplyPartial(row) PROVE AbstractStep
  BY <1>4, <1>6 DEF ApplyBase, ApplyPartial, Uncommitted, MapPhase
<1>7. ASSUME NEW l \in Link, ApplyRelation(l) PROVE AbstractStep
  BY <1>4, <1>7 DEF ApplyRelation, Uncommitted, MapPhase
<1>8. CASE EndBase \/ SynthesizeRoot \/ FindAdjunctData \/ AddLogsResourcePolicies
           \/ PartialDeletes \/ ResourceDeletes \/ EndRelations \/ RelationDeletes
  BY <1>4, <1>8 DEF EndBase, SynthesizeRoot, FindAdjunctData, AddLogsResourcePolicies,
     PartialDeletes, ResourceDeletes, EndRelations, RelationDeletes, Uncommitted, MapPhase
<1>9. CASE CloudDrifts
  BY <1>4, <1>9 DEF CloudDrifts, Uncommitted, MapPhase
<1>10. CASE UNCHANGED vars
  BY <1>10 DEF vars, AbstractStep, Seen, SeenLog, Content, Uncommitted
<1> QED
  BY <1>1, <1>2, <1>3, <1>5, <1>6, <1>7, <1>8, <1>9, <1>10 DEF Next, ImportStep, Fault

\* The first import starts from an empty inventory.
LEMMA InitSimulates ==
  ASSUME Init
  PROVE  Committed!Init
<1>1. ~Uncommitted /\ job.status = "none" /\ db = EmptyTables /\ delta = NoDeltas
  BY DEF Init, Uncommitted, MapPhase
<1>2. Seen = [k \in Uri \cup Rel |-> None]
  BY <1>1 DEF Seen, Content, EmptyTables
<1>3. SeenLog = Committed!NoLog
  BY <1>1 DEF SeenLog, NoDeltas, Zero, Committed!NoLog
<1> QED
  BY <1>1, <1>2, <1>3 DEF Committed!Init

\* The import commands implement the inventory of README.md:14: whatever fails,
\* a reader finds the tables of the previous import or those of this one, and
\* with them the log of exactly that step.
THEOREM ImplementsInventoryHolds == Spec => ImplementsInventory
<1>1. Init => PhaseInv
  BY DEF Init, PhaseInv, JobFollowsPhase, FetchKeepsTables
<1>2. SoundInv /\ PhaseInv /\ [Next]_vars => PhaseInv'
  BY PhaseStep DEF SoundInv
<1>3. SoundInv /\ LogInv /\ PhaseInv /\ [Next]_vars
        => [Committed!Next]_<<Seen, SeenLog, job.status>>
  BY StepSimulates DEF AbstractStep
<1>4. Init => Committed!Init
  BY InitSimulates
<1> QED
  BY <1>1, <1>2, <1>3, <1>4, AlwaysSound, LogAccounts, PTL
     DEF Spec, ImplementsInventory, Committed!Spec
---------------------------------------------------------------------------------
(***************************************************************************)
(* Nothing is logged that did not change: a document, and with it its      *)
(* attributes, is written at most once in a job, so that a change that is  *)
(* logged is not undone before the job ends.                               *)
(***************************************************************************)
\* No document is fetched twice.
RowsApart == \A x, y \in inbox : x.source = y.source /\ x.uri = y.uri => x = y
EarlyRows == \A x \in inbox : /\ Beginning => x.source # "logspolicies"
                              /\ phase = "fetch" /\ "iam" \in todo => x.source # "credentialreport"

\* What is not mapped yet, and never what a row waits for.
Unmapped ==
  /\ phase = "fetch" => mapped = {}
  /\ phase \in {"base", "root"} => \A u \in Roots : <<"base", u>> \notin mapped
  /\ Beginning => \A s \in ExtraSource, u \in Uri : <<s, u>> \notin mapped
PendingUnmapped == Working => \A x \in inbox \ done : <<x.source, x.uri>> \notin mapped

RowInv == RowsApart /\ EarlyRows /\ Unmapped /\ PendingUnmapped

\* Rows that stay, in a job that goes on.
LEMMA SameRows ==
  ASSUME RowInv, UNCHANGED <<inbox, done>>, todo' \subseteq todo,
         Working' => Working /\ mapped' = mapped,
         Beginning' => Beginning, phase' = "fetch" => phase = "fetch",
         phase' \in {"base", "root"} => phase \in {"fetch", "base", "root"}
  PROVE  RowInv'
<1>1. Beginning' \/ phase' = "fetch" \/ phase' \in {"base", "root"} => Working'
  BY DEF Beginning, Working
<1> QED BY <1>1 DEF RowInv, RowsApart, EarlyRows, Unmapped, PendingUnmapped

\* A row that is mapped is visited.
LEMMA VisitRows ==
  ASSUME RowInv, TypeOK, NEW row \in inbox, Working,
         UNCHANGED <<inbox, todo, job, phase>>, done' = done \cup {row},
         mapped' \in {mapped, mapped \cup {<<row.source, row.uri>>}},
         \/ phase \in {"base", "rebase"} /\ row.source = "base"
         \/ phase = "partials",
         phase = "base" => row.uri \notin Roots
  PROVE  RowInv'
<1>1. RowsApart' /\ EarlyRows' BY DEF RowInv, RowsApart, EarlyRows, Beginning
<1>2. Unmapped' BY DEF RowInv, Unmapped, Beginning, ExtraSource
<1>3. PendingUnmapped' BY DEF RowInv, PendingUnmapped, RowsApart
<1> QED BY <1>1, <1>2, <1>3 DEF RowInv

\* The rows that come are of documents that have none.
LEMMA FetchRows ==
  ASSUME SoundInv, MirrorInv, MirrorInv', RowInv, OneDocumentEach, NEW s \in Service, FetchService(s)
  PROVE  RowInv'
<1>1. PICK lost \in Losses : inbox' = inbox \cup BaseRows(s, lost) \cup CredentialRows(s)
  BY DEF FetchService
<1>2. /\ phase = "fetch" /\ todo' = todo \ {s} /\ s \in todo
      /\ UNCHANGED <<job, phase, done, mapped>>
      /\ cloud \in Clouds /\ job.account \in Account /\ mapped = {}
  BY DEF FetchService, SoundInv, TypeOK, RowInv, Unmapped
<1>3. \A x \in BaseRows(s, lost) : x.source = "base" BY DEF BaseRows
<1>4. /\ \A x \in CredentialRows(s) : x.source = "credentialreport" /\ s = "iam"
      /\ \A x, y \in CredentialRows(s) : x.uri = y.uri => x = y
  BY <1>2 DEF CredentialRows, ExtraRows, OneDocumentEach, ExtraSource
<1>5. ASSUME NEW x \in inbox', NEW y \in inbox', x.source = y.source, x.uri = y.uri PROVE x = y
  <2>1. CASE x.source = "base" BY <1>5, <2>1 DEF MirrorInv, RowsOnce, BaseRow
  <2>2. CASE x.source # "base"
    <3>1. x \in inbox \cup CredentialRows(s) /\ y \in inbox \cup CredentialRows(s)
      BY <1>1, <1>3, <1>5, <2>2
    <3>2. \A z \in inbox : s = "iam" => z.source # "credentialreport"
      BY <1>2 DEF RowInv, EarlyRows
    <3> QED BY <1>4, <1>5, <3>1, <3>2 DEF RowInv, RowsApart
  <2> QED BY <2>1, <2>2
<1>6. EarlyRows' BY <1>1, <1>2, <1>3, <1>4 DEF RowInv, EarlyRows, Beginning
<1>7. Unmapped' /\ PendingUnmapped' BY <1>2 DEF RowInv, Unmapped, PendingUnmapped
<1> QED BY <1>5, <1>6, <1>7 DEF RowInv, RowsApart

LEMMA AdjunctRows ==
  ASSUME SoundInv, MirrorInv, MirrorInv', RowInv, FindAdjunctData
  PROVE  RowInv'
<1>1. /\ phase = "adjunct" /\ phase' = "policies" /\ UNCHANGED <<job, todo, done, mapped>>
      /\ inbox \subseteq inbox'
      /\ \A x \in inbox' \ inbox : x.source = "base" /\ x.uri \in MissingAmis
  BY DEF FindAdjunctData
<1>2. Working BY <1>1 DEF Working
<1>3. RowsApart'
  <2> SUFFICES ASSUME NEW x \in inbox', NEW y \in inbox', x.source = y.source, x.uri = y.uri PROVE x = y
    BY DEF RowsApart
  <2>1. CASE x.source = "base" BY <2>1 DEF MirrorInv, RowsOnce, BaseRow
  <2>2. CASE x.source # "base" BY <1>1, <2>2 DEF RowInv, RowsApart
  <2> QED BY <2>1, <2>2
<1>4. EarlyRows' /\ Unmapped' BY <1>1 DEF RowInv, EarlyRows, Unmapped, Beginning
<1>5. ASSUME NEW x \in inbox' \ done', <<x.source, x.uri>> \in mapped' PROVE FALSE
  <2>1. x \notin inbox BY <1>1, <1>2, <1>5 DEF RowInv, PendingUnmapped
  <2>2. x \in BaseRow' /\ x.uri \in MissingAmis /\ x.uri \in Uri /\ <<"base", x.uri>> \in mapped
    BY <1>1, <1>5, <2>1 DEF BaseRow, MissingAmis
  <2>3. x.uri \notin Roots
    <3>1. PICK vm \in Uri : db.res[vm] # None /\ ImageOf[db.raw[vm]["base"]] = x.uri
      BY <2>2 DEF MissingAmis
    <3>2. db.raw[vm]["base"] \in Payload
      BY <3>1 DEF SoundInv, TablesSound, ResourceHasBase, TypeOK, Tables, Source
    <3> QED BY <2>2, <3>1, <3>2, ServicesAssumption DEF Roots
  <2>4. PICK y \in BaseRow : y.uri = x.uri BY <1>2, <2>2, <2>3 DEF MirrorInv, MappedRows
  <2>5. y \in BaseRow' BY <1>1, <2>4 DEF BaseRow
  <2>6. x = y BY <2>2, <2>4, <2>5 DEF MirrorInv, RowsOnce
  <2> QED BY <2>1, <2>4, <2>6 DEF BaseRow
<1> QED BY <1>3, <1>4, <1>5 DEF RowInv, PendingUnmapped

LEMMA PolicyRows ==
  ASSUME SoundInv, MirrorInv, RowInv, OneDocumentEach, AddLogsResourcePolicies
  PROVE  RowInv'
<1>1. /\ phase = "policies" /\ phase' = "partials" /\ UNCHANGED <<job, todo, done, mapped>>
      /\ inbox \subseteq inbox' /\ inbox' \ inbox \subseteq ExtraRows("logspolicies")
      /\ cloud \in Clouds /\ job.account \in Account
  BY DEF AddLogsResourcePolicies, SoundInv, TypeOK
<1>2. /\ \A x \in ExtraRows("logspolicies") : x.source = "logspolicies" /\ x.uri \in Uri
      /\ \A x, y \in ExtraRows("logspolicies") : x.uri = y.uri => x = y
  BY <1>1, CloudsAssumption DEF ExtraRows, OneDocumentEach, ExtraSource, Cloud
<1>3. Working /\ Beginning BY <1>1 DEF Working, Beginning
<1>4. \A x \in inbox : x.source # "logspolicies" BY <1>3 DEF RowInv, EarlyRows
<1>5. RowsApart' BY <1>1, <1>2, <1>4 DEF RowInv, RowsApart
<1>6. EarlyRows' /\ Unmapped' BY <1>1 DEF EarlyRows, Unmapped, Beginning
<1>7. PendingUnmapped' BY <1>1, <1>2, <1>3 DEF RowInv, PendingUnmapped, Unmapped, ExtraSource
<1> QED BY <1>5, <1>6, <1>7 DEF RowInv

\* Every step keeps the invariant of the rows.
LEMMA RowStep ==
  ASSUME SoundInv, MirrorInv, MirrorInv', RowInv, OneDocumentEach, [Next]_vars
  PROVE  RowInv'
<1> TypeOK BY DEF SoundInv
<1>1. CASE StartJob
  <2>1. inbox' = {} /\ mapped' = {} BY <1>1 DEF StartJob
  <2> QED BY <2>1 DEF RowInv, RowsApart, EarlyRows, Unmapped, PendingUnmapped
<1>2. ASSUME NEW row \in inbox, ApplyBase(row) PROVE RowInv'
  <2>1. /\ row \in BaseRow /\ row.source = "base" /\ phase \in {"base", "rebase"}
        /\ UNCHANGED <<inbox, todo, job, phase>> /\ done' = done \cup {row}
        /\ mapped' = mapped \cup {<<row.source, row.uri>>}
    BY <1>2 DEF ApplyBase, PendingBase, BaseRow
  <2>2. phase = "base" => row.uri \notin Roots BY <2>1 DEF MirrorInv, ListedRows
  <2> QED BY <2>1, <2>2, VisitRows DEF Working
<1>3. ASSUME NEW row \in inbox, ApplyPartial(row) PROVE RowInv'
  <2>1. /\ phase = "partials" /\ UNCHANGED <<inbox, todo, job, phase>> /\ done' = done \cup {row}
        /\ mapped' \in {mapped, mapped \cup {<<row.source, row.uri>>}}
    BY <1>3 DEF ApplyPartial
  <2> QED BY <2>1, VisitRows DEF Working
<1>4. CASE SynthesizeRoot
  <2>1. /\ phase = "root" /\ phase' = "adjunct" /\ UNCHANGED <<inbox, todo, job, done>>
        /\ mapped' \subseteq mapped \cup {<<"base", RootOf[job.account]>>} /\ job.account \in Account
    BY <1>4 DEF SynthesizeRoot, TypeOK
  <2>2. RootOf[job.account] \in Roots BY <2>1 DEF Roots
  <2>3. \A x \in inbox : x.source = "base" => x.uri \notin Roots
    BY <2>1 DEF MirrorInv, ListedRows, BaseRow
  <2>4. Working /\ Beginning /\ Beginning' BY <2>1 DEF Working, Beginning
  <2>5. RowsApart' /\ EarlyRows' BY <2>1, <2>4 DEF RowInv, RowsApart, EarlyRows
  <2>6. Unmapped' BY <2>1, <2>4 DEF RowInv, Unmapped, ExtraSource
  <2>7. PendingUnmapped' BY <2>1, <2>2, <2>3, <2>4 DEF RowInv, PendingUnmapped
  <2> QED BY <2>5, <2>6, <2>7 DEF RowInv
<1>5. CASE \/ EndFetch \/ EndBase \/ AdjunctRaises \/ CloudDrifts \/ MapRaises \/ DbFails
           \/ UNCHANGED vars \/ \E s \in Service : FetchRaises(s)
  BY <1>5, QuietSteps, SameRows DEF Working, Beginning
<1>6. CASE PartialDeletes \/ ResourceDeletes
  BY <1>6, SameRows DEF PartialDeletes, ResourceDeletes, Working, Beginning
<1>7. CASE RelationDeletes \/ EndRelations \/ Commit \/ Complete \/ \E l \in Link : ApplyRelation(l)
  BY <1>7, LinksKeepResources, SameRows DEF Working, Beginning
<1> QED
  BY <1>1, <1>2, <1>3, <1>4, <1>5, <1>6, <1>7, FetchRows, AdjunctRows, PolicyRows
  DEF Next, ImportStep, Fault
---------------------------------------------------------------------------------
(***************************************************************************)
(* Documents.                                                              *)
(***************************************************************************)
\* A document that is neither mapped nor swept is the one the job found, and none
\* of its attributes is logged.
Untouched == Working /\ ~Swept =>
  \A u \in Uri, s \in Source : <<s, u>> \notin mapped /\ ~Past(s) =>
    /\ db.raw[u][s] = before.raw[u][s]
    /\ \A n \in AttrName : ~Logged(delta.attr[u][s][n])

\* What is logged differs; attributes that are deleted with their resource aside.
Settled == Working =>
  /\ \A u \in Uri : Logged(delta.res[u]) => \E s \in Source : db.raw[u][s] # before.raw[u][s]
  /\ \A u \in Uri, s \in Source, n \in AttrName :
       (Swept => db.res[u] # None) /\ Logged(delta.attr[u][s][n])
         => db.attr[u][s][n] # before.attr[u][s][n]

\* A step that writes no document twice, and logs no resource whose documents stay.
TouchesOnce ==
  /\ before' = before /\ mapped \subseteq mapped' /\ \A s \in Source : Past(s) => Past(s)'
  /\ \A u \in Uri, s \in Source : db'.raw[u][s] # db.raw[u][s] =>
       /\ <<s, u>> \notin mapped /\ ~Past(s)
       /\ <<s, u>> \in mapped' \/ Past(s)'

ResExact == \A u \in Uri : db'.raw[u] = db.raw[u] => delta'.res[u] = delta.res[u]

\* The base documents are of no partial source.
LEMMA BaseNotPast ==
  ASSUME swept \in 0 .. 2
  PROVE  ~Past("base")
<1>1. \A i \in 1 .. swept : i \in 1 .. 2 OBVIOUS
<1> QED BY <1>1, Sources DEF Past, ExtraSource

\* A count that was zero counts one change; a value that stays counts none.
LEMMA FirstChange ==
  ASSUME NEW c \in Counts, NEW x, NEW y, ~Logged(c), Logged(Log(c, Change(x, y)))
  PROVE  x # y
BY LogNoChange

\* Such steps keep what is untouched and settle what they touch.
LEMMA OnceSettles ==
  ASSUME SoundInv, SoundInv', Untouched, Settled, Accounted, ResExact, TouchesOnce,
         Working, ~Swept, ~Swept'
  PROVE  Untouched' /\ Settled'
<1> TypeOK /\ TypeOK' BY DEF SoundInv
<1>1. \A u \in Uri, s \in Source :
        /\ db.attr[u][s] = AttrsOf(db.raw[u][s]) /\ db'.attr[u][s] = AttrsOf(db'.raw[u][s])
        /\ before.attr[u][s] = AttrsOf(before.raw[u][s])
  BY DEF SoundInv, TablesSound, AttrsFollowRaw
<1>2. \A u \in Uri, s \in Source, n \in AttrName :
        /\ delta.attr[u][s][n] \in Counts
        /\ delta'.attr[u][s][n] = Log(delta.attr[u][s][n], Change(db.attr[u][s][n], db'.attr[u][s][n]))
  BY DEF TypeOK, Deltas, Accounted, AttrAccounted
<1>3. ASSUME NEW u \in Uri, NEW s \in Source, db'.raw[u][s] = db.raw[u][s], NEW n \in AttrName
      PROVE  delta'.attr[u][s][n] = delta.attr[u][s][n]
  <2>1. db'.attr[u][s][n] = db.attr[u][s][n] BY <1>1, <1>3
  <2> QED BY <1>2, <2>1, LogNoChange
<1>4. Untouched'
  <2> SUFFICES ASSUME NEW u \in Uri, NEW s \in Source, <<s, u>> \notin mapped', ~Past(s)'
               PROVE  /\ db'.raw[u][s] = before'.raw[u][s]
                      /\ \A n \in AttrName : ~Logged(delta'.attr[u][s][n])
    BY DEF Untouched
  <2>1. db'.raw[u][s] = db.raw[u][s] /\ <<s, u>> \notin mapped /\ ~Past(s) /\ before' = before
    BY DEF TouchesOnce
  <2>2. db.raw[u][s] = before.raw[u][s] /\ \A n \in AttrName : ~Logged(delta.attr[u][s][n])
    BY <2>1 DEF Untouched
  <2> QED BY <1>3, <2>1, <2>2
<1>5. ASSUME NEW u \in Uri, Logged(delta'.res[u])
      PROVE  \E s \in Source : db'.raw[u][s] # before'.raw[u][s]
  <2>1. CASE db'.raw[u] = db.raw[u]
    BY <1>5, <2>1 DEF ResExact, Settled, TouchesOnce
  <2>2. CASE db'.raw[u] # db.raw[u]
    <3>1. db'.raw[u] \in [Source -> Payload \cup {None}] /\ db.raw[u] \in [Source -> Payload \cup {None}]
      BY DEF TypeOK, Tables
    <3>2. PICK s \in Source : db'.raw[u][s] # db.raw[u][s] BY <2>2, <3>1
    <3>3. db.raw[u][s] = before.raw[u][s] BY <3>2 DEF TouchesOnce, Untouched
    <3> QED BY <3>2, <3>3 DEF TouchesOnce
  <2> QED BY <2>1, <2>2
<1>6. ASSUME NEW u \in Uri, NEW s \in Source, NEW n \in AttrName, Logged(delta'.attr[u][s][n])
      PROVE  db'.attr[u][s][n] # before'.attr[u][s][n]
  <2>1. CASE db'.raw[u][s] = db.raw[u][s]
    BY <1>1, <1>3, <1>6, <2>1 DEF Settled, TouchesOnce
  <2>2. CASE db'.raw[u][s] # db.raw[u][s]
    <3>1. db.raw[u][s] = before.raw[u][s] /\ ~Logged(delta.attr[u][s][n])
      BY <2>2 DEF TouchesOnce, Untouched
    <3>2. db.attr[u][s][n] # db'.attr[u][s][n] BY <1>2, <1>6, <3>1, FirstChange
    <3> QED BY <1>1, <3>1, <3>2 DEF TouchesOnce
  <2> QED BY <2>1, <2>2
<1> QED BY <1>4, <1>5, <1>6 DEF Settled

\* map_resource_deletes: what it takes was there when the job started.
LEMMA DeletesSettle ==
  ASSUME SoundInv, SoundInv', MirrorInv, Untouched, Settled, Accounted, ResExact, ResourceDeletes
  PROVE  Untouched' /\ Settled'
<1> TypeOK BY DEF SoundInv
<1> DEFINE nothing == [s \in Source |-> None]
<1>1. /\ phase = "deletes" /\ phase' = "relations" /\ before' = before
      /\ db'.raw = Drop(db.raw, StaleResources, nothing)
      /\ db'.res = Drop(db.res, StaleResources, None)
  BY DEF ResourceDeletes, TypeOK, Tables
<1>2. Working /\ Swept' /\ ~Swept BY <1>1 DEF Working, Swept, MirrorInv
<1>3. /\ \A u \in StaleResources : db'.raw[u] = nothing /\ db'.res[u] = None
      /\ \A u \in Uri \ StaleResources : db'.raw[u] = db.raw[u]
      /\ StaleResources \subseteq Uri /\ "base" \in Source
  BY <1>1 DEF Drop, StaleResources, TypeOK, Tables, Source
<1>4. \A u \in Uri, s \in Source, n \in AttrName :
        /\ db.attr[u][s] = AttrsOf(db.raw[u][s]) /\ db'.attr[u][s] = AttrsOf(db'.raw[u][s])
        /\ delta.attr[u][s][n] \in Counts
        /\ delta'.attr[u][s][n] = Log(delta.attr[u][s][n], Change(db.attr[u][s][n], db'.attr[u][s][n]))
  BY DEF SoundInv, TablesSound, AttrsFollowRaw, TypeOK, Deltas, Accounted, AttrAccounted
<1>5. ASSUME NEW u \in Uri, Logged(delta'.res[u])
      PROVE  \E s \in Source : db'.raw[u][s] # before'.raw[u][s]
  <2>1. CASE u \in StaleResources
    <3>1. <<"base", u>> \notin mapped /\ ~Past("base") /\ db.res[u] # None
      BY <2>1, <1>1, BaseNotPast, Sources, NoneAssumption DEF StaleResources, TypeOK
    <3>2. db.raw[u]["base"] = before.raw[u]["base"] BY <1>2, <1>3, <1>5, <3>1 DEF Untouched
    <3>3. db.raw[u]["base"] # None BY <3>1 DEF SoundInv, TablesSound, ResourceHasBase
    <3>4. db'.raw[u]["base"] = None BY <1>3, <2>1
    <3> QED BY <1>1, <1>3, <3>2, <3>3, <3>4
  <2>2. CASE u \notin StaleResources
    BY <1>1, <1>2, <1>3, <1>5, <2>2 DEF ResExact, Settled
  <2> QED BY <2>1, <2>2
<1>6. ASSUME NEW u \in Uri, NEW s \in Source, NEW n \in AttrName, db'.res[u] # None,
             Logged(delta'.attr[u][s][n])
      PROVE  db'.attr[u][s][n] # before'.attr[u][s][n]
  <2>1. db'.raw[u] = db.raw[u] BY <1>3, <1>6
  <2>2. db'.attr[u][s][n] = db.attr[u][s][n] BY <1>4, <2>1
  <2>3. delta'.attr[u][s][n] = delta.attr[u][s][n] BY <1>4, <2>2, LogNoChange
  <2> QED BY <1>1, <1>2, <1>6, <2>2, <2>3 DEF Settled
<1> QED BY <1>2, <1>5, <1>6 DEF Settled, Untouched

\* apply_resource and apply_partial log nothing where json_diff finds nothing.
LEMMA LogRawExact ==
  ASSUME SoundInv, NEW u \in Uri, NEW s \in Source, NEW p \in Payload, NEW kinds,
         LogRaw(u, s, p, kinds), db'.raw[u][s] = p, ~NoDiff(u, s, p)
  PROVE  ResExact
<1>1. db.attr[u][s] = AttrsOf(db.raw[u][s]) BY DEF SoundInv, TablesSound, AttrsFollowRaw
<1>2. db.raw[u][s] # p BY <1>1 DEF NoDiff
<1>3. \A v \in Uri : v # u => delta'.res[v] = delta.res[v] BY DEF LogRaw, SoundInv, TypeOK, Deltas
<1> QED BY <1>2, <1>3 DEF ResExact

LEMMA ApplyExact ==
  ASSUME SoundInv, NEW u \in Uri, NEW p \in Payload, apply_resource(u, p)
  PROVE  ResExact
<1> "base" \in Source /\ TypeOK BY DEF Source, SoundInv
<1>1. Stores(u, "base", p) BY ApplyStores
<1>2. CASE db.raw[u]["base"] = None
  <2>1. LogRaw(u, "base", p, {"add"}) BY <1>2 DEF apply_resource
  <2>2. ~NoDiff(u, "base", p) BY <1>2, NoneAssumption DEF NoDiff
  <2> QED BY <1>1, <2>1, <2>2, LogRawExact DEF Stores
<1>3. CASE db.raw[u]["base"] # None /\ NoDiff(u, "base", p)
  BY <1>3 DEF apply_resource, ResExact
<1>4. CASE db.raw[u]["base"] # None /\ ~NoDiff(u, "base", p)
  <2>1. LogRaw(u, "base", p, {"update"}) BY <1>4 DEF apply_resource
  <2> QED BY <1>1, <1>4, <2>1, LogRawExact DEF Stores
<1> QED BY <1>2, <1>3, <1>4

LEMMA ApplyPartialExact ==
  ASSUME SoundInv, NEW u \in Uri, NEW s \in Source, NEW p \in Payload, apply_partial(u, s, p)
  PROVE  ResExact
<1> TypeOK BY DEF SoundInv
<1>1. CASE UNCHANGED <<db, delta>> BY <1>1 DEF ResExact
<1>2. CASE /\ StoreRaw(u, s, p) /\ LogRaw(u, s, p, {"update"})
           /\ ~(db.raw[u][s] # None /\ NoDiff(u, s, p))
  <2>1. db'.raw[u][s] = p BY <1>2, StoreRawStores DEF Stores
  <2>2. ~NoDiff(u, s, p) BY <1>2, NoneAssumption DEF NoDiff
  <2> QED BY <1>2, <2>1, <2>2, LogRawExact
<1> QED BY <1>1, <1>2 DEF apply_partial

\* The delete passes log the resources that lose a document.
LEMMA DeletesExact ==
  ASSUME SoundInv, PartialDeletes \/ ResourceDeletes
  PROVE  ResExact
<1> TypeOK BY DEF SoundInv
<1>1. CASE PartialDeletes
  <2> DEFINE s == CurrentSource
             stale == StalePartials(s)
  <2>1. /\ db' = [db EXCEPT !.raw = Clear(db.raw, stale, s, None),
                            !.attr = Clear(db.attr, stale, s, NoAttrs)]
        /\ delta'.res = LogAll(delta.res, stale, {"update"})
        /\ s \in Source
    BY <1>1, CurrentSourceType DEF PartialDeletes, TypeOK, Deltas
  <2>2. \A u \in stale : db.raw[u][s] # None BY DEF StalePartials
  <2> HIDE DEF s, stale
  <2>3. \A u \in Uri : u \in stale => db'.raw[u][s] = None BY <2>1 DEF Clear, TypeOK, Tables
  <2>4. \A u \in Uri : u \notin stale => delta'.res[u] = delta.res[u]
    BY <2>1 DEF LogAll, TypeOK, Deltas
  <2> QED BY <2>2, <2>3, <2>4 DEF ResExact
<1>2. CASE ResourceDeletes
  <2>1. /\ db'.raw = Drop(db.raw, StaleResources, [s \in Source |-> None])
        /\ delta'.res = LogAll(delta.res, StaleResources, {"delete"})
        /\ job.account # None /\ "base" \in Source
    BY <1>2, NoneAssumption DEF ResourceDeletes, TypeOK, Tables, Deltas, Source
  <2>2. \A u \in StaleResources : u \in Uri /\ db.raw[u]["base"] # None
    BY <2>1 DEF StaleResources, SoundInv, TablesSound, ResourceHasBase
  <2>3. \A u \in StaleResources : db'.raw[u]["base"] = None
    BY <2>1, <2>2 DEF Drop, TypeOK, Tables
  <2>4. \A u \in Uri : u \notin StaleResources => delta'.res[u] = delta.res[u]
    BY <2>1 DEF LogAll, TypeOK, Deltas
  <2> QED BY <2>2, <2>3, <2>4 DEF ResExact
<1> QED BY <1>1, <1>2

\* No step before the deletes writes a document twice.
LEMMA StoresOnce ==
  ASSUME TypeOK, NEW u \in Uri, NEW s \in Source, NEW p \in Payload, Stores(u, s, p) \/ db' = db,
         UNCHANGED <<before, swept>>, mapped' = mapped \cup {<<s, u>>},
         <<s, u>> \notin mapped, ~Past(s)
  PROVE  TouchesOnce
BY DEF TouchesOnce, Stores, Past

LEMMA QuietOnce ==
  ASSUME UNCHANGED <<db, delta, before, mapped, swept>>
  PROVE  TouchesOnce /\ ResExact
BY DEF TouchesOnce, ResExact, Past

LEMMA StepOnce ==
  ASSUME SoundInv, MirrorInv, RowInv, [Next]_vars, Working', ~Swept, ~StartJob, ~ResourceDeletes
  PROVE  Working /\ TouchesOnce /\ ResExact
<1> TypeOK /\ swept \in 0 .. 2 BY Sources DEF SoundInv, TypeOK
<1> "base" \in Source /\ ~Past("base") BY BaseNotPast DEF Source
<1>1. ASSUME NEW row \in inbox, ApplyBase(row) PROVE Working /\ TouchesOnce /\ ResExact
  <2>1. /\ row.uri \in Uri /\ row.data \in Payload /\ row.source = "base" /\ row \notin done
        /\ mapped' = mapped \cup {<<"base", row.uri>>} /\ UNCHANGED <<before, swept>> /\ Working
    BY <1>1 DEF ApplyBase, PendingBase, TypeOK, Row, Working
  <2>2. <<"base", row.uri>> \notin mapped BY <2>1 DEF RowInv, PendingUnmapped
  <2>3. Stores(row.uri, "base", row.data) /\ ResExact
    BY <1>1, <2>1, ApplyStores, ApplyExact DEF ApplyBase
  <2> QED BY <2>1, <2>2, <2>3, StoresOnce
<1>2. CASE SynthesizeRoot
  <2> DEFINE root == RootOf[job.account]
             p == cloud.base[job.account][root]
  <2>1. /\ root \in Uri /\ p \in Payload /\ root \in Roots /\ phase = "root"
        /\ UNCHANGED <<before, swept>> /\ Working
    BY <1>2, CloudsAssumption, TransformsAssumption DEF SynthesizeRoot, TypeOK, Cloud, Roots, Working
  <2>2. CASE IamGate
    <3>1. apply_resource(root, p) /\ mapped' = mapped \cup {<<"base", root>>}
      BY <1>2, <2>2 DEF SynthesizeRoot
    <3>2. <<"base", root>> \notin mapped BY <2>1 DEF RowInv, Unmapped
    <3> HIDE DEF root, p
    <3>3. Stores(root, "base", p) /\ ResExact BY <2>1, <3>1, ApplyStores, ApplyExact
    <3> QED BY <2>1, <3>1, <3>2, <3>3, StoresOnce
  <2>3. CASE ~IamGate BY <1>2, <2>1, <2>3, QuietOnce DEF SynthesizeRoot
  <2> QED BY <2>2, <2>3
<1>3. ASSUME NEW row \in inbox, ApplyPartial(row) PROVE Working /\ TouchesOnce /\ ResExact
  <2>1. /\ row.uri \in Uri /\ row.data \in Payload /\ row.source \in Source
        /\ row.source = CurrentSource /\ phase = "partials" /\ row \notin done
        /\ UNCHANGED <<before, swept>> /\ Working
    BY <1>3 DEF ApplyPartial, PendingPartial, TypeOK, Row, Working
  <2>2. <<row.source, row.uri>> \notin mapped /\ ~Past(row.source)
    BY <2>1, CurrentNotPast DEF RowInv, PendingUnmapped
  <2>3. CASE db.res[row.uri] = None BY <1>3, <2>1, <2>3, QuietOnce DEF ApplyPartial
  <2>4. CASE db.res[row.uri] # None
    <3>1. /\ apply_partial(row.uri, row.source, row.data)
          /\ mapped' = mapped \cup {<<row.source, row.uri>>}
      BY <1>3, <2>4 DEF ApplyPartial
    <3>2. Stores(row.uri, row.source, row.data) \/ db' = db
      BY <2>1, <3>1, StoreRawStores DEF apply_partial
    <3> QED BY <2>1, <2>2, <3>1, <3>2, StoresOnce, ApplyPartialExact
  <2> QED BY <2>3, <2>4
<1>4. CASE PartialDeletes
  <2> DEFINE s == CurrentSource
             stale == StalePartials(s)
  <2>1. /\ db' = [db EXCEPT !.raw = Clear(db.raw, stale, s, None),
                            !.attr = Clear(db.attr, stale, s, NoAttrs)]
        /\ phase = "partials" /\ UNCHANGED <<before, mapped>> /\ swept' = swept + 1 /\ swept < 2
    BY <1>4, Sources DEF PartialDeletes, TypeOK
  <2>2. s \in Source /\ ~Past(s) /\ \A u \in stale : <<s, u>> \notin mapped
    BY <2>1, CurrentSourceType, CurrentNotPast DEF StalePartials
  <2>3. \A t : Past(t) => Past(t)' BY <2>1 DEF Past
  <2>4. swept + 1 \in 1 .. swept' /\ AWS_SOURCES[swept + 1] = s BY <2>1 DEF CurrentSource
  <2> HIDE DEF s, stale
  <2>5. \A u \in Uri, t \in Source : db'.raw[u][t] # db.raw[u][t] => t = s /\ u \in stale
    BY <2>1 DEF Clear, TypeOK, Tables
  <2>6. TouchesOnce
    <3>1. ASSUME NEW u \in Uri, NEW t \in Source, db'.raw[u][t] # db.raw[u][t]
          PROVE  <<t, u>> \notin mapped /\ ~Past(t) /\ Past(t)'
      <4>1. t = s /\ u \in stale BY <2>5, <3>1
      <4>2. <<t, u>> \notin mapped /\ ~Past(t) BY <2>2, <4>1
      <4> QED BY <2>4, <4>1, <4>2 DEF Past
    <3> QED BY <2>1, <2>3, <3>1 DEF TouchesOnce
  <2> QED BY <1>4, <2>1, <2>6, DeletesExact DEF Working
<1>5. CASE \/ EndFetch \/ EndBase \/ AdjunctRaises \/ CloudDrifts \/ MapRaises \/ DbFails
           \/ UNCHANGED vars \/ \E s \in Service : FetchRaises(s)
  <2>1. UNCHANGED <<before, mapped, swept>> /\ Working
    BY <1>5, QuietSteps DEF Working
  <2>2. UNCHANGED <<db, delta>>
    BY <1>5 DEF EndFetch, EndBase, AdjunctRaises, CloudDrifts, MapRaises, DbFails, FetchRaises, vars,
       End, Working, TypeOK
  <2> QED BY <2>1, <2>2, QuietOnce
<1>6. CASE FindAdjunctData \/ AddLogsResourcePolicies \/ \E s \in Service : FetchService(s)
  BY <1>6, QuietOnce DEF FindAdjunctData, AddLogsResourcePolicies, FetchService, Working
<1>7. CASE RelationDeletes \/ EndRelations \/ Commit \/ Complete \/ \E l \in Link : ApplyRelation(l)
  BY <1>7, LinksKeepResources DEF Swept
<1> QED BY <1>1, <1>2, <1>3, <1>4, <1>5, <1>6, <1>7 DEF Next, ImportStep, Fault
---------------------------------------------------------------------------------
(***************************************************************************)
(* Relations.                                                              *)
(***************************************************************************)
\* Before the links are applied nothing is logged.  A relation that no link found
\* is the one the job found, or went, for good where an end of it went; one that
\* was found is what the rows state.
LinksSettled ==
  /\ Working /\ ~Swept => \A r \in Rel : ~Logged(delta.rel[r])
  /\ Swept => \A r \in Rel \ found :
       \/ db.rel[r] = before.rel[r] /\ ~Logged(delta.rel[r])
       \/ db.rel[r] = None /\ before.rel[r] # None /\ (Ended(r) => Cleared)
  /\ Swept => \A r \in found :
       /\ \E l \in Links : l.rel = r /\ db.rel[r] = l.val
       /\ Logged(delta.rel[r]) => db.rel[r] # before.rel[r]

\* The links that the rows yield agree.
LEMMA LinksOfRowsAgree ==
  ASSUME TypeOK, RowsOnce, LinksAgree, NEW l \in Links, NEW k \in Links, l.rel = k.rel
  PROVE  l.val = k.val
<1>1. PICK x \in BaseRow : l \in Yields[x.uri][x.data] BY DEF Links
<1>2. PICK y \in BaseRow : k \in Yields[y.uri][y.data] BY DEF Links
<1>3. /\ x.uri \in Uri /\ x.data \in Payload /\ y.uri \in Uri /\ y.data \in Payload
  BY DEF BaseRow, TypeOK, Row
<1>4. x.uri = y.uri => x.data = y.data BY DEF RowsOnce
<1> QED BY <1>1, <1>2, <1>3, <1>4 DEF LinksAgree

\* Steps that leave relations and log alone.
LEMMA SameLinks ==
  ASSUME LinksSettled, UNCHANGED <<inbox, found, before>>, Working' => Working, Swept' <=> Swept,
         Cleared => Cleared',
         Working' => db'.rel = db.rel /\ delta'.rel = delta.rel /\ db'.res = db.res
  PROVE  LinksSettled'
<1>1. Links' = Links BY DEF Links, BaseRow
<1>2. Swept' => Working' BY DEF Swept, Working
<1> QED BY <1>1, <1>2 DEF LinksSettled, Ended

\* map_resource_deletes cuts relations for good.
LEMMA DeletesLinks ==
  ASSUME SoundInv, MirrorInv, RelInv, LinksSettled, Accounted, ResourceDeletes
  PROVE  LinksSettled'
<1> TypeOK BY DEF SoundInv
<1>1. phase = "deletes" /\ phase' = "relations" /\ UNCHANGED <<job, inbox, linked, found, before>>
  BY DeletesLeave
<1>2. Working /\ ~Swept /\ ~Linking /\ Swept' /\ Working'
  BY <1>1 DEF MirrorInv, Working, Swept, Linking
<1>3. found' = {} /\ db.rel = before.rel BY <1>1, <1>2 DEF RelInv
<1>4. ASSUME NEW r \in Rel
      PROVE  \/ db'.rel[r] = before.rel[r] /\ ~Logged(delta'.rel[r])
             \/ db'.rel[r] = None /\ before.rel[r] # None /\ ~Ended(r)'
  <2>1. CASE r \in CutRelations
    <3>1. db.rel[r] # None /\ db'.rel[r] = None BY <2>1, DeletesLeave DEF CutRelations
    <3>2. PICK u \in {ParentOf[r], TargetOf[r]} : u \in StaleResources BY <2>1 DEF CutRelations
    <3>3. db'.res[u] = None BY <3>2, DeletesLeave
    <3> QED BY <1>3, <3>1, <3>2, <3>3 DEF Ended
  <2>2. CASE r \notin CutRelations
    <3>1. db'.rel[r] = db.rel[r] BY <2>2, DeletesLeave
    <3>2. delta'.rel[r] = delta.rel[r]
      BY <3>1, LogNoChange DEF Accounted, RelAccounted, TypeOK, Deltas
    <3> QED BY <1>2, <1>3, <3>1, <3>2 DEF LinksSettled
  <2> QED BY <2>1, <2>2
<1> QED BY <1>1, <1>2, <1>3, <1>4 DEF LinksSettled

\* _apply_relation, when both ends are stored.
LEMMA ApplyLinks ==
  ASSUME SoundInv, MirrorInv, LinksAgree, LinksSettled, Accounted, NEW l \in Link, ApplyRelation(l)
  PROVE  LinksSettled'
<1> TypeOK BY DEF SoundInv
<1>1. /\ phase = "relations" /\ UNCHANGED <<phase, job, inbox, before>> /\ l \in PendingLinks
      /\ l.rel \in Rel
  BY DEF ApplyRelation, Link
<1>2. Working /\ Swept /\ Swept' /\ ~Cleared
  BY <1>1 DEF MirrorInv, Working, Swept, Cleared
<1>3. Links' = Links /\ l \in Links BY <1>1 DEF BaseRow, Links, PendingLinks
<1>4. db'.res = db.res BY LinksKeepResources
<1>5. CASE ~Ended(l.rel)
  <2>1. UNCHANGED <<found, db, delta>> BY <1>5 DEF ApplyRelation, Ended
  <2> QED BY <1>1, <1>2, <2>1, SameLinks DEF Working, Swept, Cleared
<1>6. CASE Ended(l.rel)
  <2>1. found' = found \cup {l.rel} /\ db'.rel = [db.rel EXCEPT ![l.rel] = l.val]
    BY <1>6 DEF ApplyRelation, Ended, TypeOK, Tables
  <2>2. /\ \A r \in Rel : r # l.rel => db'.rel[r] = db.rel[r]
        /\ db'.rel[l.rel] = l.val /\ found \subseteq Rel
    BY <1>1, <2>1 DEF TypeOK, Tables
  <2>3. \A r \in Rel : /\ delta.rel[r] \in Counts
                       /\ delta'.rel[r] = Log(delta.rel[r], Change(db.rel[r], db'.rel[r]))
    BY DEF Accounted, RelAccounted, TypeOK, Deltas
  <2>4. \A r \in Rel : r # l.rel => delta'.rel[r] = delta.rel[r] BY <2>2, <2>3, LogNoChange
  <2>5. Logged(delta'.rel[l.rel]) => l.val # before.rel[l.rel]
    <3>1. CASE l.rel \in found
      <4>1. PICK k \in Links : k.rel = l.rel /\ db.rel[l.rel] = k.val
        BY <1>2, <3>1 DEF LinksSettled
      <4>2. k.val = l.val BY <1>3, <4>1, LinksOfRowsAgree DEF MirrorInv
      <4>3. db'.rel[l.rel] = db.rel[l.rel] BY <2>2, <4>1, <4>2
      <4>4. delta'.rel[l.rel] = delta.rel[l.rel] BY <1>1, <2>3, <4>3, LogNoChange
      <4> QED BY <1>2, <2>2, <3>1, <4>3, <4>4 DEF LinksSettled
    <3>2. CASE l.rel \notin found
      <4>1. db.rel[l.rel] = before.rel[l.rel] /\ ~Logged(delta.rel[l.rel])
        BY <1>1, <1>2, <1>6, <3>2 DEF LinksSettled
      <4> QED BY <1>1, <2>2, <2>3, <4>1, FirstChange
    <3> QED BY <3>1, <3>2
  <2>6. ASSUME NEW r \in found'
        PROVE  /\ \E k \in Links : k.rel = r /\ db'.rel[r] = k.val
               /\ Logged(delta'.rel[r]) => db'.rel[r] # before.rel[r]
    <3>1. CASE r = l.rel BY <1>3, <2>2, <2>5, <3>1
    <3>2. CASE r # l.rel
      <4>1. r \in found /\ r \in Rel BY <2>1, <2>2, <3>2
      <4>2. db'.rel[r] = db.rel[r] /\ delta'.rel[r] = delta.rel[r] BY <2>2, <2>4, <3>2, <4>1
      <4> QED BY <1>2, <4>1, <4>2 DEF LinksSettled
    <3> QED BY <3>1, <3>2
  <2>7. ASSUME NEW r \in Rel \ found'
        PROVE  \/ db'.rel[r] = before.rel[r] /\ ~Logged(delta'.rel[r])
               \/ db'.rel[r] = None /\ before.rel[r] # None /\ ~Ended(r)
    <3>1. r \in Rel \ found /\ r # l.rel BY <2>1
    <3> QED BY <1>2, <2>2, <2>4, <3>1 DEF LinksSettled
  <2> QED BY <1>1, <1>2, <1>3, <1>4, <2>6, <2>7 DEF LinksSettled, Ended
<1> QED BY <1>5, <1>6

\* map_relation_deletes takes relations that the job found.
LEMMA RelationDeletesLinks ==
  ASSUME SoundInv, MirrorInv, LinksSettled, Accounted, RelationDeletes
  PROVE  LinksSettled'
<1> TypeOK BY DEF SoundInv
<1>1. /\ phase = "reldeletes" /\ phase' = "commit" /\ UNCHANGED <<job, inbox, found, before>>
      /\ db'.rel = Drop(db.rel, StaleRelations, None) /\ DOMAIN db.rel = Rel
  BY DEF RelationDeletes, TypeOK, Tables
<1>2. Swept /\ Swept' /\ Cleared' /\ Links' = Links BY <1>1 DEF Swept, Cleared, Links, BaseRow
<1>3. /\ \A r \in StaleRelations : r \in Rel \ found /\ db.rel[r] # None /\ db'.rel[r] = None
      /\ \A r \in Rel : r \notin StaleRelations => db'.rel[r] = db.rel[r]
  BY <1>1 DEF StaleRelations, Drop
<1>4. \A r \in Rel : r \notin StaleRelations => delta'.rel[r] = delta.rel[r]
  BY <1>3, LogNoChange DEF Accounted, RelAccounted, TypeOK, Deltas
<1>5. found \subseteq Rel BY DEF TypeOK
<1>6. ASSUME NEW r \in Rel \ found
      PROVE  \/ db'.rel[r] = before.rel[r] /\ ~Logged(delta'.rel[r])
             \/ db'.rel[r] = None /\ before.rel[r] # None
  BY <1>2, <1>3, <1>4 DEF LinksSettled
<1>7. ASSUME NEW r \in found
      PROVE  /\ \E k \in Links : k.rel = r /\ db'.rel[r] = k.val
             /\ Logged(delta'.rel[r]) => db'.rel[r] # before.rel[r]
  BY <1>2, <1>3, <1>4, <1>5 DEF LinksSettled
<1> QED BY <1>1, <1>2, <1>6, <1>7 DEF LinksSettled
---------------------------------------------------------------------------------
\* The inductive invariant: rows once, documents once, links once.
ChurnInv == RowInv /\ Untouched /\ Settled /\ LinksSettled

\* A job that starts, or has ended without success, has nothing to settle.
LEMMA NothingToSettle ==
  ASSUME (Working' /\ ~Swept' /\ db' = before' /\ delta' = NoDeltas) \/ ~Working'
  PROVE  Untouched' /\ Settled' /\ LinksSettled'
<1>1. Swept' => Working' BY DEF Swept, Working
<1>2. ~Logged(Zero) BY DEF Logged, Zero
<1> QED BY <1>1, <1>2 DEF Untouched, Settled, LinksSettled, NoDeltas

\* The deletes open the last passes.
LEMMA SweptOpens ==
  ASSUME SoundInv, MirrorInv, [Next]_vars, ~Swept, Swept'
  PROVE  ResourceDeletes
<1> TypeOK BY DEF SoundInv
<1>1. CASE \/ EndFetch \/ EndBase \/ AdjunctRaises \/ CloudDrifts \/ MapRaises \/ DbFails
           \/ UNCHANGED vars \/ \E s \in Service : FetchRaises(s)
  BY <1>1, QuietSteps DEF Swept, MirrorInv
<1>2. CASE RelationDeletes \/ EndRelations \/ Commit \/ Complete \/ \E l \in Link : ApplyRelation(l)
  BY <1>2, LinksKeepResources DEF Swept
<1>3. CASE PartialDeletes \/ \E row \in inbox : ApplyPartial(row)
  BY <1>3, PartialsKeepBase DEF Swept, MirrorInv
<1>4. CASE \/ StartJob \/ SynthesizeRoot \/ FindAdjunctData \/ AddLogsResourcePolicies
           \/ (\E s \in Service : FetchService(s)) \/ (\E row \in inbox : ApplyBase(row))
  BY <1>4 DEF StartJob, SynthesizeRoot, FindAdjunctData, AddLogsResourcePolicies, FetchService,
              ApplyBase, Swept, MirrorInv
<1> QED BY <1>1, <1>2, <1>3, <1>4 DEF Next, ImportStep, Fault

\* After the deletes only relations change.
LEMMA SettledStays ==
  ASSUME SoundInv, SoundInv', Settled, Swept, Swept', before' = before, db'.res = db.res, db'.raw = db.raw,
         delta'.res = delta.res /\ delta'.attr = delta.attr
  PROVE  Untouched' /\ Settled'
<1>1. \A u \in Uri, s \in Source : db'.attr[u][s] = db.attr[u][s]
  BY DEF SoundInv, TablesSound, AttrsFollowRaw
<1>2. Working BY DEF Swept, Working
<1> QED BY <1>1, <1>2 DEF Settled, Untouched

\* Every step keeps the invariant.
LEMMA ChurnStep ==
  ASSUME SoundInv, SoundInv', MirrorInv, MirrorInv', RelInv, RelInv', ChurnInv,
         OneDocumentEach, LinksAgree, [Next]_vars
  PROVE  ChurnInv'
<1> TypeOK BY DEF SoundInv
<1>1. RowInv' BY RowStep DEF ChurnInv
<1>2. CASE StartJob
  <2>1. Working' /\ ~Swept' /\ db' = before' /\ delta' = NoDeltas
    BY <1>2 DEF StartJob, Working, Swept
  <2> QED BY <1>1, <2>1, NothingToSettle DEF ChurnInv
<1>3. CASE ~Working' BY <1>1, <1>3, NothingToSettle DEF ChurnInv
<1>4. CASE ResourceDeletes
  <2>1. Accounted BY <1>4, ResourceDeletesAccounted
  <2> QED BY <1>1, <1>4, <2>1, DeletesExact, DeletesSettle, DeletesLinks DEF ChurnInv
<1>5. CASE ~Swept /\ Working' /\ ~StartJob /\ ~ResourceDeletes
  <2>1. ~Swept' BY <1>5, SweptOpens
  <2>2. Working /\ TouchesOnce /\ ResExact BY <1>5, StepOnce DEF ChurnInv
  <2>3. CASE Reset BY <1>1, <1>5, <2>1, <2>3, NothingToSettle DEF Reset, ChurnInv
  <2>4. CASE Accounted
    <3>1. Untouched' /\ Settled' BY <1>5, <2>1, <2>2, <2>4, OnceSettles DEF ChurnInv
    <3>2. db.rel = before.rel /\ db'.rel = before'.rel /\ before' = before
      BY <1>5, <2>1, <2>2, <2>4 DEF RelInv, Linking, Swept, Accounted
    <3>3. \A r \in Rel : delta'.rel[r] = delta.rel[r]
      BY <2>4, <3>2, LogNoChange DEF Accounted, RelAccounted, TypeOK, Deltas
    <3>4. LinksSettled' BY <1>5, <2>1, <2>2, <3>3 DEF ChurnInv, LinksSettled
    <3> QED BY <1>1, <3>1, <3>4 DEF ChurnInv
  <2> QED BY <2>3, <2>4, StepAccounted
<1>6. CASE Swept /\ Working' /\ ~StartJob /\ ~ResourceDeletes
  <2>1. CASE \/ EndFetch \/ EndBase \/ AdjunctRaises \/ CloudDrifts \/ MapRaises \/ DbFails
             \/ UNCHANGED vars \/ \E s \in Service : FetchRaises(s)
    <3>1. phase' = phase /\ UNCHANGED <<db, job, inbox, found, before>>
      BY <1>6, <2>1, QuietSteps DEF Swept, MirrorInv, Working
    <3>2. delta' = delta
      BY <1>6, <2>1 DEF EndFetch, EndBase, AdjunctRaises, CloudDrifts, MapRaises, DbFails, FetchRaises,
         vars, End, Working, TypeOK
    <3>3. (Swept' <=> Swept) /\ (Working' <=> Working) /\ (Cleared => Cleared')
      BY <3>1 DEF Swept, Working, Cleared
    <3> QED BY <1>1, <1>6, <3>1, <3>2, <3>3, SettledStays, SameLinks DEF ChurnInv
  <2>2. CASE RelationDeletes \/ EndRelations \/ Commit \/ Complete \/ \E l \in Link : ApplyRelation(l)
    <3>1. Swept' /\ before' = before /\ db'.res = db.res /\ db'.raw = db.raw
      BY <1>6, <2>2, LinksKeepResources DEF Swept
    <3>2. delta'.res = delta.res /\ delta'.attr = delta.attr
      BY <2>2 DEF RelationDeletes, EndRelations, Commit, Complete, ApplyRelation, TypeOK, Deltas
    <3>3. Untouched' /\ Settled' BY <1>6, <3>1, <3>2, SettledStays DEF ChurnInv
    <3>4. CASE EndRelations \/ Commit \/ Complete
      <4>1. UNCHANGED <<db, delta, inbox, found, before>> /\ (Cleared => Cleared')
        BY <3>4 DEF EndRelations, Commit, Complete, End, Cleared, TypeOK
      <4>2. Working BY <1>6 DEF Swept, Working
      <4> QED BY <1>1, <1>6, <3>1, <3>3, <4>1, <4>2, SameLinks DEF ChurnInv
    <3>5. CASE RelationDeletes
      BY <1>1, <3>3, <3>5, RelationDeletesAccounted, RelationDeletesLinks DEF ChurnInv
    <3>6. ASSUME NEW l \in Link, ApplyRelation(l) PROVE ChurnInv'
      BY <1>1, <3>3, <3>6, ApplyRelationAccounted, ApplyLinks DEF ChurnInv
    <3> QED BY <2>2, <3>4, <3>5, <3>6
  <2>3. CASE PartialDeletes \/ (\E row \in inbox : ApplyPartial(row))
    BY <1>6, <2>3, PartialsKeepBase DEF Swept, MirrorInv
  <2>4. CASE \/ SynthesizeRoot \/ FindAdjunctData \/ AddLogsResourcePolicies
             \/ (\E s \in Service : FetchService(s)) \/ (\E row \in inbox : ApplyBase(row))
    BY <1>6, <2>4 DEF SynthesizeRoot, FindAdjunctData, AddLogsResourcePolicies, FetchService,
                      ApplyBase, Swept, MirrorInv
  <2> QED BY <1>6, <2>1, <2>2, <2>3, <2>4 DEF Next, ImportStep, Fault
<1> QED BY <1>2, <1>3, <1>4, <1>5, <1>6

\* Whatever was denied, lost or raised, and whatever AWS did meanwhile: a resource,
\* attribute or relation in the log of a complete import is one that changed
\* (diff_attrs and _apply_relation; the attributes of what the job removes aside).
THEOREM NoChurnHolds ==
  ASSUME OneDocumentEach, LinksAgree
  PROVE  Spec => []NoChurn
<1>1. Init => MirrorInv /\ RelInv /\ ChurnInv
  <2>1. Init => MirrorInv
    BY DEF Init, MirrorInv, BaseRow, RowsOnce, ServicesOnce, ListedRows, RowsStored, MappedRows,
           AllMapped, NoneStale, Working, Swept
  <2>2. Init => RelInv
    BY DEF Init, RelInv, LinksOfRows, FoundLinks, AllLinked, NoneUnfound, GoneRelations,
           Working, Linking, Closing, Cleared
  <2>3. Init => ChurnInv
    BY DEF Init, ChurnInv, RowInv, RowsApart, EarlyRows, Unmapped, PendingUnmapped, Beginning,
           Untouched, Settled, LinksSettled, Working, Swept
  <2> QED BY <2>1, <2>2, <2>3
<1>2. /\ SoundInv /\ MirrorInv /\ [Next]_vars => MirrorInv'
      /\ SoundInv /\ MirrorInv /\ RelInv /\ [Next]_vars => RelInv'
  BY MirrorStep, RelStep
<1>3. SoundInv /\ SoundInv' /\ MirrorInv /\ MirrorInv' /\ RelInv /\ RelInv' /\ ChurnInv /\ [Next]_vars
        => ChurnInv'
  BY ChurnStep
<1>4. SoundInv /\ ChurnInv => NoChurn
  <2> SUFFICES ASSUME SoundInv, ChurnInv, job.status = "complete" PROVE NoChurn
    BY DEF NoChurn
  <2>1. Working /\ Swept BY DEF Working, Swept
  <2>2. \A u \in Uri : Logged(delta.res[u]) => db.raw[u] # before.raw[u]
    BY <2>1 DEF ChurnInv, Settled
  <2>3. \A u \in Uri, s \in Source, n \in AttrName :
          db.res[u] # None /\ Logged(delta.attr[u][s][n]) => db.attr[u][s][n] # before.attr[u][s][n]
    BY <2>1 DEF ChurnInv, Settled
  <2>4. \A r \in Rel : Logged(delta.rel[r]) => db.rel[r] # before.rel[r]
    BY <2>1 DEF ChurnInv, LinksSettled
  <2> QED BY <2>2, <2>3, <2>4 DEF NoChurn
<1> QED BY <1>1, <1>2, <1>3, <1>4, AlwaysSound, PTL DEF Spec
=================================================================================
