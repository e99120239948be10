----------------------------- MODULE ParallelImports -----------------------------
(***************************************************************************)
(* Several import commands that map at the same time into one provider     *)
(* account, each in the one transaction of its session (bootstrap_db.py),  *)
(* at PostgreSQL's default isolation level.  Every pass reads what it      *)
(* compares with, and writes afterwards: between the two, another command  *)
(* may commit, and a write waits for the locks of open transactions.       *)
(*                                                                         *)
(* A resource stands for its row, its base document and its attributes,    *)
(* which one flush writes; a document is one of the partial sources.       *)
(***************************************************************************)
EXTENDS Naturals, FiniteSets, Sequences, SequencesExt

CONSTANTS
  Job,           \* the import commands
  AccountOf,     \* command -> the account it imports
  Uri,           \* resource uris
  Payload,       \* documents, up to json_diff
  None,          \* no resource
  Snapshots,     \* account -> what its fetch may have read
  InitialRows    \* what earlier imports may have committed

VARIABLES
  rows,          \* committed rows: id -> row
  tx,            \* command -> what its transaction has written
  stmts,         \* command -> the statements of the flush it is executing
  phase,         \* command -> the pass it is in, or how its latest run ended
  todo,          \* command -> what the pass has left to visit
  found,         \* command -> the stored ones of found_relations
  snap           \* command -> what it fetched

vars == <<rows, tx, stmts, phase, todo, found, snap>>

\* A resource's key is its uri, a document's key the resource's id, and a
\* relation's key the ids of its parent and target.
resource(u, a, p) == [kind |-> "resource", key |-> <<u, None>>, path |-> a, data |-> p]
document(i, p) == [kind |-> "document", key |-> <<i, None>>, path |-> None, data |-> p]
relation(i, k) == [kind |-> "relation", key |-> <<i, k>>, path |-> None, data |-> None]

NoSnapshot == [base |-> [u \in Uri |-> None], docs |-> {}, links |-> {}]

Snapshot == [base  : [Uri -> Payload \cup {None}],
             docs  : SUBSET (Uri \X Payload),
             links : SUBSET (Uri \X Uri)]

ASSUME SnapshotsAssumption == \A j \in Job : Snapshots[AccountOf[j]] \subseteq Snapshot

Passes == <<"base", "partials", "partialdeletes", "deletes", "relations",
            "reldeletes", "commit">>
Ended == {"none", "complete", "failed", "lost"}
---------------------------------------------------------------------------------
(***************************************************************************)
(* The database.                                                           *)
(***************************************************************************)
\* What if the migration had no UNIQUE constraints?
NotUnique == {}

\* The migration declares UNIQUE (provider_account_id, uri) for resources and
\* UNIQUE (resource_id, relation, target_id), and none for resource_raw.
UniqueKinds == {"resource", "relation"}

\* What if resource_relation had no foreign keys?
FreeRelations(row) == IF row.kind = "document" THEN {row.key[1]} ELSE {}

\* The foreign keys of a row.
References(row) ==
  CASE row.kind = "resource" -> {}
    [] row.kind = "document" -> {row.key[1]}
    [] OTHER -> {row.key[1], row.key[2]}

Clash(a, b) == a.kind \in UniqueKinds /\ a.kind = b.kind /\ a.key = b.key

\* What the columns of the tables can hold.  An id tells the kind and key of
\* its row, which no statement changes.
Columns(i, row) ==
  /\ row = [kind |-> i.kind, key |-> i.key, path |-> row.path, data |-> row.data]
  /\ row.path \in {AccountOf[j] : j \in Job} \cup {None}
  /\ row.data \in Payload \cup {None}
  /\ \/ i.kind = "resource" /\ i.key = <<i.key[1], None>> /\ i.key[1] \in Uri
     \/ i.kind = "document" /\ i.key = <<i.key[1], None>> /\ i.key[1].kind = "resource"
     \/ i.kind = "relation" /\ i.key = <<i.key[1], i.key[2]>>

\* Tables that the constraints of the migration allow.
Constrained(table) ==
  /\ IsFiniteSet(DOMAIN table)
  /\ \A i \in DOMAIN table : Columns(i, table[i]) /\ References(i) \subseteq DOMAIN table
  /\ \A i, k \in DOMAIN table : Clash(i, k) => i = k

ASSUME JobAssumption == IsFiniteSet(Job)
ASSUME InitialRowsAssumption == \A table \in InitialRows : Constrained(table)

EmptyFn == [i \in {} |-> None]
NoTx == [ins |-> EmptyFn, upd |-> EmptyFn, del |-> {}]

With(f, i, v) == [k \in DOMAIN f \cup {i} |-> IF k = i THEN v ELSE f[k]]
Without(f, i) == [k \in DOMAIN f \ {i} |-> f[k]]

\* A statement of j sees committed rows and the writes of its own transaction.
View(j) ==
  LET t == tx[j] IN
  [i \in (DOMAIN rows \ t.del) \cup DOMAIN t.ins |->
     IF i \in DOMAIN t.ins THEN t.ins[i]
     ELSE IF i \in DOMAIN t.upd THEN [rows[i] EXCEPT !.data = t.upd[i]]
     ELSE rows[i]]

Insert(row) == [op |-> "insert", row |-> row]
Update(i, p) == [op |-> "update", id |-> i, data |-> p]
Delete(i) == [op |-> "delete", id |-> i]

Touches(j) == DOMAIN tx[j].upd \cup tx[j].del

\* Open transactions whose locks the next statement of j needs.
WaitsFor(j) ==
  LET s == Head(stmts[j]) IN
  {k \in Job \ {j} :
     CASE s.op = "insert" ->
            \/ \E i \in DOMAIN tx[k].ins : Clash(tx[k].ins[i], s.row)
            \/ \E i \in tx[k].del : Clash(rows[i], s.row) \/ i \in References(s.row)
       [] s.op = "update" -> s.id \in Touches(k)
       [] OTHER -> \/ s.id \in Touches(k)
                   \/ \E i \in DOMAIN tx[k].ins : s.id \in References(tx[k].ins[i])
                   \/ \E i \in tx[k].del : s.id \in References(rows[i])}

\* A constraint refuses the statement, or the row the session updates is gone
\* (StaleDataError).  A delete of a row that is gone is only a warning.
Refused(j) ==
  LET s == Head(stmts[j])
      v == View(j)
  IN CASE s.op = "insert" -> \/ \E i \in DOMAIN v : Clash(v[i], s.row)
                             \/ ~ References(s.row) \subseteq DOMAIN v
       [] s.op = "update" -> s.id \notin DOMAIN v
       [] OTHER -> s.id \in DOMAIN v /\ \E i \in DOMAIN v : s.id \in References(v[i])

\* The id of a new row is not the id of any row that some session still knows.
Known ==
  DOMAIN rows
  \cup (UNION {DOMAIN tx[j].ins \cup Touches(j) : j \in Job})
  \cup (UNION {UNION {IF s.op = "insert" THEN References(s.row) ELSE {s.id} :
                        s \in ToSet(stmts[j])} : j \in Job})
  \cup (UNION {IF phase[j] \in {"partialdeletes", "deletes", "reldeletes"}
               THEN todo[j] ELSE {} : j \in Job})
  \cup (UNION {found[j] : j \in Job})
NewId(row) ==
  LET id(n) == [kind |-> row.kind, key |-> row.key, n |-> n]
  IN id(CHOOSE n \in 0 .. Cardinality(Known) : id(n) \notin Known)

Write(t, s) ==
  CASE s.op = "insert" -> [t EXCEPT !.ins = With(t.ins, NewId(s.row), s.row)]
    [] s.op = "update" -> IF s.id \in DOMAIN t.ins THEN [t EXCEPT !.ins[s.id].data = s.data]
                          ELSE [t EXCEPT !.upd = With(t.upd, s.id, s.data)]
    [] OTHER -> IF s.id \in DOMAIN t.ins THEN [t EXCEPT !.ins = Without(t.ins, s.id)]
                ELSE [t EXCEPT !.del = t.del \cup ({s.id} \cap DOMAIN rows)]
---------------------------------------------------------------------------------
(***************************************************************************)
(* A run of the command.                                                   *)
(***************************************************************************)
Init ==
  /\ rows \in InitialRows
  /\ tx = [j \in Job |-> NoTx] /\ stmts = [j \in Job |-> <<>>]
  /\ phase = [j \in Job |-> "none"]
  /\ todo = [j \in Job |-> {}] /\ found = [j \in Job |-> {}]
  /\ snap = [j \in Job |-> NoSnapshot]

\* The fetch is over and map_import begins.
Begin(j) ==
  /\ phase[j] \in Ended
  /\ \E s \in Snapshots[AccountOf[j]] :
       /\ snap' = [snap EXCEPT ![j] = s]
       /\ todo' = [todo EXCEPT ![j] = {u \in Uri : s.base[u] # None}]
  /\ phase' = [phase EXCEPT ![j] = "base"]
  /\ UNCHANGED <<rows, tx, stmts, found>>

\* What if the connection went back to the pool without its rollback?
KeepsLocks(j, outcome) ==
  /\ phase' = [phase EXCEPT ![j] = outcome]
  /\ stmts' = [stmts EXCEPT ![j] = <<>>]
  /\ todo' = [todo EXCEPT ![j] = {}] /\ found' = [found EXCEPT ![j] = {}]
  /\ snap' = [snap EXCEPT ![j] = NoSnapshot]
  /\ UNCHANGED tx

End(j, outcome) ==
  /\ phase' = [phase EXCEPT ![j] = outcome]
  /\ tx' = [tx EXCEPT ![j] = NoTx] /\ stmts' = [stmts EXCEPT ![j] = <<>>]
  /\ todo' = [todo EXCEPT ![j] = {}] /\ found' = [found EXCEPT ![j] = {}]
  /\ snap' = [snap EXCEPT ![j] = NoSnapshot]

\* The session is unusable after an error of the database: the handler's own
\* commit is refused, and everything is rolled back.
Lost(j) == End(j, "lost") /\ UNCHANGED rows

\* Any other exception: the handler marks the job and commits the session.
Raise(j) == End(j, "failed") /\ rows' = View(j)

\* The next statement of the flush runs when no lock is in its way.
Execute(j) ==
  /\ stmts[j] # <<>> /\ WaitsFor(j) = {}
  /\ IF Refused(j) THEN Lost(j)
     ELSE /\ tx' = [tx EXCEPT ![j] = Write(@, Head(stmts[j]))]
          /\ stmts' = [stmts EXCEPT ![j] = Tail(@)]
          /\ UNCHANGED <<rows, phase, todo, found, snap>>

\* What if nobody looked for deadlocks?
NoDetection(j) == FALSE

\* PostgreSQL aborts one of two transactions that wait for each other (a cycle
\* of three commands is left out).
Deadlock(j) ==
  /\ stmts[j] # <<>>
  /\ \E k \in WaitsFor(j) : stmts[k] # <<>> /\ j \in WaitsFor(k)
  /\ Lost(j)

\* The pass reads, and hands the statements of its flush to the database.
Visit(j, pass, item) == phase[j] = pass /\ stmts[j] = <<>> /\ item \in todo[j]
Flush(j, item, statements) ==
  /\ stmts' = [stmts EXCEPT ![j] = statements]
  /\ todo' = [todo EXCEPT ![j] = @ \ {item}]
  /\ UNCHANGED <<rows, tx, phase, snap>>

EndPass(j, pass, next, items) ==
  /\ phase[j] = pass /\ stmts[j] = <<>> /\ todo[j] = {}
  /\ phase' = [phase EXCEPT ![j] = next]
  /\ todo' = [todo EXCEPT ![j] = items]
  /\ UNCHANGED <<rows, tx, stmts, found, snap>>

get_by_uri(j, u) ==
  {i \in DOMAIN View(j) : View(j)[i].kind = "resource" /\ View(j)[i].key[1] = u}
Documents(j, i) ==
  {k \in DOMAIN View(j) : View(j)[k].kind = "document" /\ View(j)[k].key[1] = i}
Relations(j) == {k \in DOMAIN View(j) : View(j)[k].kind = "relation"}

\* apply_resource.
ApplyBase(j, u) ==
  LET a == AccountOf[j]
      p == snap[j].base[u]
      previous == get_by_uri(j, u)
  IN /\ Visit(j, "base", u)
     /\ Flush(j, u,
          IF previous = {} THEN <<Insert(resource(u, a, p))>>
          ELSE LET i == CHOOSE i \in previous : TRUE IN
               IF View(j)[i].data = p THEN <<>> ELSE <<Update(i, p)>>)
     /\ UNCHANGED found

\* What if apply_partial never looked for the document of its source?
PartialAdds(j, x) ==
  /\ Visit(j, "partials", x)
  /\ Flush(j, x, SetToSeq({Insert(document(i, x[2])) : i \in get_by_uri(j, x[1])}))
  /\ UNCHANGED found

\* apply_partial: a resource without a row is skipped, the query for the
\* document of the source raises when it finds two.
ApplyPartial(j, x) ==
  LET target == get_by_uri(j, x[1])
      previous == UNION {Documents(j, i) : i \in target}
  IN /\ Visit(j, "partials", x)
     /\ IF Cardinality(previous) > 1 THEN Raise(j)
        ELSE /\ Flush(j, x,
                  IF previous = {} THEN SetToSeq({Insert(document(i, x[2])) : i \in target})
                  ELSE SetToSeq({Update(i, x[2]) :
                         i \in {k \in previous : View(j)[k].data # x[2]}}))
             /\ UNCHANGED found

\* map_partial_deletes: documents on the account's path that no row mapped.
StaleDocuments(j) ==
  {k \in DOMAIN View(j) :
     /\ View(j)[k].kind = "document"
     /\ LET r == View(j)[View(j)[k].key[1]] IN
        r.path = AccountOf[j] /\ \A x \in snap[j].docs : x[1] # r.key[1]}

StaleResources(j) ==
  {i \in DOMAIN View(j) :
     /\ View(j)[i].kind = "resource" /\ View(j)[i].path = AccountOf[j]
     /\ snap[j].base[View(j)[i].key[1]] = None}

DeleteDocument(j, i) ==
  /\ Visit(j, "partialdeletes", i)
  /\ Flush(j, i, <<Delete(i)>>)
  /\ UNCHANGED found

\* map_resource_deletes, one resource: its documents and relations first.
DeleteResource(j, i) ==
  /\ Visit(j, "deletes", i)
  /\ Flush(j, i, SetToSeq({Delete(k) : k \in {n \in DOMAIN View(j) :
                                               i \in References(View(j)[n])}})
                 \o <<Delete(i)>>)
  /\ UNCHANGED found

\* _apply_relation.
ApplyRelation(j, l) ==
  LET ends == get_by_uri(j, l[1]) \X get_by_uri(j, l[2])
  IN /\ Visit(j, "relations", l)
     /\ Flush(j, l, SetToSeq({Insert(relation(e[1], e[2])) :
                      e \in {d \in ends : \A k \in Relations(j) : View(j)[k].key # d}}))
     /\ found' = [found EXCEPT ![j] = @ \cup {k \in Relations(j) : View(j)[k].key \in ends}]

\* map_relation_deletes: relations of parents on the account's path, which the
\* mapping neither found nor added.
StaleRelations(j) ==
  {k \in Relations(j) : /\ k \notin found[j] \cup DOMAIN tx[j].ins
                        /\ \E i \in DOMAIN View(j) : i = View(j)[k].key[1]
                                                    /\ View(j)[i].path = AccountOf[j]}

\* The loop asks for the uris of both ends, which another command may have
\* removed since the query; the session may still hold them.
DeleteRelation(j, i) ==
  /\ Visit(j, "reldeletes", i)
  /\ \/ Flush(j, i, <<Delete(i)>>) /\ UNCHANGED found
     \/ i \notin DOMAIN View(j) /\ Raise(j)

Commit(j) ==
  /\ phase[j] = "commit"
  /\ End(j, "complete") /\ rows' = View(j)

Step(j) ==
  \/ Execute(j)
  \/ \E u \in Uri : ApplyBase(j, u)
  \/ EndPass(j, "base", "partials", snap[j].docs)
  \/ \E x \in Uri \X Payload : ApplyPartial(j, x)
  \/ EndPass(j, "partials", "partialdeletes", StaleDocuments(j))
  \/ \E i \in todo[j] : DeleteDocument(j, i) \/ DeleteResource(j, i) \/ DeleteRelation(j, i)
  \/ EndPass(j, "partialdeletes", "deletes", StaleResources(j))
  \/ EndPass(j, "deletes", "relations", snap[j].links)
  \/ \E l \in Uri \X Uri : ApplyRelation(j, l)
  \/ EndPass(j, "relations", "reldeletes", StaleRelations(j))
  \/ EndPass(j, "reldeletes", "commit", {})
  \/ Commit(j)

Next == \E j \in Job : Begin(j) \/ Step(j) \/ Deadlock(j)

Spec == Init /\ [][Next]_vars

\* A lock goes to whoever waits longest, so that a command whose statement can
\* run again and again does run.
FairSpec ==
  Spec /\ \A j \in Job : SF_vars(Step(j)) /\ WF_vars(Deadlock(j))
---------------------------------------------------------------------------------
(***************************************************************************)
(* Properties.                                                             *)
(***************************************************************************)
Row(kind) == [kind : {kind}, key : (Uri \cup DOMAIN rows) \X (DOMAIN rows \cup {None}),
              path : {AccountOf[j] : j \in Job} \cup {None}, data : Payload \cup {None}]

\* Committed rows are those of models/resource.py, and no transaction holds
\* locks or statements between its runs.
TypeOK ==
  /\ \A i \in DOMAIN rows : rows[i] \in Row(i.kind) /\ i.key = rows[i].key
  /\ \A j \in Job : /\ phase[j] \in Ended \cup ToSet(Passes)
                    /\ phase[j] \in Ended => tx[j] = NoTx /\ stmts[j] = <<>>

ResourcesOf(u) ==
  {i \in DOMAIN rows : rows[i].kind = "resource" /\ rows[i].key[1] = u}
DocumentsOf(u) ==
  {k \in DOMAIN rows : rows[k].kind = "document" /\ rows[k].key[1] \in ResourcesOf(u)}

\* However the commands interleave, apply_resource never leaves two rows for
\* one uri, although it looks for the row before it inserts one.
OneResourcePerUri == \A u \in Uri : Cardinality(ResourcesOf(u)) <= 1

\* models/resource.py:177: one document per source and resource; apply_partial
\* raises on a second one in every later import.
DocumentsStaySingle == \A u \in Uri : Cardinality(DocumentsOf(u)) <= 1

\* Whatever one command removes while the other adds to it, both ends of a
\* relation and the resource of a document stay in the tables.
NoDangling ==
  \A i \in DOMAIN rows :
    rows[i].kind # "resource" => {rows[i].key[1], rows[i].key[2]} \ {None} \subseteq DOMAIN rows

\* Every import that begins to map ends, also when commands wait for each other.
MappingEnds == \A j \in Job : phase[j] \notin Ended ~> phase[j] \in Ended

\* No two of the rows are documents of one resource.
SingleIn(S) ==
  \A a, b \in S : a.kind = "document" /\ b.kind = "document" /\ a.key[1] = b.key[1] => a = b

\* Overlapping commands list the documents of different resources, as commands
\* do that import different accounts.
DocumentsApart ==
  /\ \A j \in Job : \A k \in Job \ {j} :
       \A s \in Snapshots[AccountOf[j]], t \in Snapshots[AccountOf[k]] :
         \A x \in s.docs, y \in t.docs : x[1] # y[1]
  /\ \A table \in InitialRows : SingleIn(DOMAIN table)
=================================================================================
