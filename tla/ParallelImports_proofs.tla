---------------------------- MODULE ParallelImports_proofs ----------------------------
(***************************************************************************)
(* Proofs about ParallelImports.  What one command may see is what is      *)
(* committed without what it deleted and with what it inserted; the locks  *)
(* keep the views of any number of commands closed under references and    *)
(* free of clashes, so that each of them may commit.                       *)
(***************************************************************************)
EXTENDS ParallelImports, FiniteSetTheorems, SequenceTheorems, TLAPS

Inserted(j) == DOMAIN tx[j].ins
Deleted(j) == tx[j].del
Seen(j) == (DOMAIN rows \ Deleted(j)) \cup Inserted(j)

Closed(S) == \A i \in S : References(i) \subseteq S
Distinct(S) == \A i, k \in S : Clash(i, k) => i = k

\* A transaction has inserted and changed rows of the shape the tables have.
TxTyped(j) ==
  LET t == tx[j] IN
  /\ t = [ins |-> t.ins, upd |-> t.upd, del |-> t.del]
  /\ IsFiniteSet(DOMAIN t.ins) /\ \A i \in DOMAIN t.ins : Columns(i, t.ins[i])
  /\ \A i \in DOMAIN t.upd : t.upd[i] \in Payload \cup {None}

RowsTyped ==
  /\ IsFiniteSet(DOMAIN rows) /\ DOMAIN tx = Job
  /\ \A i \in DOMAIN rows : Columns(i, rows[i])
  /\ \A j \in Job : TxTyped(j)

\* What each command sees could be committed.
ViewsSound ==
  /\ Closed(DOMAIN rows) /\ Distinct(DOMAIN rows)
  /\ \A j \in Job : /\ Touches(j) \subseteq DOMAIN rows
                    /\ Inserted(j) \cap DOMAIN rows = {}
                    /\ Closed(Seen(j)) /\ Distinct(Seen(j))

\* The locks of two open transactions.
LocksApart ==
  \A j \in Job : \A k \in Job \ {j} :
    /\ Inserted(j) \cap Inserted(k) = {}
    /\ Touches(j) \cap Touches(k) = {}
    /\ \A i \in Inserted(j) : References(i) \cap Deleted(k) = {}
    /\ \A i \in Inserted(j), n \in Inserted(k) : ~ Clash(i, n)

TablesInv == RowsTyped /\ ViewsSound /\ LocksApart

\* The statements of a flush are of the three kinds, about rows of the tables'
\* shape.
StatementOK(s) ==
  \/ s.op = "insert" /\ s = Insert(s.row) /\ Columns(s.row, s.row)
  \/ s.op = "update" /\ s = Update(s.id, s.data) /\ s.data \in Payload \cup {None}
  \/ s.op = "delete" /\ s = Delete(s.id)
Statements(q) == q \in Seq(ToSet(q)) /\ \A s \in ToSet(q) : StatementOK(s)

\* Only apply_partial inserts documents.
AddsDocument(s) == s.op = "insert" /\ s.row.kind = "document"
NoDocument(q) == \A s \in ToSet(q) : ~ AddsDocument(s)

\* A command between two runs holds nothing; during a run it visits what it
\* fetched and what it has read.
FlowInv ==
  /\ DOMAIN stmts = Job /\ DOMAIN phase = Job /\ DOMAIN todo = Job
  /\ DOMAIN found = Job /\ DOMAIN snap = Job
  /\ \A j \in Job :
       /\ phase[j] \in Ended \cup ToSet(Passes)
       /\ phase[j] \in Ended => tx[j] = NoTx /\ stmts[j] = <<>>
       /\ Statements(stmts[j])
       /\ phase[j] # "partials" => NoDocument(stmts[j])
       /\ snap[j] \in Snapshots[AccountOf[j]] \cup {NoSnapshot}
       /\ phase[j] = "partials" => todo[j] \subseteq snap[j].docs
       /\ phase[j] \in {"partialdeletes", "deletes", "reldeletes"} => IsFiniteSet(todo[j])
       /\ IsFiniteSet(found[j])

IInv == TablesInv /\ FlowInv
---------------------------------------------------------------------------------
(***************************************************************************)
(* Rows, their ids, and what a command sees.                               *)
(***************************************************************************)
\* A record of row values keeps its id's kind and key when a value changes.
LEMMA SetData ==
  ASSUME NEW i, NEW row, Columns(i, row), NEW p \in Payload \cup {None}
  PROVE  Columns(i, [row EXCEPT !.data = p]) /\ [row EXCEPT !.data = p].path = row.path
<1> DEFINE r == [row EXCEPT !.data = p]
<1>1. r = [kind |-> i.kind, key |-> i.key, path |-> row.path, data |-> p]
  BY DEF Columns
<1> HIDE DEF r
<1>2. r.path = row.path /\ r.data = p
  BY <1>1
<1> QED
  BY <1>1, <1>2 DEF Columns, r

\* The references and clashes of a row are those of its id.
LEMMA IdTells ==
  ASSUME NEW i, NEW row, Columns(i, row)
  PROVE  /\ row.kind = i.kind /\ row.key = i.key
         /\ References(row) = References(i)
         /\ \A k : Clash(row, k) <=> Clash(i, k)
         /\ \A k : Clash(k, row) <=> Clash(k, i)
<1>1. row.kind = i.kind /\ row.key = i.key
  BY DEF Columns
<1> QED
  BY <1>1 DEF References, Clash

\* What a command sees, and that it is typed.
LEMMA ViewIs ==
  ASSUME RowsTyped, \A j \in Job : Touches(j) \subseteq DOMAIN rows, NEW j \in Job
  PROVE  /\ DOMAIN View(j) = Seen(j)
         /\ \A i \in Seen(j) : /\ Columns(i, View(j)[i])
                               /\ View(j)[i].kind = i.kind /\ View(j)[i].key = i.key
         /\ IsFiniteSet(Seen(j))
<1>1. DOMAIN View(j) = Seen(j)
  BY DEF View, Seen, Inserted, Deleted
<1>2. ASSUME NEW i \in Seen(j) PROVE Columns(i, View(j)[i])
  <2>1. CASE i \in Inserted(j)
    <3>1. View(j)[i] = tx[j].ins[i]
      BY <2>1, <1>2 DEF View, Seen, Inserted, Deleted
    <3> QED
      BY <3>1, <2>1 DEF RowsTyped, TxTyped, Inserted
  <2>2. CASE i \notin Inserted(j) /\ i \in DOMAIN tx[j].upd
    <3>1. View(j)[i] = [rows[i] EXCEPT !.data = tx[j].upd[i]]
      BY <2>2, <1>2 DEF View, Seen, Inserted, Deleted
    <3>2. Columns(i, rows[i]) /\ tx[j].upd[i] \in Payload \cup {None}
      BY <2>2, <1>2 DEF RowsTyped, TxTyped, Seen
    <3> QED
      BY <3>1, <3>2, SetData
  <2>3. CASE i \notin Inserted(j) /\ i \notin DOMAIN tx[j].upd
    <3>1. View(j)[i] = rows[i] /\ i \in DOMAIN rows
      BY <2>3, <1>2 DEF View, Seen, Inserted, Deleted
    <3> QED
      BY <3>1 DEF RowsTyped
  <2> QED
    BY <2>1, <2>2, <2>3
<1>3. IsFiniteSet(Seen(j))
  <2>1. IsFiniteSet(DOMAIN rows \ Deleted(j)) /\ IsFiniteSet(Inserted(j))
    BY FS_Difference DEF RowsTyped, TxTyped, Inserted
  <2> QED
    BY <2>1, FS_Union DEF Seen
<1> QED
  BY <1>1, <1>2, <1>3, IdTells
---------------------------------------------------------------------------------
(***************************************************************************)
(* Finite sets and sequences.                                              *)
(***************************************************************************)
LEMMA FiniteImage ==
  ASSUME NEW f, IsFiniteSet(DOMAIN f), f = [x \in DOMAIN f |-> f[x]]
  PROVE  IsFiniteSet({f[x] : x \in DOMAIN f})
<1>1. f \in Surjection(DOMAIN f, {f[x] : x \in DOMAIN f})
  <2>1. f \in [DOMAIN f -> {f[x] : x \in DOMAIN f}]
    OBVIOUS
  <2> QED
    BY <2>1 DEF Surjection
<1> QED
  BY <1>1, FS_Surjection

\* A finite set makes a sequence of its elements.
LEMMA SequenceOfSet ==
  ASSUME NEW A, IsFiniteSet(A)
  PROVE  /\ SetToSeq(A) \in Seq(A)
         /\ Cardinality(A) \in Nat /\ Len(SetToSeq(A)) = Cardinality(A)
<1>1. Cardinality(A) \in Nat /\ ExistsBijection(1 .. Cardinality(A), A)
  BY FS_CardinalityType
<1>2. PICK g \in Bijection(1 .. Cardinality(A), A) : TRUE
  BY <1>1 DEF ExistsBijection
<1>3. g \in [1 .. Cardinality(A) -> A] /\ IsInjective(g)
  BY <1>2 DEF Bijection, Injection
<1>4. SetToSeq(A) \in [1 .. Cardinality(A) -> A]
  BY <1>3 DEF SetToSeq
<1>5. SetToSeq(A) \in Seq(A)
  BY <1>1, <1>4, SeqDef
<1>6. DOMAIN SetToSeq(A) = 1 .. Cardinality(A)
  BY <1>4
<1> QED
  BY <1>1, <1>5, <1>6, LenProperties

\* A sequence of good statements, wherever it is from.
LEMMA StatementsFrom ==
  ASSUME NEW S, NEW q \in Seq(S), \A s \in S : StatementOK(s)
  PROVE  Statements(q)
<1>1. q \in [1 .. Len(q) -> S] /\ DOMAIN q = 1 .. Len(q) /\ Len(q) \in Nat
  BY LenProperties
<1>2. ToSet(q) \subseteq S
  BY <1>1 DEF ToSet
<1>3. q \in [1 .. Len(q) -> ToSet(q)]
  BY <1>1 DEF ToSet
<1>4. q \in Seq(ToSet(q))
  BY <1>1, <1>3, SeqDef
<1> QED
  BY <1>2, <1>4 DEF Statements

\* The elements of a sequence are among those it was made from.
LEMMA NoDocumentFrom ==
  ASSUME NEW S, NEW q \in Seq(S), \A s \in S : ~ AddsDocument(s)
  PROVE  NoDocument(q)
<1>1. q \in [1 .. Len(q) -> S] /\ DOMAIN q = 1 .. Len(q)
  BY LenProperties
<1> QED
  BY <1>1 DEF ToSet, NoDocument

LEMMA NoStatement == Statements(<<>>) /\ NoDocument(<<>>)
<1>1. <<>> \in Seq({}) /\ \A s \in {} : StatementOK(s)
  BY EmptySeq
<1> DEFINE S == {}
<1> HIDE DEF S
<1>2. <<>> \in Seq(S) /\ \A s \in S : StatementOK(s)
  BY <1>1 DEF S
<1>3. ToSet(<<>>) = {}
  BY DEF ToSet
<1> QED
  BY <1>2, <1>3, StatementsFrom DEF NoDocument

LEMMA OneStatement ==
  ASSUME NEW s, StatementOK(s)
  PROVE  Statements(<<s>>) /\ (~ AddsDocument(s) => NoDocument(<<s>>))
<1> DEFINE S == {s}
<1>1. <<s>> \in Seq(S) /\ \A x \in S : x = s
  OBVIOUS
<1> HIDE DEF S
<1> QED
  BY <1>1, StatementsFrom, NoDocumentFrom

LEMMA StatementsOfSet ==
  ASSUME NEW A, IsFiniteSet(A), \A s \in A : StatementOK(s)
  PROVE  Statements(SetToSeq(A)) /\ ((\A s \in A : ~ AddsDocument(s)) => NoDocument(SetToSeq(A)))
BY SequenceOfSet, StatementsFrom, NoDocumentFrom

LEMMA RestOfStatements ==
  ASSUME NEW q, Statements(q), q # <<>>
  PROVE  /\ Statements(Tail(q)) /\ StatementOK(Head(q)) /\ Head(q) \in ToSet(q)
         /\ NoDocument(q) => NoDocument(Tail(q))
<1>1. q \in Seq(ToSet(q)) /\ \A s \in ToSet(q) : StatementOK(s)
  BY DEF Statements
<1>2. Head(q) \in ToSet(q) /\ Tail(q) \in Seq(ToSet(q))
  BY <1>1, HeadTailProperties
<1>3. NoDocument(q) => NoDocument(Tail(q))
  BY <1>2, NoDocumentFrom DEF NoDocument
<1> QED
  BY <1>1, <1>2, <1>3, StatementsFrom

LEMMA StatementsThen ==
  ASSUME NEW A, IsFiniteSet(A), NEW last,
         \A s \in A \cup {last} : StatementOK(s) /\ ~ AddsDocument(s)
  PROVE  Statements(SetToSeq(A) \o <<last>>) /\ NoDocument(SetToSeq(A) \o <<last>>)
<1>1. SetToSeq(A) \in Seq(A \cup {last})
  BY SequenceOfSet, SeqMonotonic
<1>2. <<last>> \in Seq(A \cup {last})
  OBVIOUS
<1>3. SetToSeq(A) \o <<last>> \in Seq(A \cup {last})
  BY <1>1, <1>2, ConcatProperties
<1> QED
  BY <1>3, StatementsFrom, NoDocumentFrom
---------------------------------------------------------------------------------
(***************************************************************************)
(* A new row's id is new.                                                  *)
(***************************************************************************)
IdsOf(q) == UNION {IF s.op = "insert" THEN References(s.row) ELSE {s.id} : s \in ToSet(q)}

LEMMA FiniteIds ==
  ASSUME NEW q, Statements(q)
  PROVE  IsFiniteSet(IdsOf(q))
<1> DEFINE f == [n \in DOMAIN q |-> IF q[n].op = "insert" THEN References(q[n].row) ELSE {q[n].id}]
<1>1. DOMAIN q = 1 .. Len(q) /\ Len(q) \in Nat
  BY LenProperties DEF Statements
<1>2. IsFiniteSet(DOMAIN f)
  BY <1>1, FS_Interval
<1>3. IsFiniteSet({f[n] : n \in DOMAIN f})
  BY <1>2, FiniteImage
<1>4. ASSUME NEW n \in DOMAIN f PROVE IsFiniteSet(f[n])
  <2>1. \A x, y : IsFiniteSet({x}) /\ IsFiniteSet({x, y})
    <3> TAKE x, y
    <3>1. IsFiniteSet({x}) /\ {x, y} = {x} \cup {y}
      BY FS_Singleton
    <3> QED
      BY <3>1, FS_AddElement
  <2>2. \A row : IsFiniteSet(References(row))
    BY <2>1, FS_EmptySet DEF References
  <2> QED
    BY <2>1, <2>2
<1>5. IdsOf(q) = UNION {f[n] : n \in DOMAIN f}
  BY DEF IdsOf, ToSet
<1> HIDE DEF f
<1>6. \A T \in {f[n] : n \in DOMAIN f} : IsFiniteSet(T)
  BY <1>4
<1> QED
  BY <1>3, <1>5, <1>6, FS_UNION

LEMMA KnownFinite ==
  ASSUME IInv
  PROVE  IsFiniteSet(Known)
<1> DEFINE f == [j \in Job |->
      Inserted(j) \cup Touches(j) \cup IdsOf(stmts[j]) \cup found[j]
      \cup (IF phase[j] \in {"partialdeletes", "deletes", "reldeletes"} THEN todo[j] ELSE {})]
<1>1. ASSUME NEW j \in Job PROVE IsFiniteSet(f[j])
  <2>1. IsFiniteSet(Inserted(j)) /\ IsFiniteSet(Touches(j))
    BY FS_Subset DEF IInv, TablesInv, RowsTyped, TxTyped, ViewsSound, Inserted
  <2>2. IsFiniteSet(IdsOf(stmts[j])) /\ IsFiniteSet(found[j])
    BY FiniteIds DEF IInv, FlowInv
  <2>3. IsFiniteSet(IF phase[j] \in {"partialdeletes", "deletes", "reldeletes"} THEN todo[j] ELSE {})
    BY FS_EmptySet DEF IInv, FlowInv
  <2> QED
    BY <2>1, <2>2, <2>3, FS_Union
<1>2. IsFiniteSet({f[j] : j \in DOMAIN f})
  BY JobAssumption, FiniteImage
<1>3. IsFiniteSet(UNION {f[j] : j \in DOMAIN f})
  BY <1>1, <1>2, FS_UNION
<1>4. IsFiniteSet(DOMAIN rows \cup (UNION {f[j] : j \in DOMAIN f}))
  BY <1>3, FS_Union DEF IInv, TablesInv, RowsTyped
<1>5. ASSUME NEW i \in Known PROVE i \in DOMAIN rows \cup (UNION {f[j] : j \in DOMAIN f})
  <2> SUFFICES ASSUME i \notin DOMAIN rows PROVE \E j \in Job : i \in f[j]
    OBVIOUS
  <2>1. \E j \in Job : \/ i \in Inserted(j) \cup Touches(j) \cup IdsOf(stmts[j]) \cup found[j]
                       \/ /\ phase[j] \in {"partialdeletes", "deletes", "reldeletes"}
                          /\ i \in todo[j]
    <3> DEFINE A == UNION {Inserted(j) \cup Touches(j) : j \in Job}
               B == UNION {IdsOf(stmts[j]) : j \in Job}
               C == UNION {IF phase[j] \in {"partialdeletes", "deletes", "reldeletes"}
                           THEN todo[j] ELSE {} : j \in Job}
               E == UNION {found[j] : j \in Job}
    <3>1. Known = DOMAIN rows \cup A \cup B \cup C \cup E
      BY DEF Known, Inserted, IdsOf
    <3>2. i \in A => \E j \in Job : i \in Inserted(j) \cup Touches(j)
      OBVIOUS
    <3>3. i \in B => \E j \in Job : i \in IdsOf(stmts[j])
      OBVIOUS
    <3>4. i \in C => \E j \in Job : /\ phase[j] \in {"partialdeletes", "deletes", "reldeletes"}
                                   /\ i \in todo[j]
      OBVIOUS
    <3>5. i \in E => \E j \in Job : i \in found[j]
      OBVIOUS
    <3> HIDE DEF A, B, C, E
    <3> QED
      BY <3>1, <3>2, <3>3, <3>4, <3>5
  <2> QED
    BY <2>1
<1> QED
  BY <1>4, <1>5, FS_Subset

\* No more ids are known than there are numbers to choose from.
LEMMA NewIdIsNew ==
  ASSUME IInv, NEW row
  PROVE  /\ NewId(row).kind = row.kind /\ NewId(row).key = row.key
         /\ NewId(row) \notin Known
<1> DEFINE id(n) == [kind |-> row.kind, key |-> row.key, n |-> n]
           N == 0 .. Cardinality(Known)
<1>1. IsFiniteSet(Known) /\ Cardinality(Known) \in Nat
  BY KnownFinite, FS_CardinalityType
<1>2. IsFiniteSet(N) /\ Cardinality(N) = Cardinality(Known) + 1
  BY <1>1, FS_Interval
<1>3. \E n \in N : id(n) \notin Known
  <2> SUFFICES ASSUME \A n \in N : id(n) \in Known PROVE FALSE
    OBVIOUS
  <2> DEFINE f == [n \in N |-> id(n)]
  <2>1. f \in [N -> Known]
    OBVIOUS
  <2>2. \A x, y \in N : f[x] = f[y] => id(x).n = id(y).n
    OBVIOUS
  <2>3. \A x, y \in N : f[x] = f[y] => x = y
    BY <2>2
  <2>4. Cardinality(Known) < Cardinality(N)
    BY <1>1, <1>2
  <2> HIDE DEF N, f
  <2> QED
    BY <1>1, <1>2, <2>1, <2>3, <2>4, FS_PigeonHole
<1>4. \E n \in N : NewId(row) = id(n) /\ id(n) \notin Known
  BY <1>3 DEF NewId
<1> QED
  BY <1>4
---------------------------------------------------------------------------------
(***************************************************************************)
(* Every write keeps the tables, and every view, as they should be.        *)
(***************************************************************************)
\* The statement at the head of a flush was let through.
Granted(j) == stmts[j] # <<>> /\ WaitsFor(j) = {} /\ ~ Refused(j)

\* What the locks that a granted statement needed say of the others.
LEMMA NotWaiting ==
  ASSUME TablesInv, NEW j \in Job, WaitsFor(j) = {}, NEW k \in Job \ {j}
  PROVE  LET s == Head(stmts[j]) IN
         /\ s.op = "insert" => /\ \A i \in Inserted(k) : ~ Clash(i, s.row)
                               /\ \A i \in Deleted(k) : i \notin References(s.row)
         /\ s.op = "update" => s.id \notin Touches(k)
         /\ s.op = "delete" => /\ s.id \notin Touches(k)
                               /\ \A i \in Inserted(k) : s.id \notin References(i)
<1> DEFINE s == Head(stmts[j])
<1>1. \A i \in Inserted(k) : Columns(i, tx[k].ins[i])
  BY DEF TablesInv, RowsTyped, TxTyped, Inserted
<1>2. \A i \in Inserted(k) : /\ Clash(tx[k].ins[i], s.row) <=> Clash(i, s.row)
                             /\ References(tx[k].ins[i]) = References(i)
  BY <1>1, IdTells
<1> HIDE DEF s
<1>3. k \notin {n \in Job \ {j} :
        CASE s.op = "insert" ->
               \/ \E i \in DOMAIN tx[n].ins : Clash(tx[n].ins[i], s.row)
               \/ \E i \in tx[n].del : Clash(rows[i], s.row) \/ i \in References(s.row)
          [] s.op = "update" -> s.id \in Touches(n)
          [] OTHER -> \/ s.id \in Touches(n)
                      \/ \E i \in DOMAIN tx[n].ins : s.id \in References(tx[n].ins[i])
                      \/ \E i \in tx[n].del : s.id \in References(rows[i])}
  BY DEF WaitsFor, s
<1>4. CASE s.op = "insert"
  BY <1>2, <1>3, <1>4 DEF Inserted, Deleted, s
<1>5. CASE s.op = "update"
  BY <1>3, <1>5 DEF s
<1>6. CASE s.op \notin {"insert", "update"}
  BY <1>2, <1>3, <1>6 DEF Inserted, s
<1> QED
  BY <1>4, <1>5, <1>6 DEF s

\* What the constraints that a granted statement met say of the own view.
LEMMA NotRefused ==
  ASSUME TablesInv, NEW j \in Job, ~ Refused(j)
  PROVE  LET s == Head(stmts[j]) IN
         /\ s.op = "insert" => /\ \A i \in Seen(j) : ~ Clash(i, s.row)
                               /\ References(s.row) \subseteq Seen(j)
         /\ s.op = "update" => s.id \in Seen(j)
         /\ s.op = "delete" => (s.id \in Seen(j) => \A i \in Seen(j) : s.id \notin References(i))
<1> DEFINE s == Head(stmts[j])
           v == View(j)
<1>1. DOMAIN v = Seen(j) /\ \A i \in Seen(j) : Columns(i, v[i])
  BY ViewIs DEF TablesInv, ViewsSound
<1>2. \A i \in Seen(j) : /\ Clash(v[i], s.row) <=> Clash(i, s.row)
                         /\ References(v[i]) = References(i)
  BY <1>1, IdTells
<1> HIDE DEF s, v
<1>3. ~ CASE s.op = "insert" -> \/ \E i \in DOMAIN v : Clash(v[i], s.row)
                                \/ ~ References(s.row) \subseteq DOMAIN v
          [] s.op = "update" -> s.id \notin DOMAIN v
          [] OTHER -> s.id \in DOMAIN v /\ \E i \in DOMAIN v : s.id \in References(v[i])
  BY DEF Refused, s, v
<1>4. CASE s.op = "insert"
  BY <1>1, <1>2, <1>3, <1>4 DEF s
<1>5. CASE s.op = "update"
  BY <1>1, <1>3, <1>5 DEF s
<1>6. CASE s.op \notin {"insert", "update"}
  BY <1>1, <1>2, <1>3, <1>6 DEF s
<1> QED
  BY <1>4, <1>5, <1>6 DEF s

\* A commit, or the commit of the handler.
LEMMA CommitTables ==
  ASSUME TablesInv, NEW j \in Job, tx' = [tx EXCEPT ![j] = NoTx], rows' = View(j)
  PROVE  /\ TablesInv'
         /\ DOMAIN rows' = Seen(j) /\ Inserted(j)' = {} /\ Seen(j)' = Seen(j)
         /\ \A k \in Job \ {j} : /\ Inserted(k)' = Inserted(k)
                                 /\ Seen(k)' = (Seen(j) \ Deleted(k)) \cup Inserted(k)
<1>1. /\ DOMAIN rows' = Seen(j) /\ IsFiniteSet(Seen(j))
      /\ \A i \in Seen(j) : Columns(i, rows'[i])
  BY ViewIs DEF TablesInv, ViewsSound
<1>2. /\ tx'[j].ins = EmptyFn /\ tx'[j].del = {} /\ DOMAIN tx'[j].upd = {}
      /\ tx'[j] = NoTx /\ DOMAIN tx' = Job /\ \A k \in Job \ {j} : tx'[k] = tx[k]
  BY DEF NoTx, EmptyFn, TablesInv, RowsTyped
<1>3. /\ Inserted(j)' = {} /\ Deleted(j)' = {} /\ Touches(j)' = {}
      /\ Seen(j)' = Seen(j)
      /\ \A k \in Job \ {j} : /\ Inserted(k)' = Inserted(k) /\ Deleted(k)' = Deleted(k)
                              /\ Touches(k)' = Touches(k)
                              /\ Seen(k)' = (Seen(j) \ Deleted(k)) \cup Inserted(k)
  BY <1>1, <1>2 DEF Inserted, Deleted, Touches, Seen, EmptyFn
<1>4. RowsTyped'
  <2>1. TxTyped(j)'
    BY <1>2, FS_EmptySet DEF TxTyped, NoTx, EmptyFn
  <2>2. ASSUME NEW k \in Job \ {j} PROVE TxTyped(k)'
    BY <1>2, <2>2 DEF TxTyped, TablesInv, RowsTyped
  <2> QED
    BY <1>1, <1>2, <2>1, <2>2 DEF RowsTyped
<1>5. \A k \in Job : Deleted(k) \subseteq Touches(k)
  BY DEF Deleted, Touches
<1>6. ViewsSound'
  <2>1. Closed(DOMAIN rows') /\ Distinct(DOMAIN rows')
    BY <1>1 DEF TablesInv, ViewsSound
  <2>2. ASSUME NEW k \in Job \ {j}
        PROVE  /\ Touches(k)' \subseteq DOMAIN rows' /\ Inserted(k)' \cap DOMAIN rows' = {}
               /\ Closed(Seen(k)') /\ Distinct(Seen(k)')
    <3> DEFINE R == DOMAIN rows
    <3>1. /\ Seen(j) = (R \ Deleted(j)) \cup Inserted(j)
          /\ Seen(k) = (R \ Deleted(k)) \cup Inserted(k)
          /\ Touches(k) \subseteq R /\ Deleted(j) \subseteq Touches(j) /\ Deleted(k) \subseteq Touches(k)
          /\ Inserted(j) \cap R = {} /\ Inserted(k) \cap R = {}
      BY <1>5 DEF TablesInv, ViewsSound, Seen
    <3>2. /\ Inserted(j) \cap Inserted(k) = {} /\ Touches(j) \cap Touches(k) = {}
          /\ \A i \in Inserted(j) : References(i) \cap Deleted(k) = {}
          /\ \A i \in Inserted(k) : References(i) \cap Deleted(j) = {}
          /\ \A i \in Inserted(j), n \in Inserted(k) : ~ Clash(i, n) /\ ~ Clash(n, i)
      BY DEF TablesInv, LocksApart, Clash
    <3>3. /\ Closed(R) /\ Closed(Seen(j)) /\ Closed(Seen(k))
          /\ Distinct(Seen(j)) /\ Distinct(Seen(k))
      BY DEF TablesInv, ViewsSound
    <3>4. Seen(k)' = (Seen(j) \ Deleted(k)) \cup Inserted(k) /\ DOMAIN rows' = Seen(j)
      BY <1>1, <1>3
    <3> HIDE DEF R
    <3>5. Touches(k)' \subseteq DOMAIN rows' /\ Inserted(k)' \cap DOMAIN rows' = {}
      BY <1>3, <3>1, <3>2, <3>4
    <3>6. Closed(Seen(k)')
      BY <3>1, <3>2, <3>3, <3>4 DEF Closed
    <3>7. Distinct(Seen(k)')
      BY <3>1, <3>2, <3>3, <3>4 DEF Distinct
    <3> QED
      BY <3>5, <3>6, <3>7
  <2> QED
    BY <1>3, <2>1, <2>2 DEF ViewsSound, Closed, Distinct, TablesInv
<1>7. LocksApart'
  BY <1>3 DEF LocksApart, TablesInv
<1> QED
  BY <1>1, <1>3, <1>4, <1>6, <1>7 DEF TablesInv

\* A rollback.
LEMMA RollbackTables ==
  ASSUME TablesInv, NEW j \in Job, tx' = [tx EXCEPT ![j] = NoTx], UNCHANGED rows
  PROVE  /\ TablesInv'
         /\ Inserted(j)' = {} /\ Seen(j)' = DOMAIN rows
         /\ \A k \in Job \ {j} : Inserted(k)' = Inserted(k) /\ Seen(k)' = Seen(k)
<1>2. /\ tx'[j].ins = EmptyFn /\ tx'[j].del = {} /\ DOMAIN tx'[j].upd = {}
      /\ tx'[j] = NoTx /\ DOMAIN tx' = Job /\ \A k \in Job \ {j} : tx'[k] = tx[k]
  BY DEF NoTx, EmptyFn, TablesInv, RowsTyped
<1>3. /\ Inserted(j)' = {} /\ Deleted(j)' = {} /\ Touches(j)' = {}
      /\ Seen(j)' = DOMAIN rows
      /\ \A k \in Job \ {j} : /\ Inserted(k)' = Inserted(k) /\ Deleted(k)' = Deleted(k)
                              /\ Touches(k)' = Touches(k) /\ Seen(k)' = Seen(k)
  BY <1>2 DEF Inserted, Deleted, Touches, Seen, EmptyFn
<1>4. RowsTyped'
  <2>1. TxTyped(j)'
    BY <1>2, FS_EmptySet DEF TxTyped, NoTx, EmptyFn
  <2>2. ASSUME NEW k \in Job \ {j} PROVE TxTyped(k)'
    BY <1>2, <2>2 DEF TxTyped, TablesInv, RowsTyped
  <2> QED
    BY <1>2, <2>1, <2>2 DEF RowsTyped, TablesInv
<1>5. ViewsSound'
  BY <1>3 DEF ViewsSound, TablesInv
<1>6. LocksApart'
  BY <1>3 DEF LocksApart, TablesInv
<1> QED
  BY <1>3, <1>4, <1>5, <1>6 DEF TablesInv

\* What stays when j writes: nothing of the others moves.
LEMMA OthersKeep ==
  ASSUME TablesInv, NEW j \in Job, NEW t, tx' = [tx EXCEPT ![j] = t], UNCHANGED rows
  PROVE  /\ tx'[j] = t /\ DOMAIN tx' = Job
         /\ \A k \in Job \ {j} : /\ tx'[k] = tx[k]
                                 /\ Inserted(k)' = Inserted(k) /\ Deleted(k)' = Deleted(k)
                                 /\ Touches(k)' = Touches(k) /\ Seen(k)' = Seen(k)
                                 /\ TxTyped(k)'
<1>1. tx'[j] = t /\ DOMAIN tx' = Job /\ \A k \in Job \ {j} : tx'[k] = tx[k]
  BY DEF TablesInv, RowsTyped
<1> QED
  BY <1>1 DEF Inserted, Deleted, Touches, Seen, TxTyped, TablesInv, RowsTyped

\* The three statements, as what they do to the sets of j.
LEMMA InsertTables ==
  ASSUME IInv, NEW j \in Job, Granted(j), Head(stmts[j]).op = "insert",
         tx' = [tx EXCEPT ![j] = Write(@, Head(stmts[j]))], UNCHANGED rows
  PROVE  /\ TablesInv'
         /\ \E n : /\ n.kind = Head(stmts[j]).row.kind /\ n.key = Head(stmts[j]).row.key
                  /\ Inserted(j)' = Inserted(j) \cup {n} /\ Seen(j)' = Seen(j) \cup {n}
         /\ \A k \in Job \ {j} : Inserted(k)' = Inserted(k) /\ Seen(k)' = Seen(k)
<1> DEFINE s == Head(stmts[j])
           n == NewId(s.row)
           R == DOMAIN rows
<1>1. StatementOK(s)
  BY RestOfStatements DEF IInv, FlowInv, Granted
<1>2. Columns(s.row, s.row)
  BY <1>1 DEF StatementOK, Insert, Update, Delete
<1>3. n.kind = s.row.kind /\ n.key = s.row.key /\ n \notin Known
  BY NewIdIsNew
<1>4. Columns(n, s.row) /\ References(n) = References(s.row)
      /\ \A k : (Clash(k, n) <=> Clash(k, s.row)) /\ (Clash(n, k) <=> Clash(s.row, k))
  BY <1>2, <1>3 DEF Columns, References, Clash
<1>5. n \notin R /\ \A k \in Job : n \notin Inserted(k) /\ n \notin Touches(k)
  BY <1>3 DEF Known, Inserted
<1> HIDE DEF n
<1>6. tx[j] = [ins |-> tx[j].ins, upd |-> tx[j].upd, del |-> tx[j].del]
  BY DEF IInv, TablesInv, RowsTyped, TxTyped
<1>7. tx' = [tx EXCEPT ![j] = [tx[j] EXCEPT !.ins = With(tx[j].ins, n, s.row)]]
  BY DEF Write, n
<1>8. /\ tx'[j] = [ins |-> With(tx[j].ins, n, s.row), upd |-> tx[j].upd, del |-> tx[j].del]
      /\ DOMAIN tx' = Job
  BY <1>6, <1>7 DEF IInv, TablesInv, RowsTyped
<1>9. /\ Inserted(j)' = Inserted(j) \cup {n} /\ Deleted(j)' = Deleted(j)
      /\ Touches(j)' = Touches(j) /\ Seen(j)' = Seen(j) \cup {n}
  BY <1>8 DEF With, Inserted, Deleted, Touches, Seen
<1>10. \A k \in Job \ {j} : /\ tx'[k] = tx[k] /\ TxTyped(k)'
                            /\ Inserted(k)' = Inserted(k) /\ Deleted(k)' = Deleted(k)
                            /\ Touches(k)' = Touches(k) /\ Seen(k)' = Seen(k)
  BY <1>7, OthersKeep DEF IInv
<1>11. RowsTyped'
  <2>1. \A i \in Inserted(j)' : Columns(i, tx'[j].ins[i])
    BY <1>4, <1>8, <1>9 DEF With, Inserted, IInv, TablesInv, RowsTyped, TxTyped
  <2>2. IsFiniteSet(Inserted(j)')
    <3>1. IsFiniteSet(Inserted(j))
      BY DEF IInv, TablesInv, RowsTyped, TxTyped, Inserted
    <3> QED
      BY <1>9, <3>1, FS_AddElement
  <2>3. TxTyped(j)'
    BY <1>8, <2>1, <2>2 DEF TxTyped, Inserted, IInv, TablesInv, RowsTyped
  <2> QED
    BY <1>8, <1>10, <2>3 DEF RowsTyped, IInv, TablesInv
<1>12. /\ \A i \in Seen(j) : ~ Clash(i, n) /\ ~ Clash(n, i)
       /\ References(n) \subseteq Seen(j)
  BY <1>4, NotRefused DEF IInv, Granted, Clash
<1>13. \A k \in Job \ {j} : /\ \A i \in Inserted(k) : ~ Clash(i, n) /\ ~ Clash(n, i)
                            /\ References(n) \cap Deleted(k) = {}
  BY <1>4, NotWaiting DEF IInv, Granted, Clash
<1> HIDE DEF s
<1>14. ViewsSound'
  <2>0. Closed(Seen(j)) /\ Distinct(Seen(j)) BY DEF IInv, TablesInv, ViewsSound
  <2>1. Closed(Seen(j)')
    BY <1>9, <1>12, <2>0 DEF Closed
  <2>2. Distinct(Seen(j)')
    BY <1>9, <1>12, <2>0 DEF Distinct
  <2> QED
    BY <1>5, <1>9, <1>10, <2>1, <2>2 DEF ViewsSound, IInv, TablesInv
<1>15. LocksApart'
  BY <1>5, <1>9, <1>10, <1>13 DEF LocksApart, IInv, TablesInv
<1> QED
  BY <1>3, <1>9, <1>10, <1>11, <1>14, <1>15 DEF TablesInv, s

LEMMA UpdateTables ==
  ASSUME IInv, NEW j \in Job, Granted(j), Head(stmts[j]).op = "update",
         tx' = [tx EXCEPT ![j] = Write(@, Head(stmts[j]))], UNCHANGED rows
  PROVE  /\ TablesInv'
         /\ Inserted(j)' \subseteq Inserted(j) /\ Seen(j)' \subseteq Seen(j)
         /\ \A k \in Job \ {j} : Inserted(k)' = Inserted(k) /\ Seen(k)' = Seen(k)
<1> DEFINE s == Head(stmts[j])
           t == tx[j]
<1>1. s.data \in Payload \cup {None} /\ s.op = "update"
  <2>1. StatementOK(s)
    BY RestOfStatements DEF IInv, FlowInv, Granted
  <2> QED
    BY <2>1 DEF StatementOK
<1>2. t = [ins |-> t.ins, upd |-> t.upd, del |-> t.del]
  BY DEF IInv, TablesInv, RowsTyped, TxTyped
<1>3. s.id \in Seen(j) /\ \A k \in Job \ {j} : s.id \notin Touches(k)
  BY NotRefused, NotWaiting DEF IInv, Granted
<1>4. tx' = [tx EXCEPT ![j] = Write(t, s)]
  OBVIOUS
<1> HIDE DEF s
<1>5. \A k \in Job \ {j} : /\ tx'[k] = tx[k] /\ TxTyped(k)'
                           /\ Inserted(k)' = Inserted(k) /\ Deleted(k)' = Deleted(k)
                           /\ Touches(k)' = Touches(k) /\ Seen(k)' = Seen(k)
  BY <1>4, OthersKeep DEF IInv
<1>6. tx'[j] = Write(t, s) /\ DOMAIN tx' = Job
  BY <1>4 DEF IInv, TablesInv, RowsTyped
<1>7. /\ Inserted(j)' = Inserted(j) /\ Deleted(j)' = Deleted(j) /\ Seen(j)' = Seen(j)
      /\ Touches(j)' \subseteq Touches(j) \cup ({s.id} \cap DOMAIN rows)
      /\ TxTyped(j)'
  <2>1. CASE s.id \in DOMAIN t.ins
    <3>1. tx'[j] = [ins |-> [t.ins EXCEPT ![s.id].data = s.data], upd |-> t.upd, del |-> t.del]
      BY <1>1, <1>2, <1>6, <2>1 DEF Write
    <3>2. DOMAIN tx'[j].ins = DOMAIN t.ins
      BY <3>1
    <3>3. \A i \in DOMAIN t.ins : Columns(i, tx'[j].ins[i])
      <4>1. \A i \in DOMAIN t.ins : Columns(i, t.ins[i])
        BY DEF IInv, TablesInv, RowsTyped, TxTyped
      <4>2. tx'[j].ins[s.id] = [t.ins[s.id] EXCEPT !.data = s.data]
        BY <2>1, <3>1
      <4>3. \A i \in DOMAIN t.ins : i # s.id => tx'[j].ins[i] = t.ins[i]
        BY <3>1
      <4> QED
        BY <1>1, <2>1, <4>1, <4>2, <4>3, SetData
    <3> QED
      BY <3>1, <3>2, <3>3 DEF Inserted, Deleted, Seen, Touches, TxTyped, IInv, TablesInv, RowsTyped
  <2>2. CASE s.id \notin DOMAIN t.ins
    <3>1. tx'[j] = [ins |-> t.ins, upd |-> With(t.upd, s.id, s.data), del |-> t.del]
      BY <1>1, <1>2, <1>6, <2>2 DEF Write
    <3>2. s.id \in DOMAIN rows
      BY <1>3, <2>2 DEF Seen, Inserted
    <3>3. TxTyped(j)'
      BY <1>1, <3>1 DEF TxTyped, With, IInv, TablesInv, RowsTyped
    <3>4. DOMAIN tx'[j].upd = DOMAIN t.upd \cup {s.id}
      BY <3>1 DEF With
    <3> QED
      BY <3>1, <3>2, <3>3, <3>4 DEF Inserted, Deleted, Seen, Touches
  <2> QED
    BY <2>1, <2>2
<1>8. RowsTyped'
  BY <1>5, <1>6, <1>7 DEF RowsTyped, IInv, TablesInv
<1>9. ViewsSound'
  BY <1>5, <1>7 DEF ViewsSound, IInv, TablesInv
<1>10. LocksApart'
  BY <1>3, <1>5, <1>7 DEF LocksApart, IInv, TablesInv
<1> QED
  BY <1>5, <1>7, <1>8, <1>9, <1>10 DEF TablesInv

LEMMA DeleteTables ==
  ASSUME IInv, NEW j \in Job, Granted(j), Head(stmts[j]).op = "delete",
         tx' = [tx EXCEPT ![j] = Write(@, Head(stmts[j]))], UNCHANGED rows
  PROVE  /\ TablesInv'
         /\ Inserted(j)' \subseteq Inserted(j) /\ Seen(j)' \subseteq Seen(j)
         /\ \A k \in Job \ {j} : Inserted(k)' = Inserted(k) /\ Seen(k)' = Seen(k)
<1> DEFINE s == Head(stmts[j])
           t == tx[j]
<1>1. s.op = "delete"
  OBVIOUS
<1>2. t = [ins |-> t.ins, upd |-> t.upd, del |-> t.del]
  BY DEF IInv, TablesInv, RowsTyped, TxTyped
<1>3. /\ s.id \in Seen(j) => \A i \in Seen(j) : s.id \notin References(i)
      /\ \A k \in Job \ {j} : /\ s.id \notin Touches(k)
                              /\ \A i \in Inserted(k) : s.id \notin References(i)
  BY NotRefused, NotWaiting DEF IInv, Granted
<1>4. tx' = [tx EXCEPT ![j] = Write(t, s)]
  OBVIOUS
<1> HIDE DEF s
<1>5. \A k \in Job \ {j} : /\ tx'[k] = tx[k] /\ TxTyped(k)'
                           /\ Inserted(k)' = Inserted(k) /\ Deleted(k)' = Deleted(k)
                           /\ Touches(k)' = Touches(k) /\ Seen(k)' = Seen(k)
  BY <1>4, OthersKeep DEF IInv
<1>6. tx'[j] = Write(t, s) /\ DOMAIN tx' = Job
  BY <1>4 DEF IInv, TablesInv, RowsTyped
<1>7. /\ Inserted(j)' = Inserted(j) \ {s.id}
      /\ Deleted(j)' \subseteq Deleted(j) \cup {s.id}
      /\ Touches(j)' \subseteq Touches(j) \cup ({s.id} \cap DOMAIN rows)
      /\ Seen(j)' = Seen(j) \ {s.id}
      /\ TxTyped(j)'
  <2>1. CASE s.id \in DOMAIN t.ins
    <3>1. tx'[j] = [ins |-> Without(t.ins, s.id), upd |-> t.upd, del |-> t.del]
      BY <1>1, <1>2, <1>6, <2>1 DEF Write
    <3>2. DOMAIN tx'[j].ins = DOMAIN t.ins \ {s.id}
      BY <3>1 DEF Without
    <3>3. IsFiniteSet(DOMAIN t.ins \ {s.id})
      BY FS_RemoveElement DEF IInv, TablesInv, RowsTyped, TxTyped
    <3>4. TxTyped(j)'
      BY <3>1, <3>2, <3>3 DEF TxTyped, Without, IInv, TablesInv, RowsTyped
    <3>5. s.id \notin DOMAIN rows
      BY <2>1 DEF Inserted, IInv, TablesInv, ViewsSound
    <3> QED
      BY <3>1, <3>2, <3>4, <3>5 DEF Inserted, Deleted, Seen, Touches
  <2>2. CASE s.id \notin DOMAIN t.ins
    <3>1. tx'[j] = [ins |-> t.ins, upd |-> t.upd, del |-> t.del \cup ({s.id} \cap DOMAIN rows)]
      BY <1>1, <1>2, <1>6, <2>2 DEF Write
    <3>2. TxTyped(j)'
      BY <3>1 DEF TxTyped, IInv, TablesInv, RowsTyped
    <3> QED
      BY <2>2, <3>1, <3>2 DEF Inserted, Deleted, Seen, Touches
  <2> QED
    BY <2>1, <2>2
<1>8. RowsTyped'
  BY <1>5, <1>6, <1>7 DEF RowsTyped, IInv, TablesInv
<1>9. ViewsSound'
  <2>1. Closed(Seen(j)') /\ Distinct(Seen(j)')
    BY <1>3, <1>7 DEF Closed, Distinct, IInv, TablesInv, ViewsSound
  <2>2. Touches(j)' \subseteq DOMAIN rows /\ Inserted(j)' \cap DOMAIN rows = {}
    BY <1>7 DEF ViewsSound, IInv, TablesInv
  <2>3. \A k \in Job \ {j} : /\ Touches(k)' \subseteq DOMAIN rows
                             /\ Inserted(k)' \cap DOMAIN rows = {}
                             /\ Closed(Seen(k)') /\ Distinct(Seen(k)')
    BY <1>5 DEF ViewsSound, IInv, TablesInv
  <2>4. Closed(DOMAIN rows) /\ Distinct(DOMAIN rows)
    BY DEF ViewsSound, IInv, TablesInv
  <2>5. \A k \in Job : /\ Touches(k)' \subseteq DOMAIN rows
                       /\ Inserted(k)' \cap DOMAIN rows = {}
                       /\ Closed(Seen(k)') /\ Distinct(Seen(k)')
    BY <2>1, <2>2, <2>3
  <2> QED
    BY <2>4, <2>5 DEF ViewsSound
<1>10. LocksApart'
  BY <1>3, <1>5, <1>7 DEF LocksApart, IInv, TablesInv
<1> QED
  BY <1>5, <1>7, <1>8, <1>9, <1>10 DEF TablesInv
---------------------------------------------------------------------------------
(***************************************************************************)
(* The passes of a command.                                                *)
(***************************************************************************)
LEMMA PassNames ==
  ToSet(Passes) = {"base", "partials", "partialdeletes", "deletes", "relations", "reldeletes",
                   "commit"}
<1>1. DOMAIN Passes = {1, 2, 3, 4, 5, 6, 7}
  BY DEF Passes
<1> QED
  BY <1>1 DEF ToSet, Passes

LEMMA SameTables ==
  ASSUME TablesInv, UNCHANGED <<rows, tx>>
  PROVE  TablesInv'
<1>1. \A j \in Job : /\ Inserted(j)' = Inserted(j) /\ Deleted(j)' = Deleted(j)
                     /\ Touches(j)' = Touches(j) /\ Seen(j)' = Seen(j)
                     /\ TxTyped(j) => TxTyped(j)'
  BY DEF Inserted, Deleted, Touches, Seen, TxTyped
<1> QED
  BY <1>1 DEF TablesInv, RowsTyped, ViewsSound, LocksApart

\* Whatever the pass hands to the database, and finds.
LEMMA FlushStep ==
  ASSUME IInv, NEW j \in Job, NEW pass \in ToSet(Passes), NEW item, NEW q, Statements(q),
         pass # "partials" => NoDocument(q), Visit(j, pass, item), Flush(j, item, q), NEW X, IsFiniteSet(X),
         UNCHANGED found \/ found' = [found EXCEPT ![j] = @ \cup X]
  PROVE  IInv'
<1>1. TablesInv'
  BY SameTables DEF IInv, Flush
<1>2. FlowInv'
  <2>1. \A k \in Job \ {j} : /\ stmts'[k] = stmts[k] /\ todo'[k] = todo[k] /\ found'[k] = found[k]
    BY DEF Flush, IInv, FlowInv
  <2>2. stmts'[j] = q /\ todo'[j] = todo[j] \ {item} /\ found'[j] \in {found[j], found[j] \cup X}
    BY DEF Flush, IInv, FlowInv
  <2>3. DOMAIN stmts' = Job /\ DOMAIN todo' = Job /\ DOMAIN found' = Job
    BY DEF Flush, IInv, FlowInv
  <2>4. phase[j] \notin Ended
    BY PassNames DEF Visit, Ended
  <2>5. IsFiniteSet(found'[j])
    <3>1. IsFiniteSet(found[j])
      BY DEF IInv, FlowInv
    <3>2. IsFiniteSet(found[j] \cup X)
      BY <3>1, FS_Union
    <3> QED
      BY <2>2, <3>1, <3>2
  <2>6. phase[j] \in {"partialdeletes", "deletes", "reldeletes"} => IsFiniteSet(todo'[j])
    <3>1. phase[j] \in {"partialdeletes", "deletes", "reldeletes"} => IsFiniteSet(todo[j])
      BY DEF IInv, FlowInv
    <3> QED
      BY <2>2, <3>1, FS_RemoveElement
  <2>7. phase[j] = "partials" => todo'[j] \subseteq snap[j].docs
    BY <2>2 DEF IInv, FlowInv
  <2>8. phase[j] # "partials" => NoDocument(q)
    BY DEF Visit
  <2> QED
    BY <2>1, <2>2, <2>3, <2>4, <2>5, <2>6, <2>7, <2>8 DEF IInv, FlowInv, Flush
<1> QED
  BY <1>1, <1>2 DEF IInv

LEMMA EndStep ==
  ASSUME IInv, NEW j \in Job, NEW outcome \in Ended, End(j, outcome),
         rows' = View(j) \/ UNCHANGED rows
  PROVE  IInv'
<1>1. TablesInv'
  BY CommitTables, RollbackTables DEF End, IInv
<1>2. FlowInv'
  <2>1. \A k \in Job \ {j} : /\ stmts'[k] = stmts[k] /\ todo'[k] = todo[k] /\ found'[k] = found[k]
                             /\ phase'[k] = phase[k] /\ snap'[k] = snap[k] /\ tx'[k] = tx[k]
    BY DEF End, IInv, FlowInv, TablesInv, RowsTyped
  <2>2. /\ stmts'[j] = <<>> /\ todo'[j] = {} /\ found'[j] = {} /\ phase'[j] = outcome
        /\ snap'[j] = NoSnapshot /\ tx'[j] = NoTx
    BY DEF End, IInv, FlowInv, TablesInv, RowsTyped
  <2>3. /\ DOMAIN stmts' = Job /\ DOMAIN todo' = Job /\ DOMAIN found' = Job
        /\ DOMAIN phase' = Job /\ DOMAIN snap' = Job
    BY DEF End, IInv, FlowInv
  <2>4. Statements(<<>>) /\ NoDocument(<<>>) /\ IsFiniteSet({})
    BY NoStatement, FS_EmptySet
  <2> QED
    BY <2>1, <2>2, <2>3, <2>4 DEF IInv, FlowInv
<1> QED
  BY <1>1, <1>2 DEF IInv

LEMMA EndPassStep ==
  ASSUME IInv, NEW j \in Job, NEW pass \in ToSet(Passes), NEW next \in ToSet(Passes), NEW items,
         EndPass(j, pass, next, items),
         next = "partials" => items \subseteq snap[j].docs,
         next \in {"partialdeletes", "deletes", "reldeletes"} => IsFiniteSet(items)
  PROVE  IInv'
<1>1. TablesInv'
  BY SameTables DEF IInv, EndPass
<1>2. FlowInv'
  <2>1. \A k \in Job \ {j} : phase'[k] = phase[k] /\ todo'[k] = todo[k]
    BY DEF EndPass, IInv, FlowInv
  <2>2. phase'[j] = next /\ todo'[j] = items /\ DOMAIN phase' = Job /\ DOMAIN todo' = Job
    BY DEF EndPass, IInv, FlowInv
  <2>3. next \notin Ended /\ stmts[j] = <<>> /\ NoDocument(<<>>)
    BY PassNames, NoStatement DEF Ended, EndPass
  <2> QED
    BY <2>1, <2>2, <2>3 DEF IInv, FlowInv, EndPass
<1> QED
  BY <1>1, <1>2 DEF IInv

LEMMA BeginStep ==
  ASSUME IInv, NEW j \in Job, Begin(j)
  PROVE  IInv'
<1>1. TablesInv'
  BY SameTables DEF IInv, Begin
<1>2. FlowInv'
  <2>1. \A k \in Job \ {j} : phase'[k] = phase[k] /\ todo'[k] = todo[k] /\ snap'[k] = snap[k]
    BY DEF Begin, IInv, FlowInv
  <2>2. /\ phase'[j] = "base" /\ snap'[j] \in Snapshots[AccountOf[j]]
        /\ DOMAIN phase' = Job /\ DOMAIN todo' = Job /\ DOMAIN snap' = Job
    BY DEF Begin, IInv, FlowInv
  <2>3. /\ "base" \in ToSet(Passes) /\ "base" \notin Ended
        /\ stmts[j] = <<>> /\ NoDocument(<<>>)
    BY PassNames, NoStatement DEF Ended, Begin, IInv, FlowInv
  <2> QED
    BY <2>1, <2>2, <2>3 DEF IInv, FlowInv, Begin
<1> QED
  BY <1>1, <1>2 DEF IInv

LEMMA ExecuteStep ==
  ASSUME IInv, NEW j \in Job, Execute(j)
  PROVE  IInv'
<1>1. CASE Refused(j)
  BY <1>1, EndStep DEF Execute, Lost, Ended
<1>2. CASE ~ Refused(j)
  <2>1. /\ Granted(j) /\ tx' = [tx EXCEPT ![j] = Write(@, Head(stmts[j]))]
        /\ stmts' = [stmts EXCEPT ![j] = Tail(@)]
        /\ UNCHANGED <<rows, phase, todo, found, snap>>
    BY <1>2 DEF Execute, Granted
  <2>2. /\ Statements(Tail(stmts[j])) /\ StatementOK(Head(stmts[j]))
        /\ NoDocument(stmts[j]) => NoDocument(Tail(stmts[j]))
    BY <2>1, RestOfStatements DEF IInv, FlowInv, Granted
  <2>3. TablesInv'
    BY <2>1, <2>2, InsertTables, UpdateTables, DeleteTables DEF StatementOK
  <2>4. FlowInv'
    <3>1. /\ \A k \in Job \ {j} : stmts'[k] = stmts[k] /\ tx'[k] = tx[k]
          /\ stmts'[j] = Tail(stmts[j]) /\ DOMAIN stmts' = Job
      BY <2>1 DEF IInv, FlowInv, TablesInv, RowsTyped
    <3>2. phase[j] \notin Ended
      BY <2>1 DEF Granted, IInv, FlowInv
    <3> QED
      BY <2>1, <2>2, <3>1, <3>2 DEF IInv, FlowInv
  <2> QED
    BY <2>3, <2>4 DEF IInv
<1> QED
  BY <1>1, <1>2
---------------------------------------------------------------------------------
(***************************************************************************)
(* What the passes read and hand to the database.                          *)
(***************************************************************************)
\* What a command sees while it visits.
LEMMA SeenRows ==
  ASSUME IInv, NEW j \in Job
  PROVE  /\ DOMAIN View(j) = Seen(j) /\ IsFiniteSet(Seen(j))
         /\ \A i \in Seen(j) : /\ Columns(i, View(j)[i])
                               /\ View(j)[i].kind = i.kind /\ View(j)[i].key = i.key
         /\ \A u : \A i \in get_by_uri(j, u) : i \in Seen(j) /\ i.kind = "resource" /\ i.key[1] = u
         /\ \A i : \A k \in Documents(j, i) : k \in Seen(j) /\ k.kind = "document" /\ k.key[1] = i
         /\ \A k \in Relations(j) : k \in Seen(j) /\ k.kind = "relation"
<1>1. /\ DOMAIN View(j) = Seen(j) /\ IsFiniteSet(Seen(j))
      /\ \A i \in Seen(j) : /\ Columns(i, View(j)[i])
                            /\ View(j)[i].kind = i.kind /\ View(j)[i].key = i.key
  BY ViewIs DEF IInv, TablesInv, ViewsSound
<1> QED
  BY <1>1 DEF get_by_uri, Documents, Relations

\* The rows that the passes insert are of the tables' shape.
LEMMA NewRows ==
  ASSUME NEW j \in Job
  PROVE  /\ \A u \in Uri, p \in Payload \cup {None} :
              /\ StatementOK(Insert(resource(u, AccountOf[j], p)))
              /\ ~ AddsDocument(Insert(resource(u, AccountOf[j], p)))
         /\ \A i : \A p \in Payload : i.kind = "resource" => StatementOK(Insert(document(i, p)))
         /\ \A i, k : /\ StatementOK(Insert(relation(i, k)))
                      /\ ~ AddsDocument(Insert(relation(i, k)))
         /\ \A i : \A p \in Payload \cup {None} : /\ StatementOK(Update(i, p))
                                                 /\ ~ AddsDocument(Update(i, p))
         /\ \A i : StatementOK(Delete(i)) /\ ~ AddsDocument(Delete(i))
<1> USE DEF StatementOK, AddsDocument
<1>1. ASSUME NEW u \in Uri, NEW p \in Payload \cup {None}
      PROVE  /\ StatementOK(Insert(resource(u, AccountOf[j], p)))
             /\ ~ AddsDocument(Insert(resource(u, AccountOf[j], p)))
  BY DEF Insert, Columns, resource
<1>2. ASSUME NEW i, NEW p \in Payload, i.kind = "resource"
      PROVE  StatementOK(Insert(document(i, p)))
  BY <1>2 DEF Insert, Columns, document
<1>3. ASSUME NEW i, NEW k
      PROVE  StatementOK(Insert(relation(i, k))) /\ ~ AddsDocument(Insert(relation(i, k)))
  BY DEF Insert, Columns, relation
<1>4. ASSUME NEW i, NEW p \in Payload \cup {None}
      PROVE  StatementOK(Update(i, p)) /\ ~ AddsDocument(Update(i, p))
  BY DEF Update
<1>5. ASSUME NEW i PROVE StatementOK(Delete(i)) /\ ~ AddsDocument(Delete(i))
  BY DEF Delete
<1> HIDE DEF StatementOK, AddsDocument
<1> QED
  BY <1>1, <1>2, <1>3, <1>4, <1>5

LEMMA SnapTyped ==
  ASSUME IInv, NEW j \in Job
  PROVE  snap[j] \in Snapshot
<1>1. NoSnapshot \in Snapshot
  BY DEF NoSnapshot, Snapshot
<1> QED
  BY <1>1, SnapshotsAssumption DEF IInv, FlowInv

LEMMA BaseStep ==
  ASSUME IInv, NEW j \in Job, NEW u \in Uri, ApplyBase(j, u)
  PROVE  IInv'
<1> DEFINE p == snap[j].base[u]
           previous == get_by_uri(j, u)
           i == CHOOSE i \in previous : TRUE
           q == IF previous = {} THEN <<Insert(resource(u, AccountOf[j], p))>>
                ELSE IF View(j)[i].data = p THEN <<>> ELSE <<Update(i, p)>>
<1>1. p \in Payload \cup {None}
  BY SnapTyped DEF Snapshot
<1>2. Visit(j, "base", u) /\ Flush(j, u, q) /\ UNCHANGED found
  BY DEF ApplyBase
<1> HIDE DEF p, i, previous
<1>3. Statements(q) /\ NoDocument(q)
  <2>1. /\ StatementOK(Insert(resource(u, AccountOf[j], p))) /\ StatementOK(Update(i, p))
        /\ ~ AddsDocument(Insert(resource(u, AccountOf[j], p))) /\ ~ AddsDocument(Update(i, p))
    BY <1>1, NewRows
  <2> QED
    BY <2>1, OneStatement, NoStatement
<1>4. "base" \in ToSet(Passes) /\ IsFiniteSet({})
  BY PassNames, FS_EmptySet
<1> HIDE DEF q
<1> QED
  BY <1>2, <1>3, <1>4, FlushStep

LEMMA PartialStep ==
  ASSUME IInv, NEW j \in Job, NEW x \in Uri \X Payload, ApplyPartial(j, x)
  PROVE  IInv'
<1> DEFINE target == get_by_uri(j, x[1])
           previous == UNION {Documents(j, i) : i \in target}
           old == {k \in previous : View(j)[k].data # x[2]}
           q == IF previous = {} THEN SetToSeq({Insert(document(i, x[2])) : i \in target})
                ELSE SetToSeq({Update(i, x[2]) : i \in old})
<1>1. CASE Cardinality(previous) > 1
  BY <1>1, EndStep DEF ApplyPartial, Raise, Ended
<1>2. CASE ~ Cardinality(previous) > 1
  <2>1. Visit(j, "partials", x) /\ Flush(j, x, q) /\ UNCHANGED found
    BY <1>2 DEF ApplyPartial
  <2>2. /\ x[2] \in Payload /\ IsFiniteSet(target) /\ \A i \in target : i.kind = "resource"
        /\ IsFiniteSet(old)
    <3>1. target \subseteq Seen(j) /\ previous \subseteq Seen(j)
      BY SeenRows
    <3>2. old \subseteq Seen(j)
      BY <3>1
    <3> QED
      BY <3>1, <3>2, SeenRows, FS_Subset
  <2>3. Statements(SetToSeq({Insert(document(i, x[2])) : i \in target}))
    <3> DEFINE f == [i \in target |-> Insert(document(i, x[2]))]
    <3>1. IsFiniteSet({f[i] : i \in DOMAIN f})
      BY <2>2, FiniteImage
    <3>2. \A i \in target : StatementOK(Insert(document(i, x[2])))
      BY <2>2, NewRows
    <3> QED
      BY <3>1, <3>2, StatementsOfSet
  <2>4. Statements(SetToSeq({Update(i, x[2]) : i \in old}))
    <3> DEFINE f == [i \in old |-> Update(i, x[2])]
    <3>1. IsFiniteSet({f[i] : i \in DOMAIN f})
      BY <2>2, FiniteImage
    <3>2. \A i \in old : StatementOK(Update(i, x[2]))
      BY NewRows
    <3> QED
      BY <3>1, <3>2, StatementsOfSet
  <2>5. Statements(q) /\ "partials" \in ToSet(Passes) /\ IsFiniteSet({})
    BY <2>3, <2>4, PassNames, FS_EmptySet
  <2> HIDE DEF q
  <2> QED
    BY <2>1, <2>5, FlushStep
<1> QED
  BY <1>1, <1>2

LEMMA DeleteStep ==
  ASSUME IInv, NEW j \in Job, NEW i,
         DeleteDocument(j, i) \/ DeleteResource(j, i) \/ DeleteRelation(j, i)
  PROVE  IInv'
<1>1. /\ Statements(<<Delete(i)>>) /\ NoDocument(<<Delete(i)>>) /\ IsFiniteSet({})
      /\ {"partialdeletes", "deletes", "reldeletes"} \subseteq ToSet(Passes)
  BY NewRows, OneStatement, PassNames, FS_EmptySet
<1>2. CASE DeleteDocument(j, i)
  BY <1>1, <1>2, FlushStep DEF DeleteDocument
<1>3. CASE DeleteResource(j, i)
  <2> DEFINE A == {n \in DOMAIN View(j) : i \in References(View(j)[n])}
             f == [n \in A |-> Delete(n)]
             q == SetToSeq({Delete(k) : k \in A}) \o <<Delete(i)>>
  <2>1. IsFiniteSet(A)
    BY SeenRows, FS_Subset
  <2>2. IsFiniteSet({f[n] : n \in DOMAIN f})
    BY <2>1, FiniteImage
  <2>3. Statements(q) /\ NoDocument(q)
    BY <2>2, NewRows, StatementsThen
  <2>4. Visit(j, "deletes", i) /\ Flush(j, i, q) /\ UNCHANGED found
    BY <1>3 DEF DeleteResource
  <2> HIDE DEF q
  <2> QED
    BY <1>1, <2>3, <2>4, FlushStep
<1>4. CASE DeleteRelation(j, i)
  BY <1>1, <1>4, FlushStep, EndStep DEF DeleteRelation, Raise, Ended
<1> QED
  BY <1>2, <1>3, <1>4

LEMMA RelationStep ==
  ASSUME IInv, NEW j \in Job, NEW l, ApplyRelation(j, l)
  PROVE  IInv'
<1> DEFINE ends == get_by_uri(j, l[1]) \X get_by_uri(j, l[2])
           A == {d \in ends : \A k \in Relations(j) : View(j)[k].key # d}
           f == [e \in A |-> Insert(relation(e[1], e[2]))]
           q == SetToSeq({Insert(relation(e[1], e[2])) : e \in A})
           X == {k \in Relations(j) : View(j)[k].key \in ends}
<1>1. Visit(j, "relations", l) /\ Flush(j, l, q) /\ found' = [found EXCEPT ![j] = @ \cup X]
  BY DEF ApplyRelation
<1>2. IsFiniteSet(A) /\ IsFiniteSet(X)
  <2>1. IsFiniteSet(get_by_uri(j, l[1])) /\ IsFiniteSet(get_by_uri(j, l[2])) /\ IsFiniteSet(Relations(j))
    BY SeenRows, FS_Subset DEF get_by_uri, Relations
  <2>2. IsFiniteSet(ends)
    BY <2>1, FS_Product
  <2> QED
    BY <2>1, <2>2, FS_Subset
<1>3. IsFiniteSet({f[e] : e \in DOMAIN f})
  BY <1>2, FiniteImage
<1>4. Statements(q) /\ NoDocument(q) /\ "relations" \in ToSet(Passes)
  <2>1. \A e \in A : /\ StatementOK(Insert(relation(e[1], e[2])))
                      /\ ~ AddsDocument(Insert(relation(e[1], e[2])))
    BY NewRows
  <2> DEFINE B == {Insert(relation(e[1], e[2])) : e \in A}
  <2>2. IsFiniteSet(B) /\ \A s \in B : StatementOK(s) /\ ~ AddsDocument(s)
    BY <1>3, <2>1
  <2> HIDE DEF A, B
  <2>3. Statements(SetToSeq(B)) /\ NoDocument(SetToSeq(B))
    BY <2>2, StatementsOfSet
  <2> QED
    BY <2>3, PassNames DEF B
<1> HIDE DEF q, X
<1> QED
  BY <1>1, <1>2, <1>4, FlushStep

LEMMA PassStep ==
  ASSUME IInv, NEW j \in Job,
         \/ EndPass(j, "base", "partials", snap[j].docs)
         \/ EndPass(j, "partials", "partialdeletes", StaleDocuments(j))
         \/ EndPass(j, "partialdeletes", "deletes", StaleResources(j))
         \/ EndPass(j, "deletes", "relations", snap[j].links)
         \/ EndPass(j, "relations", "reldeletes", StaleRelations(j))
         \/ EndPass(j, "reldeletes", "commit", {})
  PROVE  IInv'
<1>1. /\ StaleDocuments(j) \subseteq Seen(j) /\ StaleResources(j) \subseteq Seen(j)
      /\ StaleRelations(j) \subseteq Seen(j) /\ IsFiniteSet(Seen(j))
  BY SeenRows DEF StaleDocuments, StaleResources, StaleRelations
<1>2. /\ IsFiniteSet(StaleDocuments(j)) /\ IsFiniteSet(StaleResources(j))
      /\ IsFiniteSet(StaleRelations(j))
  BY <1>1, FS_Subset
<1> QED
  BY <1>2, PassNames, EndPassStep

\* Every step of any command keeps the invariant.
LEMMA InvStep ==
  ASSUME IInv, [Next]_vars
  PROVE  IInv'
<1>1. ASSUME NEW j \in Job, Begin(j) PROVE IInv'
  BY <1>1, BeginStep
<1>2. ASSUME NEW j \in Job, Step(j) PROVE IInv'
  <2>1. CASE Execute(j)
    BY <2>1, ExecuteStep
  <2>2. ASSUME NEW u \in Uri, ApplyBase(j, u) PROVE IInv'
    BY <2>2, BaseStep
  <2>3. ASSUME NEW x \in Uri \X Payload, ApplyPartial(j, x) PROVE IInv'
    BY <2>3, PartialStep
  <2>4. ASSUME NEW i \in todo[j],
               DeleteDocument(j, i) \/ DeleteResource(j, i) \/ DeleteRelation(j, i)
        PROVE  IInv'
    BY <2>4, DeleteStep
  <2>5. ASSUME NEW l \in Uri \X Uri, ApplyRelation(j, l) PROVE IInv'
    BY <2>5, RelationStep
  <2>6. CASE Commit(j)
    BY <2>6, EndStep DEF Commit, Ended
  <2> QED
    BY <1>2, <2>1, <2>2, <2>3, <2>4, <2>5, <2>6, PassStep DEF Step
<1>3. ASSUME NEW j \in Job, Deadlock(j) PROVE IInv'
  BY <1>3, EndStep DEF Deadlock, Lost, Ended
<1>4. CASE UNCHANGED vars
  BY <1>4, SameTables DEF vars, IInv, FlowInv
<1> QED
  BY <1>1, <1>2, <1>3, <1>4 DEF Next

LEMMA InvInit ==
  ASSUME Init
  PROVE  IInv
<1>1. /\ IsFiniteSet(DOMAIN rows) /\ \A i \in DOMAIN rows : Columns(i, rows[i])
      /\ Closed(DOMAIN rows) /\ Distinct(DOMAIN rows)
  BY InitialRowsAssumption DEF Init, Constrained, Closed, Distinct
<1>2. /\ DOMAIN tx = Job
      /\ \A j \in Job : /\ tx[j] = NoTx /\ tx[j] = [ins |-> EmptyFn, upd |-> EmptyFn, del |-> {}]
                        /\ Inserted(j) = {} /\ Deleted(j) = {} /\ Touches(j) = {}
                        /\ Seen(j) = DOMAIN rows
  BY DEF Init, NoTx, EmptyFn, Inserted, Deleted, Touches, Seen
<1>3. \A j \in Job : TxTyped(j)
  BY <1>2, FS_EmptySet DEF TxTyped, EmptyFn
<1>4. TablesInv
  BY <1>1, <1>2, <1>3 DEF TablesInv, RowsTyped, ViewsSound, LocksApart
<1>5. FlowInv
  BY NoStatement, FS_EmptySet DEF FlowInv, Init, Ended
<1> QED
  BY <1>4, <1>5 DEF IInv

THEOREM InvHolds == Spec => []IInv
<1>1. Init => IInv
  BY InvInit
<1>2. IInv /\ [Next]_vars => IInv'
  BY InvStep
<1> QED
  BY <1>1, <1>2, PTL DEF Spec
---------------------------------------------------------------------------------
(***************************************************************************)
(* What the invariant says of the committed tables.                        *)
(***************************************************************************)
\* Committed rows are those of the schema; between runs a session holds no
\* locks, for any number of commands, uris and snapshots.
THEOREM TypeCorrect == Spec => []TypeOK
<1>1. IInv => TypeOK
  <2> SUFFICES ASSUME IInv PROVE TypeOK
    OBVIOUS
  <2>1. ASSUME NEW i \in DOMAIN rows PROVE rows[i] \in Row(i.kind) /\ i.key = rows[i].key
    <3>1. Columns(i, rows[i]) /\ References(i) \subseteq DOMAIN rows
      BY DEF IInv, TablesInv, RowsTyped, ViewsSound, Closed
    <3>2. i.key \in (Uri \cup DOMAIN rows) \X (DOMAIN rows \cup {None})
      <4>1. CASE i.kind = "resource"
        BY <3>1, <4>1 DEF Columns
      <4>2. CASE i.kind = "document"
        BY <3>1, <4>2 DEF Columns, References
      <4>3. CASE i.kind = "relation"
        BY <3>1, <4>3 DEF Columns, References
      <4> QED
        BY <3>1, <4>1, <4>2, <4>3 DEF Columns
    <3> QED
      BY <3>1, <3>2 DEF Columns, Row
  <2> QED
    BY <2>1 DEF TypeOK, IInv, FlowInv
<1> QED
  BY <1>1, InvHolds, PTL

\* A set of at most one element.
LEMMA AtMostOne ==
  ASSUME NEW S, \A a, b \in S : a = b
  PROVE  Cardinality(S) <= 1
<1>1. CASE S = {}
  BY <1>1, FS_EmptySet
<1>2. CASE S # {}
  <2>1. PICK a \in S : TRUE
    BY <1>2
  <2>2. S = {a}
    BY <2>1
  <2> QED
    BY <2>2, FS_Singleton
<1> QED
  BY <1>1, <1>2

\* The unique constraint and the locks it takes keep one row for each uri,
\* however many commands look for the row first and insert it then.
LEMMA OneResource ==
  ASSUME IInv
  PROVE  OneResourcePerUri
<1> SUFFICES ASSUME NEW u \in Uri PROVE Cardinality(ResourcesOf(u)) <= 1
  BY DEF OneResourcePerUri
<1>1. ASSUME NEW a \in ResourcesOf(u), NEW b \in ResourcesOf(u) PROVE a = b
  <2>1. Columns(a, rows[a]) /\ Columns(b, rows[b]) /\ Distinct(DOMAIN rows)
    BY DEF IInv, TablesInv, RowsTyped, ViewsSound, ResourcesOf
  <2>2. /\ a.kind = "resource" /\ b.kind = "resource" /\ a.key[1] = u /\ b.key[1] = u
        /\ a.key = <<u, None>> /\ b.key = <<u, None>>
    BY <2>1, IdTells DEF ResourcesOf, Columns
  <2> QED
    BY <2>1, <2>2 DEF Distinct, Clash, UniqueKinds, ResourcesOf
<1> QED
  BY <1>1, AtMostOne

THEOREM OneResourcePerUriHolds == Spec => []OneResourcePerUri
BY OneResource, InvHolds, PTL

\* Whatever one command removes while others add to it, the ends of every
\* relation and the resource of every document stay.
THEOREM NoDanglingHolds == Spec => []NoDangling
<1>1. IInv => NoDangling
  <2> SUFFICES ASSUME IInv, NEW i \in DOMAIN rows, rows[i].kind # "resource"
               PROVE  {rows[i].key[1], rows[i].key[2]} \ {None} \subseteq DOMAIN rows
    BY DEF NoDangling
  <2>1. Columns(i, rows[i]) /\ References(i) \subseteq DOMAIN rows
    BY DEF IInv, TablesInv, RowsTyped, ViewsSound, Closed
  <2>2. rows[i].kind = i.kind /\ rows[i].key = i.key
    BY <2>1, IdTells
  <2>3. CASE i.kind = "document"
    BY <2>1, <2>2, <2>3 DEF Columns, References
  <2>4. CASE i.kind = "relation"
    BY <2>1, <2>2, <2>4 DEF Columns, References
  <2> QED
    BY <2>1, <2>2, <2>3, <2>4 DEF Columns
<1> QED
  BY <1>1, InvHolds, PTL
---------------------------------------------------------------------------------
(***************************************************************************)
(* Partial documents, which no unique key protects.                        *)
(***************************************************************************)
Lists(j, u) == \E s \in Snapshots[AccountOf[j]] : \E x \in s.docs : x[1] = u

\* A document that is about to be inserted is the only one, of a resource that
\* the command has listed.
SingleInv ==
  /\ SingleIn(DOMAIN rows)
  /\ \A j \in Job :
       /\ SingleIn(Seen(j))
       /\ \A i \in Inserted(j) : i.kind = "document" => Lists(j, i.key[1].key[1])
       /\ \A s \in ToSet(stmts[j]) :
            AddsDocument(s) => /\ Len(stmts[j]) = 1
                               /\ Lists(j, s.row.key[1].key[1])
                               /\ \A i \in Seen(j) : i.kind = "document" => i.key[1] # s.row.key[1]

\* A step that writes no table, and hands no new document to the database.
LEMMA SingleKept ==
  ASSUME SingleInv, UNCHANGED <<rows, tx>>,
         \A k \in Job : stmts'[k] = stmts[k] \/ NoDocument(stmts'[k])
  PROVE  SingleInv'
<1>1. \A k \in Job : Inserted(k)' = Inserted(k) /\ Seen(k)' = Seen(k)
  BY DEF Inserted, Seen, Deleted
<1> QED
  BY <1>1 DEF SingleInv, NoDocument

LEMMA SingleEnd ==
  ASSUME IInv, SingleInv, DocumentsApart, NEW j \in Job, NEW outcome, End(j, outcome),
         rows' = View(j) \/ UNCHANGED rows
  PROVE  SingleInv'
<1>1. /\ stmts'[j] = <<>> /\ ToSet(<<>>) = {}
      /\ \A k \in Job \ {j} : stmts'[k] = stmts[k]
  BY DEF End, IInv, FlowInv, ToSet
<1>2. CASE UNCHANGED rows
  <2>1. /\ Inserted(j)' = {} /\ Seen(j)' = DOMAIN rows
        /\ \A k \in Job \ {j} : Inserted(k)' = Inserted(k) /\ Seen(k)' = Seen(k)
    BY <1>2, RollbackTables DEF End, IInv
  <2> QED
    BY <1>1, <1>2, <2>1 DEF SingleInv
<1>3. CASE rows' = View(j)
  <2>1. /\ DOMAIN rows' = Seen(j) /\ Inserted(j)' = {} /\ Seen(j)' = Seen(j)
        /\ \A k \in Job \ {j} : /\ Inserted(k)' = Inserted(k)
                                /\ Seen(k)' = (Seen(j) \ Deleted(k)) \cup Inserted(k)
    BY <1>3, CommitTables DEF End, IInv
  <2>2. ASSUME NEW k \in Job \ {j}, NEW i \in Seen(k)', i.kind = "document"
        PROVE  i \in Seen(k) \/ (i \in Inserted(j) /\ Lists(j, i.key[1].key[1]))
    BY <2>1, <2>2 DEF Seen, SingleInv
  <2>3. ASSUME NEW k \in Job \ {j}, NEW u, Lists(j, u), Lists(k, u) PROVE FALSE
    BY <2>3 DEF DocumentsApart, Lists
  <2>4. ASSUME NEW k \in Job \ {j} PROVE SingleIn(Seen(k)')
    <3>1. \A a \in Inserted(j), b \in Inserted(k) :
            a.kind = "document" /\ b.kind = "document" => a.key[1] # b.key[1]
      BY <2>3 DEF SingleInv
    <3>2. SingleIn(Seen(j)) /\ SingleIn(Seen(k))
      BY DEF SingleInv
    <3>3. Seen(k)' = (Seen(j) \ Deleted(k)) \cup Inserted(k)
      BY <2>1
    <3>4. Seen(j) \subseteq (DOMAIN rows) \cup Inserted(j) /\ Inserted(k) \subseteq Seen(k)
          /\ (DOMAIN rows) \ Deleted(k) \subseteq Seen(k)
      BY DEF Seen
    <3> QED
      BY <3>1, <3>2, <3>3, <3>4 DEF SingleIn
  <2>5. ASSUME NEW k \in Job \ {j}, NEW s \in ToSet(stmts[k]), AddsDocument(s),
               NEW i \in Seen(k)', i.kind = "document"
        PROVE  i.key[1] # s.row.key[1]
    BY <2>2, <2>3, <2>5 DEF SingleInv
  <2> QED
    BY <1>1, <2>1, <2>4, <2>5 DEF SingleInv
<1> QED
  BY <1>2, <1>3

LEMMA SingleExecute ==
  ASSUME IInv, SingleInv, DocumentsApart, NEW j \in Job, Execute(j)
  PROVE  SingleInv'
<1>1. CASE Refused(j)
  BY <1>1, SingleEnd DEF Execute, Lost
<1>2. CASE ~ Refused(j)
  <2> DEFINE q == stmts[j]
             s == Head(q)
  <2>1. /\ Granted(j) /\ tx' = [tx EXCEPT ![j] = Write(@, Head(stmts[j]))]
        /\ stmts' = [stmts EXCEPT ![j] = Tail(@)] /\ UNCHANGED rows
    BY <1>2 DEF Execute, Granted
  <2>2. /\ stmts'[j] = Tail(q) /\ \A k \in Job \ {j} : stmts'[k] = stmts[k]
    BY <2>1 DEF IInv, FlowInv
  <2>3. Statements(q) /\ q # <<>> /\ StatementOK(s) /\ s \in ToSet(q)
    BY <2>1, RestOfStatements DEF IInv, FlowInv, Granted
  <2>4. NoDocument(Tail(q))
    <3>1. CASE NoDocument(q)
      BY <2>3, <3>1, RestOfStatements
    <3>2. CASE ~ NoDocument(q)
      <4>1. Len(q) = 1
        BY <3>2 DEF NoDocument, SingleInv
      <4>2. Tail(q) \in Seq(ToSet(q)) /\ Len(Tail(q)) = 0
        <5>1. q \in Seq(ToSet(q)) /\ q # <<>>
          BY <2>3 DEF Statements
        <5>2. Tail(q) \in Seq(ToSet(q)) /\ Len(Tail(q)) = Len(q) - 1
          BY <5>1, HeadTailProperties
        <5> QED
          BY <4>1, <5>2
      <4>3. DOMAIN Tail(q) = {}
        <5>1. DOMAIN Tail(q) = 1 .. 0
          BY <4>2, LenProperties
        <5> QED
          BY <5>1
      <4> QED
        BY <4>3 DEF NoDocument, ToSet
    <3> QED
      BY <3>1, <3>2
  <2>5. CASE s.op = "insert"
    <3>1. PICK n : /\ n.kind = s.row.kind /\ n.key = s.row.key
                   /\ Inserted(j)' = Inserted(j) \cup {n} /\ Seen(j)' = Seen(j) \cup {n}
      BY <2>1, <2>5, InsertTables
    <3>2. \A k \in Job \ {j} : Inserted(k)' = Inserted(k) /\ Seen(k)' = Seen(k)
      BY <2>1, <2>5, InsertTables
    <3>3. n.kind = "document" => /\ Lists(j, n.key[1].key[1])
                                 /\ \A i \in Seen(j) : i.kind = "document" => i.key[1] # n.key[1]
      BY <2>3, <2>5, <3>1 DEF SingleInv, AddsDocument
    <3>4. SingleIn(Seen(j)')
      BY <3>1, <3>3 DEF SingleIn, SingleInv
    <3> HIDE DEF q, s
    <3>5. \A i \in Inserted(j)' : i.kind = "document" => Lists(j, i.key[1].key[1])
      BY <3>1, <3>3 DEF SingleInv
    <3>6. \A t \in ToSet(stmts'[j]) : ~ AddsDocument(t)
      BY <2>2, <2>4 DEF NoDocument
    <3> QED
      BY <2>1, <2>2, <3>2, <3>4, <3>5, <3>6 DEF SingleInv
  <2>6. CASE s.op # "insert"
    <3>1. /\ Inserted(j)' \subseteq Inserted(j) /\ Seen(j)' \subseteq Seen(j)
          /\ \A k \in Job \ {j} : Inserted(k)' = Inserted(k) /\ Seen(k)' = Seen(k)
      BY <2>1, <2>3, <2>6, UpdateTables, DeleteTables DEF StatementOK
    <3>2. SingleIn(Seen(j)')
      BY <3>1 DEF SingleIn, SingleInv
    <3> HIDE DEF q, s
    <3>3. \A t \in ToSet(stmts'[j]) : ~ AddsDocument(t)
      BY <2>2, <2>4 DEF NoDocument
    <3> QED
      BY <2>1, <2>2, <3>1, <3>2, <3>3 DEF SingleInv
  <2> QED
    BY <2>5, <2>6
<1> QED
  BY <1>1, <1>2

\* apply_partial hands over one document at most, and only where it saw none.
LEMMA SinglePartial ==
  ASSUME IInv, SingleInv, DocumentsApart, NEW j \in Job, NEW x \in Uri \X Payload,
         ApplyPartial(j, x)
  PROVE  SingleInv'
<1> DEFINE target == get_by_uri(j, x[1])
           previous == UNION {Documents(j, i) : i \in target}
           old == {k \in previous : View(j)[k].data # x[2]}
           new == {Insert(document(i, x[2])) : i \in target}
<1>1. CASE Cardinality(previous) > 1
  BY <1>1, SingleEnd DEF ApplyPartial, Raise
<1>2. CASE ~ Cardinality(previous) > 1 /\ previous # {}
  <2> DEFINE f == [i \in old |-> Update(i, x[2])]
  <2>1. IsFiniteSet(old)
    BY SeenRows, FS_Subset
  <2>2. IsFiniteSet({f[i] : i \in DOMAIN f}) /\ x[2] \in Payload
    BY <2>1, FiniteImage
  <2>3. NoDocument(SetToSeq({Update(i, x[2]) : i \in old}))
    BY <2>2, NewRows, StatementsOfSet
  <2>4. Flush(j, x, SetToSeq({Update(i, x[2]) : i \in old}))
    BY <1>2 DEF ApplyPartial
  <2>5. \A k \in Job : stmts'[k] = stmts[k] \/ NoDocument(stmts'[k])
    BY <2>3, <2>4 DEF Flush, IInv, FlowInv
  <2> QED
    BY <2>4, <2>5, SingleKept DEF Flush
<1>3. CASE ~ Cardinality(previous) > 1 /\ previous = {}
  <2>1. Flush(j, x, SetToSeq(new)) /\ Visit(j, "partials", x)
    BY <1>3 DEF ApplyPartial
  <2>2. /\ stmts'[j] = SetToSeq(new) /\ UNCHANGED <<rows, tx>>
        /\ \A k \in Job \ {j} : stmts'[k] = stmts[k]
    BY <2>1 DEF Flush, IInv, FlowInv
  <2>3. \A k \in Job : Inserted(k)' = Inserted(k) /\ Seen(k)' = Seen(k)
    BY <2>2 DEF Inserted, Seen, Deleted
  <2>4. \A i \in target : i \in Seen(j) /\ i.kind = "resource" /\ i.key = <<x[1], None>>
    <3>1. \A i \in target : i \in Seen(j) /\ i.kind = "resource" /\ i.key[1] = x[1]
                            /\ Columns(i, View(j)[i])
      BY SeenRows
    <3> QED
      BY <3>1 DEF Columns
  <2>5. \A i, k \in target : i = k
    BY <2>4 DEF IInv, TablesInv, ViewsSound, Distinct, Clash, UniqueKinds
  <2>6. IsFiniteSet(new)
    <3> DEFINE f == [i \in target |-> Insert(document(i, x[2]))]
    <3>1. IsFiniteSet(target)
      BY <2>4, SeenRows, FS_Subset
    <3>2. IsFiniteSet({f[i] : i \in DOMAIN f})
      BY <3>1, FiniteImage
    <3> QED
      BY <3>2
  <2>7. SetToSeq(new) \in Seq(new) /\ Len(SetToSeq(new)) <= 1 /\ Len(SetToSeq(new)) \in Nat
    <3>1. \A s, t \in new : s = t
      BY <2>5
    <3> QED
      BY <2>6, <3>1, AtMostOne, SequenceOfSet
  <2>8. \A s \in ToSet(SetToSeq(new)) : s \in new /\ Len(SetToSeq(new)) = 1
    <3>1. /\ DOMAIN SetToSeq(new) = 1 .. Len(SetToSeq(new))
          /\ SetToSeq(new) \in [1 .. Len(SetToSeq(new)) -> new]
      BY <2>7, LenProperties
    <3> DEFINE q == SetToSeq(new)
    <3>2. q \in [1 .. Len(q) -> new] /\ DOMAIN q = 1 .. Len(q) /\ Len(q) \in {0, 1}
      <4>1. \A n \in Nat : n <= 1 => n \in {0, 1}
        OBVIOUS
      <4> HIDE DEF new
      <4> QED
        BY <2>7, <3>1, <4>1
    <3> HIDE DEF q, new
    <3>3. \A s \in ToSet(q) : s \in new /\ Len(q) = 1
      <4> SUFFICES ASSUME NEW n \in DOMAIN q PROVE q[n] \in new /\ Len(q) = 1
        BY DEF ToSet
      <4> QED
        BY <3>2
    <3> QED
      BY <3>3 DEF q
  <2>9. Lists(j, x[1])
    <3>1. x \in snap[j].docs /\ snap[j] \in Snapshots[AccountOf[j]] \cup {NoSnapshot}
      BY <2>1 DEF Visit, IInv, FlowInv
    <3>2. NoSnapshot.docs = {}
      BY DEF NoSnapshot
    <3> QED
      BY <3>1, <3>2 DEF Lists
  <2>10. ASSUME NEW s \in ToSet(stmts'[j])
         PROVE  /\ Len(stmts'[j]) = 1
                /\ Lists(j, s.row.key[1].key[1])
                /\ \A k \in Seen(j) : k.kind = "document" => k.key[1] # s.row.key[1]
    <3>1. PICK i \in target : s = Insert(document(i, x[2]))
      BY <2>2, <2>8, <2>10
    <3>2. s.row.key[1] = i
      BY <3>1 DEF Insert, document
    <3>3. Documents(j, i) = {}
      BY <1>3
    <3>4. \A k \in Seen(j) : k.kind = "document" => k.key[1] # i
      BY <3>3, SeenRows DEF Documents
    <3> QED
      BY <2>2, <2>4, <2>8, <2>9, <2>10, <3>2, <3>4
  <2> HIDE DEF new, previous, target
  <2> QED
    BY <2>2, <2>3, <2>10 DEF SingleInv
<1> QED
  BY <1>1, <1>2, <1>3

LEMMA SingleStep ==
  ASSUME IInv, IInv', SingleInv, DocumentsApart, [Next]_vars
  PROVE  SingleInv'
<1>1. ASSUME NEW j \in Job, Begin(j) PROVE SingleInv'
  BY <1>1, SingleKept DEF Begin
<1>2. ASSUME NEW j \in Job, Step(j) PROVE SingleInv'
  <2>1. CASE Execute(j)
    BY <2>1, SingleExecute
  <2>2. CASE Commit(j)
    BY <2>2, SingleEnd DEF Commit
  <2>3. ASSUME NEW x \in Uri \X Payload, ApplyPartial(j, x) PROVE SingleInv'
    BY <2>3, SinglePartial
  <2>4. ASSUME NEW pass, NEW item, NEW q, pass # "partials", Visit(j, pass, item), Flush(j, item, q)
        PROVE  SingleInv'
    <3>1. phase'[j] # "partials" /\ \A k \in Job \ {j} : stmts'[k] = stmts[k]
      BY <2>4 DEF Visit, Flush, IInv, FlowInv
    <3>2. NoDocument(stmts'[j])
      BY <3>1 DEF IInv, FlowInv
    <3> QED
      BY <2>4, <3>1, <3>2, SingleKept DEF Flush
  <2>5. ASSUME NEW u \in Uri, ApplyBase(j, u) PROVE SingleInv'
    BY <2>4, <2>5 DEF ApplyBase
  <2>6. ASSUME NEW i \in todo[j], DeleteDocument(j, i) \/ DeleteResource(j, i) PROVE SingleInv'
    BY <2>4, <2>6 DEF DeleteDocument, DeleteResource
  <2>7. ASSUME NEW i \in todo[j], DeleteRelation(j, i) PROVE SingleInv'
    BY <2>4, <2>7, SingleEnd DEF DeleteRelation, Raise
  <2>8. ASSUME NEW l \in Uri \X Uri, ApplyRelation(j, l) PROVE SingleInv'
    BY <2>4, <2>8 DEF ApplyRelation
  <2>9. ASSUME NEW pass, NEW next, NEW items, EndPass(j, pass, next, items) PROVE SingleInv'
    BY <2>9, SingleKept DEF EndPass
  <2> QED
    BY <1>2, <2>1, <2>2, <2>3, <2>5, <2>6, <2>7, <2>8, <2>9 DEF Step
<1>3. ASSUME NEW j \in Job, Deadlock(j) PROVE SingleInv'
  BY <1>3, SingleEnd DEF Deadlock, Lost
<1>4. CASE UNCHANGED vars
  BY <1>4, SingleKept DEF vars
<1> QED
  BY <1>1, <1>2, <1>3, <1>4 DEF Next

LEMMA SingleInit ==
  ASSUME Init, DocumentsApart
  PROVE  SingleInv
<1>1. \A j \in Job : /\ Inserted(j) = {} /\ Seen(j) = DOMAIN rows
                     /\ stmts[j] = <<>> /\ NoDocument(<<>>)
  BY NoStatement DEF Init, NoTx, EmptyFn, Inserted, Deleted, Seen
<1>2. SingleIn(DOMAIN rows)
  BY DEF Init, DocumentsApart
<1> QED
  BY <1>1, <1>2 DEF SingleInv, NoDocument

\* As long as commands that overlap list the documents of different resources,
\* no resource gets a second document of its source, although no unique key
\* forbids it: apply_partial looks for it in a view that only it can change.
THEOREM DocumentsStaySingleHolds ==
  ASSUME DocumentsApart
  PROVE  Spec => []DocumentsStaySingle
<1>1. Init => SingleInv
  BY SingleInit
<1>2. IInv /\ IInv' /\ SingleInv /\ [Next]_vars => SingleInv'
  BY SingleStep
<1>3. IInv /\ SingleInv => DocumentsStaySingle
  <2> SUFFICES ASSUME IInv, SingleInv, NEW u \in Uri
               PROVE  Cardinality(DocumentsOf(u)) <= 1
    BY DEF DocumentsStaySingle
  <2>1. \A i \in DOMAIN rows : Columns(i, rows[i]) /\ rows[i].kind = i.kind /\ rows[i].key = i.key
    BY IdTells DEF IInv, TablesInv, RowsTyped
  <2>2. \A i, k \in ResourcesOf(u) : i = k
    <3>1. \A i \in ResourcesOf(u) : i \in DOMAIN rows /\ i.kind = "resource" /\ i.key = <<u, None>>
      BY <2>1 DEF ResourcesOf, Columns
    <3> QED
      BY <3>1 DEF IInv, TablesInv, ViewsSound, Distinct, Clash, UniqueKinds
  <2>3. \A a, b \in DocumentsOf(u) : a = b
    BY <2>1, <2>2 DEF DocumentsOf, SingleInv, SingleIn
  <2> QED
    BY <2>3, AtMostOne
<1> QED
  BY <1>1, <1>2, <1>3, InvHolds, PTL DEF Spec
=======================================================================================
